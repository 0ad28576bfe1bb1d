---------------------------- MODULE StoresProofs ----------------------------
(***************************************************************************)
(* Proofs about what is kept in the database and beside it.                *)
(* StreamPubSub, for any set of subscriptions and channels, any page size  *)
(* and any number of rows: only overtaken rows are lost, and every         *)
(* subscription implements OrderedFeed.                                    *)
(* ObjectStorage, for any keys and contents, any number of calls at a      *)
(* time, of writes and of faults: a key at rest holds its last write, a    *)
(* read that met no write answers it, and blobs stay.                      *)
(***************************************************************************)
EXTENDS StreamPubSub, ObjectStorage, FiniteSetTheorems, TLAPS

----------------------------------------------------------------------------
(* Rows of a channel                                                       *)

\* What the loop knows about the rows behind it.  A row it has passed was
\* handed out by someone; a row below one it has just read was read with it.
PassedRowsWereHanded(s) ==
  \A i \in Ids :
    (row[i].state = "new" /\ Covers(s, i) /\ i \notin overtaken) =>
      /\ i =< sub[s].last => i \in handed
      /\ \A j \in sub[s].batch : i =< j => i \in sub[s].batch \cup handed

BatchIsAhead(s) ==
  \A i \in sub[s].batch : Visible(i) /\ i > sub[s].last

FeedInv ==
  /\ \A s \in Subscriptions :
       BatchIsAhead(s) /\ (sub[s].pc # "off" => PassedRowsWereHanded(s))
  /\ OnlyOvertakenRowsAreLost

LEMMA IdsAreFinite == IsFiniteSet(Ids)
BY FS_Interval, MaxIdAssumption DEF Ids

\* A loop record keeps its type when fields are replaced within theirs.
LEMMA LoopTyped ==
  ASSUME TypeOK, NEW s \in Subscriptions
  PROVE  /\ sub[s] = [pc |-> sub[s].pc, running |-> sub[s].running,
                      last |-> sub[s].last, batch |-> sub[s].batch]
         /\ sub[s].pc \in {"off", "query", "polled", "mark", "sleep"}
         /\ sub[s].running \in BOOLEAN
         /\ sub[s].last \in 0 .. MaxId
         /\ sub[s].batch \in SUBSET Ids
BY DEF TypeOK, Loop

LEMMA TypeStep ==
  ASSUME TypeOK, [Next]_vars
  PROVE  TypeOK'
<1> USE DEF TypeOK
<1>0. Off \in Loop /\ Off.batch = {} /\ Off.pc = "off"
  BY MaxIdAssumption DEF Off, Loop
<1>1. CASE InsertBegin
  <2>1. nextId \in Ids /\ nextId' \in 1 .. MaxId + 1
    BY <1>1, MaxIdAssumption DEF InsertBegin, Ids
  <2>2. [row[nextId] EXCEPT !.state = "inserting"] \in Row
    BY <2>1 DEF Row
  <2>3. \A i \in Ids : row'[i].state = "unused" <=> i >= nextId'
    <3> SUFFICES ASSUME NEW i \in Ids
                 PROVE  row'[i].state = "unused" <=> i >= nextId'
      OBVIOUS
    <3>1. CASE i = nextId
      <4>1. row'[i] = [row[i] EXCEPT !.state = "inserting"] /\ row[i] \in Row
        BY <1>1, <3>1 DEF InsertBegin
      <4> QED BY <1>1, <3>1, <4>1 DEF InsertBegin, Ids, Row
    <3>2. CASE i # nextId
      BY <1>1, <3>2, MaxIdAssumption DEF InsertBegin, Ids
    <3> QED BY <3>1, <3>2
  <2> QED BY <1>1, <2>1, <2>2, <2>3 DEF InsertBegin
<1>2. ASSUME NEW i \in Ids, InsertCommit(i) \/ InsertAbort(i)
      PROVE  TypeOK'
  <2>1. PICK st \in {"new", "aborted"} :
          row' = [row EXCEPT ![i].state = st] /\ row[i].state = "inserting"
    BY <1>2 DEF InsertCommit, InsertAbort
  <2>2. [row[i] EXCEPT !.state = st] \in Row
          /\ [row[i] EXCEPT !.state = st].state # "unused"
    BY DEF Row
  <2>3. row' \in [Ids -> Row]
          /\ \A k \in Ids : row'[k].state = "unused" <=> k >= nextId
    BY <2>1, <2>2
  <2> QED BY <1>2, <2>3 DEF InsertCommit, InsertAbort
<1>3. ASSUME NEW s \in Subscriptions, Subscribe(s)
      PROVE  TypeOK'
  <2>1. [pc |-> "query", running |-> TRUE, last |-> 0, batch |-> {}] \in Loop
    BY MaxIdAssumption DEF Loop
  <2> QED BY <1>3, <2>1 DEF Subscribe
<1>4. ASSUME NEW s \in Subscriptions, Poll(s)
      PROVE  TypeOK'
  <2>1. FirstRows(s) \in SUBSET Ids
    BY DEF FirstRows, Candidates
  <2> DEFINE pc == AfterPoll(FirstRows(s))
             page == FirstRows(s)
  <2>2. sub' = [sub EXCEPT ![s].pc = pc, ![s].batch = page]
          /\ pc \in {"sleep", "polled"} /\ page \in SUBSET Ids
          /\ (page # {} <=> pc = "polled")
    BY <1>4, <2>1 DEF Poll, AfterPoll
  <2> HIDE DEF pc, page
  <2>3. sub'[s] \in Loop
          /\ (sub'[s].batch # {} <=> sub'[s].pc = "polled")
    BY <2>2, LoopTyped, ZenonT(60) DEF Loop
  <2>4. sub' \in [Subscriptions -> Loop]
          /\ \A t \in Subscriptions : t # s => sub'[t] = sub[t]
    BY <2>2, <2>3
  <2> QED BY <1>4, <2>3, <2>4 DEF Poll
<1>5. ASSUME NEW s \in Subscriptions, HandOut(s)
      PROVE  TypeOK'
  <2>1. PICK i \in sub[s].batch :
          /\ handed' = handed \cup {j \in sub[s].batch : j =< i}
          /\ \E pc \in {"mark", "sleep"} :
               sub' = [sub EXCEPT ![s].pc = pc, ![s].last = i,
                                  ![s].batch = {}]
    BY <1>5 DEF HandOut
  <2>2. i \in 0 .. MaxId
    BY LoopTyped, MaxIdAssumption DEF Ids
  <2>3. sub'[s] \in Loop /\ sub'[s].batch = {} /\ sub'[s].pc # "polled"
    BY <2>1, <2>2, LoopTyped DEF Loop
  <2>4. handed' \in SUBSET Ids
    BY <2>1, LoopTyped
  <2>5. \A t \in Subscriptions : t # s => sub'[t] = sub[t]
    BY <2>1
  <2>6. sub' \in [Subscriptions -> Loop]
    BY <2>1, <2>3, <2>5
  <2> QED BY <1>5, <2>3, <2>4, <2>5, <2>6 DEF HandOut
<1>6. ASSUME NEW s \in Subscriptions, Mark(s)
      PROVE  TypeOK'
  <2>1. \A i \in Ids : [row[i] EXCEPT !.state = "processed"] \in Row
    BY DEF Row
  <2>2. row' \in [Ids -> Row]
    BY <1>6, <2>1 DEF Mark
  <2>3. sub'[s] \in Loop /\ sub'[s].batch = {} /\ sub'[s].pc = "sleep"
    BY <1>6, LoopTyped DEF Mark, Loop
  <2>4. \A i \in Ids : row'[i].state = "unused" <=> row[i].state = "unused"
    <3> SUFFICES ASSUME NEW i \in Ids
                 PROVE  row'[i].state = "unused" <=> row[i].state = "unused"
      OBVIOUS
    <3>1. row[i] \in Row
      OBVIOUS
    <3> QED BY <1>6, <3>1 DEF Mark, Marked, Row
  <2>5. nextId' = nextId /\ handed' = handed /\ overtaken' = overtaken
          /\ sub' \in [Subscriptions -> Loop]
    BY <1>6, <2>3 DEF Mark
  <2> QED BY <1>6, <2>2, <2>3, <2>4, <2>5 DEF Mark
<1>7. ASSUME NEW s \in Subscriptions, QueryFails(s)
      PROVE  TypeOK'
  <2>1. sub'[s] \in Loop /\ sub'[s].batch = {} /\ sub'[s].pc = "sleep"
    BY <1>7, LoopTyped DEF QueryFails, Loop
  <2> QED BY <1>7, <2>1 DEF QueryFails
<1>8. ASSUME NEW s \in Subscriptions, Wake(s)
      PROVE  TypeOK'
  <2>1. sub'[s] \in Loop /\ sub'[s].batch = {} /\ sub'[s].pc # "polled"
    BY <1>8, <1>0, LoopTyped DEF Wake, Loop
  <2> QED BY <1>8, <2>1 DEF Wake
<1>9. ASSUME NEW s \in Subscriptions, Unsubscribe(s)
      PROVE  TypeOK'
  <2>1. sub'[s] \in Loop /\ sub'[s].batch = sub[s].batch
          /\ sub'[s].pc = sub[s].pc
    BY <1>9, LoopTyped, ZenonT(60) DEF Unsubscribe, Loop
  <2> QED BY <1>9, <2>1 DEF Unsubscribe
<1>10. ASSUME NEW s \in Subscriptions, Crash(s)
       PROVE  TypeOK'
  BY <1>0, <1>10 DEF Crash
<1>11. CASE UNCHANGED vars
  BY <1>11 DEF vars
<1> QED
  BY <1>1, <1>2, <1>3, <1>4, <1>5, <1>6, <1>7, <1>8, <1>9, <1>10, <1>11
     DEF Next, PublishStep, LoopStep

\* Ids, loops and rows stay well formed; a loop holds rows exactly between
\* reading them and handing them out.
THEOREM TypeCorrect == Spec => []TypeOK
<1>1. Init => TypeOK
  BY MaxIdAssumption DEF Init, TypeOK, Row, Loop, Off, Ids
<1>2. TypeOK /\ [Next]_vars => TypeOK'
  BY TypeStep
<1> QED BY <1>1, <1>2, PTL DEF Spec
-----------------------------------------------------------------------------
(***************************************************************************)
(* No step moves a row to another channel or hides a visible one.          *)
(***************************************************************************)
LEMMA RowsKeepTheirChannel ==
  ASSUME TypeOK, [Next]_vars, NEW s \in Subscriptions, NEW i \in Ids
  PROVE  /\ Covers(s, i)' <=> Covers(s, i)
         /\ Visible(i) => Visible(i)'
<1> USE DEF TypeOK
<1>1. CASE InsertBegin
  <2>1. CASE i = nextId
    <3>1. row[i].state = "unused" /\ row[i] \in Row
      BY <2>1, MaxIdAssumption DEF Ids
    <3>2. row'[i] = [row[i] EXCEPT !.state = "inserting"]
      BY <1>1, <2>1 DEF InsertBegin
    <3> QED BY <3>1, <3>2 DEF Row, Covers, Visible
  <2>2. CASE i # nextId
    BY <1>1, <2>2 DEF InsertBegin, Covers, Visible
  <2> QED BY <2>1, <2>2
<1>2. ASSUME NEW k \in Ids, InsertCommit(k) \/ InsertAbort(k)
      PROVE  row'[i].channel = row[i].channel /\ (Visible(i) => Visible(i)')
  <2>1. CASE i = k
    <3>1. row[i].state = "inserting" /\ row[i] \in Row
      BY <1>2, <2>1 DEF InsertCommit, InsertAbort
    <3>2. \E st \in {"new", "aborted"} : row'[i] = [row[i] EXCEPT !.state = st]
      BY <1>2, <2>1 DEF InsertCommit, InsertAbort
    <3> QED BY <3>1, <3>2 DEF Row, Visible
  <2>2. CASE i # k
    BY <1>2, <2>2 DEF InsertCommit, InsertAbort, Visible
  <2> QED BY <2>1, <2>2
<1>3. ASSUME NEW t \in Subscriptions, Mark(t)
      PROVE  row'[i].channel = row[i].channel /\ (Visible(i) => Visible(i)')
  <2>1. row[i] \in Row
    OBVIOUS
  <2> QED BY <1>3, <2>1 DEF Mark, Marked, Row, Visible
<1>4. CASE UNCHANGED row
  BY <1>4 DEF Covers, Visible
<1>5. ASSUME NEW t \in Subscriptions,
             LoopStep(t) \/ Subscribe(t) \/ Unsubscribe(t) \/ Crash(t)
      PROVE  Mark(t) \/ UNCHANGED row
  BY <1>5 DEF LoopStep, Poll, HandOut, QueryFails, Wake, Subscribe,
              Unsubscribe, Crash
<1>6. PublishStep => InsertBegin
                       \/ \E k \in Ids : InsertCommit(k) \/ InsertAbort(k)
  BY DEF PublishStep
<1>7. CASE \E t \in Subscriptions : Mark(t)
  BY <1>3, <1>7 DEF Covers
<1>8. CASE \E k \in Ids : InsertCommit(k) \/ InsertAbort(k)
  BY <1>2, <1>8 DEF Covers
<1> QED
  BY <1>1, <1>4, <1>5, <1>6, <1>7, <1>8 DEF Next, vars

\* The page read by a poll has no gaps: a candidate below one of its rows is
\* itself on the page.
LEMMA FirstRowsHasNoGaps ==
  ASSUME TypeOK, NEW s \in Subscriptions,
         NEW j \in FirstRows(s), NEW i \in Candidates(s), i =< j
  PROVE  i \in FirstRows(s)
<1> DEFINE Below(k) == {c \in Candidates(s) : c < k}
<1>1. Candidates(s) \in SUBSET Ids /\ j \in Ids /\ i \in Ids
  BY DEF FirstRows, Candidates
<1>2. Below(j) \in SUBSET Ids /\ Below(i) \in SUBSET Below(j)
  BY <1>1 DEF Ids
<1>3. IsFiniteSet(Below(j)) /\ IsFiniteSet(Below(i))
        /\ Cardinality(Below(i)) =< Cardinality(Below(j))
  BY <1>2, IdsAreFinite, FS_Subset
<1>4. Cardinality(Below(i)) \in Nat /\ Cardinality(Below(j)) \in Nat
  BY <1>3, FS_CardinalityType
<1>5. Cardinality(Below(j)) < Limit
  BY DEF FirstRows
<1>6. Cardinality(Below(i)) < Limit
  BY <1>3, <1>4, <1>5, LimitAssumption
<1> QED BY <1>6 DEF FirstRows

(***************************************************************************)
(* The invariant.                                                          *)
(***************************************************************************)
\* A loop that keeps its place while no row becomes readable behind it.
LEMMA PlaceKept ==
  ASSUME TypeOK, [Next]_vars, NEW s \in Subscriptions,
         PassedRowsWereHanded(s), BatchIsAhead(s),
         sub'[s].last = sub[s].last, sub'[s].batch = sub[s].batch,
         handed \subseteq handed', overtaken \subseteq overtaken',
         \A i \in Ids : (row'[i].state = "new" /\ Covers(s, i)
                           /\ i \notin overtaken') => row[i].state = "new"
  PROVE  PassedRowsWereHanded(s)' /\ BatchIsAhead(s)'
<1>1. \A i \in Ids : (Covers(s, i)' <=> Covers(s, i))
                        /\ (Visible(i) => Visible(i)')
  BY RowsKeepTheirChannel
<1>2. sub[s].batch \in SUBSET Ids
  BY LoopTyped
<1>3. BatchIsAhead(s)'
  BY <1>1, <1>2 DEF BatchIsAhead
<1>4. PassedRowsWereHanded(s)'
  BY <1>1 DEF PassedRowsWereHanded
<1> QED BY <1>3, <1>4

\* A loop that holds no rows and starts from the beginning, or is off.
LEMMA FreshLoop ==
  ASSUME TypeOK', NEW s \in Subscriptions,
         sub'[s].last = 0, sub'[s].batch = {}
  PROVE  PassedRowsWereHanded(s)' /\ BatchIsAhead(s)'
BY DEF PassedRowsWereHanded, BatchIsAhead, Ids

LEMMA LoopKnowledgeStep ==
  ASSUME TypeOK, FeedInv, [Next]_vars, NEW s \in Subscriptions
  PROVE  BatchIsAhead(s)' /\ (sub'[s].pc # "off" => PassedRowsWereHanded(s)')
<1> DEFINE Goal == BatchIsAhead(s)'
                     /\ (sub'[s].pc # "off" => PassedRowsWereHanded(s)')
<1>t. TypeOK'
  BY TypeStep
<1>f. BatchIsAhead(s) /\ (sub[s].pc # "off" => PassedRowsWereHanded(s))
  BY DEF FeedInv
<1>c. \A i \in Ids : (Covers(s, i)' <=> Covers(s, i))
                        /\ (Visible(i) => Visible(i)')
  BY RowsKeepTheirChannel
<1>b. sub[s].batch \in SUBSET Ids
  BY LoopTyped
<1>off. ASSUME sub[s].pc = "off", sub'[s] = sub[s]
        PROVE  Goal
  BY <1>off, <1>f, <1>c, <1>b DEF BatchIsAhead
<1>keep. ASSUME sub'[s].last = sub[s].last, sub'[s].batch = sub[s].batch,
                sub[s].pc # "off",
                handed \subseteq handed', overtaken \subseteq overtaken',
                \A i \in Ids : (row'[i].state = "new" /\ Covers(s, i)
                                  /\ i \notin overtaken')
                                => row[i].state = "new"
         PROVE  Goal
  BY <1>keep, <1>f, PlaceKept
<1>1. CASE InsertBegin
  <2>1. \A i \in Ids : row'[i].state = "new" => row[i].state = "new"
    <3> SUFFICES ASSUME NEW i \in Ids, row'[i].state = "new"
                 PROVE  row[i].state = "new"
      OBVIOUS
    <3>1. row[i] \in Row
      BY DEF TypeOK
    <3> QED BY <1>1, <3>1 DEF InsertBegin, TypeOK, Row
  <2>2. sub' = sub /\ handed' = handed /\ overtaken' = overtaken
    BY <1>1 DEF InsertBegin
  <2> QED BY <2>1, <2>2, <1>off, <1>keep
<1>2. ASSUME NEW k \in Ids, InsertCommit(k)
      PROVE  Goal
  <2>1. sub' = sub /\ handed' = handed /\ overtaken \subseteq overtaken'
    BY <1>2 DEF InsertCommit
  <2>2. \A i \in Ids : i # k => row'[i] = row[i]
    BY <1>2 DEF InsertCommit, TypeOK
  <2>3. CASE ~Covers(s, k) \/ k \in overtaken'
    <3>1. \A i \in Ids : (row'[i].state = "new" /\ Covers(s, i)
                             /\ i \notin overtaken') => row[i].state = "new"
      BY <2>2, <2>3
    <3> QED BY <2>1, <3>1, <1>off, <1>keep
  <2>4. CASE Covers(s, k) /\ k \notin overtaken' /\ sub[s].pc # "off"
    <3>1. \A j \in sub[s].batch \cup {sub[s].last} : ~(j >= k)
      BY <1>2, <2>4 DEF InsertCommit, IsBehindAReader
    <3>2. PassedRowsWereHanded(s)'
      <4> SUFFICES ASSUME NEW i \in Ids, row'[i].state = "new",
                          Covers(s, i), i \notin overtaken'
                   PROVE  /\ i =< sub[s].last => i \in handed
                          /\ \A j \in sub[s].batch :
                               i =< j => i \in sub[s].batch \cup handed
        BY <2>1, <1>c DEF PassedRowsWereHanded
      <4>1. CASE i = k
        BY <3>1, <4>1, <1>b, LoopTyped DEF Ids
      <4>2. CASE i # k
        BY <2>1, <2>2, <2>4, <4>2, <1>f DEF PassedRowsWereHanded
      <4> QED BY <4>1, <4>2
    <3>3. BatchIsAhead(s)'
      BY <2>1, <1>b, <1>c, <1>f DEF BatchIsAhead
    <3> QED BY <3>2, <3>3
  <2>5. CASE sub[s].pc = "off"
    BY <2>1, <2>5, <1>off
  <2> QED BY <2>3, <2>4, <2>5
<1>3. ASSUME NEW k \in Ids, InsertAbort(k)
      PROVE  Goal
  <2>1. sub' = sub /\ handed' = handed /\ overtaken' = overtaken
    BY <1>3 DEF InsertAbort
  <2>2. \A i \in Ids : row'[i].state = "new" => row[i].state = "new"
    <3> SUFFICES ASSUME NEW i \in Ids, row'[i].state = "new"
                 PROVE  row[i].state = "new"
      OBVIOUS
    <3>1. row[i] \in Row
      BY DEF TypeOK
    <3> QED BY <1>3, <3>1 DEF InsertAbort, TypeOK, Row
  <2> QED BY <2>1, <2>2, <1>off, <1>keep
<1>4. ASSUME NEW t \in Subscriptions,
             LoopStep(t) \/ Subscribe(t) \/ Unsubscribe(t) \/ Crash(t),
             t # s
      PROVE  Goal
  <2>1. sub'[s] = sub[s] /\ handed \subseteq handed' /\ overtaken' = overtaken
    BY <1>4 DEF LoopStep, Poll, HandOut, Mark, QueryFails, Wake, Subscribe,
                Unsubscribe, Crash, TypeOK
  <2>2. \A i \in Ids : row'[i].state = "new" => row[i].state = "new"
    <3> SUFFICES ASSUME NEW i \in Ids, row'[i].state = "new"
                 PROVE  row[i].state = "new"
      OBVIOUS
    <3>1. CASE row' = row
      BY <3>1
    <3>2. CASE Mark(t)
      BY <3>2 DEF Mark, Marked
    <3> QED BY <1>4, <3>1, <3>2
            DEF LoopStep, Poll, HandOut, QueryFails, Wake, Subscribe,
                Unsubscribe, Crash
  <2> QED BY <2>1, <2>2, <1>off, <1>keep
<1>5. CASE Subscribe(s)
  BY <1>5, <1>t, FreshLoop DEF Subscribe, TypeOK
<1>6. CASE Poll(s)
  <2>1. /\ sub'[s].last = sub[s].last /\ sub'[s].batch = FirstRows(s)
        /\ row' = row /\ handed' = handed /\ overtaken' = overtaken
        /\ PassedRowsWereHanded(s)
    BY <1>6, <1>f DEF Poll, TypeOK, Loop
  <2>2. BatchIsAhead(s)'
    BY <2>1 DEF BatchIsAhead, FirstRows, Candidates, Visible
  <2>3. PassedRowsWereHanded(s)'
    <3> SUFFICES ASSUME NEW i \in Ids, row[i].state = "new", Covers(s, i),
                        i \notin overtaken
                 PROVE  /\ i =< sub[s].last => i \in handed
                        /\ \A j \in FirstRows(s) :
                             i =< j => i \in FirstRows(s) \cup handed
      BY <2>1, <1>c DEF PassedRowsWereHanded
    <3>1. i =< sub[s].last => i \in handed
      BY <2>1 DEF PassedRowsWereHanded
    <3>2. CASE i =< sub[s].last
      BY <3>1, <3>2
    <3>3. CASE ~(i =< sub[s].last)
      <4>1. i > sub[s].last
        <5>1. sub[s].last \in Int /\ i \in Int
          <6>1. sub[s].last \in 0 .. MaxId
            BY LoopTyped
          <6> QED BY <6>1, MaxIdAssumption DEF Ids
        <5> QED BY <3>3, <5>1
      <4>2. i \in Candidates(s)
        BY <4>1 DEF Candidates
      <4> QED BY <3>3, <4>2, FirstRowsHasNoGaps
    <3> QED BY <3>2, <3>3
  <2> QED BY <2>2, <2>3
<1>7. CASE HandOut(s)
  <2>1. PICK i \in sub[s].batch :
          /\ handed' = handed \cup {j \in sub[s].batch : j =< i}
          /\ \E pc \in {"mark", "sleep"} :
               sub' = [sub EXCEPT ![s].pc = pc, ![s].last = i,
                                  ![s].batch = {}]
    BY <1>7 DEF HandOut
  <2>2. sub'[s].last = i /\ sub'[s].batch = {}
    BY <2>1 DEF TypeOK, Loop
  <2>3. row' = row /\ overtaken' = overtaken /\ PassedRowsWereHanded(s)
    BY <1>7, <1>f DEF HandOut
  <2>4. BatchIsAhead(s)'
    BY <2>2 DEF BatchIsAhead
  <2>5. PassedRowsWereHanded(s)'
    <3> SUFFICES ASSUME NEW k \in Ids, row[k].state = "new", Covers(s, k),
                        k \notin overtaken, k =< i
                 PROVE  k \in handed'
      BY <2>2, <2>3, <1>c DEF PassedRowsWereHanded
    <3>1. k \in sub[s].batch \cup handed
      BY <2>3 DEF PassedRowsWereHanded
    <3> QED BY <2>1, <3>1
  <2> QED BY <2>4, <2>5
<1>8. CASE Mark(s)
  <2>1. /\ sub'[s].last = sub[s].last /\ sub'[s].batch = sub[s].batch
        /\ handed' = handed /\ overtaken' = overtaken /\ sub[s].pc # "off"
    BY <1>8 DEF Mark, TypeOK, Loop
  <2>2. \A i \in Ids : row'[i].state = "new" => row[i].state = "new"
    BY <1>8 DEF Mark, Marked
  <2> QED BY <2>1, <2>2, <1>keep
<1>9. CASE QueryFails(s) \/ Unsubscribe(s)
  <2>1. /\ sub'[s].last = sub[s].last /\ sub'[s].batch = sub[s].batch
        /\ handed' = handed /\ overtaken' = overtaken /\ row' = row
        /\ sub'[s].pc # "off" => sub[s].pc # "off"
    BY <1>9 DEF QueryFails, Unsubscribe, TypeOK, Loop
  <2>2. CASE sub[s].pc # "off"
    BY <2>1, <2>2, <1>keep
  <2>3. CASE sub[s].pc = "off"
    BY <2>1, <2>3, <1>f, <1>b, <1>c DEF BatchIsAhead
  <2> QED BY <2>2, <2>3
<1>10. CASE Wake(s) /\ WakesUp(s)
  <2>1. /\ sub'[s].last = sub[s].last /\ sub'[s].batch = sub[s].batch
        /\ handed' = handed /\ overtaken' = overtaken /\ row' = row
        /\ sub[s].pc # "off"
    BY <1>10 DEF Wake, TypeOK, Loop
  <2> QED BY <2>1, <1>keep
<1>11. CASE (Wake(s) /\ ~WakesUp(s)) \/ Crash(s)
  <2>1. sub'[s] = Off
    BY <1>11 DEF Wake, Crash, TypeOK
  <2> QED BY <2>1, <1>t, FreshLoop DEF Off
<1>12. CASE UNCHANGED vars
  BY <1>12, <1>f, <1>c, <1>off, <1>keep DEF vars
<1>13. CASE PublishStep
  BY <1>1, <1>2, <1>3, <1>13 DEF PublishStep
<1>14. ASSUME LoopStep(s) \/ Subscribe(s) \/ Unsubscribe(s) \/ Crash(s)
       PROVE  Goal
  BY <1>5, <1>6, <1>7, <1>8, <1>9, <1>10, <1>11, <1>14 DEF LoopStep
<1> QED BY <1>4, <1>12, <1>13, <1>14 DEF Next

\* Only Mark hides rows, and it hides rows its loop has passed.
LEMMA NoLossStep ==
  ASSUME TypeOK, FeedInv, [Next]_vars
  PROVE  OnlyOvertakenRowsAreLost'
<1> SUFFICES ASSUME NEW i \in Ids, row'[i].state = "processed"
             PROVE  i \in handed' \cup overtaken'
  BY DEF OnlyOvertakenRowsAreLost
<1>1. handed \subseteq handed' /\ overtaken \subseteq overtaken'
  BY DEF Next, PublishStep, InsertBegin, InsertCommit, InsertAbort, LoopStep,
         Poll, HandOut, Mark, QueryFails, Wake, Subscribe, Unsubscribe, Crash,
         vars
<1>2. CASE row[i].state = "processed"
  BY <1>1, <1>2 DEF FeedInv, OnlyOvertakenRowsAreLost
<1>3. CASE row[i].state # "processed"
  <2>1. \E s \in Subscriptions : Mark(s) /\ Marked(s, i)
    <3>1. row[i] \in Row
      BY DEF TypeOK
    <3> QED BY <1>3, <3>1, ZenonT(60)
            DEF Next, PublishStep, InsertBegin, InsertCommit, InsertAbort,
                LoopStep, Poll, HandOut, Mark, QueryFails, Wake, Subscribe,
                Unsubscribe, Crash, vars, TypeOK, Row
  <2>2. PICK s \in Subscriptions : Mark(s) /\ Marked(s, i)
    BY <2>1
  <2>3. PassedRowsWereHanded(s)
    BY <2>2 DEF FeedInv, Mark
  <2> QED BY <1>1, <2>2, <2>3 DEF Marked, PassedRowsWereHanded
<1> QED BY <1>2, <1>3

LEMMA InvariantHolds == Spec => [](TypeOK /\ FeedInv)
<1>1. Init => TypeOK /\ FeedInv
  <2> SUFFICES ASSUME Init PROVE TypeOK /\ FeedInv
    OBVIOUS
  <2>1. TypeOK
    BY MaxIdAssumption DEF Init, TypeOK, Row, Loop, Off, Ids
  <2>2. \A s \in Subscriptions : BatchIsAhead(s) /\ sub[s].pc = "off"
    BY DEF Init, Off, BatchIsAhead
  <2>3. OnlyOvertakenRowsAreLost
    BY DEF Init, OnlyOvertakenRowsAreLost
  <2> QED BY <2>1, <2>2, <2>3 DEF FeedInv
<1>2. TypeOK /\ FeedInv /\ [Next]_vars => TypeOK' /\ FeedInv'
  <2> SUFFICES ASSUME TypeOK, FeedInv, [Next]_vars
               PROVE  TypeOK' /\ FeedInv'
    OBVIOUS
  <2> QED BY TypeStep, LoopKnowledgeStep, NoLossStep DEF FeedInv
<1> QED BY <1>1, <1>2, PTL DEF Spec

\* A row is hidden from the handlers only if one of them has seen it or it
\* became visible behind a reader.
THEOREM LossIsOvertaking == Spec => []OnlyOvertakenRowsAreLost
<1>1. FeedInv => OnlyOvertakenRowsAreLost
  BY DEF FeedInv
<1> QED BY <1>1, InvariantHolds, PTL

(***************************************************************************)
(* Refinement: the visible rows are what is published, lastSeenId is the   *)
(* cursor.                                                                 *)
(***************************************************************************)
LEMMA StepRefines ==
  ASSUME TypeOK, FeedInv, [Next]_vars
  PROVE  [Feed!Next]_<<{i \in Ids : Visible(i)},
                       [s \in Subscriptions |-> sub[s].last]>>
<1> DEFINE published == {i \in Ids : Visible(i)}
           cursor == [s \in Subscriptions |-> sub[s].last]
<1>s. ASSUME row' = row
      PROVE  published' = published
  BY <1>s DEF Visible
<1>1. CASE InsertBegin
  <2>1. \A i \in Ids : Visible(i)' <=> Visible(i)
    <3> SUFFICES ASSUME NEW i \in Ids PROVE Visible(i)' <=> Visible(i)
      OBVIOUS
    <3>1. row[i] \in Row /\ (i = nextId => row[i].state = "unused")
      BY DEF TypeOK, Ids
    <3> QED BY <1>1, <3>1 DEF InsertBegin, TypeOK, Row, Visible
  <2>2. cursor' = cursor
    BY <1>1 DEF InsertBegin
  <2> QED BY <2>1, <2>2
<1>2. ASSUME NEW k \in Ids, InsertCommit(k)
      PROVE  Feed!Publish
  <2>1. \A i \in Ids : Visible(i)' <=> (Visible(i) \/ i = k)
    <3> SUFFICES ASSUME NEW i \in Ids
                 PROVE  Visible(i)' <=> (Visible(i) \/ i = k)
      OBVIOUS
    <3>1. row[i] \in Row
      BY DEF TypeOK
    <3> QED BY <1>2, <3>1 DEF InsertCommit, TypeOK, Row, Visible
  <2>2. published' = published \cup {k}
    BY <2>1
  <2>3. cursor' = cursor
    BY <1>2 DEF InsertCommit
  <2> QED BY <2>2, <2>3 DEF Feed!Publish
<1>3. ASSUME NEW k \in Ids, InsertAbort(k)
      PROVE  published' = published /\ cursor' = cursor
  <2>1. \A i \in Ids : Visible(i)' <=> Visible(i)
    <3> SUFFICES ASSUME NEW i \in Ids PROVE Visible(i)' <=> Visible(i)
      OBVIOUS
    <3>1. row[i] \in Row
      BY DEF TypeOK
    <3> QED BY <1>3, <3>1 DEF InsertAbort, TypeOK, Row, Visible
  <2> QED BY <1>3, <2>1 DEF InsertAbort
<1>4. ASSUME NEW s \in Subscriptions, HandOut(s)
      PROVE  Feed!Deliver(s)
  <2>1. PICK i \in sub[s].batch :
          \E pc \in {"mark", "sleep"} :
            sub' = [sub EXCEPT ![s].pc = pc, ![s].last = i, ![s].batch = {}]
    BY <1>4 DEF HandOut
  <2>2. BatchIsAhead(s) /\ sub[s].batch \in SUBSET Ids
    BY LoopTyped DEF FeedInv
  <2>3. {i} \in SUBSET published /\ i > sub[s].last /\ i \in Int
    BY <2>2 DEF BatchIsAhead, Ids
  <2>4. cursor' = [cursor EXCEPT ![s] = i]
    BY <2>1 DEF TypeOK, Loop
  <2>5. published' = published
    BY <1>4, <1>s DEF HandOut
  <2>6. \A j \in {i} : j > cursor[s]
    BY <2>3
  <2>7. \E last \in {i} : /\ \A j \in {i} : j =< last
                          /\ cursor' = [cursor EXCEPT ![s] = last]
    BY <2>3, <2>4
  <2> HIDE DEF published, cursor
  <2> QED BY <2>3, <2>5, <2>6, <2>7 DEF Feed!Deliver, published, cursor
<1>5. ASSUME NEW s \in Subscriptions,
             Subscribe(s) \/ Crash(s) \/ (Wake(s) /\ ~WakesUp(s))
      PROVE  Feed!Restart(s)
  <2>1. sub'[s].last = 0 /\ \A t \in Subscriptions : t # s => sub'[t] = sub[t]
    BY <1>5 DEF Subscribe, Crash, Wake, Off, TypeOK
  <2>3. cursor' = [cursor EXCEPT ![s] = 0]
    BY <2>1
  <2>2. published' = published
    BY <1>5, <1>s DEF Subscribe, Crash, Wake
  <2> QED BY <2>2, <2>3 DEF Feed!Restart
<1>6. ASSUME NEW s \in Subscriptions, Mark(s)
      PROVE  published' = published /\ cursor' = cursor
  <2>1. \A i \in Ids : Visible(i)' <=> Visible(i)
    <3> SUFFICES ASSUME NEW i \in Ids PROVE Visible(i)' <=> Visible(i)
      OBVIOUS
    <3>1. row[i] \in Row
      BY DEF TypeOK
    <3> QED BY <1>6, <3>1 DEF Mark, Marked, Row, Visible
  <2>2. cursor' = cursor
    BY <1>6 DEF Mark, TypeOK, Loop
  <2> QED BY <2>1, <2>2
<1>7. ASSUME NEW s \in Subscriptions,
             Poll(s) \/ QueryFails(s) \/ Unsubscribe(s)
               \/ (Wake(s) /\ WakesUp(s))
      PROVE  published' = published /\ cursor' = cursor
  <2>1. cursor' = cursor
    BY <1>7 DEF Poll, QueryFails, Unsubscribe, Wake, TypeOK, Loop
  <2>2. row' = row
    BY <1>7 DEF Poll, QueryFails, Unsubscribe, Wake
  <2> QED BY <2>1, <2>2, <1>s
<1>8. CASE UNCHANGED vars
  <2>1. published' = published /\ cursor' = cursor
    BY <1>8, <1>s DEF vars
  <2> QED BY <2>1
<1>9. CASE PublishStep
  BY <1>1, <1>2, <1>3, <1>9 DEF PublishStep, Feed!Next
<1>10. ASSUME NEW s \in Subscriptions,
              LoopStep(s) \/ Subscribe(s) \/ Unsubscribe(s) \/ Crash(s)
       PROVE  Feed!Next \/ (published' = published /\ cursor' = cursor)
  BY <1>4, <1>5, <1>6, <1>7, <1>10 DEF LoopStep, Feed!Next
<1> QED BY <1>8, <1>9, <1>10 DEF Next

\* Every subscription gives its handler published rows only, in the order of
\* their ids and none of them twice.
THEOREM FeedIsOrdered == Spec => ImplementsOrderedFeed
<1>1. Init => Feed!Init
  BY DEF Init, Feed!Init, Visible, Off
<1>2. TypeOK /\ FeedInv /\ [Next]_vars =>
        [Feed!Next]_<<{i \in Ids : Visible(i)},
                      [s \in Subscriptions |-> sub[s].last]>>
  BY StepRefines
<1> QED BY <1>1, <1>2, InvariantHolds, PTL
        DEF Spec, ImplementsOrderedFeed, Feed!Spec

----------------------------------------------------------------------------
(* Stored objects                                                          *)

Reads == {"get", "exists", "head"}
Over == {"free", "ok", "missing", "error"}

\* What a write puts into the log.
Entry == [op : {"put"}, key : Keys, content : Contents, keeps : BOOLEAN]
           \cup [op : {"delete"}, key : Names]
Call == [op : {"none", "put", "delete", "get", "exists", "head", "list"},
         at : Over \cup {"new", "open", "first", "second", "meta", "stat", "each"},
         key : Names \cup {"none"}, n : Numbers, met : BOOLEAN, f : Numbers,
         got : Numbers \X Numbers, own : Numbers, left : SUBSET Keys]

Typed ==
  /\ adapter \in Adapters /\ made \in BOOLEAN
  /\ file \in [Keys -> Numbers] /\ meta \in [Keys -> Numbers]
  /\ data \in [1 .. MaxWrites -> Numbers \X Numbers]
  /\ object \in [Keys -> Numbers] /\ blob \in [Contents -> Numbers]
  /\ work \in [Workers -> Call]
  /\ log \in Seq(Entry) /\ Len(log) <= MaxWrites
  /\ worn \subseteq Names /\ undone \subseteq DOMAIN log /\ faults \in 0 .. MaxFaults

\* Every set of writes that is not empty has a last one.
HaveLast == \A M \in SUBSET DOMAIN log : M # {} => \E m \in M : \A j \in M : j <= m

Putting(f, k) == f \in DOMAIN log /\ log[f].op = "put" /\ log[f].key = k
Writing(w) == Running(w) /\ Writes(work[w].op)

\* Where a call of each kind may stand, and the entry a write has in the log.
StagesOf(op) ==
  CASE op = "none"   -> {}
    [] op = "put"    -> {"new", "open", "first", "second", "meta", "stat"}
    [] op = "delete" -> {"new", "meta"}
    [] op = "get"    -> {"new", "second"}
    [] op = "exists" -> {"new"}
    [] op = "head"   -> {"new", "meta"}
    [] op = "list"   -> {"new", "each"}
CallShape(w) ==
  /\ work[w].n \in DOMAIN log \cup {0}
  /\ Running(w) => work[w].at \in StagesOf(work[w].op)
  /\ (Running(w) /\ adapter # "local") => work[w].at = "new"
  /\ (Running(w) /\ work[w].at = "new") => work[w].got = Empty /\ work[w].own = 0
  /\ Writes(work[w].op) => Running(w)
  /\ (Running(w) /\ work[w].op # "list") => work[w].key \in Names
  /\ Writing(w) =>
       /\ work[w].n \in DOMAIN log \ undone
       /\ log[work[w].n].op = work[w].op /\ log[work[w].n].key = work[w].key
       /\ \A v \in Workers : Writing(v) /\ work[v].n = work[w].n => v = w
  /\ Running(w) /\ work[w].op = "put" /\ work[w].at \in {"first", "second"}
       => Putting(work[w].f, work[w].key)
  /\ Running(w) /\ work[w].op = "get" /\ work[w].at = "second" => work[w].f \in 1 .. MaxWrites

FilesAreOfTheirKey == \A k \in Keys : file[k] # 0 => Putting(file[k], k)
ObjectsArePuts ==
  \A k \in Keys : object[k] # 0 => object[k] \in DOMAIN log /\ log[object[k]].op = "put"

\* n is the last write of key k that was not undone.
IsLast(n, k) ==
  /\ n \in DOMAIN log \ undone /\ log[n].key = k
  /\ \A m \in DOMAIN log \ undone : log[m].key = k => m <= n

\* Writes of one key that overlap have worn it, and know it; a write that met
\* none is the last of its key.
OverlapsWear ==
  /\ \A v, w \in Workers :
       (Writing(v) /\ Writing(w) /\ v # w /\ work[v].key = work[w].key)
         => work[v].met /\ work[v].key \in worn
  /\ \A w \in Workers : Writing(w) =>
       IF work[w].met THEN work[w].key \in worn ELSE IsLast(work[w].n, work[w].key)

\* A read that met no write has none to meet, and knows the last one of its key.
ReadsAlone(w) ==
  (Running(w) /\ ~work[w].met) =>
    /\ work[w].op \in Reads => /\ WritersOf(work[w].key) = {} /\ work[w].key \notin worn
                               /\ work[w].n = LastWrite(work[w].key)
    /\ work[w].op = "list" => \A v \in Workers : ~Writing(v)

\* The directory at a key whose last write was n.
Kept(n, k) ==
  IF There(n) THEN file[k] # 0 /\ data[file[k]] = <<n, n>> /\ (log[n].keeps => meta[k] = n)
  ELSE file[k] = 0 /\ meta[k] = 0

\* How far a write that met none has got.
WriteProgress(w) ==
  LET r == work[w] IN
  (Writing(w) /\ ~r.met) =>
    /\ r.op = "put" /\ r.at \in {"first", "second"} => file[r.key] = r.f /\ r.f # 0
    /\ r.op = "put" /\ r.at = "second" => data[r.f][1] = r.n
    /\ r.op = "put" /\ r.at \in {"meta", "stat"}
         => file[r.key] # 0 /\ data[file[r.key]] = <<r.n, r.n>>
    /\ r.op = "put" /\ r.at = "stat" /\ log[r.n].keeps => meta[r.key] = r.n
    /\ r.op = "delete" /\ r.at = "meta" => file[r.key] = 0

\* How far a read or a list that met none has got.
ReadProgress(w) ==
  LET r == work[w] IN
  (Running(w) /\ ~r.met) =>
    /\ r.op = "get" /\ r.at = "second"
         => file[r.key] = r.f /\ r.f # 0 /\ r.got[1] = data[r.f][1]
    /\ r.op = "head" /\ r.at = "meta" => file[r.key] # 0 /\ r.got = data[file[r.key]]
    /\ r.op = "list" => \A k \in r.left : file[k] # 0

\* Without its file a key has no metadata, but while a delete is half-way.
MetaHasFile ==
  \A k \in Keys : (k \notin worn /\ file[k] = 0 /\ meta[k] # 0)
    => \E w \in Workers : /\ Writing(w) /\ work[w].key = k
                          /\ work[w].op = "delete" /\ work[w].at = "meta"

Directory ==
  adapter = "local" =>
    /\ undone = {}
    /\ MetaHasFile
    /\ \A w \in Workers : WriteProgress(w) /\ ReadProgress(w)
    /\ \A k \in Keys : (WritersOf(k) = {} /\ k \notin worn) => Kept(LastWrite(k), k)

\* The writes of key k that the bucket has done.
Done(k) == {m \in DOMAIN log \ undone :
              log[m].key = k /\ \A w \in Workers : Writing(w) => work[w].n # m}
BucketAt(k) ==
  \/ Done(k) = {} /\ object[k] = 0
  \/ \E n \in Done(k) : /\ \A m \in Done(k) : m <= n
                        /\ object[k] = IF log[n].op = "put" THEN n ELSE 0
Bucket == adapter = "s3" => \A k \in Keys : k \notin worn => BucketAt(k)

\* The inductive invariant.
ObjectsInv ==
  /\ Typed /\ HaveLast
  /\ \A w \in Workers : CallShape(w)
  /\ FilesAreOfTheirKey /\ ObjectsArePuts
  /\ OverlapsWear /\ \A w \in Workers : ReadsAlone(w)
  /\ Directory /\ Bucket
  /\ AnswersFollowWrites /\ ListsFailByWrites

\* One call changes.
WorkPut(w, r) ==
  /\ work' \in [Workers -> Call] /\ work'[w] = r
  /\ \A v \in Workers \ {w} : work'[v] = work[v]

\* The blocks of a file, one at a time.
LEMMA Pairs ==
  ASSUME NEW p \in Numbers \X Numbers
  PROVE  /\ p[1] \in Numbers /\ p[2] \in Numbers /\ p = <<p[1], p[2]>>
         /\ \A n \in Numbers : /\ [p EXCEPT ![1] = n] = <<n, p[2]>>
                               /\ [p EXCEPT ![2] = n] = <<p[1], n>>
OBVIOUS

\* The fields of a call.
LEMMA CallTyped ==
  ASSUME Typed, NEW w \in Workers
  PROVE  /\ work[w] \in Call /\ work[w].n \in Numbers /\ work[w].f \in Numbers
         /\ work[w].met \in BOOLEAN /\ work[w].got \in Numbers \X Numbers
         /\ work[w].left \in SUBSET Keys /\ work[w].key \in Names \cup {"none"}
BY DEF Typed, Call

\* Writes have the numbers from 1.
LEMMA NumbersOfLog ==
  ASSUME Typed
  PROVE  /\ DOMAIN log = 1 .. Len(log) /\ Len(log) \in Nat /\ DOMAIN log \subseteq Numbers
         /\ DOMAIN log \subseteq 1 .. MaxWrites /\ MaxWrites \in Nat
BY StorageAssumption DEF Typed, Numbers

\* The last write of a key.
LEMMA LastOf ==
  ASSUME Typed, HaveLast, NEW k
  PROVE  /\ LastWrite(k) \in DOMAIN log \cup {0}
         /\ \A n : IsLast(n, k) => LastWrite(k) = n
         /\ LastWrite(k) # 0 => IsLast(LastWrite(k), k)
         /\ LastWrite(k) = 0 => \A m \in DOMAIN log \ undone : log[m].key # k
<1> DEFINE M == {m \in DOMAIN log : log[m].key = k /\ m \notin undone}
<1>1. M \in SUBSET DOMAIN log /\ DOMAIN log \subseteq Nat \ {0}
  BY NumbersOfLog
<1>2. LastWrite(k) = IF M = {} THEN 0 ELSE Max(M)
  BY DEF LastWrite
<1>3. CASE M = {}
  <2>1. LastWrite(k) = 0 /\ \A m \in DOMAIN log \ undone : log[m].key # k
    BY <1>2, <1>3
  <2> QED BY <2>1 DEF IsLast
<1>4. CASE M # {}
  <2>1. PICK n \in M : \A j \in M : j <= n
    BY <1>1, <1>4 DEF HaveLast
  <2>2. Max(M) \in M /\ \A j \in M : Max(M) >= j
    BY <2>1, <1>1 DEF Max
  <2>3. LastWrite(k) = Max(M) /\ Max(M) # 0
    BY <1>1, <1>2, <1>4, <2>2
  <2>4. IsLast(Max(M), k)
    BY <1>1, <2>2 DEF IsLast
  <2>5. ASSUME NEW m, IsLast(m, k)
        PROVE  m = Max(M)
    <3>1. m \in M /\ Max(M) \in DOMAIN log \ undone /\ log[Max(M)].key = k
      BY <2>2, <2>5 DEF IsLast
    <3>2. Max(M) <= m /\ m <= Max(M) /\ m \in Nat /\ Max(M) \in Nat
      BY <1>1, <2>2, <2>5, <3>1 DEF IsLast
    <3> HIDE DEF M
    <3> QED BY <3>2
  <2> QED BY <2>2, <2>3, <2>4, <2>5
<1> QED BY <1>3, <1>4

\* A call that writes nothing goes on, or starts.
LEMMA ReadStep ==
  ASSUME ObjectsInv, NEW w \in Workers, NEW r, WorkPut(w, r), ~Writing(w), ~Writes(r.op),
         UNCHANGED <<adapter, disk, remote, history, faults>>,
         CallShape(w)',
         (Running(w)' /\ ~r.met) =>
           /\ r.op \in Reads => /\ WritersOf(r.key) = {} /\ r.key \notin worn
                                /\ r.n = LastWrite(r.key)
           /\ r.op = "list" => \A v \in Workers : ~Writing(v),
         adapter = "local" => ReadProgress(w)',
         (adapter # "vedadb" /\ ~r.met /\ r.at \in {"ok", "missing"} /\ r.op \in Reads) =>
            /\ r.at = "ok" <=> There(r.n)
            /\ r.op # "exists" =>
                 Holds(r.n, r.got, IF r.op = "get" /\ There(r.n) THEN r.n ELSE r.own),
         (r.op = "list" /\ r.at = "error") => r.met
  PROVE  ObjectsInv'
<1>u. UNCHANGED <<adapter, made, file, data, meta, object, blob, log, worn, undone, faults>>
  BY DEF disk, remote, history
<1>n. Names' = Names /\ Call' = Call /\ Entry' = Entry
  BY <1>u DEF Names, Call, Entry
<1>1. Typed'
  BY <1>u, <1>n DEF ObjectsInv, Typed, WorkPut
<1>2. \A v \in Workers : Writing(v)' = Writing(v) /\ (Writing(v) => work'[v] = work[v])
  BY DEF WorkPut, Writing, Running
<1>3. \A k : WritersOf(k)' = WritersOf(k)
  <2>1. \A k : WritersOf(k) = {v \in Workers : Writing(v) /\ work[v].key = k}
    BY DEF WritersOf, Meeting, Writing, Writes
  <2>2. \A k : WritersOf(k)' = {v \in Workers : Writing(v)' /\ work'[v].key = k}
    BY DEF WritersOf, Meeting, Writing, Writes
  <2> QED BY <1>2, <2>1, <2>2
<1>4. HaveLast' /\ FilesAreOfTheirKey' /\ ObjectsArePuts'
  BY <1>u DEF ObjectsInv, HaveLast, FilesAreOfTheirKey, ObjectsArePuts, Putting
<1>5. \A v \in Workers : CallShape(v)'
  <2> SUFFICES ASSUME NEW v \in Workers \ {w}
               PROVE  CallShape(v)'
    OBVIOUS
  <2>1. CallShape(v) /\ work'[v] = work[v] /\ Running(v)' = Running(v)
    BY DEF ObjectsInv, WorkPut, Running
  <2> QED BY <1>2, <1>u, <1>n, <2>1 DEF CallShape, Putting, Writes
<1>6. OverlapsWear'
  BY <1>2, <1>u DEF ObjectsInv, OverlapsWear, IsLast
<1>7. \A k : LastWrite(k)' = LastWrite(k)
  BY <1>u DEF LastWrite
<1>8. \A v \in Workers : ReadsAlone(v)'
  <2>1. \A v \in Workers \ {w} : work'[v] = work[v] /\ Running(v)' = Running(v)
    BY DEF WorkPut, Running
  <2>2. work'[w] = r
    BY DEF WorkPut
  <2> QED BY <1>2, <1>3, <1>7, <1>u, <2>1, <2>2 DEF ObjectsInv, ReadsAlone
<1>9. Directory'
  <2> SUFFICES ASSUME adapter = "local"
               PROVE  /\ undone' = {} /\ MetaHasFile'
                      /\ \A v \in Workers : WriteProgress(v)' /\ ReadProgress(v)'
                      /\ \A k \in Keys : (WritersOf(k)' = {} /\ k \notin worn')
                                          => Kept(LastWrite(k), k)'
    BY <1>u DEF Directory
  <2>1. Directory
    BY DEF ObjectsInv
  <2>2. MetaHasFile'
    BY <1>2, <1>u, <2>1 DEF Directory, MetaHasFile
  <2>3. ASSUME NEW v \in Workers
        PROVE  WriteProgress(v)' /\ ReadProgress(v)'
    <3>1. WriteProgress(v)'
      BY <1>2, <1>u, <2>1 DEF Directory, WriteProgress
    <3>2. CASE v # w
      <4>1. work'[v] = work[v] /\ Running(v)' = Running(v)
        BY <3>2 DEF WorkPut, Running
      <4> QED BY <1>u, <2>1, <3>1, <4>1 DEF Directory, ReadProgress
    <3> QED BY <3>1, <3>2
  <2>4. ASSUME NEW k \in Keys, WritersOf(k)' = {}, k \notin worn'
        PROVE  Kept(LastWrite(k), k)'
    <3>1. Kept(LastWrite(k), k)
      BY <1>3, <1>u, <2>1, <2>4 DEF Directory
    <3> QED BY <1>7, <1>u, <3>1 DEF Kept, There
  <2> QED BY <1>u, <2>1, <2>2, <2>3, <2>4 DEF Directory
<1>10. Bucket'
  <2>1. \A k : Done(k)' = Done(k)
    BY <1>2, <1>u DEF Done
  <2> QED BY <1>u, <2>1 DEF ObjectsInv, Bucket, BucketAt
<1>11. AnswersFollowWrites'
  <2>1. \A v \in Workers \ {w} : work'[v] = work[v]
    BY DEF WorkPut
  <2>2. work'[w] = r
    BY DEF WorkPut
  <2> QED BY <1>u, <2>1, <2>2 DEF ObjectsInv, AnswersFollowWrites, There, Holds, Reads
<1>12. ListsFailByWrites'
  BY DEF ObjectsInv, ListsFailByWrites, WorkPut
<1> QED BY <1>1, <1>4, <1>5, <1>6, <1>8, <1>9, <1>10, <1>11, <1>12 DEF ObjectsInv


\* The writers of a key are the writes under way at it.
LEMMA WritersAre ==
  /\ \A k : WritersOf(k) = {v \in Workers : Writing(v) /\ work[v].key = k}
  /\ \A k : WritersOf(k)' = {v \in Workers : Writing(v)' /\ work'[v].key = k}
BY DEF WritersOf, Meeting, Writing, Writes

\* A write moves on in the directory, or ends: it changes its key alone.
LEMMA LocalWrite ==
  ASSUME ObjectsInv, adapter = "local", NEW w \in Workers, Writing(w), NEW r, WorkPut(w, r),
         NEW k, k = work[w].key, NEW n, n = work[w].n,
         UNCHANGED <<adapter, remote, log, undone>>,
         faults' \in 0 .. MaxFaults, made' \in BOOLEAN,
         file' \in [Keys -> Numbers], meta' \in [Keys -> Numbers],
         data' \in [1 .. MaxWrites -> Numbers \X Numbers],
         worn' \subseteq Names, \A j \in Names \ {k} : j \in worn' <=> j \in worn,
         work[w].met => k \in worn',
         \A j \in Keys \ {k} : file'[j] = file[j] /\ meta'[j] = meta[j],
         file'[k] # 0 => Putting(file'[k], k),
         \A f \in 1 .. MaxWrites : ~Putting(f, k) => data'[f] = data[f],
         r.op \in {"put", "delete", "none"}, Running(w)' <=> Writes(r.op),
         Writing(w)' => r.key = k /\ r.n = n /\ r.met = work[w].met,
         CallShape(w)', WriteProgress(w)',
         (k \notin worn' /\ file'[k] = 0 /\ meta'[k] # 0)
           => Writing(w)' /\ r.op = "delete" /\ r.at = "meta",
         (~Writing(w)' /\ k \notin worn') => Kept(n, k)'
  PROVE  ObjectsInv'
<1>u. UNCHANGED <<adapter, object, blob, log, undone>>
  BY DEF remote
<1>n. Names' = Names /\ Call' = Call /\ Entry' = Entry /\ Names = Keys
  BY <1>u DEF Names, Call, Entry
<1>w. work'[w] = r /\ \A v \in Workers \ {w} : work'[v] = work[v]
  BY DEF WorkPut
<1>k. k \in Keys /\ n \in DOMAIN log \ undone
  BY <1>n DEF ObjectsInv, CallShape, Writing, Writes
<1>1. Typed'
  BY <1>u, <1>n DEF ObjectsInv, Typed, WorkPut
<1>2. \A v \in Workers \ {w} : Writing(v)' = Writing(v) /\ Running(v)' = Running(v)
  BY <1>w DEF Writing, Running
<1>3. \A j \in Names \ {k} : WritersOf(j)' = WritersOf(j)
  <2> SUFFICES ASSUME NEW j \in Names \ {k}
               PROVE  WritersOf(j)' = WritersOf(j)
    OBVIOUS
  <2>1. \A v \in Workers : (Writing(v) /\ work[v].key = j) <=> (Writing(v)' /\ work'[v].key = j)
    BY <1>2, <1>w
  <2> QED BY <2>1, WritersAre
<1>4. HaveLast' /\ ObjectsArePuts' /\ FilesAreOfTheirKey'
  <2>1. HaveLast' /\ ObjectsArePuts'
    BY <1>u DEF ObjectsInv, HaveLast, ObjectsArePuts
  <2>2. FilesAreOfTheirKey'
    BY <1>u DEF ObjectsInv, FilesAreOfTheirKey, Putting
  <2> QED BY <2>1, <2>2
<1>5. \A v \in Workers : CallShape(v)'
  <2> SUFFICES ASSUME NEW v \in Workers \ {w}
               PROVE  CallShape(v)'
    OBVIOUS
  <2>1. CallShape(v) /\ CallShape(w) /\ work'[v] = work[v]
    BY <1>w DEF ObjectsInv
  <2> QED BY <1>2, <1>w, <1>u, <1>n, <2>1 DEF CallShape, Putting
<1>6. \A v \in Workers \ {w} : (Writing(v) /\ work[v].key = k)
        => work[v].met /\ work[w].met /\ k \in worn /\ k \in worn'
  BY DEF ObjectsInv, OverlapsWear
<1>7. OverlapsWear'
  <2>1. ASSUME NEW v \in Workers, NEW u \in Workers, Writing(v)', Writing(u)', v # u,
               work'[v].key = work'[u].key
        PROVE  work'[v].met /\ work'[v].key \in worn'
    <3>1. CASE v = w
      BY <1>2, <1>6, <1>w, <2>1, <3>1
    <3>2. CASE u = w
      BY <1>2, <1>6, <1>w, <2>1, <3>2
    <3>3. CASE v # w /\ u # w
      <4>1. Writing(v) /\ work[v].met /\ work[v].key \in worn /\ work[v].key \in Names
        BY <1>2, <1>w, <2>1, <3>3 DEF ObjectsInv, OverlapsWear, Typed
      <4> QED BY <1>6, <1>w, <3>3, <4>1
    <3> QED BY <3>1, <3>2, <3>3
  <2>2. ASSUME NEW v \in Workers, Writing(v)'
        PROVE  IF work'[v].met THEN work'[v].key \in worn'
               ELSE IsLast(work'[v].n, work'[v].key)
    <3>1. CASE v = w
      BY <1>w, <2>2, <3>1 DEF ObjectsInv, OverlapsWear
    <3>2. CASE v # w
      <4>1. Writing(v) /\ work'[v] = work[v]
        BY <1>2, <1>w, <2>2, <3>2
      <4>2. work[v].key \in worn => work[v].key \in Names
        BY DEF ObjectsInv, Typed
      <4>3. work[v].key \in worn => work[v].key \in worn'
        BY <1>6, <3>2, <4>1, <4>2
      <4> QED BY <4>1, <4>3 DEF ObjectsInv, OverlapsWear
    <3> QED BY <3>1, <3>2
  <2>3. \A i, j : IsLast(i, j)' <=> IsLast(i, j)
    BY <1>u DEF IsLast
  <2> QED BY <2>1, <2>2, <2>3 DEF OverlapsWear
<1>8. \A j : LastWrite(j)' = LastWrite(j)
  BY <1>u DEF LastWrite
\* A reader that met no write reads another key.
<1>9. ASSUME NEW v \in Workers, Running(v), ~work[v].met, ~Writes(work[v].op)
      PROVE  /\ v # w /\ work[v].op # "list"
             /\ work[v].op \in Reads =>
                  /\ work[v].key \in Keys \ {k}
                  /\ WritersOf(work[v].key) = {} /\ work[v].key \notin worn
                  /\ work[v].n = LastWrite(work[v].key)
  <2>1. v # w
    BY <1>9 DEF Writing
  <2>2. work[v].op # "list"
    BY <1>9 DEF ObjectsInv, ReadsAlone
  <2>3. work[v].key \in Names
    BY <1>9, <2>2 DEF ObjectsInv, CallShape
  <2> QED BY <1>9, <1>n, <2>1, <2>2, <2>3, WritersAre DEF ObjectsInv, ReadsAlone
<1>10. ASSUME NEW v \in Workers
       PROVE  ReadsAlone(v)'
  <2>1. CASE v = w \/ Writing(v)
    <3>1. Running(v)' => Writes(work'[v].op)
      BY <1>w, <2>1 DEF Writing
    <3> QED BY <3>1 DEF ReadsAlone, Writes, Reads
  <2>2. CASE v # w /\ ~Writing(v)
    <3>1. work'[v] = work[v] /\ Running(v)' = Running(v)
      BY <1>2, <1>w, <2>2
    <3>2. CASE Running(v) /\ ~work[v].met
      <4>1. ~Writes(work[v].op)
        BY <2>2, <3>2 DEF Writing
      <4> QED BY <1>3, <1>8, <1>9, <1>n, <3>1, <3>2, <4>1 DEF ReadsAlone
    <3> QED BY <3>1, <3>2 DEF ReadsAlone
  <2> QED BY <2>1, <2>2
\* What other keys hold stays.
<1>11. ASSUME NEW j \in Keys \ {k}
       PROVE  /\ file'[j] = file[j] /\ meta'[j] = meta[j]
              /\ file[j] # 0 => data'[file[j]] = data[file[j]]
  <2>1. file[j] # 0 => Putting(file[j], j)
    BY DEF ObjectsInv, FilesAreOfTheirKey
  <2>2. file[j] # 0 => file[j] \in 1 .. MaxWrites /\ ~Putting(file[j], k)
    BY <2>1, NumbersOfLog DEF ObjectsInv, Putting
  <2> QED BY <2>2
<1>12. Directory'
  <2>1. Directory
    BY DEF ObjectsInv
  <2>2. MetaHasFile'
    <3> SUFFICES ASSUME NEW j \in Keys, j \notin worn', file'[j] = 0, meta'[j] # 0
                 PROVE  \E v \in Workers : /\ Writing(v)' /\ work'[v].key = j
                                           /\ work'[v].op = "delete" /\ work'[v].at = "meta"
      BY DEF MetaHasFile
    <3>1. CASE j = k
      BY <1>w, <3>1
    <3>2. CASE j # k
      <4>1. PICK v \in Workers : /\ Writing(v) /\ work[v].key = j
                                 /\ work[v].op = "delete" /\ work[v].at = "meta"
        BY <1>11, <1>n, <2>1, <3>2 DEF Directory, MetaHasFile
      <4>2. v # w
        BY <3>2, <4>1
      <4> QED BY <1>2, <1>w, <4>1, <4>2
    <3> QED BY <3>1, <3>2
  <2>3. ASSUME NEW v \in Workers
        PROVE  WriteProgress(v)'
    <3>1. CASE v = w
      BY <3>1
    <3>2. CASE v # w
      <4> SUFFICES ASSUME Writing(v), ~work[v].met
                   PROVE  WriteProgress(v)'
        BY <1>2, <1>w, <3>2 DEF WriteProgress
      <4>1. work[v].key \in Keys \ {k} /\ work'[v] = work[v]
        BY <1>6, <1>n, <1>w, <3>2 DEF ObjectsInv, CallShape, Writing, Writes
      <4>2. WriteProgress(v)
        BY <2>1 DEF Directory
      <4>3. (work[v].op = "put" /\ work[v].at = "second") => data'[work[v].f] = data[work[v].f]
        BY <1>11, <4>1, <4>2 DEF WriteProgress
      <4> QED BY <1>11, <1>u, <4>1, <4>2, <4>3 DEF WriteProgress
    <3> QED BY <3>1, <3>2
  <2>4. ASSUME NEW v \in Workers
        PROVE  ReadProgress(v)'
    <3>1. CASE v = w
      BY <1>w, <3>1 DEF ReadProgress, Writes
    <3>2. CASE v # w
      <4>1. ReadProgress(v) /\ work'[v] = work[v] /\ Running(v)' = Running(v)
        BY <1>2, <1>w, <2>1, <3>2 DEF Directory
      <4>2. CASE ~(Running(v) /\ ~work[v].met /\ ~Writes(work[v].op))
        BY <4>1, <4>2 DEF ReadProgress, Writes
      <4>3. CASE Running(v) /\ ~work[v].met /\ ~Writes(work[v].op)
        BY <1>9, <1>11, <4>1, <4>3 DEF ReadProgress, Reads
      <4> QED BY <4>2, <4>3
    <3> QED BY <3>1, <3>2
  <2>5. ASSUME NEW j \in Keys, WritersOf(j)' = {}, j \notin worn'
        PROVE  Kept(LastWrite(j), j)'
    <3>1. CASE j = k
      <4>1. ~Writing(w)' /\ Kept(n, k)'
        BY <1>k, <1>w, <2>5, <3>1, WritersAre
      <4>2. ~work[w].met
        BY <2>5, <3>1
      <4>3. LastWrite(k) = n
        BY <4>2, LastOf DEF ObjectsInv, OverlapsWear
      <4> QED BY <1>8, <3>1, <4>1, <4>3 DEF Kept
    <3>2. CASE j # k
      <4>1. Kept(LastWrite(j), j)
        BY <1>3, <1>n, <2>1, <2>5, <3>2 DEF Directory
      <4> QED BY <1>8, <1>11, <1>u, <3>2, <4>1 DEF Kept, There
    <3> QED BY <3>1, <3>2
  <2> QED BY <1>u, <2>1, <2>2, <2>3, <2>4, <2>5 DEF Directory
<1>13. Bucket'
  BY <1>u DEF Bucket
<1>14. AnswersFollowWrites' /\ ListsFailByWrites'
  <2>1. AnswersFollowWrites'
    BY <1>u, <1>w DEF ObjectsInv, AnswersFollowWrites, There, Holds, Reads
  <2>2. ListsFailByWrites'
    BY <1>w DEF ObjectsInv, ListsFailByWrites
  <2> QED BY <2>1, <2>2
<1> QED BY <1>1, <1>4, <1>5, <1>7, <1>10, <1>12, <1>13, <1>14 DEF ObjectsInv

\* A write ends in the bucket or the table, or its source fails.
LEMMA RemoteWrite ==
  ASSUME ObjectsInv, adapter # "local", NEW w \in Workers, Writing(w), NEW r, WorkPut(w, r),
         r.op = "none", r.n = 0, ~Running(w)',
         NEW k, k = work[w].key, NEW n, n = work[w].n,
         UNCHANGED <<adapter, disk, log>>, faults' \in 0 .. MaxFaults,
         object' \in [Keys -> Numbers], blob' \in [Contents -> Numbers],
         \A j \in Keys \ {k} : object'[j] = object[j], adapter # "s3" => object' = object,
         \/ worn' = worn
         \/ worn' = worn \ {k} /\ ~work[w].met,
         \/ /\ undone' = undone
            /\ adapter = "s3" => object'[k] = IF log[n].op = "put" THEN n ELSE 0
         \/ undone' = undone \cup {n} /\ object' = object /\ worn' = worn
  PROVE  ObjectsInv'
<1>u. UNCHANGED <<adapter, made, file, data, meta, log>>
  BY DEF disk
<1>n. Names' = Names /\ Call' = Call /\ Entry' = Entry
  BY <1>u DEF Names, Call, Entry
<1>w. work'[w] = r /\ \A v \in Workers \ {w} : work'[v] = work[v]
  BY DEF WorkPut
<1>k. /\ k \in Names /\ n \in DOMAIN log \ undone /\ log[n].key = k
      /\ log[n].op \in {"put", "delete"} /\ log[n].op = work[w].op
      /\ \A v \in Workers \ {w} : Writing(v) => work[v].n # n
  BY DEF ObjectsInv, CallShape, Writing, Writes
<1>1. Typed'
  BY <1>u, <1>n, <1>k DEF ObjectsInv, Typed, WorkPut
<1>2. \A v \in Workers \ {w} : Writing(v)' = Writing(v) /\ Running(v)' = Running(v)
  BY <1>w DEF Writing, Running
<1>3. ~Writing(w)' /\ ~Writes(work'[w].op)
  BY <1>w DEF Writing, Writes
<1>4. HaveLast' /\ ObjectsArePuts' /\ FilesAreOfTheirKey'
  <2>1. HaveLast' /\ FilesAreOfTheirKey'
    BY <1>u DEF ObjectsInv, HaveLast, FilesAreOfTheirKey, Putting
  <2>2. CASE adapter = "s3"
    <3>1. \A j \in Keys : object'[j] = object[j] \/ object'[j] = 0
                          \/ (object'[j] = n /\ log[n].op = "put")
      BY <2>2
    <3> QED BY <1>k, <1>u, <2>1, <3>1 DEF ObjectsInv, ObjectsArePuts
  <2>3. CASE adapter # "s3"
    BY <1>u, <2>1, <2>3 DEF ObjectsInv, ObjectsArePuts, Bucket
  <2> QED BY <2>2, <2>3
<1>5. \A v \in Workers : CallShape(v)'
  <2>1. CallShape(w)'
    BY <1>w, <1>3 DEF CallShape, Writes
  <2>2. ASSUME NEW v \in Workers \ {w}
        PROVE  CallShape(v)'
    <3>1. CallShape(v) /\ work'[v] = work[v]
      BY <1>w DEF ObjectsInv
    <3>2. Writing(v) => work[v].n \in DOMAIN log \ undone'
      BY <1>k, <3>1 DEF CallShape
    <3> QED BY <1>2, <1>3, <1>u, <1>n, <1>w, <3>1, <3>2 DEF CallShape, Putting
  <2> QED BY <2>1, <2>2
<1>6. \A v \in Workers \ {w} : (Writing(v) /\ work[v].key = k) => worn' = worn
  BY DEF ObjectsInv, OverlapsWear
<1>7. OverlapsWear'
  <2>1. ASSUME NEW v \in Workers, NEW u \in Workers, Writing(v)', Writing(u)', v # u,
               work'[v].key = work'[u].key
        PROVE  work'[v].met /\ work'[v].key \in worn'
    <3>1. v # w /\ u # w
      BY <1>3, <2>1
    <3>2. Writing(v) /\ work[v].met /\ work[v].key \in worn
      BY <1>2, <1>w, <2>1, <3>1 DEF ObjectsInv, OverlapsWear
    <3> QED BY <1>6, <1>w, <3>1, <3>2
  <2>2. ASSUME NEW v \in Workers, Writing(v)'
        PROVE  IF work'[v].met THEN work'[v].key \in worn'
               ELSE IsLast(work[v].n, work[v].key)'
    <3>1. v # w /\ Writing(v) /\ work'[v] = work[v]
      BY <1>2, <1>3, <1>w, <2>2
    <3>2. CASE work[v].met
      BY <1>6, <3>1, <3>2 DEF ObjectsInv, OverlapsWear
    <3>3. CASE ~work[v].met
      <4>1. IsLast(work[v].n, work[v].key) /\ work[v].n # n
        BY <1>k, <3>1, <3>3 DEF ObjectsInv, OverlapsWear
      <4>2. undone' \in {undone, undone \cup {n}}
        OBVIOUS
      <4>3. IsLast(work[v].n, work[v].key)'
        BY <1>u, <3>1, <4>1, <4>2 DEF IsLast
      <4> QED BY <3>1, <3>3, <4>3
    <3> QED BY <3>2, <3>3
  <2>3. \A v \in Workers : Writing(v)' => work'[v] = work[v]
    BY <1>3, <1>w
  <2> QED BY <2>1, <2>2, <2>3 DEF OverlapsWear
<1>8. ASSUME NEW v \in Workers
      PROVE  ReadsAlone(v)'
  <2>1. CASE v = w
    BY <2>1 DEF ReadsAlone
  <2>2. CASE v # w
    <3>1. work'[v] = work[v] /\ Running(v)' = Running(v) /\ ReadsAlone(v)
      BY <1>2, <1>w, <2>2 DEF ObjectsInv
    <3>2. CASE Running(v) /\ ~work[v].met
      <4>1. work[v].op # "list"
        BY <3>1, <3>2 DEF ReadsAlone
      <4>2. ASSUME work[v].op \in Reads
            PROVE  /\ work[v].key # k /\ WritersOf(work[v].key) = {}
                   /\ work[v].key \notin worn /\ work[v].n = LastWrite(work[v].key)
        BY <3>1, <3>2, <4>2, WritersAre DEF ReadsAlone
      <4>3. \A j : j # k => LastWrite(j)' = LastWrite(j)
        <5> SUFFICES ASSUME NEW j, j # k
                     PROVE  LastWrite(j)' = LastWrite(j)
          OBVIOUS
        <5>1. {m \in DOMAIN log' : log'[m].key = j /\ m \notin undone'}
                = {m \in DOMAIN log : log[m].key = j /\ m \notin undone}
          BY <1>k, <1>u
        <5> QED BY <5>1 DEF LastWrite
      <4>4. WritersOf(work[v].key) = {} => WritersOf(work[v].key)' = {}
        BY <1>2, <1>3, <1>w, <3>1, WritersAre
      <4> QED BY <3>1, <4>1, <4>2, <4>3, <4>4 DEF ReadsAlone
    <3> QED BY <3>1, <3>2 DEF ReadsAlone
  <2> QED BY <2>1, <2>2
<1>9. Directory'
  BY <1>u DEF Directory
<1>10. Bucket'
  <2> SUFFICES ASSUME adapter = "s3", NEW j \in Keys, j \notin worn'
               PROVE  BucketAt(j)'
    BY <1>u DEF Bucket
  <2>1. Done(j)' = {m \in DOMAIN log \ undone' :
                      log[m].key = j /\ \A v \in Workers \ {w} : Writing(v) => work[v].n # m}
    <3>1. \A m : (\A v \in Workers : Writing(v)' => work'[v].n # m)
                   <=> (\A v \in Workers \ {w} : Writing(v) => work[v].n # m)
      BY <1>2, <1>3, <1>w
    <3> QED BY <1>u, <3>1 DEF Done
  <2>2. Done(j) = {m \in DOMAIN log \ undone : log[m].key = j /\ m # n
                      /\ \A v \in Workers \ {w} : Writing(v) => work[v].n # m}
    BY DEF Done
  <2>3. CASE Done(j)' = Done(j) /\ object'[j] = object[j] /\ j \notin worn
    <3>1. BucketAt(j)
      BY <2>3 DEF ObjectsInv, Bucket
    <3> QED BY <1>u, <2>3, <3>1 DEF BucketAt
  <2>4. CASE j # k
    <3>1. Done(j)' = Done(j)
      BY <1>k, <2>1, <2>2, <2>4
    <3> QED BY <2>3, <2>4, <3>1
  <2>5. CASE j = k /\ undone' = undone \cup {n} /\ object' = object /\ worn' = worn
    <3>1. Done(j)' = Done(j)
      BY <2>1, <2>2, <2>5
    <3> QED BY <2>3, <2>5, <3>1
  <2>6. CASE j = k /\ undone' = undone /\ object'[k] = IF log[n].op = "put" THEN n ELSE 0
    <3>1. IsLast(n, k)
      <4>1. ~work[w].met
        BY <2>6 DEF ObjectsInv, OverlapsWear
      <4> QED BY <4>1 DEF ObjectsInv, OverlapsWear
    <3>2. n \in Done(j)'
      BY <1>k, <2>1, <2>6
    <3>3. \A m \in Done(j)' : m <= n
      BY <2>1, <2>6, <3>1 DEF IsLast
    <3> QED BY <1>u, <2>6, <3>2, <3>3 DEF BucketAt
  <2> QED BY <2>4, <2>5, <2>6
<1>11. AnswersFollowWrites' /\ ListsFailByWrites'
  <2>1. AnswersFollowWrites'
    BY <1>u, <1>w DEF ObjectsInv, AnswersFollowWrites, There, Holds, Reads
  <2>2. ListsFailByWrites'
    BY <1>w DEF ObjectsInv, ListsFailByWrites
  <2> QED BY <2>1, <2>2
<1> QED BY <1>1, <1>4, <1>5, <1>7, <1>8, <1>9, <1>10, <1>11 DEF ObjectsInv

\* A call that has ended and left nothing to read.
LEMMA FreeCalls ==
  /\ 0 \in Numbers /\ Empty \in Numbers \X Numbers
  /\ Free \in Call /\ Free.n = 0 /\ Free.op = "none" /\ Free.f = 0 /\ ~Free.met
  /\ \A a \in Over : LET r == [Free EXCEPT !.at = a]
                     IN  r \in Call /\ r.at = a /\ r.op = "none" /\ r.n = 0 /\ r.f = 0
                         /\ ~r.met /\ r.key = "none"
<1>1. 0 \in Numbers /\ Empty \in Numbers \X Numbers
  BY StorageAssumption DEF Numbers, Empty
<1> QED BY <1>1 DEF Call, Free, Over

\* A put or a delete starts.
LEMMA WriteStarts ==
  ASSUME ObjectsInv, NEW w \in Workers, NEW e \in Entry, StartWrite(w, e)
  PROVE  ObjectsInv'
<1> DEFINE n == Len(log) + 1
           k == e.key
<1>e. k \in Names /\ e.op \in {"put", "delete"} /\ Keys \subseteq Names
  BY DEF Entry, Names
<1>u. UNCHANGED <<adapter, made, file, data, meta, object, blob, undone, faults>>
  BY DEF StartWrite, disk, remote
<1>n. Names' = Names /\ Call' = Call /\ Entry' = Entry
  BY <1>u DEF Names, Call, Entry
<1>l. /\ Len(log) \in Nat /\ n <= MaxWrites /\ n \in Numbers \ {0} /\ n \notin DOMAIN log
      /\ log' \in Seq(Entry) /\ Len(log') = n /\ DOMAIN log' = DOMAIN log \cup {n}
      /\ log'[n] = e /\ \A m \in DOMAIN log : log'[m] = log[m]
  <2>1. log \in Seq(Entry) /\ log' = Append(log, e) /\ n <= MaxWrites
    BY DEF ObjectsInv, Typed, StartWrite
  <2>2. /\ Len(log) \in Nat /\ log' \in Seq(Entry) /\ Len(log') = n
        /\ log'[n] = e /\ \A m \in 1 .. Len(log) : log'[m] = log[m]
    BY <2>1
  <2>3. DOMAIN log = 1 .. Len(log) /\ DOMAIN log' = 1 .. n
    BY <2>1, <2>2
  <2> QED BY StorageAssumption, <2>1, <2>2, <2>3 DEF Numbers
<1>w. /\ work' = [v \in Workers |->
              IF v = w THEN [Free EXCEPT !.op = e.op, !.at = "new", !.key = k, !.n = n,
                                         !.met = WritersOf(k) # {}]
              ELSE IF v \in Meeting(k) THEN [work[v] EXCEPT !.met = TRUE] ELSE work[v]]
      /\ worn' = IF WritersOf(k) # {} THEN worn \cup {k} ELSE worn
      /\ ~Running(w)
  BY DEF StartWrite
<1> HIDE DEF n, k
\* The new call, and the calls it meets.
<1>b. PICK met \in BOOLEAN : met <=> WritersOf(k) # {}
  OBVIOUS
<1>c. PICK r : r = [Free EXCEPT !.op = e.op, !.at = "new", !.key = k, !.n = n,
                                !.met = WritersOf(k) # {}]
  OBVIOUS
<1>r. /\ r \in Call /\ r.op = e.op /\ r.at = "new" /\ r.key = k /\ r.n = n
      /\ r.met <=> WritersOf(k) # {}
      /\ r.got = Empty /\ r.own = 0 /\ work'[w] = r
  <2>1. r = [Free EXCEPT !.op = e.op, !.at = "new", !.key = k, !.n = n, !.met = met]
    BY <1>b, <1>c
  <2>2. /\ r.op = e.op /\ r.at = "new" /\ r.key = k /\ r.n = n /\ r.met = met
        /\ r.f = 0 /\ r.got = Empty /\ r.own = 0 /\ r.left = {}
        /\ r = [op |-> r.op, at |-> r.at, key |-> r.key, n |-> r.n, met |-> r.met, f |-> r.f,
                got |-> r.got, own |-> r.own, left |-> r.left]
    BY <2>1 DEF Free
  <2>3. 0 \in Numbers /\ Empty \in Numbers \X Numbers
    BY StorageAssumption DEF Numbers, Empty
  <2>4. r \in Call
    <3> HIDE DEF n, k
    <3> QED BY <1>b, <1>e, <1>l, <2>2, <2>3 DEF Call, k
  <2>5. work'[w] = r
    BY <1>c, <1>w
  <2> QED BY <1>b, <2>2, <2>4, <2>5
<1>p. ASSUME NEW v \in Workers \ {w}
      PROVE  /\ work'[v].op = work[v].op /\ work'[v].at = work[v].at
             /\ work'[v].key = work[v].key /\ work'[v].n = work[v].n
             /\ work'[v].f = work[v].f /\ work'[v].got = work[v].got
             /\ work'[v].own = work[v].own /\ work'[v].left = work[v].left
             /\ work'[v].met <=> (work[v].met \/ v \in Meeting(k))
             /\ v \notin Meeting(k) => work'[v] = work[v]
             /\ work'[v] \in Call
  <2>1. work[v] \in Call
    BY DEF ObjectsInv, Typed
  <2>2. CASE v \in Meeting(k)
    <3>1. work'[v] = [work[v] EXCEPT !.met = TRUE]
      BY <1>w, <2>2
    <3> QED BY <2>1, <2>2, <3>1 DEF Call
  <2>3. CASE v \notin Meeting(k)
    <3>1. work'[v] = work[v]
      BY <1>w, <2>3
    <3> QED BY <2>1, <2>3, <3>1
  <2> QED BY <2>2, <2>3
<1>o. \A v \in Workers \ {w} :
        /\ work'[v].op = work[v].op /\ work'[v].at = work[v].at
        /\ work'[v].key = work[v].key /\ work'[v].n = work[v].n
        /\ work'[v].f = work[v].f /\ work'[v].got = work[v].got
        /\ work'[v].own = work[v].own /\ work'[v].left = work[v].left
        /\ work'[v].met <=> (work[v].met \/ v \in Meeting(k))
        /\ v \notin Meeting(k) => work'[v] = work[v]
        /\ Running(v)' <=> Running(v)
        /\ Writing(v)' <=> Writing(v)
  BY <1>p DEF Running, Writing
<1>x. worn \subseteq worn' /\ (WritersOf(k) # {} => k \in worn')
  BY <1>w
<1>m. Running(w)' /\ Writing(w)' /\ ~Writing(w)
  BY <1>e, <1>r, <1>w DEF Running, Writing, Writes
<1>1. Typed'
  <2>1. work' \in [Workers -> Call]
    <3>1. \A v \in Workers : work'[v] \in Call
      BY <1>p, <1>r
    <3> QED BY <1>w, <3>1
  <2>2. worn' \subseteq Names /\ undone' \subseteq DOMAIN log'
    BY <1>e, <1>l, <1>u, <1>w DEF ObjectsInv, Typed
  <2> QED BY <1>l, <1>n, <1>u, <2>1, <2>2 DEF ObjectsInv, Typed
<1>2. HaveLast'
  <2> SUFFICES ASSUME NEW M \in SUBSET (DOMAIN log \cup {n}), M # {}
               PROVE  \E m \in M : \A j \in M : j <= m
    BY <1>l DEF HaveLast
  <2>1. \A j \in M : j <= n
    BY <1>l DEF n, ObjectsInv, Typed
  <2>2. CASE n \in M
    BY <2>1, <2>2
  <2>3. CASE n \notin M
    BY <2>3 DEF ObjectsInv, HaveLast
  <2> QED BY <2>2, <2>3
<1>3. \A f, j : Putting(f, j) => Putting(f, j)'
  BY <1>l DEF Putting
<1>4. FilesAreOfTheirKey' /\ ObjectsArePuts'
  BY <1>3, <1>l, <1>u DEF ObjectsInv, FilesAreOfTheirKey, ObjectsArePuts
<1>5. ASSUME NEW v \in Workers
      PROVE  CallShape(v)'
  <2>1. CASE v = w
    <3>1. \A u \in Workers \ {w} : Writing(u)' => work'[u].n # n
      BY <1>l, <1>o DEF ObjectsInv, CallShape
    <3>2. n \in DOMAIN log' \ undone'
      BY <1>l, <1>u DEF ObjectsInv, Typed
    <3>3. work'[w].at \in StagesOf(work'[w].op)
      BY <1>e, <1>r DEF StagesOf
    <3>4. /\ work'[w].n = n /\ log'[n].op = work'[w].op /\ log'[n].key = work'[w].key
          /\ work'[w].got = Empty /\ work'[w].own = 0
          /\ work'[w].at = "new" /\ work'[w].key \in Names' /\ n \in DOMAIN log' \cup {0}
      BY <1>e, <1>l, <1>n, <1>r DEF k
    <3>5. \A u \in Workers : Writing(u)' /\ work'[u].n = work'[w].n => u = w
      BY <3>1, <3>4
    <3> QED BY <1>m, <2>1, <3>2, <3>3, <3>4, <3>5 DEF CallShape
  <2>2. CASE v # w
    <3>1. CallShape(v) /\ \A u \in Workers : CallShape(u)
      BY DEF ObjectsInv
    <3>2. /\ work'[v].n \in DOMAIN log' \cup {0}
          /\ Running(v)' => work'[v].at \in StagesOf(work'[v].op)
          /\ (Running(v)' /\ adapter' # "local") => work'[v].at = "new"
          /\ (Running(v)' /\ work'[v].at = "new") => work'[v].got = Empty /\ work'[v].own = 0
          /\ Writes(work'[v].op) => Running(v)'
          /\ (Running(v)' /\ work'[v].op # "list") => work'[v].key \in Names'
      BY <1>l, <1>n, <1>o, <1>u, <2>2, <3>1 DEF CallShape
    <3>3. ASSUME Writing(v)'
          PROVE  /\ work'[v].n \in DOMAIN log' \ undone'
                 /\ log'[work'[v].n].op = work'[v].op /\ log'[work'[v].n].key = work'[v].key
      BY <1>l, <1>o, <1>u, <2>2, <3>1, <3>3 DEF CallShape
    <3>4. ASSUME Writing(v)', NEW u \in Workers, Writing(u)', work'[u].n = work'[v].n
          PROVE  u = v
      <4>1. work[v].n \in DOMAIN log
        BY <1>o, <2>2, <3>1, <3>4 DEF CallShape
      <4>2. u # w
        BY <1>l, <1>o, <1>r, <2>2, <3>4, <4>1
      <4> QED BY <1>o, <2>2, <3>1, <3>4, <4>2 DEF CallShape
    <3>5. (Running(v)' /\ work'[v].op = "put" /\ work'[v].at \in {"first", "second"})
             => Putting(work[v].f, work[v].key)'
      <4> SUFFICES ASSUME Running(v), work[v].op = "put", work[v].at \in {"first", "second"}
                   PROVE  Putting(work[v].f, work[v].key)'
        BY <1>o, <2>2
      <4>1. Putting(work[v].f, work[v].key)
        BY <3>1 DEF CallShape
      <4> QED BY <1>l, <1>o, <2>2, <4>1 DEF Putting
    <3>6. (Running(v)' /\ work'[v].op = "get" /\ work'[v].at = "second")
             => work'[v].f \in 1 .. MaxWrites
      BY <1>o, <2>2, <3>1 DEF CallShape
    <3> QED BY <3>2, <3>3, <3>4, <3>5, <3>6 DEF CallShape
  <2> QED BY <2>1, <2>2
<1>6. \A v \in Workers \ {w} : (Writing(v)' /\ work'[v].key = k)
        => work'[v].met /\ work'[w].met /\ k \in worn'
  <2> SUFFICES ASSUME NEW v \in Workers \ {w}, Writing(v)', work'[v].key = k
               PROVE  work'[v].met /\ work'[w].met /\ k \in worn'
    OBVIOUS
  <2>1. v \in WritersOf(k) /\ v \in Meeting(k)
    BY <1>o, WritersAre DEF WritersOf
  <2> QED BY <1>o, <1>r, <1>w, <2>1
<1>7. OverlapsWear'
  <2>1. ASSUME NEW v \in Workers, NEW u \in Workers, Writing(v)', Writing(u)', v # u,
               work'[v].key = work'[u].key
        PROVE  work'[v].met /\ work'[v].key \in worn'
    <3>1. CASE v = w
      BY <1>6, <1>r, <2>1, <3>1
    <3>2. CASE u = w
      BY <1>6, <1>r, <2>1, <3>2
    <3>3. CASE v # w /\ u # w
      <4>1. work[v].met /\ work[v].key \in worn
        BY <1>o, <2>1, <3>3 DEF ObjectsInv, OverlapsWear
      <4> QED BY <1>o, <1>x, <3>3, <4>1
    <3> QED BY <3>1, <3>2, <3>3
  <2>2. ASSUME NEW v \in Workers, Writing(v)', work'[v].met
        PROVE  work'[v].key \in worn'
    <3>1. CASE v = w
      BY <1>r, <1>x, <2>2, <3>1
    <3>2. CASE v # w /\ work[v].met
      BY <1>o, <1>x, <2>2, <3>2 DEF ObjectsInv, OverlapsWear
    <3>3. CASE v # w /\ v \in Meeting(k)
      <4>1. Writing(v) /\ work'[v].key = work[v].key
        BY <1>o, <2>2, <3>3
      <4>2. work[v].key = k
        BY <3>3, <4>1 DEF Meeting, Writing, Writes
      <4> QED BY <1>6, <2>2, <3>3, <4>1, <4>2
    <3> QED BY <1>o, <2>2, <3>1, <3>2, <3>3
  <2>3. ASSUME NEW v \in Workers, Writing(v)', ~work'[v].met
        PROVE  IsLast(work[v].n, work[v].key)'
    <3>1. CASE v = w
      <4>1. work'[v].n = n /\ work'[v].key = k /\ n \in DOMAIN log' \ undone' /\ log'[n].key = k
        BY <1>l, <1>r, <1>u, <3>1 DEF k, ObjectsInv, Typed
      <4>2. \A m \in DOMAIN log' : m <= n
        BY <1>l DEF n, ObjectsInv, Typed
      <4> QED BY <4>1, <4>2 DEF IsLast
    <3>2. CASE v # w
      <4>1. IsLast(work[v].n, work[v].key) /\ work[v].key # k
        BY <1>6, <1>o, <2>3, <3>2 DEF ObjectsInv, OverlapsWear
      <4> QED BY <1>l, <1>o, <1>u, <1>e, <3>2, <4>1 DEF IsLast, k
    <3> QED BY <3>1, <3>2
  <2> QED BY <2>1, <2>2, <2>3 DEF OverlapsWear
<1>8. \A j : j # k => LastWrite(j)' = LastWrite(j)
  <2> SUFFICES ASSUME NEW j, j # k
               PROVE  LastWrite(j)' = LastWrite(j)
    OBVIOUS
  <2>1. {m \in DOMAIN log' : log'[m].key = j /\ m \notin undone'}
          = {m \in DOMAIN log : log[m].key = j /\ m \notin undone}
    BY <1>l, <1>u DEF k
  <2> QED BY <2>1 DEF LastWrite
<1>9. \A j : j # k => WritersOf(j)' = WritersOf(j)
  <2> SUFFICES ASSUME NEW j, j # k
               PROVE  WritersOf(j)' = WritersOf(j)
    OBVIOUS
  <2>1. \A v \in Workers : (Writing(v) /\ work[v].key = j) <=> (Writing(v)' /\ work'[v].key = j)
    BY <1>m, <1>o, <1>r
  <2> QED BY <2>1, WritersAre
\* A read or a list that met no write has not met this one.
<1>10. ASSUME NEW v \in Workers \ {w}, Running(v), ~work'[v].met
       PROVE  v \notin Meeting(k) /\ work'[v] = work[v] /\ work[v].op # "list" /\ work[v].key # k
  BY <1>o, <1>10 DEF Meeting
<1>11. ASSUME NEW v \in Workers
       PROVE  ReadsAlone(v)'
  <2>1. CASE v = w
    BY <1>e, <1>r, <2>1 DEF ReadsAlone, Reads
  <2>2. CASE v # w
    <3> SUFFICES ASSUME Running(v)', ~work'[v].met
                 PROVE  ReadsAlone(v)'
      BY DEF ReadsAlone
    <3>1. Running(v)' = Running(v) /\ ReadsAlone(v)
      BY <1>o, <2>2 DEF ObjectsInv
    <3>2. work'[v] = work[v] /\ work[v].op # "list" /\ work[v].key # k
      BY <1>10, <2>2, <3>1
    <3>3. work[v].key \notin worn => work[v].key \notin worn'
      BY <1>w, <3>2
    <3> QED BY <1>8, <1>9, <3>1, <3>2, <3>3 DEF ReadsAlone
  <2> QED BY <2>1, <2>2
<1>12. Directory'
  <2> SUFFICES ASSUME adapter = "local"
               PROVE  Directory'
    BY <1>u DEF Directory
  <2>1. Directory
    BY DEF ObjectsInv
  <2>2. MetaHasFile'
    <3> SUFFICES ASSUME NEW j \in Keys, j \notin worn', file[j] = 0, meta[j] # 0
                 PROVE  \E v \in Workers : /\ Writing(v)' /\ work'[v].key = j
                                           /\ work'[v].op = "delete" /\ work'[v].at = "meta"
      BY <1>u DEF MetaHasFile
    <3>1. PICK v \in Workers : /\ Writing(v) /\ work[v].key = j
                               /\ work[v].op = "delete" /\ work[v].at = "meta"
      BY <1>w, <2>1 DEF Directory, MetaHasFile
    <3> QED BY <1>m, <1>o, <3>1
  <2>3. ASSUME NEW v \in Workers
        PROVE  WriteProgress(v)' /\ ReadProgress(v)'
    <3>1. CASE v = w
      <4>1. WriteProgress(v)'
        BY <1>e, <1>r, <3>1 DEF WriteProgress
      <4>2. ReadProgress(v)'
        BY <1>e, <1>r, <3>1 DEF ReadProgress
      <4> QED BY <4>1, <4>2
    <3>2. CASE v # w
      <4>1. WriteProgress(v) /\ ReadProgress(v) /\ CallShape(v)
        BY <2>1 DEF Directory, ObjectsInv
      <4>2. WriteProgress(v)'
        <5> SUFFICES ASSUME Writing(v)', ~work'[v].met
                     PROVE  WriteProgress(v)'
          BY DEF WriteProgress
        <5>1. Writing(v) /\ work'[v] = work[v]
          BY <1>10, <1>o, <3>2 DEF Writing
        <5>2. log'[work[v].n] = log[work[v].n]
          BY <1>l, <4>1, <5>1 DEF CallShape
        <5> QED BY <1>u, <4>1, <5>1, <5>2 DEF WriteProgress
      <4>3. ReadProgress(v)'
        BY <1>10, <1>o, <1>u, <3>2, <4>1 DEF ReadProgress
      <4> QED BY <4>2, <4>3
    <3> QED BY <3>1, <3>2
  <2>4. ASSUME NEW j \in Keys, WritersOf(j)' = {}, j \notin worn'
        PROVE  Kept(LastWrite(j), j)'
    <3>1. j # k
      BY <1>m, <1>r, <2>4, WritersAre
    <3>2. Kept(LastWrite(j), j)
      BY <1>9, <1>w, <2>1, <2>4, <3>1 DEF Directory
    <3>3. LastWrite(j) \in DOMAIN log \cup {0}
      BY LastOf DEF ObjectsInv
    <3>4. LastWrite(j) # 0 => log'[LastWrite(j)] = log[LastWrite(j)]
      BY <1>l, <3>3
    <3> QED BY <1>8, <1>u, <3>1, <3>2, <3>3, <3>4 DEF Kept, There
  <2> QED BY <1>u, <2>1, <2>2, <2>3, <2>4 DEF Directory
<1>13. Bucket'
  <2> SUFFICES ASSUME adapter = "s3", NEW j \in Keys, j \notin worn'
               PROVE  BucketAt(j)'
    BY <1>u DEF Bucket
  <2>1. BucketAt(j)
    BY <1>w DEF ObjectsInv, Bucket
  <2>2. Done(j)' = Done(j)
    <3>1. \A m \in DOMAIN log : (\A v \in Workers : Writing(v)' => work'[v].n # m)
                                  <=> (\A v \in Workers : Writing(v) => work[v].n # m)
      BY <1>l, <1>m, <1>o, <1>r
    <3>2. \A m \in Done(j)' : m \in Done(j)
      BY <1>l, <1>m, <1>r, <1>u, <3>1 DEF Done
    <3>3. \A m \in Done(j) : m \in Done(j)'
      BY <1>l, <1>u, <3>1 DEF Done
    <3> QED BY <3>2, <3>3
  <2>3. \A m \in Done(j) : log'[m] = log[m]
    BY <1>l DEF Done
  <2> QED BY <1>u, <2>1, <2>2, <2>3 DEF BucketAt
<1>14. AnswersFollowWrites' /\ ListsFailByWrites'
  <2>1. ASSUME NEW v \in Workers \ {w}, work[v].at \in {"ok", "missing", "error"}
        PROVE  work'[v] = work[v] /\ \A m \in {work[v].n} : m # 0 => log'[m] = log[m]
    BY <1>l, <1>o, <2>1 DEF Meeting, Running, ObjectsInv, CallShape
  <2>2. work'[w].at = "new"
    BY <1>r
  <2>3. AnswersFollowWrites'
    <3> SUFFICES ASSUME NEW v \in Workers \ {w}, adapter # "vedadb", ~work'[v].met,
                        work'[v].at \in {"ok", "missing"}, work'[v].op \in Reads
                 PROVE  (/\ work[v].at = "ok" <=> There(work[v].n)
                         /\ work[v].op # "exists" => Holds(work[v].n, work[v].got,
                              IF work[v].op = "get" /\ There(work[v].n) THEN work[v].n
                              ELSE work[v].own))'
      BY <1>u, <2>2 DEF AnswersFollowWrites, Reads
    <3>1. work'[v] = work[v] /\ (work[v].n # 0 => log'[work[v].n] = log[work[v].n])
      BY <1>o, <2>1
    <3> QED BY <3>1 DEF ObjectsInv, AnswersFollowWrites, There, Holds, Reads
  <2>4. ListsFailByWrites'
    BY <1>o, <2>1, <2>2 DEF ObjectsInv, ListsFailByWrites
  <2> QED BY <2>3, <2>4
<1> QED BY <1>1, <1>2, <1>4, <1>5, <1>7, <1>11, <1>12, <1>13, <1>14 DEF ObjectsInv

\* The process ends, and every call with it.
LEMMA CallsEnd ==
  ASSUME ObjectsInv, StorageRestart
  PROVE  ObjectsInv'
<1>u. UNCHANGED <<adapter, made, file, data, meta, object, blob, log>>
  BY DEF StorageRestart, disk, remote
<1>n. Names' = Names /\ Call' = Call /\ Entry' = Entry
  BY <1>u DEF Names, Call, Entry
<1>r. PICK r : r = [Free EXCEPT !.at = "error"]
  OBVIOUS
<1>f. r \in Call /\ r.at = "error" /\ r.op = "none" /\ r.n = 0 /\ r.f = 0
  BY <1>r, FreeCalls DEF Over
<1>w. \A v \in Workers : work'[v] = IF Running(v) THEN r ELSE work[v]
  BY <1>r DEF StorageRestart
<1>c. \A v \in Workers : CallShape(v)
  BY DEF ObjectsInv
<1>s. \A v \in Workers : ~Running(v)' /\ ~Writing(v)' /\ ~Writes(work'[v].op)
  <2>1. \A v \in Workers : ~Running(v)'
    BY <1>f, <1>w DEF Running
  <2>2. \A v \in Workers : ~Writes(work'[v].op)
    BY <1>c, <1>f, <1>w DEF Writes, CallShape
  <2> QED BY <2>1, <2>2 DEF Writing
<1>h. /\ adapter = "local" => /\ undone' = undone
                              /\ worn' = worn \cup
                                     {work[v].key : v \in {u \in Workers : Writing(u)}}
      /\ adapter # "local" => /\ worn' = worn
                              /\ undone' = undone \cup
                                     {work[v].n : v \in {u \in Workers : Writing(u)}}
  BY DEF StorageRestart, Writing
<1>1. Typed'
  <2>1. work' \in [Workers -> Call]
    <3>1. \A v \in Workers : work'[v] \in Call
      BY <1>f, <1>w DEF ObjectsInv, Typed
    <3> QED BY <3>1 DEF StorageRestart
  <2>2. worn' \subseteq Names
    BY <1>c, <1>h DEF ObjectsInv, Typed, CallShape, Writing, Writes
  <2>3. undone' \subseteq DOMAIN log
    BY <1>c, <1>h DEF ObjectsInv, Typed, CallShape
  <2>4. faults' \in 0 .. MaxFaults
    BY StorageAssumption DEF ObjectsInv, Typed, StorageRestart, Fault
  <2> QED BY <1>n, <1>u, <2>1, <2>2, <2>3, <2>4 DEF ObjectsInv, Typed
<1>2. HaveLast' /\ FilesAreOfTheirKey' /\ ObjectsArePuts'
  BY <1>u DEF ObjectsInv, HaveLast, FilesAreOfTheirKey, ObjectsArePuts, Putting
<1>3. \A v \in Workers : CallShape(v)'
  <2>1. \A v \in Workers : work'[v].n \in DOMAIN log \cup {0}
    BY <1>c, <1>f, <1>w DEF CallShape
  <2> QED BY <1>s, <1>u, <2>1 DEF CallShape
<1>4. OverlapsWear' /\ \A v \in Workers : ReadsAlone(v)'
  BY <1>s DEF OverlapsWear, ReadsAlone
<1>5. Directory'
  <2> SUFFICES ASSUME adapter = "local"
               PROVE  Directory'
    BY <1>u DEF Directory
  <2>1. Directory
    BY DEF ObjectsInv
  <2>2. \A j : j \notin worn' => j \notin worn /\ WritersOf(j) = {}
    BY <1>h, WritersAre
  <2>3. MetaHasFile'
    BY <1>u, <2>1, <2>2, WritersAre DEF Directory, MetaHasFile
  <2>4. \A v \in Workers : WriteProgress(v)' /\ ReadProgress(v)'
    BY <1>s DEF WriteProgress, ReadProgress
  <2>5. ASSUME NEW j \in Keys, j \notin worn'
        PROVE  Kept(LastWrite(j), j)'
    <3>1. Kept(LastWrite(j), j)
      BY <2>1, <2>2, <2>5 DEF Directory
    <3>2. LastWrite(j)' = LastWrite(j)
      BY <1>h, <1>u DEF LastWrite
    <3> QED BY <1>u, <3>1, <3>2 DEF Kept, There
  <2> QED BY <1>h, <1>u, <2>1, <2>3, <2>4, <2>5 DEF Directory
<1>6. Bucket'
  <2> SUFFICES ASSUME adapter = "s3", NEW j \in Keys, j \notin worn'
               PROVE  BucketAt(j)'
    BY <1>u DEF Bucket
  <2>1. BucketAt(j)
    BY <1>h DEF ObjectsInv, Bucket
  <2>2. Done(j)' = Done(j)
    <3>1. \A m \in DOMAIN log : m \notin undone' <=>
            m \notin undone /\ \A v \in Workers : Writing(v) => work[v].n # m
      BY <1>h
    <3> QED BY <1>s, <1>u, <3>1 DEF Done
  <2> QED BY <1>u, <2>1, <2>2 DEF BucketAt
<1>7. AnswersFollowWrites' /\ ListsFailByWrites'
  <2>1. AnswersFollowWrites'
    BY <1>f, <1>u, <1>w DEF ObjectsInv, AnswersFollowWrites, There, Holds
  <2>2. ListsFailByWrites'
    BY <1>f, <1>w DEF ObjectsInv, ListsFailByWrites
  <2> QED BY <2>1, <2>2
<1> QED BY <1>1, <1>2, <1>3, <1>4, <1>5, <1>6, <1>7 DEF ObjectsInv

\* A call goes on: it keeps what it was asked.
Moved(w, r, at, f, got, own, left) ==
  /\ WorkPut(w, r)
  /\ r.op = work[w].op /\ r.key = work[w].key /\ r.n = work[w].n /\ r.met = work[w].met
  /\ r.at = at /\ r.f = f /\ r.got = got /\ r.own = own /\ r.left = left

Ats == Over \cup {"new", "open", "first", "second", "meta", "stat", "each"}

\* What each of the updates of the module leaves of a call.
LEMMA CallMoves ==
  ASSUME Typed, NEW w \in Workers, UNCHANGED adapter
  PROVE  /\ \A a \in Ats : To(w, a) =>
              \E r : Moved(w, r, a, work[w].f, work[w].got, work[w].own, work[w].left)
         /\ \A a \in Ats : \A f \in Numbers :
              work' = [work EXCEPT ![w].f = f, ![w].at = a] =>
                \E r : Moved(w, r, a, f, work[w].got, work[w].own, work[w].left)
         /\ \A a \in Ats : \A f, x \in Numbers :
              work' = [work EXCEPT ![w].at = a, ![w].f = f, ![w].got[1] = x] =>
                \E r : Moved(w, r, a, f, <<x, work[w].got[2]>>, work[w].own, work[w].left)
         /\ \A a \in Ats : \A x \in Numbers :
              work' = [work EXCEPT ![w].at = a, ![w].got[2] = x] =>
                \E r : Moved(w, r, a, work[w].f, <<work[w].got[1], x>>, work[w].own, work[w].left)
         /\ \A a \in Ats : \A g \in Numbers \X Numbers :
              work' = [work EXCEPT ![w].at = a, ![w].got = g] =>
                \E r : Moved(w, r, a, work[w].f, g, work[w].own, work[w].left)
         /\ \A a \in Ats : \A g \in Numbers \X Numbers : \A o \in Numbers : Ends(w, a, g, o) =>
              \E r : Moved(w, r, a, work[w].f, g, o, work[w].left)
         /\ \A a \in Ats : \A l \in SUBSET Keys :
              work' = [work EXCEPT ![w].at = a, ![w].left = l] =>
                \E r : Moved(w, r, a, work[w].f, work[w].got, work[w].own, l)
         /\ \A l \in SUBSET Keys :
              work' = [work EXCEPT ![w].left = l] =>
                \E r : Moved(w, r, work[w].at, work[w].f, work[w].got, work[w].own, l)
<1>1. work \in [Workers -> Call] /\ work[w] \in Call /\ Call' = Call
  BY DEF Typed, Call, Names
<1>g. work[w].got \in Numbers \X Numbers
  BY <1>1 DEF Call
<1>2. ASSUME NEW r, r \in Call, work' = [work EXCEPT ![w] = r]
      PROVE  WorkPut(w, r)
  BY <1>1, <1>2 DEF WorkPut
<1>4. ASSUME NEW a \in Ats, To(w, a)
      PROVE  \E r : Moved(w, r, a, work[w].f, work[w].got, work[w].own, work[w].left)
  <2>1. PICK r : r = [work[w] EXCEPT !.at = a]
    OBVIOUS
  <2>2. work' = [work EXCEPT ![w] = r]
    BY <1>4, <2>1 DEF To
  <2>3. r \in Call
    BY <1>1, <2>1 DEF Call, Ats
  <2>4. WorkPut(w, r)
    BY <1>2, <2>2, <2>3
  <2>5. Moved(w, r, a, work[w].f, work[w].got, work[w].own, work[w].left)
    BY <1>1, <2>1, <2>4 DEF Call, Moved
  <2> QED BY <2>5
<1>5. ASSUME NEW a \in Ats, NEW f \in Numbers, work' = [work EXCEPT ![w].f = f, ![w].at = a]
      PROVE  \E r : Moved(w, r, a, f, work[w].got, work[w].own, work[w].left)
  <2>1. PICK r : r = [work[w] EXCEPT !.f = f, !.at = a]
    OBVIOUS
  <2>2. work' = [work EXCEPT ![w] = r]
    BY <1>1, <1>5, <2>1
  <2>3. r \in Call
    BY <1>1, <2>1 DEF Call, Ats
  <2>4. WorkPut(w, r)
    BY <1>2, <2>2, <2>3
  <2>5. Moved(w, r, a, f, work[w].got, work[w].own, work[w].left)
    BY <1>1, <2>1, <2>4 DEF Call, Moved
  <2> QED BY <2>5
<1>6. ASSUME NEW a \in Ats, NEW f \in Numbers, NEW x \in Numbers,
             work' = [work EXCEPT ![w].at = a, ![w].f = f, ![w].got[1] = x]
      PROVE  \E r : Moved(w, r, a, f, <<x, work[w].got[2]>>, work[w].own, work[w].left)
  <2>1. PICK r : r = [work[w] EXCEPT !.at = a, !.f = f, !.got[1] = x]
    OBVIOUS
  <2>2. work' = [work EXCEPT ![w] = r]
    BY <1>1, <1>6, <2>1
  <2>3. r.got = <<x, work[w].got[2]>>
    <3>1. r.got = [work[w].got EXCEPT ![1] = x]
      BY <1>1, <2>1 DEF Call
    <3> QED BY <1>g, <3>1, Pairs
  <2>4. r \in Call
    <3>1. r.got \in Numbers \X Numbers
      BY <1>g, <2>3
    <3> QED BY <1>1, <2>1, <3>1 DEF Call, Ats
  <2>5. WorkPut(w, r)
    BY <1>2, <2>2, <2>4
  <2>6. Moved(w, r, a, f, <<x, work[w].got[2]>>, work[w].own, work[w].left)
    BY <1>1, <2>1, <2>3, <2>5 DEF Call, Moved
  <2> QED BY <2>6
<1>7. ASSUME NEW a \in Ats, NEW x \in Numbers, work' = [work EXCEPT ![w].at = a, ![w].got[2] = x]
      PROVE  \E r : Moved(w, r, a, work[w].f, <<work[w].got[1], x>>, work[w].own, work[w].left)
  <2>1. PICK r : r = [work[w] EXCEPT !.at = a, !.got[2] = x]
    OBVIOUS
  <2>2. work' = [work EXCEPT ![w] = r]
    BY <1>1, <1>7, <2>1
  <2>3. r.got = <<work[w].got[1], x>>
    <3>1. r.got = [work[w].got EXCEPT ![2] = x]
      BY <1>1, <2>1 DEF Call
    <3> QED BY <1>g, <3>1, Pairs
  <2>4. r \in Call
    <3>1. r.got \in Numbers \X Numbers
      BY <1>g, <2>3
    <3> QED BY <1>1, <2>1, <3>1 DEF Call, Ats
  <2>5. WorkPut(w, r)
    BY <1>2, <2>2, <2>4
  <2>6. Moved(w, r, a, work[w].f, <<work[w].got[1], x>>, work[w].own, work[w].left)
    BY <1>1, <2>1, <2>3, <2>5 DEF Call, Moved
  <2> QED BY <2>6
<1>8. ASSUME NEW a \in Ats, NEW g \in Numbers \X Numbers,
             work' = [work EXCEPT ![w].at = a, ![w].got = g]
      PROVE  \E r : Moved(w, r, a, work[w].f, g, work[w].own, work[w].left)
  <2>1. PICK r : r = [work[w] EXCEPT !.at = a, !.got = g]
    OBVIOUS
  <2>2. work' = [work EXCEPT ![w] = r]
    BY <1>1, <1>8, <2>1
  <2>3. r \in Call
    BY <1>1, <2>1 DEF Call, Ats
  <2>4. WorkPut(w, r)
    BY <1>2, <2>2, <2>3
  <2>5. Moved(w, r, a, work[w].f, g, work[w].own, work[w].left)
    BY <1>1, <2>1, <2>4 DEF Call, Moved
  <2> QED BY <2>5
<1>9. ASSUME NEW a \in Ats, NEW g \in Numbers \X Numbers, NEW o \in Numbers, Ends(w, a, g, o)
      PROVE  \E r : Moved(w, r, a, work[w].f, g, o, work[w].left)
  <2>1. PICK r : r = [work[w] EXCEPT !.at = a, !.got = g, !.own = o]
    OBVIOUS
  <2>2. work' = [work EXCEPT ![w] = r]
    BY <1>1, <1>9, <2>1 DEF Ends
  <2>3. r \in Call
    BY <1>1, <2>1 DEF Call, Ats
  <2>4. WorkPut(w, r)
    BY <1>2, <2>2, <2>3
  <2>5. Moved(w, r, a, work[w].f, g, o, work[w].left)
    BY <1>1, <2>1, <2>4 DEF Call, Moved
  <2> QED BY <2>5
<1>10. ASSUME NEW a \in Ats, NEW l \in SUBSET Keys,
              work' = [work EXCEPT ![w].at = a, ![w].left = l]
       PROVE  \E r : Moved(w, r, a, work[w].f, work[w].got, work[w].own, l)
  <2>1. PICK r : r = [work[w] EXCEPT !.at = a, !.left = l]
    OBVIOUS
  <2>2. work' = [work EXCEPT ![w] = r]
    BY <1>1, <1>10, <2>1
  <2>3. r \in Call
    BY <1>1, <2>1 DEF Call, Ats
  <2>4. WorkPut(w, r)
    BY <1>2, <2>2, <2>3
  <2>5. Moved(w, r, a, work[w].f, work[w].got, work[w].own, l)
    BY <1>1, <2>1, <2>4 DEF Call, Moved
  <2> QED BY <2>5
<1>11. ASSUME NEW l \in SUBSET Keys, work' = [work EXCEPT ![w].left = l]
       PROVE  \E r : Moved(w, r, work[w].at, work[w].f, work[w].got, work[w].own, l)
  <2>1. PICK r : r = [work[w] EXCEPT !.left = l]
    OBVIOUS
  <2>2. work' = [work EXCEPT ![w] = r]
    BY <1>11, <2>1
  <2>3. r \in Call
    BY <1>1, <2>1 DEF Call, Ats
  <2>4. WorkPut(w, r)
    BY <1>2, <2>2, <2>3
  <2>5. Moved(w, r, work[w].at, work[w].f, work[w].got, work[w].own, l)
    BY <1>1, <2>1, <2>4 DEF Call, Moved
  <2> QED BY <2>5
<1> QED BY <1>4, <1>5, <1>6, <1>7, <1>8, <1>9, <1>10, <1>11

\* A write goes on in the directory.
LEMMA WriteGoesOn ==
  ASSUME ObjectsInv, adapter = "local", NEW w \in Workers, Writing(w), NEW r, WorkPut(w, r),
         NEW k, k = work[w].key, NEW n, n = work[w].n,
         r.op = work[w].op, r.key = k, r.n = n, r.met = work[w].met,
         r.at \in StagesOf(r.op) \ {"new"},
         (r.op = "put" /\ r.at \in {"first", "second"}) => Putting(r.f, k),
         UNCHANGED <<adapter, remote, log, undone, worn, faults>>, made' \in BOOLEAN,
         file' \in [Keys -> Numbers], meta' \in [Keys -> Numbers],
         data' \in [1 .. MaxWrites -> Numbers \X Numbers],
         \A j \in Keys \ {k} : file'[j] = file[j] /\ meta'[j] = meta[j],
         file'[k] # 0 => Putting(file'[k], k),
         \A f \in 1 .. MaxWrites : ~Putting(f, k) => data'[f] = data[f],
         WriteProgress(w)',
         (k \notin worn /\ file'[k] = 0 /\ meta'[k] # 0) => r.op = "delete" /\ r.at = "meta"
  PROVE  ObjectsInv'
<1>1. work[w].op \in {"put", "delete"} /\ CallShape(w) /\ \A v \in Workers : CallShape(v)
  BY DEF ObjectsInv, Writing, Writes
<1>2. r.at \notin Over /\ r.at # "none"
  BY <1>1 DEF StagesOf, Over
<1>3. work'[w] = r /\ \A v \in Workers \ {w} : work'[v] = work[v]
  BY DEF WorkPut
<1>4. Running(w)' /\ Writing(w)'
  BY <1>1, <1>2, <1>3 DEF Running, Writing, Writes, Over
<1>5. \A v \in Workers \ {w} : Writing(v)' <=> Writing(v)
  BY <1>3 DEF Running, Writing
<1>6. UNCHANGED Names
  BY DEF Names
<1>7. CallShape(w)'
  <2>1. \A v \in Workers : Writing(v)' /\ work'[v].n = n => v = w
    BY <1>1, <1>3, <1>5 DEF CallShape
  <2>2. n \in DOMAIN log \ undone /\ log[n].op = r.op /\ log[n].key = k /\ k \in Names
    BY <1>1 DEF CallShape, Writing, Writes
  <2>3. (r.op = "put" /\ r.at \in {"first", "second"}) => Putting(r.f, k)'
    BY DEF Putting
  <2> QED BY <1>1, <1>3, <1>4, <1>6, <2>1, <2>2, <2>3 DEF CallShape
<1>8. faults' \in 0 .. MaxFaults /\ worn' \subseteq Names
  BY DEF ObjectsInv, Typed
<1>9. work[w].met => k \in worn
  BY DEF ObjectsInv, OverlapsWear
<1> QED BY <1>1, <1>4, <1>7, <1>8, <1>9, LocalWrite DEF Writes

\* A write ends in the directory.
LEMMA WriteEnds ==
  ASSUME ObjectsInv, adapter = "local", NEW w \in Workers, Writing(w),
         NEW a \in {"ok", "error"}, Wrote(w, a),
         NEW k, k = work[w].key, NEW n, n = work[w].n,
         UNCHANGED <<adapter, remote, log, undone, made, file, data>>,
         faults' \in 0 .. MaxFaults,
         meta' \in [Keys -> Numbers], \A j \in Keys \ {k} : meta'[j] = meta[j],
         worn' \in {worn, worn \cup {k}, worn \ {k}}, work[w].met => k \in worn',
         k \notin worn' => Kept(n, k)'
  PROVE  ObjectsInv'
<1>1. PICK r : r = [Free EXCEPT !.at = a]
  OBVIOUS
<1>2. /\ r \in Call /\ r.at = a /\ r.op = "none" /\ r.n = 0 /\ r.f = 0 /\ ~r.met
      /\ work' = [work EXCEPT ![w] = r] /\ r.key = "none"
  BY <1>1, FreeCalls DEF Over, Wrote
<1>3. WorkPut(w, r) /\ work'[w] = r /\ Names' = Names
  BY <1>2 DEF WorkPut, ObjectsInv, Typed, Call, Names
<1>4. ~Running(w)' /\ ~Writing(w)' /\ ~Writes(r.op)
  BY <1>2, <1>3 DEF Running, Writing, Writes
<1>5. CallShape(w)' /\ WriteProgress(w)'
  <2>1. CallShape(w)'
    BY <1>2, <1>3, <1>4 DEF CallShape
  <2> QED BY <1>4, <2>1 DEF WriteProgress
<1>6. k \in Names /\ k \in Keys /\ n \in DOMAIN log
  BY DEF ObjectsInv, CallShape, Writing, Writes, Names
<1>7. file[k] # 0 => Putting(file[k], k)
  BY <1>6 DEF ObjectsInv, FilesAreOfTheirKey
<1>8. worn' \subseteq Names /\ \A j \in Names \ {k} : j \in worn' <=> j \in worn
  BY <1>6 DEF ObjectsInv, Typed
<1>9. (k \notin worn' /\ file'[k] = 0 /\ meta'[k] # 0)
        => Writing(w)' /\ r.op = "delete" /\ r.at = "meta"
  BY DEF Kept
<1>10. Typed
  BY DEF ObjectsInv
<1>t. /\ made' \in BOOLEAN /\ file' \in [Keys -> Numbers]
      /\ data' \in [1 .. MaxWrites -> Numbers \X Numbers]
  BY <1>10 DEF Typed
<1> QED BY <1>2, <1>3, <1>4, <1>5, <1>7, <1>8, <1>9, <1>t, LocalWrite

\* What a step of a write in the directory may rely on.
LEMMA WriteFacts ==
  ASSUME ObjectsInv, adapter = "local", NEW w \in Workers, Writing(w),
         NEW k, k = work[w].key, NEW n, n = work[w].n
  PROVE  /\ k \in Keys /\ n \in DOMAIN log \ undone /\ n \in Numbers \ {0}
         /\ log[n].op = work[w].op /\ log[n].key = k
         /\ work[w].op = "put" => Putting(n, k)
         /\ file[k] # 0 => Putting(file[k], k)
         /\ \A f : Putting(f, k) => f \in 1 .. MaxWrites /\ f \in Numbers
         /\ work[w].met => k \in worn
         /\ WriteProgress(w) /\ CallShape(w)
         /\ \A a \in worn : a \in Names
         /\ (k \notin worn /\ file[k] = 0 /\ meta[k] # 0)
               => work[w].op = "delete" /\ work[w].at = "meta"
<1>1. CallShape(w) /\ Typed
  BY DEF ObjectsInv
<1>2. DOMAIN log \subseteq 1 .. MaxWrites /\ DOMAIN log \subseteq Numbers /\ 0 \notin DOMAIN log
  BY <1>1, NumbersOfLog
<1>3. /\ k \in Keys /\ n \in DOMAIN log \ undone /\ n \in Numbers \ {0}
      /\ log[n].op = work[w].op /\ log[n].key = k
      /\ work[w].op = "put" => Putting(n, k)
  BY <1>1, <1>2 DEF CallShape, Writing, Writes, Names, Putting
<1>4. /\ file[k] # 0 => Putting(file[k], k)
      /\ \A f : Putting(f, k) => f \in 1 .. MaxWrites /\ f \in Numbers
  BY <1>2, <1>3 DEF ObjectsInv, FilesAreOfTheirKey, Putting
<1>5. work[w].met => k \in worn
  BY DEF ObjectsInv, OverlapsWear
<1>6. WriteProgress(w) /\ \A a \in worn : a \in Names
  BY <1>1 DEF ObjectsInv, Directory, Typed
<1>7. ASSUME k \notin worn, file[k] = 0, meta[k] # 0
      PROVE  work[w].op = "delete" /\ work[w].at = "meta"
  <2>1. PICK v \in Workers : /\ Writing(v) /\ work[v].key = k
                             /\ work[v].op = "delete" /\ work[v].at = "meta"
    BY <1>3, <1>7 DEF ObjectsInv, Directory, MetaHasFile
  <2>2. v = w
    BY <1>7, <2>1 DEF ObjectsInv, OverlapsWear
  <2> QED BY <2>1, <2>2
<1> QED BY <1>1, <1>3, <1>4, <1>5, <1>6, <1>7

\* LocalStorageAdapter.put: each of its system calls.
LEMMA PutSteps ==
  ASSUME ObjectsInv, NEW w \in Workers, Step(w), PutLocal(w), UNCHANGED remote
  PROVE  ObjectsInv'
<1>1. /\ adapter = "local" /\ Running(w) /\ work[w].op = "put" /\ Writing(w)
      /\ UNCHANGED <<adapter, remote, log, undone, faults>> /\ Typed
  BY DEF Step, PutLocal, Local, Writing, Writes, ObjectsInv
<1>2. PICK k, n : k = work[w].key /\ n = work[w].n
  OBVIOUS
<1>3. /\ k \in Keys /\ n \in DOMAIN log \ undone /\ n \in Numbers \ {0}
      /\ log[n].op = work[w].op /\ log[n].key = k /\ Putting(n, k)
      /\ file[k] # 0 => Putting(file[k], k)
      /\ \A f : Putting(f, k) => f \in 1 .. MaxWrites /\ f \in Numbers
      /\ work[w].met => k \in worn
      /\ WriteProgress(w) /\ CallShape(w)
      /\ ~(k \notin worn /\ file[k] = 0 /\ meta[k] # 0)
  BY <1>1, <1>2, WriteFacts
<1>4. worn' = IF log[n].keeps /\ work'[w].at = "ok" /\ ~work[w].met THEN worn \ {k} ELSE worn
  BY <1>1, <1>2 DEF Step
<1>t. /\ made \in BOOLEAN /\ file \in [Keys -> Numbers] /\ meta \in [Keys -> Numbers]
      /\ data \in [1 .. MaxWrites -> Numbers \X Numbers]
      /\ work[w] \in Call /\ work[w].f \in Numbers
  BY <1>1, CallTyped DEF Typed
\* The call after a step that does not end it.
<1>5. ASSUME NEW r, NEW a \in StagesOf("put") \ {"new"}, NEW f,
             Moved(w, r, a, f, work[w].got, work[w].own, work[w].left)
      PROVE  /\ WorkPut(w, r) /\ r.op = work[w].op /\ r.key = k /\ r.n = n /\ r.met = work[w].met
             /\ r.at = a /\ r.f = f /\ r.at \in StagesOf(r.op) \ {"new"} /\ work'[w] = r
             /\ worn' = worn
  <2>1. /\ WorkPut(w, r) /\ r.op = work[w].op /\ r.key = k /\ r.n = n /\ r.met = work[w].met
        /\ r.at = a /\ r.f = f /\ work'[w] = r
    BY <1>2, <1>5 DEF Moved, WorkPut
  <2>2. a # "ok"
    BY DEF StagesOf
  <2> QED BY <1>1, <1>4, <2>1, <2>2
<1>s. StagesOf("put") = {"new", "open", "first", "second", "meta", "stat"}
  BY DEF StagesOf
<1>a. StagesOf("put") \subseteq Ats
  BY <1>s DEF Ats
<1>6. CASE Local(w, "put", "new") /\ made' = TRUE /\ To(w, "open") /\ UNCHANGED <<file, data, meta>>
  <2>1. PICK r : Moved(w, r, "open", work[w].f, work[w].got, work[w].own, work[w].left)
    BY <1>1, <1>6, CallMoves DEF Ats
  <2>2. /\ WorkPut(w, r) /\ r.op = work[w].op /\ r.key = k /\ r.n = n /\ r.met = work[w].met
        /\ r.at = "open" /\ r.at \in StagesOf(r.op) \ {"new"} /\ work'[w] = r /\ worn' = worn
    BY <1>5, <1>s, <2>1
  <2>3. WriteProgress(w)'
    BY <1>1, <2>2 DEF WriteProgress
  <2> QED BY <1>1, <1>2, <1>3, <1>6, <1>t, <2>2, <2>3, WriteGoesOn
<1>7. CASE Local(w, "put", "open") /\ OpenForWriting(w)
  <2>1. PICK f : f = IF file[k] = 0 THEN n ELSE file[k]
    OBVIOUS
  <2>2. Putting(f, k) /\ f \in 1 .. MaxWrites /\ f \in Numbers /\ f # 0
    BY <1>3, <2>1
  <2>3. /\ file' = [file EXCEPT ![k] = f] /\ data' = [data EXCEPT ![f] = Empty]
        /\ work' = [work EXCEPT ![w].f = f, ![w].at = "first"]
        /\ UNCHANGED <<made, meta>>
    BY <1>2, <1>7, <2>1 DEF OpenForWriting
  <2>4. PICK r : Moved(w, r, "first", f, work[w].got, work[w].own, work[w].left)
    BY <1>1, <2>2, <2>3, CallMoves DEF Ats
  <2>5. /\ WorkPut(w, r) /\ r.op = work[w].op /\ r.key = k /\ r.n = n /\ r.met = work[w].met
        /\ r.at = "first" /\ r.f = f /\ r.at \in StagesOf(r.op) \ {"new"} /\ work'[w] = r
        /\ worn' = worn
    BY <1>5, <1>s, <2>4
  <2>6. /\ file' \in [Keys -> Numbers] /\ file'[k] = f /\ \A j \in Keys \ {k} : file'[j] = file[j]
        /\ data' \in [1 .. MaxWrites -> Numbers \X Numbers]
        /\ \A g \in 1 .. MaxWrites : g # f => data'[g] = data[g]
    BY <1>3, <1>t, <2>2, <2>3, FreeCalls
  <2>7. WriteProgress(w)'
    BY <1>1, <2>2, <2>5, <2>6 DEF WriteProgress
  <2> QED BY <1>1, <1>2, <1>3, <1>t, <2>2, <2>3, <2>5, <2>6, <2>7, WriteGoesOn
<1>8. CASE Local(w, "put", "first") /\ WriteBlock(w, 1, "second")
  <2>1. PICK f : f = work[w].f
    OBVIOUS
  <2>2. Putting(f, k) /\ f \in 1 .. MaxWrites /\ f \in Numbers /\ f # 0
    BY <1>1, <1>2, <1>3, <1>8, <2>1 DEF CallShape, Local
  <2>3. /\ data' = [data EXCEPT ![f] = <<n, data[f][2]>>] /\ data[f] \in Numbers \X Numbers
        /\ data[f][2] \in Numbers /\ To(w, "second") /\ UNCHANGED <<made, file, meta>>
    <3>1. data' = [data EXCEPT ![f][1] = n] /\ data[f] \in Numbers \X Numbers
      BY <1>2, <1>8, <1>t, <2>1, <2>2 DEF WriteBlock
    <3>2. [data[f] EXCEPT ![1] = n] = <<n, data[f][2]>> /\ data[f][2] \in Numbers
      BY <1>3, <3>1, Pairs
    <3> QED BY <1>8, <3>1, <3>2 DEF WriteBlock
  <2>4. PICK r : Moved(w, r, "second", f, work[w].got, work[w].own, work[w].left)
    BY <1>1, <2>1, <2>3, CallMoves DEF Ats
  <2>5. /\ WorkPut(w, r) /\ r.op = work[w].op /\ r.key = k /\ r.n = n /\ r.met = work[w].met
        /\ r.at = "second" /\ r.f = f /\ r.at \in StagesOf(r.op) \ {"new"} /\ work'[w] = r
        /\ worn' = worn
    BY <1>5, <1>s, <2>4
  <2>6. /\ data' \in [1 .. MaxWrites -> Numbers \X Numbers] /\ data'[f][1] = n
        /\ \A g \in 1 .. MaxWrites : g # f => data'[g] = data[g]
    BY <1>3, <1>t, <2>2, <2>3
  <2>7. WriteProgress(w)'
    <3>1. ~work[w].met => file[k] = f
      BY <1>1, <1>2, <1>3, <1>8, <2>1 DEF WriteProgress, Local
    <3> QED BY <1>1, <2>2, <2>3, <2>5, <2>6, <3>1 DEF WriteProgress
  <2> QED BY <1>1, <1>2, <1>3, <1>t, <2>2, <2>3, <2>5, <2>6, <2>7, WriteGoesOn
<1>9. CASE Local(w, "put", "second") /\ WriteBlock(w, 2, AfterBlocks(w))
  <2>1. PICK f : f = work[w].f
    OBVIOUS
  <2>a. PICK a : a = AfterBlocks(w)
    OBVIOUS
  <2>2. /\ Putting(f, k) /\ f \in 1 .. MaxWrites /\ f \in Numbers /\ f # 0
        /\ a \in {"meta", "stat"} /\ (a = "stat" => ~log[n].keeps)
    BY <1>1, <1>2, <1>3, <1>9, <2>1, <2>a DEF CallShape, Local, AfterBlocks
  <2>3. /\ data' = [data EXCEPT ![f] = <<data[f][1], n>>] /\ data[f] \in Numbers \X Numbers
        /\ data[f][1] \in Numbers /\ To(w, a) /\ UNCHANGED <<made, file, meta>>
    <3>1. data' = [data EXCEPT ![f][2] = n] /\ data[f] \in Numbers \X Numbers
      BY <1>2, <1>9, <1>t, <2>1, <2>2 DEF WriteBlock
    <3>2. [data[f] EXCEPT ![2] = n] = <<data[f][1], n>> /\ data[f][1] \in Numbers
      BY <1>3, <3>1, Pairs
    <3> QED BY <1>9, <2>a, <3>1, <3>2 DEF WriteBlock
  <2>4. PICK r : Moved(w, r, a, f, work[w].got, work[w].own, work[w].left)
    BY <1>1, <2>1, <2>2, <2>3, CallMoves DEF Ats
  <2>5. /\ WorkPut(w, r) /\ r.op = work[w].op /\ r.key = k /\ r.n = n /\ r.met = work[w].met
        /\ r.at = a /\ r.f = f /\ r.at \in StagesOf(r.op) \ {"new"} /\ work'[w] = r
        /\ worn' = worn
    BY <1>5, <1>s, <2>2, <2>4
  <2>6. /\ data' \in [1 .. MaxWrites -> Numbers \X Numbers] /\ data'[f] = <<data[f][1], n>>
        /\ \A g \in 1 .. MaxWrites : g # f => data'[g] = data[g]
    BY <1>3, <1>t, <2>2, <2>3
  <2>7. WriteProgress(w)'
    <3>1. ~work[w].met => file[k] = f /\ data[f][1] = n
      BY <1>1, <1>2, <1>3, <1>9, <2>1 DEF WriteProgress, Local
    <3> QED BY <1>1, <2>2, <2>3, <2>5, <2>6, <3>1 DEF WriteProgress
  <2> QED BY <1>1, <1>2, <1>3, <1>t, <2>2, <2>3, <2>5, <2>6, <2>7, WriteGoesOn
<1>10. CASE /\ Local(w, "put", "meta") /\ meta' = [meta EXCEPT ![work[w].key] = work[w].n]
            /\ To(w, "stat") /\ UNCHANGED <<made, file, data>>
  <2>1. PICK r : Moved(w, r, "stat", work[w].f, work[w].got, work[w].own, work[w].left)
    BY <1>1, <1>10, CallMoves DEF Ats
  <2>2. /\ WorkPut(w, r) /\ r.op = work[w].op /\ r.key = k /\ r.n = n /\ r.met = work[w].met
        /\ r.at = "stat" /\ r.at \in StagesOf(r.op) \ {"new"} /\ work'[w] = r /\ worn' = worn
    BY <1>5, <1>s, <2>1
  <2>3. /\ meta' \in [Keys -> Numbers] /\ meta'[k] = n
        /\ \A j \in Keys \ {k} : meta'[j] = meta[j]
    BY <1>2, <1>3, <1>10, <1>t
  <2>4. ~work[w].met => file[k] # 0 /\ data[file[k]] = <<n, n>>
    BY <1>1, <1>2, <1>3, <1>10 DEF WriteProgress, Local
  <2>5. WriteProgress(w)'
    BY <1>1, <1>10, <2>2, <2>3, <2>4 DEF WriteProgress
  <2> QED BY <1>1, <1>2, <1>3, <1>10, <1>t, <2>2, <2>3, <2>4, <2>5, WriteGoesOn
<1>11. CASE /\ Local(w, "put", "stat")
            /\ Wrote(w, IF file[work[w].key] = 0 THEN "error" ELSE "ok") /\ UNCHANGED disk
  <2>1. PICK a \in {"ok", "error"} : Wrote(w, a) /\ (a = "ok" <=> file[k] # 0)
    BY <1>2, <1>11
  <2>2. UNCHANGED <<made, file, data, meta>>
    BY <1>11 DEF disk
  <2>3. worn' \in {worn, worn \ {k}} /\ (work[w].met => k \in worn')
    BY <1>3, <1>4
  <2>4. ASSUME k \notin worn'
        PROVE  Kept(n, k)'
    <3>1. ~work[w].met
      BY <2>3, <2>4
    <3>2. file[k] # 0 /\ data[file[k]] = <<n, n>> /\ (log[n].keeps => meta[k] = n)
      BY <1>1, <1>2, <1>3, <1>11, <3>1 DEF WriteProgress, Local
    <3> QED BY <1>1, <1>3, <2>2, <3>2 DEF Kept, There
  <2>5. faults' \in 0 .. MaxFaults
    BY <1>1 DEF Typed
  <2> QED BY <1>1, <1>2, <1>t, <2>1, <2>2, <2>3, <2>4, <2>5, WriteEnds
<1> QED BY <1>6, <1>7, <1>8, <1>9, <1>10, <1>11 DEF PutLocal

\* LocalStorageAdapter.delete.
LEMMA DeleteSteps ==
  ASSUME ObjectsInv, NEW w \in Workers, Step(w), DeleteLocal(w), UNCHANGED remote
  PROVE  ObjectsInv'
<1>1. /\ adapter = "local" /\ Running(w) /\ work[w].op = "delete" /\ Writing(w)
      /\ UNCHANGED <<adapter, remote, log, undone, faults, worn>> /\ Typed
      /\ faults' \in 0 .. MaxFaults
  BY DEF Step, DeleteLocal, Local, Writing, Writes, ObjectsInv, Typed
<1>2. PICK k, n : k = work[w].key /\ n = work[w].n
  OBVIOUS
<1>3. /\ k \in Keys /\ n \in DOMAIN log \ undone /\ log[n].op = "delete" /\ log[n].key = k
      /\ file[k] # 0 => Putting(file[k], k)
      /\ work[w].met => k \in worn
      /\ WriteProgress(w)
      /\ (k \notin worn /\ file[k] = 0 /\ meta[k] # 0) => work[w].at = "meta"
  BY <1>1, <1>2, WriteFacts
<1>t. /\ made \in BOOLEAN /\ file \in [Keys -> Numbers] /\ meta \in [Keys -> Numbers]
      /\ data \in [1 .. MaxWrites -> Numbers \X Numbers] /\ 0 \in Numbers
  BY <1>1, FreeCalls DEF Typed
<1>4. CASE Local(w, "delete", "new") /\ file[k] = 0 /\ Wrote(w, "ok") /\ UNCHANGED disk
  <2>1. UNCHANGED <<made, file, data, meta>>
    BY <1>4 DEF disk
  <2>2. k \notin worn' => Kept(n, k)'
    BY <1>1, <1>3, <1>4, <2>1 DEF Kept, There, Local
  <2> QED BY <1>1, <1>2, <1>3, <1>4, <1>t, <2>1, <2>2, WriteEnds
<1>5. CASE /\ Local(w, "delete", "new") /\ file[k] # 0 /\ To(w, "meta")
           /\ file' = [file EXCEPT ![k] = 0] /\ UNCHANGED <<made, data, meta>>
  <2>1. PICK r : Moved(w, r, "meta", work[w].f, work[w].got, work[w].own, work[w].left)
    BY <1>1, <1>5, CallMoves DEF Ats
  <2>2. /\ WorkPut(w, r) /\ r.op = work[w].op /\ r.key = k /\ r.n = n /\ r.met = work[w].met
        /\ r.at = "meta" /\ r.at \in StagesOf(r.op) \ {"new"} /\ work'[w] = r
    BY <1>1, <1>2, <2>1 DEF Moved, WorkPut, StagesOf
  <2>3. /\ file' \in [Keys -> Numbers] /\ file'[k] = 0
        /\ \A j \in Keys \ {k} : file'[j] = file[j]
    BY <1>3, <1>5, <1>t
  <2>4. WriteProgress(w)'
    BY <1>1, <2>2, <2>3 DEF WriteProgress
  <2> QED BY <1>1, <1>2, <1>3, <1>5, <1>t, <2>2, <2>3, <2>4, WriteGoesOn
<1>6. CASE /\ Local(w, "delete", "meta") /\ Wrote(w, "ok")
           /\ meta' = [meta EXCEPT ![k] = 0] /\ UNCHANGED <<made, file, data>>
  <2>1. /\ meta' \in [Keys -> Numbers] /\ meta'[k] = 0
        /\ \A j \in Keys \ {k} : meta'[j] = meta[j]
    BY <1>3, <1>6, <1>t
  <2>2. k \notin worn' => Kept(n, k)'
    BY <1>1, <1>2, <1>3, <1>6, <2>1 DEF Kept, There, Local, WriteProgress
  <2> QED BY <1>1, <1>2, <1>3, <1>6, <1>t, <2>1, <2>2, WriteEnds
<1> QED BY <1>2, <1>4, <1>5, <1>6 DEF DeleteLocal

\* The source of a put fails.
LEMMA SourceStops ==
  ASSUME ObjectsInv, NEW w \in Workers, SourceFails(w)
  PROVE  ObjectsInv'
<1>1. /\ Running(w) /\ work[w].op = "put" /\ Writing(w) /\ Wrote(w, "error")
      /\ UNCHANGED <<adapter, made, file, data, meta, object, blob, log>> /\ Typed
      /\ faults' \in 0 .. MaxFaults
      /\ IF adapter = "local" THEN worn' = worn \cup {work[w].key} /\ UNCHANGED undone
         ELSE undone' = undone \cup {work[w].n} /\ UNCHANGED worn
  <2>1. MaxFaults \in Nat
    BY StorageAssumption
  <2> QED BY <2>1 DEF SourceFails, Writing, Writes, ObjectsInv, disk, remote, Fault, Typed
<1>2. PICK k, n : k = work[w].key /\ n = work[w].n
  OBVIOUS
<1>t. /\ file \in [Keys -> Numbers] /\ meta \in [Keys -> Numbers]
      /\ object \in [Keys -> Numbers] /\ blob \in [Contents -> Numbers]
  BY <1>1 DEF Typed
<1>3. CASE adapter = "local"
  <2>1. k \in worn' /\ worn' = worn \cup {k} /\ UNCHANGED remote
    BY <1>1, <1>2, <1>3 DEF remote
  <2> QED BY <1>1, <1>2, <1>3, <1>t, <2>1, WriteEnds
<1>4. CASE adapter # "local"
  <2>1. PICK r : r = [Free EXCEPT !.at = "error"]
    OBVIOUS
  <2>2. r \in Call /\ r.at = "error" /\ r.op = "none" /\ r.n = 0 /\ work' = [work EXCEPT ![w] = r]
    BY <1>1, <2>1, FreeCalls DEF Over, Wrote
  <2>3. WorkPut(w, r) /\ work'[w] = r
    BY <1>1, <2>2 DEF WorkPut, Typed
  <2>4. ~Running(w)'
    BY <2>2, <2>3 DEF Running
  <2>5. UNCHANGED disk /\ undone' = undone \cup {n} /\ worn' = worn
    BY <1>1, <1>2, <1>4 DEF disk
  <2> QED BY <1>1, <1>2, <1>4, <1>t, <2>2, <2>3, <2>4, <2>5, RemoteWrite
<1> QED BY <1>3, <1>4

\* The metadata of a file cannot be deleted.
LEMMA MetadataIsLeft ==
  ASSUME ObjectsInv, NEW w \in Workers, MetadataStays(w)
  PROVE  ObjectsInv'
<1>1. /\ Running(w) /\ work[w].op = "delete" /\ Writing(w) /\ Wrote(w, "ok")
      /\ adapter = "local" /\ UNCHANGED <<made, file, data, meta, remote>>
      /\ UNCHANGED <<adapter, log, undone>> /\ Typed /\ faults' \in 0 .. MaxFaults
  <2>1. MaxFaults \in Nat
    BY StorageAssumption
  <2> QED BY <2>1 DEF MetadataStays, Local, Running, Writing, Writes, ObjectsInv, disk, Fault, Typed
<1>2. PICK k, n : k = work[w].key /\ n = work[w].n
  OBVIOUS
<1>3. file \in [Keys -> Numbers] /\ meta \in [Keys -> Numbers]
  BY <1>1 DEF Typed
<1>4. k \in worn' /\ worn' = worn \cup {k}
  BY <1>2 DEF MetadataStays
<1> QED BY <1>1, <1>2, <1>3, <1>4, WriteEnds

\* A key that no write is changing holds its last write.
LEMMA AtRest ==
  ASSUME ObjectsInv, NEW k \in Keys, WritersOf(k) = {}, k \notin worn
  PROVE  /\ adapter = "local" => Kept(LastWrite(k), k)
         /\ adapter = "s3" => object[k] = IF There(LastWrite(k)) THEN LastWrite(k) ELSE 0
<1>1. adapter = "local" => Kept(LastWrite(k), k)
  BY DEF ObjectsInv, Directory
<1>2. ASSUME adapter = "s3"
      PROVE  object[k] = IF There(LastWrite(k)) THEN LastWrite(k) ELSE 0
  <2>1. BucketAt(k)
    BY <1>2 DEF ObjectsInv, Bucket
  <2>2. \A v \in Workers : Writing(v) => work[v].n \in DOMAIN log /\ log[work[v].n].key # k
    BY WritersAre DEF ObjectsInv, CallShape
  <2>3. Done(k) = {m \in DOMAIN log \ undone : log[m].key = k}
    BY <2>2 DEF Done
  <2>4. \A m \in Done(k) : (\A j \in Done(k) : j <= m) => LastWrite(k) = m
    BY <2>3, LastOf DEF ObjectsInv, IsLast
  <2>5. Done(k) = {} => LastWrite(k) = 0
    BY <2>3, LastOf DEF ObjectsInv, IsLast
  <2>6. \A m \in Done(k) : m # 0
    BY NumbersOfLog DEF ObjectsInv, Done
  <2> QED BY <2>1, <2>4, <2>5, <2>6 DEF BucketAt, There
<1> QED BY <1>1, <1>2

\* A read or a list goes on, or ends.
LEMMA ReadGoesOn ==
  ASSUME ObjectsInv, NEW w \in Workers, Running(w), ~Writes(work[w].op),
         NEW r, NEW a, NEW f, NEW g, NEW o, NEW l, Moved(w, r, a, f, g, o, l),
         UNCHANGED <<adapter, disk, remote, history, faults>>,
         \/ a \in {"ok", "missing", "error"}
         \/ adapter = "local" /\ a \in StagesOf(work[w].op) \ {"new"},
         (work[w].op = "get" /\ a = "second") => f \in 1 .. MaxWrites,
         adapter = "local" => ReadProgress(w)',
         (adapter # "vedadb" /\ ~work[w].met /\ a \in {"ok", "missing"} /\ work[w].op \in Reads) =>
            /\ a = "ok" <=> There(work[w].n)
            /\ work[w].op # "exists" =>
                 Holds(work[w].n, g,
                       IF work[w].op = "get" /\ There(work[w].n) THEN work[w].n ELSE o),
         (work[w].op = "list" /\ a = "error") => work[w].met
  PROVE  ObjectsInv'
<1>1. /\ WorkPut(w, r) /\ work'[w] = r /\ r.at = a /\ r.f = f /\ r.got = g /\ r.own = o
      /\ r.op = work[w].op /\ r.key = work[w].key /\ r.n = work[w].n /\ r.met = work[w].met
  BY DEF Moved, WorkPut
<1>2. /\ UNCHANGED <<adapter, made, file, data, meta, object, blob, log, worn, undone, faults>>
      /\ Names' = Names
  BY DEF disk, remote, history, Names
<1>3. ~Writing(w) /\ ~Writes(r.op) /\ ~Writing(w)'
  BY <1>1 DEF Writing
<1>4. CallShape(w)'
  <2>1. CallShape(w)
    BY DEF ObjectsInv
  <2>2. Running(w)' => adapter = "local" /\ r.at \in StagesOf(r.op) \ {"new"}
    BY <1>1 DEF Running
  <2>3. r.op # "put"
    BY <1>3 DEF Writes
  <2> QED BY <1>1, <1>2, <1>3, <2>1, <2>2, <2>3 DEF CallShape
<1>5. (Running(w)' /\ ~r.met) =>
           /\ r.op \in Reads => /\ WritersOf(r.key) = {} /\ r.key \notin worn
                                /\ r.n = LastWrite(r.key)
           /\ r.op = "list" => \A v \in Workers : ~Writing(v)
  BY <1>1 DEF ObjectsInv, ReadsAlone
<1> QED BY <1>1, <1>3, <1>4, <1>5, ReadStep

\* What a step of a read may rely on.
LEMMA ReadFacts ==
  ASSUME ObjectsInv, NEW w \in Workers, Running(w), work[w].op \in Reads, adapter # "vedadb",
         NEW k, k = work[w].key, NEW n, n = work[w].n
  PROVE  /\ k \in Keys /\ CallShape(w)
         /\ work[w].at = "new" => work[w].got = Empty /\ work[w].own = 0
         /\ ~work[w].met => /\ adapter = "local" => Kept(n, k) /\ ReadProgress(w)
                            /\ adapter = "s3" => object[k] = IF There(n) THEN n ELSE 0
<1>1. k \in Keys /\ CallShape(w)
  BY DEF ObjectsInv, CallShape, Reads, Names
<1>2. ASSUME ~work[w].met
      PROVE  /\ adapter = "local" => Kept(n, k) /\ ReadProgress(w)
             /\ adapter = "s3" => object[k] = IF There(n) THEN n ELSE 0
  <2>1. WritersOf(k) = {} /\ k \notin worn /\ n = LastWrite(k)
    BY <1>2 DEF ObjectsInv, ReadsAlone
  <2>2. adapter = "local" => ReadProgress(w)
    BY DEF ObjectsInv, Directory
  <2> QED BY <1>1, <2>1, <2>2, AtRest
<1> QED BY <1>1, <1>2 DEF CallShape

\* LocalStorageAdapter.get.
LEMMA GetSteps ==
  ASSUME ObjectsInv, NEW w \in Workers, Step(w), GetLocal(w), UNCHANGED remote
  PROVE  ObjectsInv'
<1>1. /\ adapter = "local" /\ Running(w) /\ work[w].op = "get" /\ Typed
      /\ UNCHANGED <<adapter, disk, remote, history, faults>>
  BY DEF Step, GetLocal, Local, history, ObjectsInv
<1>2. PICK k, n, f : k = work[w].key /\ n = work[w].n /\ f = file[k]
  OBVIOUS
<1>3. /\ k \in Keys /\ CallShape(w)
      /\ work[w].at = "new" => work[w].got = Empty /\ work[w].own = 0
      /\ ~work[w].met => Kept(n, k) /\ ReadProgress(w)
  BY <1>1, <1>2, ReadFacts DEF Reads
<1>4. /\ ~Writes(work[w].op) /\ f \in Numbers /\ (f # 0 => f \in 1 .. MaxWrites)
      /\ data \in [1 .. MaxWrites -> Numbers \X Numbers]
      /\ work[w].f \in Numbers /\ work[w].got \in Numbers \X Numbers
      /\ UNCHANGED <<file, data, meta>>
  <2>1. /\ file \in [Keys -> Numbers] /\ meta \in [Keys -> Numbers]
        /\ data \in [1 .. MaxWrites -> Numbers \X Numbers] /\ work[w].f \in Numbers
        /\ work[w].got \in Numbers \X Numbers
    BY <1>1, CallTyped DEF Typed
  <2>2. f \in Numbers /\ meta[k] \in Numbers
    BY <1>2, <1>3, <2>1
  <2>3. f # 0 => f \in 1 .. MaxWrites
    BY <2>2, StorageAssumption DEF Numbers
  <2>4. ~Writes(work[w].op) /\ UNCHANGED <<file, data, meta>>
    BY <1>1 DEF Writes, disk
  <2> QED BY <2>1, <2>2, <2>3, <2>4
<1>5. CASE Local(w, "get", "new") /\ f = 0 /\ To(w, "missing")
  <2>1. PICK r : Moved(w, r, "missing", work[w].f, work[w].got, work[w].own, work[w].left)
    BY <1>1, <1>5, CallMoves DEF Ats, Over
  <2>2. ReadProgress(w)'
    BY <1>1, <2>1 DEF Moved, WorkPut, ReadProgress
  <2>3. ~work[w].met => ~There(n) /\ Holds(n, work[w].got, work[w].own)
    BY <1>2, <1>3, <1>5 DEF Kept, Holds, Local
  <2> QED BY <1>1, <1>2, <1>4, <2>1, <2>2, <2>3, ReadGoesOn
<1>6. CASE /\ Local(w, "get", "new") /\ f # 0
           /\ work' = [work EXCEPT ![w].at = "second", ![w].f = f, ![w].got[1] = data[f][1]]
  <2>1. data[f] \in Numbers \X Numbers /\ data[f][1] \in Numbers
    BY <1>4, <1>6, Pairs
  <2>2. PICK r : Moved(w, r, "second", f, <<data[f][1], work[w].got[2]>>, work[w].own, work[w].left)
    BY <1>1, <1>4, <1>6, <2>1, CallMoves DEF Ats
  <2>3. ReadProgress(w)'
    BY <1>1, <1>2, <1>4, <1>6, <2>2 DEF Moved, WorkPut, ReadProgress
  <2>4. "second" \in StagesOf(work[w].op) \ {"new"}
    BY <1>1 DEF StagesOf
  <2> QED BY <1>1, <1>4, <1>6, <2>2, <2>3, <2>4, ReadGoesOn
<1>7. CASE /\ Local(w, "get", "second")
           /\ work' = [work EXCEPT ![w].at = "ok", ![w].got[2] = data[work[w].f][2]]
  <2>1. work[w].f \in 1 .. MaxWrites /\ data[work[w].f] \in Numbers \X Numbers
    BY <1>1, <1>3, <1>4, <1>7 DEF CallShape, Local
  <2>2. PICK g : g = <<work[w].got[1], data[work[w].f][2]>>
    OBVIOUS
  <2>3. PICK r : Moved(w, r, "ok", work[w].f, g, work[w].own, work[w].left)
    BY <1>1, <1>7, <2>1, <2>2, CallMoves, Pairs DEF Ats, Over
  <2>4. ReadProgress(w)'
    BY <1>1, <2>3 DEF Moved, WorkPut, ReadProgress, Running
  <2>5. ASSUME ~work[w].met
        PROVE  There(n) /\ Holds(n, g, n)
    <3>1. /\ file[k] = work[w].f /\ work[w].f # 0 /\ work[w].got[1] = data[work[w].f][1]
      BY <1>1, <1>2, <1>3, <1>7, <2>5 DEF ReadProgress, Local
    <3>2. There(n) /\ data[work[w].f] = <<n, n>>
      BY <1>3, <2>5, <3>1 DEF Kept
    <3> QED BY <2>2, <3>1, <3>2 DEF Holds
  <2> QED BY <1>1, <1>2, <1>4, <2>3, <2>4, <2>5, ReadGoesOn
<1> QED BY <1>2, <1>5, <1>6, <1>7 DEF GetLocal

\* LocalStorageAdapter.head.
LEMMA HeadSteps ==
  ASSUME ObjectsInv, NEW w \in Workers, Step(w), HeadLocal(w), UNCHANGED remote
  PROVE  ObjectsInv'
<1>1. /\ adapter = "local" /\ Running(w) /\ work[w].op = "head" /\ Typed
      /\ UNCHANGED <<adapter, disk, remote, history, faults>>
  BY DEF Step, HeadLocal, Local, history, ObjectsInv
<1>2. PICK k, n, f : k = work[w].key /\ n = work[w].n /\ f = file[k]
  OBVIOUS
<1>3. /\ k \in Keys /\ CallShape(w)
      /\ work[w].at = "new" => work[w].got = Empty /\ work[w].own = 0
      /\ ~work[w].met => Kept(n, k) /\ ReadProgress(w)
  BY <1>1, <1>2, ReadFacts DEF Reads
<1>4. /\ ~Writes(work[w].op) /\ f \in Numbers /\ (f # 0 => f \in 1 .. MaxWrites)
      /\ data \in [1 .. MaxWrites -> Numbers \X Numbers] /\ meta[k] \in Numbers
      /\ work[w].f \in Numbers /\ work[w].got \in Numbers \X Numbers
      /\ UNCHANGED <<file, data, meta>>
  <2>1. /\ file \in [Keys -> Numbers] /\ meta \in [Keys -> Numbers]
        /\ data \in [1 .. MaxWrites -> Numbers \X Numbers] /\ work[w].f \in Numbers
        /\ work[w].got \in Numbers \X Numbers
    BY <1>1, CallTyped DEF Typed
  <2>2. f \in Numbers /\ meta[k] \in Numbers
    BY <1>2, <1>3, <2>1
  <2>3. f # 0 => f \in 1 .. MaxWrites
    BY <2>2, StorageAssumption DEF Numbers
  <2>4. ~Writes(work[w].op) /\ UNCHANGED <<file, data, meta>>
    BY <1>1 DEF Writes, disk
  <2> QED BY <2>1, <2>2, <2>3, <2>4
<1>5. CASE Local(w, "head", "new") /\ f = 0 /\ To(w, "missing")
  <2>1. PICK r : Moved(w, r, "missing", work[w].f, work[w].got, work[w].own, work[w].left)
    BY <1>1, <1>5, CallMoves DEF Ats, Over
  <2>2. ReadProgress(w)'
    BY <1>1, <2>1 DEF Moved, WorkPut, ReadProgress
  <2>3. ~work[w].met => ~There(n) /\ Holds(n, work[w].got, work[w].own)
    BY <1>2, <1>3, <1>5 DEF Kept, Holds, Local
  <2> QED BY <1>1, <1>2, <1>4, <2>1, <2>2, <2>3, ReadGoesOn
<1>6. CASE /\ Local(w, "head", "new") /\ f # 0
           /\ work' = [work EXCEPT ![w].at = "meta", ![w].got = data[f]]
  <2>1. data[f] \in Numbers \X Numbers
    BY <1>4, <1>6
  <2>2. PICK r : Moved(w, r, "meta", work[w].f, data[f], work[w].own, work[w].left)
    BY <1>1, <1>6, <2>1, CallMoves DEF Ats
  <2>3. ReadProgress(w)'
    BY <1>1, <1>2, <1>4, <1>6, <2>2 DEF Moved, WorkPut, ReadProgress
  <2>4. "meta" \in StagesOf(work[w].op) \ {"new"}
    BY <1>1 DEF StagesOf
  <2> QED BY <1>1, <1>4, <2>2, <2>3, <2>4, ReadGoesOn
<1>7. CASE Local(w, "head", "meta") /\ Ends(w, "ok", work[w].got, meta[work[w].key])
  <2>1. PICK r : Moved(w, r, "ok", work[w].f, work[w].got, meta[k], work[w].left)
    BY <1>1, <1>2, <1>4, <1>7, CallMoves DEF Ats, Over
  <2>2. ReadProgress(w)'
    BY <1>1, <2>1 DEF Moved, WorkPut, ReadProgress, Running
  <2>3. ~work[w].met => There(n) /\ Holds(n, work[w].got, meta[k])
    BY <1>1, <1>2, <1>3, <1>7 DEF Kept, Holds, Local, ReadProgress
  <2> QED BY <1>1, <1>2, <1>4, <2>1, <2>2, <2>3, ReadGoesOn
<1> QED BY <1>2, <1>5, <1>6, <1>7 DEF HeadLocal

\* LocalStorageAdapter.exists.
LEMMA ExistsSteps ==
  ASSUME ObjectsInv, NEW w \in Workers, Step(w), ExistsLocal(w), UNCHANGED remote
  PROVE  ObjectsInv'
<1>1. /\ adapter = "local" /\ Running(w) /\ work[w].op = "exists" /\ Typed
      /\ UNCHANGED <<adapter, disk, remote, history, faults>>
  BY DEF Step, ExistsLocal, Local, history, ObjectsInv
<1>2. PICK k, n : k = work[w].key /\ n = work[w].n
  OBVIOUS
<1>3. ~work[w].met => Kept(n, k)
  BY <1>1, <1>2, ReadFacts DEF Reads
<1>4. PICK a \in {"ok", "missing"} : To(w, a) /\ (a = "ok" <=> file[k] # 0)
  BY <1>2 DEF ExistsLocal
<1>5. PICK r : Moved(w, r, a, work[w].f, work[w].got, work[w].own, work[w].left)
  BY <1>1, <1>4, CallMoves DEF Ats, Over
<1>6. ReadProgress(w)'
  BY <1>1, <1>5 DEF Moved, WorkPut, ReadProgress
<1>7. ~work[w].met => (a = "ok" <=> There(n))
  BY <1>3, <1>4 DEF Kept
<1> QED BY <1>1, <1>2, <1>4, <1>5, <1>6, <1>7, ReadGoesOn DEF Writes

\* LocalStorageAdapter.list.
LEMMA ListSteps ==
  ASSUME ObjectsInv, NEW w \in Workers, Step(w), ListLocal(w), UNCHANGED remote
  PROVE  ObjectsInv'
<1>1. /\ adapter = "local" /\ Running(w) /\ work[w].op = "list" /\ Typed
      /\ UNCHANGED <<adapter, disk, remote, history, faults>> /\ UNCHANGED file
  BY DEF Step, ListLocal, Local, history, disk, ObjectsInv
<1>2. /\ ~Writes(work[w].op) /\ work[w].op \notin Reads
      /\ StagesOf(work[w].op) = {"new", "each"}
  BY <1>1 DEF Writes, Reads, StagesOf
<1>3. ReadProgress(w) /\ work[w].left \in SUBSET Keys /\ work[w].got \in Numbers \X Numbers
  BY <1>1, CallTyped DEF ObjectsInv, Directory
<1>4. ASSUME NEW a \in {"ok", "missing"}, To(w, a)
      PROVE  ObjectsInv'
  <2>1. PICK r : Moved(w, r, a, work[w].f, work[w].got, work[w].own, work[w].left)
    BY <1>1, <1>4, CallMoves DEF Ats, Over
  <2>2. ReadProgress(w)'
    BY <1>1, <2>1 DEF Moved, WorkPut, ReadProgress, Running
  <2> QED BY <1>1, <1>2, <2>1, <2>2, ReadGoesOn
<1>5. CASE work' = [work EXCEPT ![w].at = "each", ![w].left = Entries]
  <2>1. Entries \in SUBSET Keys /\ \A k \in Entries : file[k] # 0
    BY DEF Entries
  <2>2. PICK l : l = Entries
    OBVIOUS
  <2>3. PICK r : Moved(w, r, "each", work[w].f, work[w].got, work[w].own, l)
    BY <1>1, <1>5, <2>1, <2>2, CallMoves DEF Ats
  <2>4. ReadProgress(w)'
    BY <1>1, <2>1, <2>2, <2>3 DEF Moved, WorkPut, ReadProgress
  <2> QED BY <1>1, <1>2, <2>3, <2>4, ReadGoesOn
<1>6. ASSUME Local(w, "list", "each"), NEW k \in work[w].left,
             work' = IF file[k] = 0 THEN [work EXCEPT ![w].at = "error", ![w].left = {}]
                     ELSE [work EXCEPT ![w].left = @ \ {k}]
      PROVE  ObjectsInv'
  <2>1. CASE file[k] = 0
    <3>1. PICK r : Moved(w, r, "error", work[w].f, work[w].got, work[w].own, {})
      BY <1>1, <1>6, <2>1, CallMoves DEF Ats, Over
    <3>2. ReadProgress(w)'
      BY <1>1, <3>1 DEF Moved, WorkPut, ReadProgress, Running
    <3>3. work[w].met
      BY <1>1, <1>3, <1>6, <2>1 DEF ReadProgress
    <3> QED BY <1>1, <1>2, <3>1, <3>2, <3>3, ReadGoesOn
  <2>2. CASE file[k] # 0
    <3>1. PICK l \in SUBSET Keys : l = work[w].left \ {k}
      BY <1>3
    <3>2. work' = [work EXCEPT ![w].left = l]
      BY <1>6, <2>2, <3>1
    <3>3. PICK r : Moved(w, r, work[w].at, work[w].f, work[w].got, work[w].own, l)
      BY <1>1, <3>2, CallMoves
    <3>4. ReadProgress(w)'
      BY <1>1, <1>3, <3>1, <3>3 DEF Moved, WorkPut, ReadProgress
    <3>5. work[w].at \in StagesOf(work[w].op) \ {"new"} /\ work[w].at # "error"
      BY <1>2, <1>6 DEF Local
    <3> QED BY <1>1, <1>2, <3>3, <3>4, <3>5, ReadGoesOn
  <2> QED BY <2>1, <2>2
<1> QED BY <1>4, <1>5, <1>6 DEF ListLocal

\* S3StorageAdapter: a call is answered in one step.
LEMMA S3Steps ==
  ASSUME ObjectsInv, NEW w \in Workers, Step(w), ServeS3(w), UNCHANGED disk
  PROVE  ObjectsInv'
<1>1. /\ adapter = "s3" /\ Running(w) /\ work[w].at = "new" /\ Typed
      /\ UNCHANGED <<adapter, disk, log, undone, faults, blob>>
  BY DEF Step, ServeS3, ObjectsInv
<1>2. PICK k, n : k = work[w].key /\ n = work[w].n
  OBVIOUS
<1>t. /\ object \in [Keys -> Numbers] /\ blob \in [Contents -> Numbers] /\ 0 \in Numbers
      /\ faults \in 0 .. MaxFaults /\ n \in Numbers
      /\ work[w].got \in Numbers \X Numbers
      /\ work[w].op \in {"none", "put", "delete", "get", "exists", "head", "list"}
  BY <1>1, <1>2, FreeCalls, CallTyped DEF Typed, Call
<1>3. CASE Writes(work[w].op)
  <2>1. /\ Writing(w) /\ Wrote(w, "ok")
    BY <1>1, <1>3 DEF ServeS3, Writing, Writes
  <2>2. k \in Keys /\ log[n].op = work[w].op
    BY <1>1, <1>2, <1>3, <2>1 DEF ObjectsInv, CallShape, Names, Writes
  <2>3. object' = [object EXCEPT ![k] = IF log[n].op = "put" THEN n ELSE 0]
    BY <1>2, <1>3, <2>2 DEF ServeS3, Writes
  <2>4. PICK r : r = [Free EXCEPT !.at = "ok"]
    OBVIOUS
  <2>5. r \in Call /\ r.at = "ok" /\ r.op = "none" /\ r.n = 0 /\ work' = [work EXCEPT ![w] = r]
    BY <2>1, <2>4, FreeCalls DEF Over, Wrote
  <2>6. WorkPut(w, r) /\ work'[w] = r
    BY <1>1, <2>5 DEF WorkPut, Typed
  <2>7. ~Running(w)'
    BY <2>5, <2>6 DEF Running
  <2>8. worn' = worn \/ (worn' = worn \ {k} /\ ~work[w].met)
    BY <1>2 DEF Step
  <2>9. /\ object' \in [Keys -> Numbers] /\ \A j \in Keys \ {k} : object'[j] = object[j]
        /\ object'[k] = IF log[n].op = "put" THEN n ELSE 0
    BY <1>t, <2>2, <2>3
  <2> QED BY <1>1, <1>2, <1>t, <2>1, <2>5, <2>6, <2>7, <2>8, <2>9, RemoteWrite
<1>4. CASE ~Writes(work[w].op)
  <2>1. UNCHANGED <<adapter, disk, remote, history, faults>> /\ UNCHANGED object
    BY <1>1, <1>4 DEF Step, ServeS3, Writes, remote, history
  <2>2. work[w].op # "none"
    BY <1>1 DEF ObjectsInv, CallShape, StagesOf
  <2>3. CASE work[w].op \in Reads
    <3>1. /\ k \in Keys /\ work[w].got = Empty /\ work[w].own = 0
          /\ ~work[w].met => object[k] = IF There(n) THEN n ELSE 0
      BY <1>1, <1>2, <2>3, ReadFacts
    <3>2. CASE object[k] = 0
      <4>1. To(w, "missing")
        BY <1>2, <2>3, <3>2 DEF ServeS3, Reads
      <4>2. PICK r : Moved(w, r, "missing", work[w].f, work[w].got, work[w].own, work[w].left)
        BY <1>1, <4>1, CallMoves DEF Ats, Over
      <4>3. ~work[w].met => ~There(n) /\ Holds(n, work[w].got, work[w].own)
        BY <3>1, <3>2 DEF Holds, There
      <4> QED BY <1>1, <1>2, <1>4, <2>1, <2>3, <4>2, <4>3, ReadGoesOn DEF Reads
    <3>3. CASE object[k] # 0 /\ work[w].op \in {"get", "head"}
      <4>1. PICK g, o : g = <<object[k], object[k]>>
                        /\ o = IF log[object[k]].keeps THEN object[k] ELSE 0
        OBVIOUS
      <4>2. Ends(w, "ok", g, o) /\ g \in Numbers \X Numbers /\ o \in Numbers
        BY <1>2, <1>t, <3>1, <3>3, <4>1 DEF ServeS3
      <4>3. PICK r : Moved(w, r, "ok", work[w].f, g, o, work[w].left)
        BY <1>1, <4>2, CallMoves DEF Ats, Over
      <4>4. ~work[w].met => /\ There(n)
                            /\ Holds(n, g, IF work[w].op = "get" /\ There(n) THEN n ELSE o)
        BY <3>1, <3>3, <4>1 DEF Holds, There
      <4> QED BY <1>1, <1>2, <1>4, <2>1, <3>3, <4>3, <4>4, ReadGoesOn
    <3>4. CASE object[k] # 0 /\ work[w].op = "exists"
      <4>1. To(w, "ok")
        BY <1>2, <3>4 DEF ServeS3, Writes
      <4>2. PICK r : Moved(w, r, "ok", work[w].f, work[w].got, work[w].own, work[w].left)
        BY <1>1, <4>1, CallMoves DEF Ats, Over
      <4>3. ~work[w].met => There(n)
        BY <3>1, <3>4
      <4> QED BY <1>1, <1>2, <1>4, <2>1, <3>4, <4>2, <4>3, ReadGoesOn
    <3> QED BY <2>3, <3>2, <3>3, <3>4 DEF Reads
  <2>4. CASE work[w].op = "list"
    <3>1. To(w, "ok")
      BY <2>4 DEF ServeS3, Writes
    <3>2. PICK r : Moved(w, r, "ok", work[w].f, work[w].got, work[w].own, work[w].left)
      BY <1>1, <3>1, CallMoves DEF Ats, Over
    <3> QED BY <1>1, <1>4, <2>1, <2>4, <3>2, ReadGoesOn DEF Reads
  <2> QED BY <1>4, <1>t, <2>2, <2>3, <2>4 DEF Reads, Writes
<1> QED BY <1>3, <1>4

\* VedadbStorageAdapter.
LEMMA BlobSteps ==
  ASSUME ObjectsInv, NEW w \in Workers, Step(w), ServeBlobs(w), UNCHANGED disk
  PROVE  ObjectsInv'
<1>1. /\ adapter = "vedadb" /\ Running(w) /\ work[w].at = "new" /\ Typed
      /\ UNCHANGED <<adapter, disk, log, undone, faults, object>>
  BY DEF Step, ServeBlobs, ObjectsInv
<1>2. PICK k, n : k = work[w].key /\ n = work[w].n
  OBVIOUS
<1>t. /\ object \in [Keys -> Numbers] /\ blob \in [Contents -> Numbers] /\ 0 \in Numbers
      /\ faults \in 0 .. MaxFaults /\ n \in Numbers
  BY <1>1, <1>2, FreeCalls, CallTyped DEF Typed
<1>3. CASE Wrote(w, "ok") /\ Writes(work[w].op) /\ blob' \in [Contents -> Numbers]
  <2>1. Writing(w)
    BY <1>1, <1>3 DEF Writing
  <2>2. PICK r : r = [Free EXCEPT !.at = "ok"]
    OBVIOUS
  <2>3. r \in Call /\ r.at = "ok" /\ r.op = "none" /\ r.n = 0 /\ work' = [work EXCEPT ![w] = r]
    BY <1>3, <2>2, FreeCalls DEF Over, Wrote
  <2>4. WorkPut(w, r) /\ work'[w] = r
    BY <1>1, <2>3 DEF WorkPut, Typed
  <2>5. ~Running(w)'
    BY <2>3, <2>4 DEF Running
  <2>6. worn' = worn \/ (worn' = worn \ {k} /\ ~work[w].met)
    BY <1>2 DEF Step
  <2> QED BY <1>1, <1>2, <1>3, <1>t, <2>1, <2>3, <2>4, <2>5, <2>6, RemoteWrite
<1>4. ASSUME NEW a \in {"ok", "missing"}, To(w, a), ~Writes(work[w].op), UNCHANGED blob
      PROVE  ObjectsInv'
  <2>1. PICK r : Moved(w, r, a, work[w].f, work[w].got, work[w].own, work[w].left)
    BY <1>1, <1>4, CallMoves DEF Ats, Over
  <2>2. UNCHANGED <<adapter, disk, remote, history, faults>>
    BY <1>1, <1>4 DEF Step, remote, history, Writes
  <2> QED BY <1>1, <1>4, <2>1, <2>2, ReadGoesOn
<1>5. CASE work[w].op = "put" /\ blob' = Insert(work[w].n) /\ Wrote(w, "ok")
  <2>1. blob' \in [Contents -> Numbers]
    BY <1>2, <1>5, <1>t DEF Insert
  <2> QED BY <1>3, <1>5, <2>1 DEF Writes
<1>6. CASE work[w].op = "delete" /\ Wrote(w, "ok")
             /\ blob' = [x \in Contents |-> IF x \in Rows(work[w].key) THEN 0 ELSE blob[x]]
  <2>1. blob' \in [Contents -> Numbers]
    BY <1>6, <1>t
  <2> QED BY <1>3, <1>6, <2>1 DEF Writes
<1>7. CASE /\ work[w].op \in {"get", "exists", "head"} /\ UNCHANGED blob
           /\ To(w, IF Rows(work[w].key) = {} THEN "missing" ELSE "ok")
  BY <1>4, <1>7 DEF Writes
<1>8. CASE work[w].op = "list" /\ To(w, "ok") /\ UNCHANGED blob
  BY <1>4, <1>8 DEF Writes
<1> QED BY <1>5, <1>6, <1>7, <1>8 DEF ServeBlobs

\* A read or a list starts.
LEMMA ReadStarts ==
  ASSUME ObjectsInv, NEW w \in Workers, StartRead(w) \/ StartList(w)
  PROVE  ObjectsInv'
<1>1. ~Running(w) /\ UNCHANGED <<adapter, disk, remote, history, faults>> /\ Typed
  BY DEF StartRead, StartList, ObjectsInv
<1>2. ASSUME NEW r, r \in Call, work' = [work EXCEPT ![w] = r],
             r.op \in Reads \cup {"list"}, r.at = "new", r.got = Empty, r.own = 0, r.left = {},
             r.n \in DOMAIN log \cup {0},
             r.op \in Reads => /\ r.key \in Names /\ r.n = LastWrite(r.key)
                               /\ r.met <=> WritersOf(r.key) # {} \/ r.key \in worn,
             r.op = "list" => (r.met <=> \E j \in Names : WritersOf(j) # {})
      PROVE  ObjectsInv'
  <2>1. WorkPut(w, r) /\ work'[w] = r
    BY <1>1, <1>2 DEF WorkPut, Typed
  <2>2. ~Writing(w) /\ ~Writes(r.op) /\ Running(w)' /\ ~Writing(w)'
    BY <1>1, <1>2, <2>1 DEF Writing, Writes, Running, Reads
  <2>3. UNCHANGED <<adapter, file, data, log>> /\ Names' = Names
    BY <1>1 DEF disk, history, Names
  <2>4. CallShape(w)'
    <3>1. r.at \in StagesOf(r.op) /\ r.op # "put"
      BY <1>2 DEF StagesOf, Reads
    <3>2. r.op # "list" => r.key \in Names
      BY <1>2
    <3> QED BY <1>2, <2>1, <2>2, <2>3, <3>1, <3>2 DEF CallShape
  <2>5. ~r.met =>
             /\ r.op \in Reads => /\ WritersOf(r.key) = {} /\ r.key \notin worn
                                  /\ r.n = LastWrite(r.key)
             /\ r.op = "list" => \A v \in Workers : ~Writing(v)
    <3>1. \A v \in Workers : Writing(v) => work[v].key \in Names /\ v \in WritersOf(work[v].key)
      BY WritersAre DEF ObjectsInv, CallShape, Writing, Writes
    <3> QED BY <1>2, <3>1
  <2>6. ReadProgress(w)'
    BY <1>2, <2>1 DEF ReadProgress
  <2> QED BY <1>1, <1>2, <2>1, <2>2, <2>4, <2>5, <2>6, ReadStep
<1>3. CASE StartRead(w)
  <2>1. PICK op \in Reads, k \in Names :
          work' = [work EXCEPT ![w] = [Free EXCEPT !.op = op, !.at = "new", !.key = k,
                      !.n = LastWrite(k), !.met = WritersOf(k) # {} \/ k \in worn]]
    BY <1>3 DEF StartRead, Reads
  <2>2. LastWrite(k) \in DOMAIN log \cup {0} /\ LastWrite(k) \in Numbers
    BY <1>1, LastOf, NumbersOfLog, FreeCalls DEF ObjectsInv
  <2>3. PICK met \in BOOLEAN : met <=> WritersOf(k) # {} \/ k \in worn
    OBVIOUS
  <2>4. PICK n \in Numbers : n = LastWrite(k)
    BY <2>2
  <2>5. PICK r : r = [Free EXCEPT !.op = op, !.at = "new", !.key = k,
                        !.n = LastWrite(k), !.met = WritersOf(k) # {} \/ k \in worn]
    OBVIOUS
  <2>6. r = [Free EXCEPT !.op = op, !.at = "new", !.key = k, !.n = n, !.met = met]
    BY <2>3, <2>4, <2>5
  <2>7. /\ r.op = op /\ r.at = "new" /\ r.key = k /\ r.n = n /\ r.met = met
        /\ r.got = Empty /\ r.own = 0 /\ r.left = {} /\ r \in Call
    BY <2>6, FreeCalls DEF Free, Call, Reads
  <2>8. work' = [work EXCEPT ![w] = r]
    BY <2>1, <2>5
  <2>9. r.met <=> WritersOf(r.key) # {} \/ r.key \in worn
    BY <2>3, <2>7
  <2>10. "list" \notin Reads
    BY DEF Reads
  <2> QED BY <1>2, <2>2, <2>4, <2>7, <2>8, <2>9, <2>10
<1>4. CASE StartList(w)
  <2>1. PICK met \in BOOLEAN : met <=> \E k \in Names : WritersOf(k) # {}
    OBVIOUS
  <2>2. PICK r : r = [Free EXCEPT !.op = "list", !.at = "new",
                                  !.met = \E k \in Names : WritersOf(k) # {}]
    OBVIOUS
  <2>3. r = [Free EXCEPT !.op = "list", !.at = "new", !.met = met]
    BY <2>1, <2>2
  <2>4. /\ r.op = "list" /\ r.at = "new" /\ r.n = 0 /\ r.met = met
        /\ r.got = Empty /\ r.own = 0 /\ r.left = {} /\ r \in Call
    BY <2>3, FreeCalls DEF Free, Call
  <2>5. work' = [work EXCEPT ![w] = r]
    BY <1>4, <2>2 DEF StartList
  <2>6. r.met <=> \E k \in Names : WritersOf(k) # {}
    BY <2>1, <2>4
  <2>7. "list" \notin Reads
    BY DEF Reads
  <2> QED BY <1>2, <2>4, <2>5, <2>6, <2>7
<1> QED BY <1>3, <1>4

\* Every reachable state has the inductive invariant: writes of a key that overlap
\* wear it, a write that met none is the last of its key and has left what it has
\* written so far, and a read that met none has seen nothing else.
THEOREM StorageInvariant == StorageSpec => []ObjectsInv
<1>1. StorageInit => ObjectsInv
  <2> SUFFICES ASSUME StorageInit
               PROVE  ObjectsInv
    OBVIOUS
  <2> USE DEF StorageInit
  <2>f. /\ 0 \in Numbers /\ Empty \in Numbers \X Numbers /\ Free \in Call
        /\ Free.at = "free" /\ Free.op = "none" /\ Free.n = 0
    BY FreeCalls DEF Free
  <2>1. Typed
    <3>1. /\ adapter \in Adapters /\ made \in BOOLEAN /\ worn \subseteq Names
          /\ file \in [Keys -> Numbers] /\ meta \in [Keys -> Numbers]
          /\ data \in [1 .. MaxWrites -> Numbers \X Numbers]
          /\ object \in [Keys -> Numbers] /\ blob \in [Contents -> Numbers]
          /\ work \in [Workers -> Call]
      BY <2>f
    <3>2. /\ log \in Seq(Entry) /\ Len(log) <= MaxWrites /\ undone \subseteq DOMAIN log
          /\ faults \in 0 .. MaxFaults
      BY StorageAssumption
    <3> QED BY <3>1, <3>2 DEF Typed
  <2>2. DOMAIN log = {}
    OBVIOUS
  <2>3. HaveLast /\ FilesAreOfTheirKey /\ ObjectsArePuts
    BY <2>2 DEF HaveLast, FilesAreOfTheirKey, ObjectsArePuts
  <2>4. \A w \in Workers : ~Running(w) /\ ~Writing(w) /\ work[w].op = "none" /\ work[w].n = 0
    BY <2>f DEF Running, Writing
  <2>5. \A w \in Workers : CallShape(w) /\ ReadsAlone(w) /\ WriteProgress(w) /\ ReadProgress(w)
    BY <2>4 DEF CallShape, ReadsAlone, WriteProgress, ReadProgress, Writes
  <2>6. OverlapsWear /\ AnswersFollowWrites /\ ListsFailByWrites
    BY <2>4 DEF OverlapsWear, AnswersFollowWrites, ListsFailByWrites
  <2>7. \A k : LastWrite(k) = 0
    BY <2>1, <2>2, <2>3, LastOf
  <2>8. Directory
    BY <2>5, <2>7 DEF Directory, MetaHasFile, Kept, There
  <2>9. Bucket
    BY <2>2 DEF Bucket, BucketAt, Done
  <2> QED BY <2>1, <2>3, <2>5, <2>6, <2>8, <2>9 DEF ObjectsInv
<1>2. ObjectsInv /\ [StorageNext]_storageVars => ObjectsInv'
  <2> SUFFICES ASSUME ObjectsInv, [StorageNext]_storageVars
               PROVE  ObjectsInv'
    OBVIOUS
  <2>1. ASSUME NEW w \in Workers, Step(w)
        PROVE  ObjectsInv'
    BY <2>1, PutSteps, GetSteps, DeleteSteps, ExistsSteps, HeadSteps, ListSteps, S3Steps, BlobSteps
       DEF Step
  <2>2. ASSUME NEW w \in Workers, SourceFails(w) \/ MetadataStays(w)
        PROVE  ObjectsInv'
    BY <2>2, SourceStops, MetadataIsLeft
  <2>3. ASSUME NEW w \in Workers, StartPut(w)
        PROVE  ObjectsInv'
    <3>1. PICK k \in Keys, x \in Contents, keeps \in BOOLEAN :
            StartWrite(w, [op |-> "put", key |-> k, content |-> x, keeps |-> keeps])
      BY <2>3 DEF StartPut
    <3>2. [op |-> "put", key |-> k, content |-> x, keeps |-> keeps] \in Entry
      BY DEF Entry
    <3> QED BY <3>1, <3>2, WriteStarts
  <2>4. ASSUME NEW w \in Workers, StartDelete(w)
        PROVE  ObjectsInv'
    <3>1. PICK k \in Names : StartWrite(w, [op |-> "delete", key |-> k])
      BY <2>4 DEF StartDelete
    <3>2. [op |-> "delete", key |-> k] \in Entry
      BY DEF Entry
    <3> QED BY <3>1, <3>2, WriteStarts
  <2>5. ASSUME NEW w \in Workers, StartRead(w) \/ StartList(w)
        PROVE  ObjectsInv'
    BY <2>5, ReadStarts
  <2>6. CASE StorageRestart
    BY <2>6, CallsEnd
  <2>7. CASE UNCHANGED storageVars
    <3>1. UNCHANGED <<adapter, made, file, data, meta, object, blob, work,
                      log, worn, undone, faults>>
      BY <2>7 DEF storageVars, disk, remote, history
    <3>2. /\ UNCHANGED <<Names, Call, Entry>>
          /\ \A w \in Workers : Running(w)' = Running(w) /\ Writing(w)' = Writing(w)
      BY <3>1 DEF Names, Call, Entry, Running, Writing
    <3>3. \A k : WritersOf(k)' = WritersOf(k) /\ LastWrite(k)' = LastWrite(k) /\ Done(k)' = Done(k)
      BY <3>1, <3>2 DEF WritersOf, Meeting, LastWrite, Done, Writing
    <3>4. Typed' /\ HaveLast' /\ FilesAreOfTheirKey' /\ ObjectsArePuts'
      BY <3>1, <3>2 DEF ObjectsInv, Typed, HaveLast, FilesAreOfTheirKey, ObjectsArePuts, Putting
    <3>5. \A w \in Workers : CallShape(w)' /\ ReadsAlone(w)'
      BY <3>1, <3>2, <3>3 DEF ObjectsInv, CallShape, ReadsAlone, Putting
    <3>6. OverlapsWear' /\ AnswersFollowWrites' /\ ListsFailByWrites'
      BY <3>1, <3>2 DEF ObjectsInv, OverlapsWear, IsLast, AnswersFollowWrites, ListsFailByWrites,
                        There, Holds
    <3>7. Directory'
      <4>1. (\A w \in Workers : WriteProgress(w) /\ ReadProgress(w))
              => \A w \in Workers : WriteProgress(w)' /\ ReadProgress(w)'
        BY <3>1, <3>2 DEF WriteProgress, ReadProgress
      <4>2. MetaHasFile => MetaHasFile'
        BY <3>1, <3>2 DEF MetaHasFile
      <4>3. \A k \in Keys : Kept(LastWrite(k), k) => Kept(LastWrite(k), k)'
        BY <3>1, <3>3 DEF Kept, There
      <4> QED BY <3>1, <3>3, <4>1, <4>2, <4>3 DEF ObjectsInv, Directory
    <3>8. Bucket'
      BY <3>1, <3>3 DEF ObjectsInv, Bucket, BucketAt
    <3> QED BY <3>4, <3>5, <3>6, <3>7, <3>8 DEF ObjectsInv
  <2> QED BY <2>1, <2>2, <2>3, <2>4, <2>5, <2>6, <2>7 DEF StorageNext
<1> QED BY <1>1, <1>2, PTL DEF StorageSpec

\* What the run checks: a key at rest holds its last write, whole; reads that met
\* no write answer it, and lists fail by writes alone.
THEOREM StorageIsRight == StorageSpec => []StorageInv
<1>1. ObjectsInv => StorageInv
  <2> SUFFICES ASSUME ObjectsInv
               PROVE  StorageInv
    OBVIOUS
  <2>1. Typed
    BY DEF ObjectsInv
  <2>2. StorageTypeOK
    <3>1. work \in [Workers -> [op : {"none", "put", "delete", "get", "exists", "head", "list"},
             at : {"free", "new", "open", "first", "second", "meta", "stat", "each",
                   "ok", "missing", "error"},
             key : Names \cup {"none"}, n : Numbers, met : BOOLEAN, f : Numbers,
             got : Numbers \X Numbers, own : Numbers, left : SUBSET Keys]]
      BY <2>1 DEF Typed, Call, Over
    <3>2. \A k \in Keys : file[k] # 0 => file[k] \in DOMAIN log /\ log[file[k]].op = "put"
      BY DEF ObjectsInv, FilesAreOfTheirKey, Putting
    <3> QED BY <2>1, <3>1, <3>2 DEF StorageTypeOK, Typed
  <2>3. LastWriteIsKept
    <3> SUFFICES ASSUME NEW k \in Keys, WritersOf(k) = {}, k \notin worn
                 PROVE  LET n == LastWrite(k) IN
                        /\ adapter = "local"
                             => Holds(n, IF file[k] = 0 THEN Empty ELSE data[file[k]], meta[k])
                        /\ adapter = "s3" => object[k] = IF There(n) THEN n ELSE 0
      BY DEF LastWriteIsKept
    <3> QED BY AtRest DEF Kept, Holds
  <2> QED BY <2>2, <2>3 DEF ObjectsInv, StorageInv
<1> QED BY <1>1, StorageInvariant, PTL
=============================================================================
