--------------------------- MODULE ClientProofs ---------------------------
(***************************************************************************)
(* Proofs about the two clients: VbpClient, for any calls, sockets and     *)
(* widths, and WebSession, for any accounts, tabs and lives of the tokens. *)
(***************************************************************************)
EXTENDS VbpClient, WebSession, SequenceTheorems, TLAPS

\* Numbers are given once.
Numbered ==
  /\ \A c \in Calls : call[c].seq < nextSeq
  /\ \A c, e \in Calls : call[c].seq = call[e].seq => call[c].seq = 0 \/ c = e
  /\ \A c \in Calls : call[c].state = "new" => call[c].seq = 0

\* An entry is under the number of its call; a pending call has an entry.
Registered ==
  /\ \A q \in Seqs : inflight[q] # NoCall => call[inflight[q]].seq = q
  /\ \A c \in Calls : Pending(c) => call[c].seq # 0
  /\ PendingIsInflight

VbpInv == Numbered /\ Registered /\ ClosedIsSettled

\* What a call's promise may do without its number: settle, or go on.
LEMMA FailedIsCall ==
  ASSUME NEW d \in Call
  PROVE  /\ Failed(d) \in Call
         /\ Failed(d).seq = d.seq
         /\ Failed(d).state # "pending"
         /\ Failed(d).state = "new" => d.state = "new"
<1>1. <<>> \in Seq(0..MaxChunks)
  OBVIOUS
<1>2. CASE d.state = "pending"
  BY <1>1, <1>2 DEF Failed, Call
<1>3. CASE d.state # "pending"
  BY <1>3 DEF Failed, Call
<1>4. QED BY <1>2, <1>3
-----------------------------------------------------------------------------
(***************************************************************************)
(* Types.                                                                  *)
(***************************************************************************)

LEMMA AnsweredIsCall ==
  ASSUME NEW d \in Call, NEW f \in Frame
  PROVE  /\ Answered(d, f) \in Call
         /\ Answered(d, f).seq = d.seq
         /\ Answered(d, f).state = "new" => d.state = "new"
         /\ Answered(d, f).state = "pending" => d.state = "pending" /\ ~Ends(f)
<1>0. f.n \in 0..MaxChunks
  BY DEF Frame
<1>1. Append(d.got, f.n) \in Seq(0..MaxChunks)
  BY <1>0 DEF Call
<1>2. CASE ~Ends(f)
  BY <1>1, <1>2 DEF Answered, Call
<1>3. CASE Ends(f) /\ (f.op = "error" \/ d.state # "pending")
  BY <1>3, FailedIsCall DEF Answered
<1>4. CASE Ends(f) /\ ~(f.op = "error" \/ d.state # "pending")
  BY <1>4 DEF Answered, Call
<1>5. QED BY <1>2, <1>3, <1>4

LEMMA HandleTyped ==
  ASSUME TypeOK, NEW f \in Frame, HandleFrame(f)
  PROVE  /\ call' \in [Calls -> Call]
         /\ inflight' \in [Seqs -> Calls \cup {NoCall}]
<1>1. CASE inflight[f.seq] = NoCall
  BY <1>1 DEF HandleFrame, TypeOK
<1>2. CASE inflight[f.seq] # NoCall
  <2>1. inflight[f.seq] \in Calls
    BY <1>2 DEF TypeOK, Frame
  <2>2. Answered(call[inflight[f.seq]], f) \in Call
    BY <2>1, AnsweredIsCall DEF TypeOK
  <2>3. QED BY <1>2, <2>1, <2>2 DEF HandleFrame, TypeOK
<1>3. QED BY <1>1, <1>2

\* Every reachable state is well typed: a number never exceeds its width,
\* and what is under way to the client are frames.
THEOREM TypeCorrect == Spec => []TypeOK
<1> USE VbpAssumption
<1>1. Init => TypeOK
  <2> SUFFICES ASSUME Init PROVE TypeOK
    OBVIOUS
  <2>1. call \in [Calls -> Call]
    <3>1. <<>> \in Seq(0..MaxChunks)
      OBVIOUS
    <3>2. [state |-> "new", seq |-> 0, on |-> NoSocket, written |-> FALSE,
           got |-> <<>>] \in Call
      BY <3>1 DEF Call
    <3>3. QED BY <3>2 DEF Init
  <2>2. wire \in [Sockets -> Seq(Frame)]
    <3>1. <<>> \in Seq(Frame)
      OBVIOUS
    <3>2. QED BY <3>1 DEF Init
  <2>3. sent \in [Sockets -> [Seqs -> 0..MaxChunks]]
    <3>1. 0 \in 0..MaxChunks
      OBVIOUS
    <3>2. QED BY <3>1 DEF Init
  <2>4. /\ inflight \in [Seqs -> Calls \cup {NoCall}]
        /\ conn \in [Sockets -> {"new", "hello", "open", "closing", "closed"}]
        /\ hello \in [Sockets -> Sockets \cup {NoSocket}]
        /\ asked \in [Sockets -> SUBSET Seqs]
    BY DEF Init
  <2>5. nextSeq \in Nat \ {0}
    BY DEF Init
  <2>6. socket \in Sockets \cup {NoSocket} /\ connected \in BOOLEAN
    BY DEF Init
  <2>7. /\ lost \subseteq Sockets \X Seqs \X (0..MaxChunks)
        /\ torn \subseteq Sockets
    BY Zenon DEF Init
  <2>8. QED BY <2>1, <2>2, <2>3, <2>4, <2>5, <2>6, <2>7 DEF TypeOK
<1>2. TypeOK /\ [Next]_vars => TypeOK'
  <2> SUFFICES ASSUME TypeOK, [Next]_vars PROVE TypeOK'
    OBVIOUS
  <2>1. ASSUME NEW s \in Sockets, Connect(s) PROVE TypeOK'
    BY <2>1 DEF Connect, TypeOK, SeqOfConnection, server
  <2>2. ASSUME NEW s \in Sockets, OnConnect(s) PROVE TypeOK'
    BY <2>2 DEF OnConnect, TypeOK, server
  <2>h. ASSUME NEW s \in Sockets, HelloWritten(s) PROVE TypeOK'
    BY <2>h DEF HelloWritten, TypeOK, server
  <2>3. ASSUME NEW s \in Sockets, OnClose(s) PROVE TypeOK'
    <3>1. <<>> \in Seq(Frame) /\ {} \in SUBSET Seqs
      OBVIOUS
    <3>2. QED BY <2>3, <3>1 DEF OnClose, TypeOK
  <2>4. ASSUME Close PROVE TypeOK'
    <3>1. call' \in [Calls -> Call]
      <4>1. \A c \in Calls : Failed(call[c]) \in Call /\ call[c] \in Call
        BY FailedIsCall DEF TypeOK
      <4>2. QED BY <2>4, <4>1 DEF Close
    <3>2. wire' \in [Sockets -> Seq(Frame)]
      <4>1. <<>> \in Seq(Frame)
        OBVIOUS
      <4>2. QED BY <2>4, <4>1 DEF Close, TypeOK
    <3>3. inflight' \in [Seqs -> Calls \cup {NoCall}]
      BY <2>4 DEF Close
    <3>4. asked' \in [Sockets -> SUBSET Seqs]
      BY <2>4 DEF Close, TypeOK
    <3>5. conn' \in [Sockets -> {"new", "hello", "open", "closing", "closed"}]
      BY <2>4 DEF Close, TypeOK
    <3>6. QED BY <2>4, <3>1, <3>2, <3>3, <3>4, <3>5 DEF Close, TypeOK
  <2>5. ASSUME NEW c \in Calls, Refuse(c) PROVE TypeOK'
    <3>0. call[c] \in Call
      BY DEF TypeOK
    <3>1. [call[c] EXCEPT !.state = "failed"] \in Call
      BY <3>0 DEF Call
    <3>2. QED BY <2>5, <3>1 DEF Refuse, TypeOK, server
  <2>6. ASSUME NEW c \in Calls, Start(c) PROVE TypeOK'
    <3>1. nextSeq \in Seqs
      BY <2>6 DEF Start, TypeOK, Seqs
    <3>0. call[c] \in Call /\ socket \in Sockets \cup {NoSocket}
      BY DEF TypeOK
    <3>6. nextSeq \in 0..MaxSeq
      BY <3>1 DEF Seqs
    <3>2. [call[c] EXCEPT !.state = "pending", !.seq = nextSeq, !.on = socket]
            \in Call
      BY <3>0, <3>6 DEF Call
    <3>3. call' \in [Calls -> Call]
      BY <2>6, <3>2 DEF Start, TypeOK
    <3>4. inflight' \in [Seqs -> Calls \cup {NoCall}]
      BY <2>6, <3>1 DEF Start, TypeOK
    <3>5. nextSeq' \in Nat \ {0}
      BY <2>6 DEF Start, TypeOK
    <3>7. UNCHANGED <<socket, connected, hello, conn, asked, sent, wire, lost, torn>>
      BY <2>6 DEF Start, server
    <3>8. QED BY <3>3, <3>4, <3>5, <3>7 DEF TypeOK
  <2>7. ASSUME NEW c \in Calls, StartBeyond(c) PROVE TypeOK'
    <3>0. call[c] \in Call
      BY DEF TypeOK
    <3>1. [call[c] EXCEPT !.state = "failed"] \in Call
      BY <3>0 DEF Call
    <3>2. QED BY <2>7, <3>1 DEF StartBeyond, TypeOK, server
  <2>8. ASSUME NEW c \in Calls, Write(c) PROVE TypeOK'
    <3>0. call[c] \in Call
      BY DEF TypeOK
    <3>1. [call[c] EXCEPT !.written = TRUE] \in Call
      BY <3>0 DEF Call
    <3>2. call[c].seq \in Seqs
      BY <2>8, <3>0 DEF Write, Call, Seqs
    <3>3. call' \in [Calls -> Call]
      BY <2>8, <3>1 DEF Write, TypeOK
    <3>4. asked' \in [Sockets -> SUBSET Seqs]
      BY <2>8, <3>2 DEF Write, TypeOK
    <3>5. QED BY <2>8, <3>3, <3>4 DEF Write, TypeOK
  <2>9. ASSUME NEW c \in Calls, WriteFails(c) PROVE TypeOK'
    <3>1. Failed(call[c]) \in Call
      BY FailedIsCall DEF TypeOK
    <3>2. [Failed(call[c]) EXCEPT !.written = TRUE] \in Call
      BY <3>1 DEF Call
    <3>3. QED BY <2>9, <3>2 DEF WriteFails, TypeOK, server
  <2>10. ASSUME NEW c \in Calls, PingTimeout(c) PROVE TypeOK'
    <3>1. Failed(call[c]) \in Call
      BY FailedIsCall DEF TypeOK
    <3>2. QED BY <2>10, <3>1 DEF PingTimeout, TypeOK, server
  <2>11. ASSUME NEW s \in Sockets, NEW q \in Seqs, ServeChunk(s, q)
         PROVE  TypeOK'
    <3>1. sent[s][q] + 1 \in 0..MaxChunks
      BY <2>11 DEF ServeChunk, TypeOK
    <3>2. [seq |-> q, op |-> "chunk", n |-> sent[s][q] + 1] \in Frame
      BY <3>1 DEF Frame
    <3>3. wire' \in [Sockets -> Seq(Frame)]
      BY <2>11, <3>2 DEF ServeChunk, TypeOK
    <3>4. sent' \in [Sockets -> [Seqs -> 0..MaxChunks]]
      BY <2>11, <3>1 DEF ServeChunk, TypeOK
    <3>5. QED BY <2>11, <3>3, <3>4 DEF ServeChunk, TypeOK, client
  <2>12. ASSUME NEW s \in Sockets, NEW q \in Seqs, ServeEnd(s, q)
         PROVE  TypeOK'
    <3>1. \A op \in {"complete", "error"} :
            [seq |-> q, op |-> op, n |-> 0] \in Frame
      BY DEF Frame
    <3>2. wire' \in [Sockets -> Seq(Frame)]
      BY <2>12, <3>1 DEF ServeEnd, TypeOK
    <3>3. asked' \in [Sockets -> SUBSET Seqs]
      BY <2>12 DEF ServeEnd, TypeOK
    <3>4. QED BY <2>12, <3>2, <3>3 DEF ServeEnd, TypeOK, client
  <2>13. ASSUME NEW s \in Sockets, Deliver(s) PROVE TypeOK'
    <3>1. wire[s] \in Seq(Frame) /\ wire[s] # <<>>
      BY <2>13 DEF Deliver, TypeOK
    <3>2. Head(wire[s]) \in Frame /\ Tail(wire[s]) \in Seq(Frame)
      BY <3>1
    <3>3. HandleFrame(Head(wire[s]))
      BY <2>13 DEF Deliver
    <3>4. /\ call' \in [Calls -> Call]
          /\ inflight' \in [Seqs -> Calls \cup {NoCall}]
      BY <3>2, <3>3, HandleTyped
    <3>5. QED BY <2>13, <3>2, <3>4 DEF Deliver, TypeOK
  <2>14. ASSUME NEW s \in Sockets, NEW k \in 1..(MaxSeq * (MaxChunks + 1)),
                Tear(s, k)
         PROVE  TypeOK'
    <3>1. wire[s] \in Seq(Frame) /\ k \in 1..Len(wire[s])
      BY <2>14 DEF Tear, TypeOK
    <3>2. SubSeq(wire[s], k + 1, Len(wire[s])) \in Seq(Frame)
      BY <3>1
    <3>3. wire' \in [Sockets -> Seq(Frame)]
      BY <2>14, <3>2 DEF Tear, TypeOK
    <3>0. \A i \in 1..k : wire[s][i] \in Frame
      BY <3>1
    <3>4. \A i \in 1..k : wire[s][i].op = "chunk" =>
            <<s, wire[s][i].seq, wire[s][i].n>>
              \in Sockets \X Seqs \X (0..MaxChunks)
      BY <3>0 DEF Frame
    <3>5. lost' \subseteq Sockets \X Seqs \X (0..MaxChunks)
      BY <2>14, <3>4 DEF Tear, TypeOK
    <3>6. QED BY <2>14, <3>3, <3>5 DEF Tear, TypeOK, client
  <2>15. CASE UNCHANGED vars
    BY <2>15 DEF TypeOK, vars, client, server
  <2>16. QED
    BY <2>1, <2>2, <2>h, <2>3, <2>4, <2>5, <2>6, <2>7, <2>8, <2>9, <2>10, <2>11,
       <2>12, <2>13, <2>14, <2>15 DEF Next
<1>3. QED BY <1>1, <1>2, PTL DEF Spec
-----------------------------------------------------------------------------
(***************************************************************************)
(* Calls and their entries.                                                *)
(***************************************************************************)

\* A step that gives no number and settles calls or lets them be: the entries
\* of those that stay pending stay.
LEMMA Settling ==
  ASSUME TypeOK, VbpInv, TypeOK', nextSeq' = nextSeq,
         \A c \in Calls : /\ call'[c].seq = call[c].seq
                          /\ call'[c].state = "new" => call[c].state = "new"
                          /\ Pending(c)' => Pending(c),
         \A q \in Seqs : inflight'[q] # NoCall => inflight'[q] = inflight[q],
         \A c \in Calls : Pending(c)' =>
           inflight'[call[c].seq] = inflight[call[c].seq],
         socket' = NoSocket => socket = NoSocket
  PROVE  VbpInv'
<1>1. Numbered'
  BY DEF VbpInv, Numbered
<1>2. \A q \in Seqs : inflight'[q] # NoCall => call'[inflight'[q]].seq = q
  <2> SUFFICES ASSUME NEW q \in Seqs, inflight'[q] # NoCall
               PROVE  call'[inflight'[q]].seq = q
    OBVIOUS
  <2>1. inflight'[q] = inflight[q] /\ inflight[q] \in Calls
    BY DEF TypeOK
  <2>2. QED BY <2>1 DEF VbpInv, Registered
<1>3. \A c \in Calls : Pending(c)' =>
        call'[c].seq # 0 /\ inflight'[call'[c].seq] = c
  BY DEF VbpInv, Registered, PendingIsInflight
<1>4. ClosedIsSettled'
  BY DEF VbpInv, ClosedIsSettled
<1>5. QED BY <1>1, <1>2, <1>3, <1>4
          DEF VbpInv, Registered, PendingIsInflight, Pending

LEMMA SettlesOne ==
  ASSUME TypeOK, VbpInv, TypeOK', UNCHANGED <<nextSeq, socket, inflight>>,
         NEW c \in Calls, NEW d, call' = [call EXCEPT ![c] = d],
         d.seq = call[c].seq,
         d.state = "new" => call[c].state = "new",
         d.state = "pending" => call[c].state = "pending"
  PROVE  VbpInv'
<1>1. \A e \in Calls : call'[e] = IF e = c THEN d ELSE call[e]
  BY DEF TypeOK
<1>2. \A e \in Calls : /\ call'[e].seq = call[e].seq
                       /\ call'[e].state = "new" => call[e].state = "new"
                       /\ Pending(e)' => Pending(e)
  BY <1>1 DEF Pending
<1>3. QED BY <1>2, Settling

\* Steps of the server and of TCP touch no promise.
LEMMA OthersSettleNothing ==
  ASSUME TypeOK, VbpInv, TypeOK', UNCHANGED <<nextSeq, call, inflight>>,
         socket' = NoSocket => socket = NoSocket
  PROVE  VbpInv'
<1>1. QED BY Settling DEF Pending

\* The inductive invariant: numbers are given once, entries and calls agree.
THEOREM VbpInvariant == Spec => []VbpInv
<1> USE VbpAssumption
<1>1. Init => VbpInv
  <2> SUFFICES ASSUME Init PROVE VbpInv
    OBVIOUS
  <2>1. \A c \in Calls : call[c].seq = 0 /\ call[c].state = "new"
    BY DEF Init
  <2>2. \A q \in Seqs : inflight[q] = NoCall
    BY DEF Init
  <2>3. nextSeq = 1
    BY DEF Init
  <2>4. QED BY <2>1, <2>2, <2>3 DEF VbpInv, Numbered, Registered, Pending,
                                   PendingIsInflight, ClosedIsSettled
<1>2. TypeOK /\ TypeOK' /\ VbpInv /\ [Next]_vars => VbpInv'
  <2> SUFFICES ASSUME TypeOK, TypeOK', VbpInv, [Next]_vars PROVE VbpInv'
    OBVIOUS
  <2>0. \A c \in Calls : call[c] \in Call
    BY DEF TypeOK
  <2>1. ASSUME NEW s \in Sockets, Connect(s) PROVE VbpInv'
    BY <2>1, OthersSettleNothing DEF Connect, SeqOfConnection
  <2>2. ASSUME NEW s \in Sockets, OnConnect(s) PROVE VbpInv'
    BY <2>2, OthersSettleNothing DEF OnConnect
  <2>h. ASSUME NEW s \in Sockets, HelloWritten(s) PROVE VbpInv'
    BY <2>h, OthersSettleNothing DEF HelloWritten
  <2>3. ASSUME NEW s \in Sockets, OnClose(s) PROVE VbpInv'
    BY <2>3, OthersSettleNothing DEF OnClose
  <2>4. ASSUME Close PROVE VbpInv'
    <3>1. \A c \in Calls : Pending(c) => Rejected(c)
      <4> SUFFICES ASSUME NEW c \in Calls, Pending(c) PROVE Rejected(c)
        OBVIOUS
      <4>1. call[c].seq # 0 /\ inflight[call[c].seq] = c
        BY DEF VbpInv, Registered, PendingIsInflight
      <4>2. call[c].seq \in Seqs
        BY <2>0, <4>1 DEF Call, Seqs
      <4>3. QED BY <4>1, <4>2 DEF Rejected
    <3>2. \A c \in Calls :
            /\ call'[c].seq = call[c].seq
            /\ call'[c].state = "new" => call[c].state = "new"
            /\ call'[c].state # "pending"
      <4> SUFFICES ASSUME NEW c \in Calls
                   PROVE  /\ call'[c].seq = call[c].seq
                          /\ call'[c].state = "new" => call[c].state = "new"
                          /\ call'[c].state # "pending"
        OBVIOUS
      <4>1. CASE Rejected(c)
        BY <2>0, <2>4, <4>1, FailedIsCall DEF Close
      <4>2. CASE ~Rejected(c)
        BY <2>4, <3>1, <4>2 DEF Close, Pending
      <4>3. QED BY <4>1, <4>2
    <3>3. \A c \in Calls : ~Pending(c)'
      BY <3>2 DEF Pending
    <3>4. \A q \in Seqs : inflight'[q] = NoCall
      BY <2>4 DEF Close
    <3>5. Numbered'
      BY <2>4, <3>2 DEF VbpInv, Numbered, Close
    <3>6. QED BY <3>3, <3>4, <3>5 DEF VbpInv, Registered, PendingIsInflight,
                                      ClosedIsSettled
  <2>5. ASSUME NEW c \in Calls, Refuse(c) PROVE VbpInv'
    <3> DEFINE d == [call[c] EXCEPT !.state = "failed"]
    <3>1. d.seq = call[c].seq /\ d.state = "failed"
      BY <2>0 DEF Call
    <3>2. call' = [call EXCEPT ![c] = d]
      BY <2>5 DEF Refuse
    <3> HIDE DEF d
    <3>3. QED BY <2>5, <3>1, <3>2, SettlesOne DEF Refuse
  <2>6. ASSUME NEW c \in Calls, Start(c) PROVE VbpInv'
    <3>1. /\ nextSeq \in Seqs /\ nextSeq \in Nat /\ nextSeq # 0
          /\ nextSeq' = nextSeq + 1 /\ socket' = socket
          /\ socket # NoSocket /\ call[c].state = "new"
      BY <2>6 DEF Start, TypeOK, Seqs
    <3> DEFINE d == [call[c] EXCEPT !.state = "pending", !.seq = nextSeq,
                                    !.on = socket]
    <3>2. d.seq = nextSeq /\ d.state = "pending"
      BY <2>0 DEF Call
    <3>3. call' = [call EXCEPT ![c] = d]
      BY <2>6 DEF Start
    <3>4. inflight' = [inflight EXCEPT ![nextSeq] = c]
      BY <2>6 DEF Start
    <3> HIDE DEF d
    <3>5. \A e \in Calls : call'[e] = IF e = c THEN d ELSE call[e]
      BY <3>3 DEF TypeOK
    <3>6. \A q \in Seqs : inflight'[q] = IF q = nextSeq THEN c ELSE inflight[q]
      BY <3>4 DEF TypeOK
    <3>7. \A e \in Calls : call[e].seq \in Nat /\ call[e].seq < nextSeq
      BY <2>0 DEF VbpInv, Numbered, Call
    <3>8. Numbered'
      BY <3>1, <3>2, <3>5, <3>7 DEF VbpInv, Numbered
    <3>9. \A q \in Seqs : inflight'[q] # NoCall => call'[inflight'[q]].seq = q
      <4> SUFFICES ASSUME NEW q \in Seqs, inflight'[q] # NoCall
                   PROVE  call'[inflight'[q]].seq = q
        OBVIOUS
      <4>1. CASE q = nextSeq
        BY <3>2, <3>5, <3>6, <4>1
      <4>2. CASE q # nextSeq
        <5>1. /\ inflight'[q] = inflight[q] /\ inflight[q] \in Calls
              /\ call[inflight[q]].seq = q
          BY <3>6, <4>2 DEF TypeOK, VbpInv, Registered
        <5>2. inflight[q] # c
          <6>1. call[c].seq = 0 /\ q # 0
            BY <3>1 DEF VbpInv, Numbered, Seqs
          <6>2. QED BY <5>1, <6>1
        <5>3. QED BY <3>5, <5>1, <5>2
      <4>3. QED BY <4>1, <4>2
    <3>10. \A e \in Calls : Pending(e)' =>
             call'[e].seq # 0 /\ inflight'[call'[e].seq] = e
      <4> SUFFICES ASSUME NEW e \in Calls, call'[e].state = "pending"
                   PROVE  call'[e].seq # 0 /\ inflight'[call'[e].seq] = e
        BY DEF Pending
      <4>1. CASE e = c
        BY <3>1, <3>2, <3>5, <3>6, <4>1
      <4>2. CASE e # c
        <5>1. call'[e] = call[e] /\ Pending(e)
          BY <3>5, <4>2 DEF Pending
        <5>2. call[e].seq # 0 /\ inflight[call[e].seq] = e
          BY <5>1 DEF VbpInv, Registered, PendingIsInflight
        <5>3. call[e].seq \in Seqs /\ call[e].seq # nextSeq
          BY <2>0, <3>7, <5>2 DEF Call, Seqs
        <5>4. QED BY <3>6, <5>1, <5>2, <5>3
      <4>3. QED BY <4>1, <4>2
    <3>11. ClosedIsSettled'
      BY <3>1 DEF ClosedIsSettled
    <3>12. QED BY <3>8, <3>9, <3>10, <3>11
               DEF VbpInv, Registered, PendingIsInflight, Pending
  <2>7. ASSUME NEW c \in Calls, StartBeyond(c) PROVE VbpInv'
    <3> DEFINE d == [call[c] EXCEPT !.state = "failed"]
    <3>1. d.seq = call[c].seq /\ d.state = "failed"
      BY <2>0 DEF Call
    <3>2. call' = [call EXCEPT ![c] = d]
      BY <2>7 DEF StartBeyond
    <3> HIDE DEF d
    <3>3. \A e \in Calls : call'[e] = IF e = c THEN d ELSE call[e]
      BY <3>2 DEF TypeOK
    <3>4. \A e \in Calls : /\ call'[e].seq = call[e].seq
                           /\ call'[e].state = "new" => call[e].state = "new"
                           /\ Pending(e)' => Pending(e)
      BY <3>1, <3>3 DEF Pending
    <3>5. nextSeq' = nextSeq + 1 /\ inflight' = inflight /\ socket' = socket
      BY <2>7 DEF StartBeyond
    <3>6. Numbered'
      <4>1. \A e \in Calls : call[e].seq \in Nat
        BY <2>0 DEF Call
      <4>2. \A e \in Calls : call[e].seq < nextSeq + 1
        BY <4>1 DEF TypeOK, VbpInv, Numbered
      <4>3. QED BY <3>4, <3>5, <4>2 DEF VbpInv, Numbered
    <3>7. \A q \in Seqs : inflight'[q] # NoCall => call'[inflight'[q]].seq = q
      BY <3>4, <3>5, ZenonT(60) DEF TypeOK, VbpInv, Registered
    <3>8. \A e \in Calls : Pending(e)' =>
            call'[e].seq # 0 /\ inflight'[call'[e].seq] = e
      BY <3>4, <3>5 DEF VbpInv, Registered, PendingIsInflight
    <3>9. ClosedIsSettled'
      BY <3>4, <3>5 DEF VbpInv, ClosedIsSettled
    <3>10. QED BY <3>6, <3>7, <3>8, <3>9
               DEF VbpInv, Registered, PendingIsInflight
  <2>8. ASSUME NEW c \in Calls, Write(c) PROVE VbpInv'
    <3> DEFINE d == [call[c] EXCEPT !.written = TRUE]
    <3>1. d.seq = call[c].seq /\ d.state = call[c].state
      BY <2>0 DEF Call
    <3>2. call' = [call EXCEPT ![c] = d]
      BY <2>8 DEF Write
    <3> HIDE DEF d
    <3>3. QED BY <2>8, <3>1, <3>2, SettlesOne DEF Write
  <2>9. ASSUME NEW c \in Calls, WriteFails(c) PROVE VbpInv'
    <3> DEFINE d == [Failed(call[c]) EXCEPT !.written = TRUE]
    <3>1. /\ d.seq = call[c].seq /\ d.state # "pending"
          /\ d.state = "new" => call[c].state = "new"
      <4>1. Failed(call[c]) \in Call
        BY <2>0, FailedIsCall
      <4>2. d.seq = Failed(call[c]).seq /\ d.state = Failed(call[c]).state
        BY <4>1 DEF Call
      <4>3. QED BY <2>0, <4>2, FailedIsCall
    <3>2. call' = [call EXCEPT ![c] = d]
      BY <2>9 DEF WriteFails
    <3> HIDE DEF d
    <3>3. \A e \in Calls : call'[e] = IF e = c THEN d ELSE call[e]
      BY <3>2 DEF TypeOK
    <3>4. \A e \in Calls : /\ call'[e].seq = call[e].seq
                           /\ call'[e].state = "new" => call[e].state = "new"
                           /\ Pending(e)' => Pending(e) /\ e # c
      BY <3>1, <3>3 DEF Pending
    <3>5. inflight' = [inflight EXCEPT ![call[c].seq] = NoCall]
      BY <2>9 DEF WriteFails
    <3>6. \A q \in Seqs : inflight'[q] # NoCall => inflight'[q] = inflight[q]
      BY <3>5 DEF TypeOK
    <3>7. \A e \in Calls : Pending(e)' =>
            inflight'[call[e].seq] = inflight[call[e].seq]
      <4> SUFFICES ASSUME NEW e \in Calls, Pending(e)'
                   PROVE  inflight'[call[e].seq] = inflight[call[e].seq]
        OBVIOUS
      <4>1. call[e].seq # call[c].seq
        BY <3>4 DEF VbpInv, Registered, Numbered
      <4>2. QED BY <3>5, <4>1 DEF TypeOK
    <3>8. nextSeq' = nextSeq /\ socket' = socket
      BY <2>9 DEF WriteFails
    <3>9. QED BY <3>4, <3>6, <3>7, <3>8, Settling
  <2>10. ASSUME NEW c \in Calls, PingTimeout(c) PROVE VbpInv'
    <3>1. call' = [call EXCEPT ![c] = Failed(call[c])]
      BY <2>10 DEF PingTimeout
    <3>2. /\ Failed(call[c]).seq = call[c].seq
          /\ Failed(call[c]).state # "pending"
          /\ Failed(call[c]).state = "new" => call[c].state = "new"
      BY <2>0, FailedIsCall
    <3>3. QED BY <2>10, <3>1, <3>2, SettlesOne DEF PingTimeout
  <2>11. ASSUME NEW s \in Sockets, NEW q \in Seqs, ServeChunk(s, q)
         PROVE  VbpInv'
    BY <2>11, OthersSettleNothing DEF ServeChunk, client
  <2>12. ASSUME NEW s \in Sockets, NEW q \in Seqs, ServeEnd(s, q)
         PROVE  VbpInv'
    BY <2>12, OthersSettleNothing DEF ServeEnd, client
  <2>13. ASSUME NEW s \in Sockets, Deliver(s) PROVE VbpInv'
    <3> DEFINE f == Head(wire[s])
    <3>1. f \in Frame
      <4>1. wire[s] \in Seq(Frame) /\ wire[s] # <<>>
        BY <2>13 DEF Deliver, TypeOK
      <4>2. QED BY <4>1
    <3>2. HandleFrame(f) /\ nextSeq' = nextSeq /\ socket' = socket
      BY <2>13 DEF Deliver
    <3> HIDE DEF f
    <3>3. CASE inflight[f.seq] = NoCall
      BY <3>2, <3>3, OthersSettleNothing DEF HandleFrame
    <3>4. CASE inflight[f.seq] # NoCall
      <4> DEFINE c == inflight[f.seq]
                 d == Answered(call[c], f)
      <4>1. c \in Calls /\ f.seq \in Seqs
        BY <3>1, <3>4 DEF Frame, TypeOK
      <4>2. /\ call' = [call EXCEPT ![c] = d]
            /\ inflight' = IF Ends(f) THEN [inflight EXCEPT ![f.seq] = NoCall]
                           ELSE inflight
        BY <3>2, <3>4 DEF HandleFrame
      <4>3. /\ d.seq = call[c].seq
            /\ d.state = "new" => call[c].state = "new"
            /\ d.state = "pending" => call[c].state = "pending" /\ ~Ends(f)
        BY <2>0, <3>1, <4>1, AnsweredIsCall
      <4>4. call[c].seq = f.seq
        BY <3>4, <4>1 DEF VbpInv, Registered
      <4> HIDE DEF d, c
      <4>5. \A e \in Calls : call'[e] = IF e = c THEN d ELSE call[e]
        BY <4>2 DEF TypeOK
      <4>6. \A e \in Calls :
              /\ call'[e].seq = call[e].seq
              /\ call'[e].state = "new" => call[e].state = "new"
              /\ Pending(e)' => Pending(e) /\ (e # c \/ ~Ends(f))
        BY <4>3, <4>5 DEF Pending
      <4>7. \A q \in Seqs : inflight'[q] # NoCall => inflight'[q] = inflight[q]
        BY <4>1, <4>2 DEF TypeOK
      <4>8. \A e \in Calls : Pending(e)' =>
              inflight'[call[e].seq] = inflight[call[e].seq]
        <5> SUFFICES ASSUME NEW e \in Calls, Pending(e)'
                     PROVE  inflight'[call[e].seq] = inflight[call[e].seq]
          OBVIOUS
        <5>1. CASE ~Ends(f)
          BY <4>2, <5>1
        <5>2. CASE Ends(f)
          <6>1. call[e].seq # f.seq
            BY <4>1, <4>4, <4>6, <5>2 DEF VbpInv, Registered, Numbered
          <6>2. QED BY <4>2, <5>2, <6>1 DEF TypeOK
        <5>3. QED BY <5>1, <5>2
      <4>9. QED BY <3>2, <4>6, <4>7, <4>8, Settling
    <3>5. QED BY <3>3, <3>4
  <2>14. ASSUME NEW s \in Sockets, NEW k \in 1..(MaxSeq * (MaxChunks + 1)),
                Tear(s, k)
         PROVE  VbpInv'
    BY <2>14, OthersSettleNothing DEF Tear, client
  <2>15. CASE UNCHANGED vars
    BY <2>15, OthersSettleNothing DEF vars, client
  <2>16. QED
    BY <2>1, <2>2, <2>h, <2>3, <2>4, <2>5, <2>6, <2>7, <2>8, <2>9, <2>10, <2>11,
       <2>12, <2>13, <2>14, <2>15 DEF Next
<1>3. QED BY <1>1, <1>2, TypeCorrect, PTL DEF Spec

\* A call whose promise is open has its entry under its own number: numbers
\* are not given again, so that no other call, failed write or answer takes
\* the entry away.
THEOREM PendingCallsAreFound == Spec => []PendingIsInflight
<1>1. VbpInv => PendingIsInflight
  BY DEF VbpInv, Registered
<1>2. QED BY <1>1, VbpInvariant, PTL

\* After close no promise is open, whatever connections had been opened.
THEOREM CloseSettlesAll == Spec => []ClosedIsSettled
<1>1. VbpInv => ClosedIsSettled
  BY DEF VbpInv
<1>2. QED BY <1>1, VbpInvariant, PTL


-----------------------------------------------------------------------------
(***************************************************************************)
(* Answers.                                                                *)
(***************************************************************************)

Chunks == 0..MaxChunks

\* The frames under number q on the wire of s.
Of(s, q) == {i \in 1..Len(wire[s]) : wire[s][i].seq = q}
OnWire(s, q, n) == \E i \in Of(s, q) : wire[s][i].op = "chunk" /\ wire[s][i].n = n
Lost(s, q, n) == <<s, q, n>> \in lost

\* The frames of a number are in the order in which the server sent them, and
\* nothing follows the terminal one.
FramesInv(s, q) ==
  /\ \A i, j \in Of(s, q) : i < j =>
       /\ wire[s][i].op = "chunk"
       /\ wire[s][j].op = "chunk" => wire[s][i].n < wire[s][j].n
  /\ \A i \in Of(s, q) :
       IF wire[s][i].op = "chunk"
       THEN wire[s][i].n \in 1..sent[s][q]
       ELSE q \notin asked[s]
  /\ \A n \in Chunks : Lost(s, q, n) => n \in 1..sent[s][q] /\ ~OnWire(s, q, n)

\* The server answers what a call has written to this socket.
AskedInv(s, q) ==
  (q \in asked[s] \/ Of(s, q) # {} \/ sent[s][q] # 0)
    => \E c \in Calls : call[c].seq = q /\ call[c].on = s /\ call[c].written

Got(c, n) == \E i \in 1..Len(call[c].got) : call[c].got[i] = n
Rising(c) == \A i, j \in 1..Len(call[c].got) : i < j => call[c].got[i] < call[c].got[j]

\* Every chunk that the server sent to an open call is with it, on its way or
\* lost, and what is on its way comes after what is with it.
Accounted(c, s, q) ==
  /\ \A n \in Chunks :
       n \in 1..sent[s][q] <=> Got(c, n) \/ OnWire(s, q, n) \/ Lost(s, q, n)
  /\ \A n \in Chunks : Got(c, n) =>
       ~Lost(s, q, n) /\ \A m \in Chunks : OnWire(s, q, m) => n < m
  /\ Rising(c)

\* Nothing changes any more of a call that is resolved.
Finished(c, s, q) ==
  /\ q \notin asked[s] /\ Of(s, q) = {}
  /\ \A n \in Chunks : Got(c, n) <=> n \in 1..sent[s][q] /\ ~Lost(s, q, n)
  /\ Rising(c)

GoneTo(c, s, q) == call[c].on = s /\ call[c].seq = q
Up(s) == conn[s] \notin {"closing", "closed"}
AnswerOf(c, s, q) ==
  GoneTo(c, s, q) => /\ call[c].state = "pending" /\ Up(s) => Accounted(c, s, q)
                     /\ call[c].state = "resolved" => Finished(c, s, q)
Placed(c) ==
  /\ call[c].seq # 0 => call[c].on \in Sockets
  /\ call[c].state = "new" => call[c].got = <<>> /\ ~call[c].written
  /\ call[c].state = "resolved" => call[c].seq # 0 /\ call[c].written

AnswersInv ==
  /\ \A s \in Sockets, q \in Seqs : FramesInv(s, q) /\ AskedInv(s, q)
  /\ \A c \in Calls : Placed(c) /\ \A s \in Sockets, q \in Seqs : AnswerOf(c, s, q)

\* A socket to which nothing happens, but that the server may be done with a number.
LEMMA FramesStay ==
  ASSUME NEW s \in Sockets, NEW q \in Seqs, FramesInv(s, q), wire'[s] = wire[s],
         sent'[s] = sent[s], q \in asked'[s] => q \in asked[s],
         \A n \in Chunks : Lost(s, q, n)' <=> Lost(s, q, n), TypeOK
  PROVE  FramesInv(s, q)' /\ Of(s, q)' = Of(s, q)
<1>1. Of(s, q)' = Of(s, q)
  BY DEF Of
<1>2. \A i \in Of(s, q) : wire[s][i] \in Frame
  BY DEF Of, TypeOK
<1>3. \A i \in Of(s, q) : wire[s][i].n \in Chunks
  BY <1>2 DEF Frame, Chunks
<1>4. \A n \in Chunks : OnWire(s, q, n)' <=> OnWire(s, q, n)
  BY <1>1 DEF OnWire
<1> HIDE DEF Of, Lost, OnWire
<1> QED BY <1>1, <1>3, <1>4 DEF FramesInv

\* A socket that is closed.
LEMMA FramesClear ==
  ASSUME NEW s \in Sockets, NEW q \in Seqs, FramesInv(s, q), wire'[s] = <<>>,
         sent'[s] = sent[s], \A n \in Chunks : Lost(s, q, n)' <=> Lost(s, q, n)
  PROVE  FramesInv(s, q)' /\ Of(s, q)' = {}
<1>1. Of(s, q)' = {}
  BY DEF Of
<1>2. \A n \in Chunks : ~OnWire(s, q, n)'
  BY <1>1 DEF OnWire
<1> HIDE DEF Of, Lost, OnWire
<1> QED BY <1>1, <1>2 DEF FramesInv

LEMMA AskedStays ==
  ASSUME NEW s \in Sockets, NEW q \in Seqs, AskedInv(s, q),
         Of(s, q)' # {} => Of(s, q) # {}, q \in asked'[s] => q \in asked[s],
         sent'[s][q] = sent[s][q],
         \A c \in Calls : call[c].written =>
           call'[c].seq = call[c].seq /\ call'[c].on = call[c].on /\ call'[c].written
  PROVE  AskedInv(s, q)'
<1> HIDE DEF Of
<1> QED BY DEF AskedInv

\* A call that keeps what it has, on a socket that keeps its frames.
LEMMA AnswerStays ==
  ASSUME NEW c \in Calls, NEW s \in Sockets, NEW q \in Seqs, AnswerOf(c, s, q),
         call'[c].on = call[c].on, call'[c].seq = call[c].seq,
         call'[c].got = call[c].got,
         call'[c].state = call[c].state, Up(s)' => Up(s),
         wire'[s] = wire[s], sent'[s][q] = sent[s][q],
         q \in asked'[s] => q \in asked[s],
         \A n \in Chunks : Lost(s, q, n)' <=> Lost(s, q, n)
  PROVE  AnswerOf(c, s, q)'
<1>1. Of(s, q)' = Of(s, q)
  BY DEF Of
<1>2. \A n \in Chunks : /\ Got(c, n)' <=> Got(c, n)
                        /\ OnWire(s, q, n)' <=> OnWire(s, q, n)
  BY <1>1 DEF Got, OnWire
<1>3. Rising(c)' <=> Rising(c)
  BY DEF Rising
<1> HIDE DEF Of, Lost, Up, Got, OnWire, Rising
<1>4. Accounted(c, s, q) => Accounted(c, s, q)'
  BY <1>2, <1>3 DEF Accounted
<1>5. Finished(c, s, q) => Finished(c, s, q)'
  BY <1>1, <1>2, <1>3 DEF Finished
<1> QED BY <1>4, <1>5 DEF AnswerOf, GoneTo

\* A call that fails, or whose socket goes down.
LEMMA AnswerEnds ==
  ASSUME NEW c \in Calls, NEW s \in Sockets, NEW q \in Seqs, AnswerOf(c, s, q),
         call'[c].on = call[c].on, call'[c].seq = call[c].seq,
         \/ call'[c].state \notin {"pending", "resolved"}
         \/ ~Up(s)' /\ call'[c].state = call[c].state /\ call'[c].got = call[c].got,
         wire'[s] \in {wire[s], <<>>}, sent'[s] = sent[s], asked'[s] \subseteq asked[s],
         \A n \in Chunks : Lost(s, q, n)' <=> Lost(s, q, n)
  PROVE  AnswerOf(c, s, q)'
<1>1. CASE call'[c].state \notin {"pending", "resolved"}
  BY <1>1 DEF AnswerOf
<1>2. CASE ~Up(s)' /\ call'[c].state = call[c].state /\ call'[c].got = call[c].got
  <2>1. Of(s, q) = {} => Of(s, q)' = {}
    BY DEF Of
  <2>2. /\ \A n \in Chunks : Got(c, n)' <=> Got(c, n)
        /\ Rising(c)' <=> Rising(c)
    BY <1>2 DEF Got, Rising
  <2> HIDE DEF Of, Lost, Up, Got, OnWire, Rising
  <2>3. Finished(c, s, q) => Finished(c, s, q)'
    BY <2>1, <2>2 DEF Finished
  <2> QED BY <1>2, <2>3 DEF AnswerOf, GoneTo
<1> QED BY <1>1, <1>2

\* A call in a step that lets it be, or fails it.
Keeps(c) == /\ call'[c].on = call[c].on /\ call'[c].seq = call[c].seq
            /\ call[c].written => call'[c].written
            /\ \/ call'[c].state = "failed"
               \/ call'[c].state = call[c].state /\ call'[c].got = call[c].got
                  /\ call'[c].written = call[c].written

LEMMA PlacedStays ==
  ASSUME NEW c \in Calls, Placed(c), Keeps(c)
  PROVE  Placed(c)'
BY DEF Placed, Keeps

\* Steps that concern neither the server nor TCP.
LEMMA ServerStays ==
  ASSUME TypeOK, AnswersInv, UNCHANGED <<asked, sent, wire, lost>>,
         \A s \in Sockets : Up(s)' => Up(s), \A c \in Calls : Keeps(c)
  PROVE  AnswersInv'
<1>1. ASSUME NEW s \in Sockets, NEW q \in Seqs
      PROVE  FramesInv(s, q)' /\ AskedInv(s, q)' /\ Of(s, q)' = Of(s, q)
  <2>1. \A n \in Chunks : Lost(s, q, n)' <=> Lost(s, q, n)
    BY DEF Lost
  <2>2. FramesInv(s, q)' /\ Of(s, q)' = Of(s, q)
    BY <2>1, FramesStay DEF AnswersInv
  <2>3. AskedInv(s, q)'
    BY <2>2, AskedStays DEF AnswersInv, Keeps
  <2> QED BY <2>2, <2>3
<1>2. ASSUME NEW c \in Calls
      PROVE  Placed(c)'
  BY PlacedStays DEF AnswersInv
<1>3. ASSUME NEW c \in Calls, NEW s \in Sockets, NEW q \in Seqs
      PROVE  AnswerOf(c, s, q)'
  <2>1. \A n \in Chunks : Lost(s, q, n)' <=> Lost(s, q, n)
    BY DEF Lost
  <2>2. CASE call'[c].state = "failed"
    BY <2>2 DEF AnswerOf
  <2>3. CASE call'[c].state = call[c].state /\ call'[c].got = call[c].got
    BY <2>1, <2>3, AnswerStays DEF AnswersInv, Keeps
  <2> QED BY <2>2, <2>3 DEF Keeps
<1> QED BY <1>1, <1>2, <1>3 DEF AnswersInv

\* Sockets that close, and with them what is on the wire.
LEMMA SocketsClose ==
  ASSUME TypeOK, AnswersInv, UNCHANGED <<sent, lost>>,
         \A s \in Sockets :
           \/ wire'[s] = wire[s] /\ asked'[s] = asked[s] /\ (Up(s)' => Up(s))
           \/ wire'[s] = <<>> /\ asked'[s] = {}
              /\ (~Up(s)' \/ \A c \in Calls : call'[c].state # "pending"),
         \A c \in Calls : Keeps(c)
  PROVE  AnswersInv'
<1>0. \A s \in Sockets, q \in Seqs, n \in Chunks : Lost(s, q, n)' <=> Lost(s, q, n)
  BY DEF Lost
<1>1. ASSUME NEW s \in Sockets, NEW q \in Seqs
      PROVE  FramesInv(s, q)' /\ AskedInv(s, q)'
  <2>1. FramesInv(s, q)' /\ (Of(s, q)' = Of(s, q) \/ Of(s, q)' = {})
    <3>1. CASE wire'[s] = wire[s] /\ asked'[s] = asked[s]
      BY <1>0, <3>1, FramesStay DEF AnswersInv
    <3>2. CASE wire'[s] = <<>>
      BY <1>0, <3>2, FramesClear DEF AnswersInv
    <3> QED BY <3>1, <3>2
  <2>2. asked'[s] \subseteq asked[s]
    OBVIOUS
  <2>3. AskedInv(s, q)'
    BY <2>1, <2>2, AskedStays DEF AnswersInv, Keeps
  <2> QED BY <2>1, <2>3
<1>2. ASSUME NEW c \in Calls
      PROVE  Placed(c)'
  BY PlacedStays DEF AnswersInv
<1>3. ASSUME NEW c \in Calls, NEW s \in Sockets, NEW q \in Seqs
      PROVE  AnswerOf(c, s, q)'
  <2>1. CASE call'[c].state = "failed"
    BY <2>1 DEF AnswerOf
  <2>2. CASE /\ call'[c].state = call[c].state /\ call'[c].got = call[c].got
             /\ wire'[s] = wire[s] /\ asked'[s] = asked[s] /\ (Up(s)' => Up(s))
    BY <1>0, <2>2, AnswerStays DEF AnswersInv, Keeps
  <2>3. CASE /\ call'[c].state = call[c].state /\ call'[c].got = call[c].got
             /\ wire'[s] = <<>> /\ asked'[s] = {}
             /\ ~Up(s)' \/ \A e \in Calls : call'[e].state # "pending"
    <3>1. CASE ~Up(s)'
      <4>1. AnswerOf(c, s, q)
        BY DEF AnswersInv
      <4>2. asked'[s] \subseteq asked[s]
        BY <2>3
      <4> QED BY <1>0, <2>3, <3>1, <4>1, <4>2, AnswerEnds DEF Keeps
    <3>2. CASE Up(s)' /\ call'[c].state # "pending"
      <4>1. Of(s, q)' = {}
        BY <2>3 DEF Of
      <4>2. /\ \A n \in Chunks : Got(c, n)' <=> Got(c, n)
            /\ Rising(c)' <=> Rising(c)
        BY <2>3 DEF Got, Rising
      <4> HIDE DEF Of, Lost, Up, Got, OnWire, Rising
      <4>3. Finished(c, s, q) => Finished(c, s, q)'
        BY <1>0, <2>3, <4>1, <4>2 DEF Finished
      <4> QED BY <2>3, <3>2, <4>3 DEF AnswersInv, AnswerOf, GoneTo, Keeps
    <3> QED BY <2>3, <3>1, <3>2
  <2> QED BY <2>1, <2>2, <2>3 DEF Keeps
<1> QED BY <1>1, <1>2, <1>3 DEF AnswersInv

\* Nobody was asked anything for a call that is not written, nor on another socket.
LEMMA Unasked ==
  ASSUME TypeOK, VbpInv, AnswersInv, NEW c \in Calls, NEW s \in Sockets, NEW q \in Seqs,
         call[c].seq = q, call[c].on # s \/ ~call[c].written
  PROVE  /\ q \notin asked[s] /\ Of(s, q) = {} /\ sent[s][q] = 0
         /\ \A n \in Chunks : ~Lost(s, q, n)
<1>1. \A e \in Calls : call[e].seq = q => e = c
  BY DEF VbpInv, Numbered, Seqs
<1>2. AskedInv(s, q) /\ FramesInv(s, q)
  BY DEF AnswersInv
<1>3. q \notin asked[s] /\ Of(s, q) = {} /\ sent[s][q] = 0
  BY <1>1, <1>2 DEF AskedInv
<1>4. \A n \in Chunks : Lost(s, q, n) => n \in 1..sent[s][q]
  BY <1>2 DEF FramesInv
<1> QED BY <1>3, <1>4

LEMMA CallSteps ==
  ASSUME TypeOK, TypeOK', VbpInv, AnswersInv,
         \/ \E s \in Sockets : Connect(s) \/ OnConnect(s) \/ HelloWritten(s) \/ OnClose(s)
         \/ Close
         \/ \E c \in Calls : Refuse(c) \/ StartBeyond(c) \/ WriteFails(c) \/ PingTimeout(c)
  PROVE  AnswersInv'
<1>0. \A c \in Calls : call[c] \in Call
  BY DEF TypeOK
<1>f. ASSUME NEW d \in Call
      PROVE  /\ Failed(d).on = d.on /\ Failed(d).seq = d.seq /\ Failed(d).written = d.written
             /\ Failed(d).state = "failed" \/ Failed(d) = d
  BY DEF Failed, Call
<1>1. ASSUME NEW s \in Sockets, Connect(s) \/ OnConnect(s)
      PROVE  AnswersInv'
  <2>1. /\ UNCHANGED <<call, asked, sent, wire, lost>>
        /\ conn' = [conn EXCEPT ![s] = conn'[s]] /\ conn[s] \in {"new", "hello"}
    BY <1>1 DEF Connect, OnConnect, server, TypeOK
  <2>2. \A t \in Sockets : Up(t)' => Up(t)
    BY <2>1 DEF Up, TypeOK
  <2>3. \A c \in Calls : Keeps(c)
    BY <2>1 DEF Keeps
  <2> QED BY <2>1, <2>2, <2>3, ServerStays
<1>h. ASSUME NEW s \in Sockets, HelloWritten(s)
      PROVE  AnswersInv'
  <2>1. UNCHANGED <<call, asked, sent, wire, lost, conn>>
    BY <1>h DEF HelloWritten, server
  <2>2. \A t \in Sockets : Up(t)' => Up(t)
    BY <2>1 DEF Up
  <2>3. \A c \in Calls : Keeps(c)
    BY <2>1 DEF Keeps
  <2> QED BY <2>1, <2>2, <2>3, ServerStays
<1>2. ASSUME NEW s \in Sockets, OnClose(s)
      PROVE  AnswersInv'
  <2>1. /\ UNCHANGED <<call, sent, lost>>
        /\ conn'[s] = "closed" /\ wire'[s] = <<>> /\ asked'[s] = {}
        /\ \A t \in Sockets : t # s => /\ wire'[t] = wire[t] /\ asked'[t] = asked[t]
                                       /\ conn'[t] = conn[t]
    BY <1>2 DEF OnClose, TypeOK
  <2>2. \A c \in Calls : Keeps(c)
    BY <2>1 DEF Keeps
  <2>3. \A t \in Sockets :
           \/ wire'[t] = wire[t] /\ asked'[t] = asked[t] /\ (Up(t)' => Up(t))
           \/ wire'[t] = <<>> /\ asked'[t] = {}
              /\ (~Up(t)' \/ \A c \in Calls : call'[c].state # "pending")
    BY <2>1 DEF Up
  <2> QED BY <2>1, <2>2, <2>3, SocketsClose
<1>3. ASSUME Close
      PROVE  AnswersInv'
  <2>1. \A c \in Calls : Pending(c) => Rejected(c)
    <3> SUFFICES ASSUME NEW c \in Calls, Pending(c) PROVE Rejected(c)
      OBVIOUS
    <3>1. call[c].seq # 0 /\ inflight[call[c].seq] = c
      BY DEF VbpInv, Registered, PendingIsInflight
    <3>2. call[c].seq \in Seqs
      BY <1>0, <3>1 DEF Call, Seqs
    <3> QED BY <3>1, <3>2 DEF Rejected
  <2>2. \A c \in Calls : Keeps(c) /\ call'[c].state # "pending"
    <3> SUFFICES ASSUME NEW c \in Calls PROVE Keeps(c) /\ call'[c].state # "pending"
      OBVIOUS
    <3>1. CASE Rejected(c)
      <4>1. call'[c] = Failed(call[c])
        BY <1>3, <3>1 DEF Close
      <4> QED BY <1>0, <1>f, <4>1, FailedIsCall DEF Keeps
    <3>2. CASE ~Rejected(c)
      BY <1>3, <2>1, <3>2 DEF Close, Keeps, Pending
    <3> QED BY <3>1, <3>2
  <2>3. /\ \A t \in Sockets : t = socket => wire'[t] = <<>> /\ asked'[t] = {}
        /\ \A t \in Sockets : t # socket => wire'[t] = wire[t] /\ asked'[t] = asked[t]
                                            /\ conn'[t] = conn[t]
        /\ UNCHANGED <<sent, lost>>
    BY <1>3 DEF Close
  <2>4. \A t \in Sockets :
           \/ wire'[t] = wire[t] /\ asked'[t] = asked[t] /\ (Up(t)' => Up(t))
           \/ wire'[t] = <<>> /\ asked'[t] = {}
              /\ (~Up(t)' \/ \A c \in Calls : call'[c].state # "pending")
    BY <2>2, <2>3 DEF Up
  <2> QED BY <2>2, <2>3, <2>4, SocketsClose
<1>4. ASSUME NEW c \in Calls, Refuse(c) \/ StartBeyond(c) \/ WriteFails(c) \/ PingTimeout(c)
      PROVE  AnswersInv'
  <2>1. UNCHANGED <<asked, sent, wire, lost, conn>>
    BY <1>4 DEF Refuse, StartBeyond, WriteFails, PingTimeout, server
  <2>2. Keeps(c) /\ \A e \in Calls : e # c => call'[e] = call[e]
    <3>1. CASE Refuse(c) \/ StartBeyond(c)
      BY <1>0, <3>1 DEF Refuse, StartBeyond, Keeps, TypeOK, Call
    <3>2. CASE WriteFails(c)
      <4> DEFINE d == [Failed(call[c]) EXCEPT !.written = TRUE]
      <4>1. call' = [call EXCEPT ![c] = d] /\ ~call[c].written
        BY <3>2 DEF WriteFails
      <4>2. /\ d.on = Failed(call[c]).on /\ d.seq = Failed(call[c]).seq /\ d.written = TRUE
            /\ d.state = Failed(call[c]).state /\ d.got = Failed(call[c]).got
        BY <1>0, FailedIsCall DEF Call
      <4> HIDE DEF d
      <4>3. call'[c] = d /\ \A e \in Calls : e # c => call'[e] = call[e]
        BY <4>1 DEF TypeOK
      <4>4. call[c].state = "failed" \/ Failed(call[c]).state = "failed"
        <5>1. call[c].seq # 0
          BY <3>2 DEF WriteFails
        <5>2. call[c].state # "new" /\ call[c].state # "resolved"
          BY <4>1, <5>1 DEF VbpInv, Numbered, AnswersInv, Placed
        <5> QED BY <1>0, <5>2 DEF Failed, Call
      <4> QED BY <1>0, <1>f, <4>1, <4>2, <4>3, <4>4 DEF Keeps
    <3>3. CASE PingTimeout(c)
      <4>1. call'[c] = Failed(call[c]) /\ \A e \in Calls : e # c => call'[e] = call[e]
        BY <3>3 DEF PingTimeout, TypeOK
      <4> QED BY <1>0, <1>f, <4>1 DEF Keeps
    <3> QED BY <1>4, <3>1, <3>2, <3>3
  <2>3. \A e \in Calls : Keeps(e)
    BY <2>2 DEF Keeps
  <2>4. \A s \in Sockets : Up(s)' => Up(s)
    BY <2>1 DEF Up
  <2> QED BY <2>1, <2>3, <2>4, ServerStays
<1> QED BY <1>1, <1>h, <1>2, <1>3, <1>4

LEMMA StartStep ==
  ASSUME TypeOK, VbpInv, AnswersInv, NEW c \in Calls, Start(c)
  PROVE  AnswersInv'
<1>0. /\ \A e \in Calls : call[e] \in Call /\ call[e].seq \in Nat
      /\ nextSeq \in Nat /\ nextSeq # 0
  BY DEF TypeOK, Call
<1> DEFINE d == [call[c] EXCEPT !.state = "pending", !.seq = nextSeq, !.on = socket]
<1>1. /\ call' = [call EXCEPT ![c] = d] /\ call[c].state = "new" /\ socket \in Sockets
      /\ UNCHANGED <<asked, sent, wire, lost, conn>>
  BY DEF Start, server, TypeOK
<1>2. /\ d.state = "pending" /\ d.seq = nextSeq /\ d.on = socket /\ d.got = call[c].got
      /\ d.written = call[c].written
  BY <1>0 DEF Call
<1> HIDE DEF d
<1>3. call'[c] = d /\ \A e \in Calls : e # c => call'[e] = call[e]
  BY <1>1 DEF TypeOK
<1>4. call[c].got = <<>> /\ ~call[c].written
  BY <1>1 DEF AnswersInv, Placed
<1>5. \A s \in Sockets, q \in Seqs, n \in Chunks : Lost(s, q, n)' <=> Lost(s, q, n)
  BY <1>1 DEF Lost
<1>6. ASSUME NEW s \in Sockets, NEW q \in Seqs
      PROVE  FramesInv(s, q)' /\ AskedInv(s, q)'
  <2>1. FramesInv(s, q)' /\ Of(s, q)' = Of(s, q)
    BY <1>1, <1>5, FramesStay DEF AnswersInv
  <2>2. \A e \in Calls : call[e].written =>
           call'[e].seq = call[e].seq /\ call'[e].on = call[e].on /\ call'[e].written
    BY <1>3, <1>4
  <2> QED BY <1>1, <2>1, <2>2, AskedStays DEF AnswersInv
<1>7. ASSUME NEW e \in Calls
      PROVE  Placed(e)'
  BY <1>1, <1>2, <1>3 DEF AnswersInv, Placed
<1>8. ASSUME NEW e \in Calls, e # c, NEW s \in Sockets, NEW q \in Seqs
      PROVE  AnswerOf(e, s, q)'
  <2>1. Up(s)' => Up(s)
    BY <1>1 DEF Up
  <2> QED BY <1>1, <1>3, <1>5, <1>8, <2>1, AnswerStays DEF AnswersInv
<1>9. ASSUME NEW s \in Sockets, NEW q \in Seqs
      PROVE  AnswerOf(c, s, q)'
  <2>1. CASE s # socket \/ q # nextSeq
    BY <1>2, <1>3, <2>1 DEF AnswerOf, GoneTo
  <2>2. CASE s = socket /\ q = nextSeq
    <3>1. \A e \in Calls : call[e].seq # q
      <4> SUFFICES ASSUME NEW e \in Calls PROVE call[e].seq # nextSeq
        BY <2>2
      <4>1. call[e].seq < nextSeq
        BY DEF VbpInv, Numbered
      <4>2. call[e].seq \in Nat
        BY <1>0
      <4> QED BY <1>0, <4>1, <4>2
    <3>2. q \notin asked[s] /\ Of(s, q) = {} /\ sent[s][q] = 0
      BY <3>1 DEF AnswersInv, AskedInv
    <3>3. \A n \in Chunks : ~Lost(s, q, n)
      BY <3>2 DEF AnswersInv, FramesInv
    <3>4. Of(s, q)' = {} /\ sent'[s][q] = 0 /\ \A n \in Chunks : ~Lost(s, q, n)'
      BY <1>1, <1>5, <3>2, <3>3 DEF Of
    <3>5. Rising(c)' /\ \A n \in Chunks : ~Got(c, n)' /\ ~OnWire(s, q, n)'
      BY <1>2, <1>3, <1>4, <3>4 DEF Rising, Got, OnWire
    <3>6. Accounted(c, s, q)'
      <4> HIDE DEF Lost, Got, OnWire, Rising
      <4> QED BY <3>4, <3>5 DEF Accounted
    <3> QED BY <1>2, <1>3, <3>6 DEF AnswerOf
  <2> QED BY <2>1, <2>2
<1> QED BY <1>6, <1>7, <1>8, <1>9 DEF AnswersInv

LEMMA WriteStep ==
  ASSUME TypeOK, VbpInv, AnswersInv, NEW c \in Calls, Write(c)
  PROVE  AnswersInv'
<1> DEFINE yes == TRUE
           d == [call[c] EXCEPT !.written = yes]
<1>0. yes = TRUE /\ call[c] \in Call
  BY DEF TypeOK
<1>1. PICK s \in Sockets, q \in Seqs : s = call[c].on /\ q = call[c].seq
  BY <1>0 DEF Write, AnswersInv, Placed, Call, Seqs
<1>2. /\ call' = [call EXCEPT ![c] = d] /\ ~call[c].written
      /\ asked' = [asked EXCEPT ![s] = @ \cup {q}]
      /\ UNCHANGED <<sent, wire, lost, conn>>
  BY <1>1 DEF Write
<1> HIDE DEF yes
<1>3. /\ d.state = call[c].state /\ d.seq = q /\ d.on = s /\ d.got = call[c].got
      /\ d.written = yes
  BY <1>0, <1>1 DEF Call
<1> HIDE DEF d
<1>4. call'[c] = d /\ \A e \in Calls : e # c => call'[e] = call[e]
  BY <1>2 DEF TypeOK
<1>5. \A t \in Sockets, p \in Seqs :
        p \in asked'[t] <=> p \in asked[t] \/ (t = s /\ p = q)
  BY <1>2 DEF TypeOK
<1>6. \A t \in Sockets, p \in Seqs, n \in Chunks : Lost(t, p, n)' <=> Lost(t, p, n)
  BY <1>2 DEF Lost
<1>7. /\ q \notin asked[s] /\ Of(s, q) = {} /\ sent[s][q] = 0
      /\ \A n \in Chunks : ~Lost(s, q, n)
  BY <1>1, <1>2, Unasked
<1>8. ASSUME NEW t \in Sockets, NEW p \in Seqs
      PROVE  FramesInv(t, p)' /\ AskedInv(t, p)'
  <2>1. CASE t = s /\ p = q
    <3>1. Of(s, q)' = {} /\ \A n \in Chunks : ~Lost(s, q, n)'
      BY <1>2, <1>6, <1>7 DEF Of
    <3>2. FramesInv(s, q)'
      <4> HIDE DEF Lost
      <4> QED BY <3>1 DEF FramesInv
    <3>3. AskedInv(s, q)'
      BY <1>0, <1>3, <1>4 DEF AskedInv
    <3> QED BY <2>1, <3>2, <3>3
  <2>2. CASE t # s \/ p # q
    <3>1. Of(t, p)' = Of(t, p)
      BY <1>2 DEF Of
    <3>2. FramesInv(t, p)'
      <4>1. p \in asked'[t] => p \in asked[t]
        BY <1>5, <2>2
      <4> QED BY <1>2, <1>6, <4>1, FramesStay DEF AnswersInv
    <3>3. \A e \in Calls : call[e].written =>
            call'[e].seq = call[e].seq /\ call'[e].on = call[e].on /\ call'[e].written
      BY <1>2, <1>4
    <3> QED BY <1>2, <1>5, <2>2, <3>1, <3>2, <3>3, AskedStays DEF AnswersInv
  <2> QED BY <2>1, <2>2
<1>9. call[c].state # "new" /\ call[c].state # "resolved"
  BY <1>1, <1>2 DEF VbpInv, Numbered, AnswersInv, Placed, Seqs
<1>10. ASSUME NEW e \in Calls
       PROVE  Placed(e)'
  <2>1. CASE e = c
    BY <1>3, <1>4, <1>9, <2>1 DEF Placed
  <2>2. CASE e # c
    BY <1>4, <2>2 DEF AnswersInv, Placed
  <2> QED BY <2>1, <2>2
<1>11. ASSUME NEW e \in Calls, NEW t \in Sockets, NEW p \in Seqs
       PROVE  AnswerOf(e, t, p)'
  <2>1. /\ call'[e].on = call[e].on /\ call'[e].seq = call[e].seq
        /\ call'[e].got = call[e].got /\ call'[e].state = call[e].state
    BY <1>1, <1>3, <1>4
  <2>2. Up(t)' => Up(t)
    BY <1>2 DEF Up
  <2>3. CASE t # s \/ p # q
    <3>1. p \in asked'[t] => p \in asked[t]
      BY <1>5, <2>3
    <3> QED BY <1>2, <1>6, <2>1, <2>2, <3>1, AnswerStays DEF AnswersInv
  <2>4. CASE t = s /\ p = q /\ e # c
    <3>1. call'[e].seq # q
      BY <1>1, <2>1, <2>4 DEF VbpInv, Numbered, Seqs
    <3> QED BY <2>4, <3>1 DEF AnswerOf, GoneTo
  <2>5. CASE t = s /\ p = q /\ e = c
    <3>1. Of(s, q)' = Of(s, q)
      BY <1>2 DEF Of
    <3>2. \A n \in Chunks : /\ Got(c, n)' <=> Got(c, n)
                            /\ OnWire(s, q, n)' <=> OnWire(s, q, n)
      BY <1>2, <2>1, <2>5, <3>1 DEF Got, OnWire
    <3>3. Rising(c)' <=> Rising(c)
      BY <2>1, <2>5 DEF Rising
    <3>4. Accounted(c, s, q) => Accounted(c, s, q)'
      <4> HIDE DEF Lost, Got, OnWire, Rising
      <4> QED BY <1>2, <1>6, <3>2, <3>3 DEF Accounted
    <3> QED BY <1>9, <2>1, <2>2, <2>5, <3>4 DEF AnswersInv, AnswerOf, GoneTo
  <2> QED BY <2>3, <2>4, <2>5
<1> QED BY <1>8, <1>10, <1>11 DEF AnswersInv

\* Frames of a number to which nothing happens, and its calls.
LEMMA SameStays ==
  ASSUME TypeOK, AnswersInv, UNCHANGED <<call, conn>>, NEW s \in Sockets,
         NEW q \in Seqs,
         Of(s, q)' = Of(s, q), \A i \in Of(s, q) : wire'[s][i] = wire[s][i],
         sent'[s][q] = sent[s][q], q \in asked'[s] => q \in asked[s],
         \A n \in Chunks : Lost(s, q, n)' <=> Lost(s, q, n)
  PROVE  FramesInv(s, q)' /\ AskedInv(s, q)' /\ \A c \in Calls : AnswerOf(c, s, q)'
<1>1. FramesInv(s, q)'
  <2>1. \A i \in Of(s, q) : wire[s][i].n \in Chunks
    <3>1. \A i \in Of(s, q) : wire[s][i] \in Frame
      BY DEF Of, TypeOK
    <3> QED BY <3>1 DEF Frame, Chunks
  <2>2. FramesInv(s, q)
    BY DEF AnswersInv
  <2> HIDE DEF Of
  <2>3. \A n \in Chunks : OnWire(s, q, n)' <=> OnWire(s, q, n)
    BY DEF OnWire
  <2> HIDE DEF Lost, OnWire
  <2> QED BY <2>1, <2>2, <2>3 DEF FramesInv
<1>2. AskedInv(s, q)'
  BY AskedStays DEF AnswersInv
<1>3. ASSUME NEW c \in Calls
      PROVE  AnswerOf(c, s, q)'
  <2>1. \A n \in Chunks : /\ Got(c, n)' <=> Got(c, n)
                          /\ OnWire(s, q, n)' <=> OnWire(s, q, n)
    <3> HIDE DEF Of
    <3> QED BY DEF Got, OnWire
  <2>2. (Rising(c)' <=> Rising(c)) /\ (Up(s)' <=> Up(s)) /\ (GoneTo(c, s, q)' <=> GoneTo(c, s, q))
    BY DEF Rising, Up, GoneTo
  <2>3. AnswerOf(c, s, q)
    BY DEF AnswersInv
  <2> HIDE DEF Of, Lost, Up, Got, OnWire, Rising, GoneTo
  <2>4. Accounted(c, s, q) => Accounted(c, s, q)'
    BY <2>1, <2>2 DEF Accounted
  <2>5. Finished(c, s, q) => Finished(c, s, q)'
    BY <2>1, <2>2 DEF Finished
  <2> QED BY <2>2, <2>3, <2>4, <2>5 DEF AnswerOf
<1> QED BY <1>1, <1>2, <1>3

\* A frame more on the wire of s.
LEMMA AppendOf ==
  ASSUME TypeOK, NEW s \in Sockets, NEW f \in Frame,
         wire' = [wire EXCEPT ![s] = Append(@, f)], NEW q \in Seqs
  PROVE  /\ Len(wire[s]) \in Nat
         /\ wire'[s][Len(wire[s]) + 1] = f
         /\ \A i : i \in Of(s, q)' <=> i \in Of(s, q) \/ (i = Len(wire[s]) + 1 /\ f.seq = q)
         /\ \A i \in Of(s, q) : i \in Nat /\ i < Len(wire[s]) + 1 /\ wire'[s][i] = wire[s][i]
<1> DEFINE N == Len(wire[s])
<1>1. wire[s] \in Seq(Frame) /\ wire'[s] = Append(wire[s], f)
  BY DEF TypeOK
<1>2. N \in Nat /\ Len(wire'[s]) = N + 1 /\ wire'[s][N + 1] = f
  BY <1>1
<1>3. ASSUME NEW i \in 1..N PROVE wire'[s][i] = wire[s][i]
  BY <1>1, <1>2
<1> HIDE DEF N
<1>4. \A i : i \in Of(s, q)' <=> i \in Of(s, q) \/ (i = N + 1 /\ f.seq = q)
  <2>1. \A i : i \in 1..(N + 1) <=> i \in 1..N \/ i = N + 1
    BY <1>2
  <2>2. \A i : i \in Of(s, q)' <=> i \in 1..(N + 1) /\ wire'[s][i].seq = q
    BY <1>2 DEF Of
  <2>3. \A i : i \in Of(s, q) <=> i \in 1..N /\ wire[s][i].seq = q
    BY DEF Of, N
  <2> HIDE DEF Of
  <2> QED BY <1>2, <1>3, <2>1, <2>2, <2>3
<1>5. \A i \in Of(s, q) : i \in 1..N
  BY DEF Of, N
<1>6. \A i \in Of(s, q) : i \in Nat /\ i < N + 1 /\ wire'[s][i] = wire[s][i]
  <2> HIDE DEF Of
  <2> QED BY <1>2, <1>3, <1>5
<1> QED BY <1>2, <1>4, <1>6 DEF N

\* The server sends f under q, a chunk or the terminal frame: all else stays.
LEMMA SendElse ==
  ASSUME TypeOK, AnswersInv, NEW s \in Sockets, NEW q \in Seqs, NEW f \in Frame,
         f.seq = q,
         \A t \in Sockets : t # s => wire'[t] = wire[t],
         \A p \in Seqs :
           /\ \A i : i \in Of(s, p)' <=>
                      i \in Of(s, p) \/ (i = Len(wire[s]) + 1 /\ f.seq = p)
           /\ \A i \in Of(s, p) : wire'[s][i] = wire[s][i],
         UNCHANGED <<call, conn, lost>>,
         \A t \in Sockets, p \in Seqs : t # s \/ p # q =>
           sent'[t][p] = sent[t][p] /\ (p \in asked'[t] => p \in asked[t]),
         FramesInv(s, q)', q \in asked[s], \A c \in Calls : AnswerOf(c, s, q)'
  PROVE  AnswersInv'
<1>1. ASSUME NEW t \in Sockets, NEW p \in Seqs
      PROVE  FramesInv(t, p)' /\ AskedInv(t, p)' /\ \A c \in Calls : AnswerOf(c, t, p)'
  <2>1. CASE t = s /\ p = q
    <3>1. AskedInv(s, q)'
      BY DEF AnswersInv, AskedInv
    <3> QED BY <2>1, <3>1
  <2>2. CASE t # s \/ p # q
    <3>1. Of(t, p)' = Of(t, p) /\ \A i \in Of(t, p) : wire'[t][i] = wire[t][i]
      <4>1. CASE t # s
        <5>1. wire'[t] = wire[t]
          BY <4>1
        <5> QED BY <5>1 DEF Of
      <4>2. CASE t = s
        <5>1. f.seq # p
          BY <2>2, <4>2
        <5> HIDE DEF Of
        <5>4. Of(s, p)' = Of(s, p)
          BY <5>1
        <5> QED BY <4>2, <5>4
      <4> QED BY <4>1, <4>2
    <3>2. \A n \in Chunks : Lost(t, p, n)' <=> Lost(t, p, n)
      BY DEF Lost
    <3> QED BY <2>2, <3>1, <3>2, SameStays
  <2> QED BY <2>1, <2>2
<1>2. \A c \in Calls : Placed(c)'
  BY DEF AnswersInv, Placed
<1> QED BY <1>1, <1>2 DEF AnswersInv

LEMMA ServeChunkStep ==
  ASSUME TypeOK, AnswersInv, NEW s \in Sockets, NEW q \in Seqs, ServeChunk(s, q)
  PROVE  AnswersInv'
<1> DEFINE m == sent[s][q] + 1
           f == [seq |-> q, op |-> "chunk", n |-> m]
           N == Len(wire[s])
<1>1. /\ m \in Chunks /\ sent[s][q] \in Nat /\ sent[s][q] < MaxChunks /\ q \in asked[s]
      /\ sent'[s][q] = m
      /\ \A t \in Sockets, p \in Seqs : t # s \/ p # q => sent'[t][p] = sent[t][p]
      /\ UNCHANGED <<call, conn, asked, lost>>
  BY VbpAssumption DEF ServeChunk, TypeOK, Chunks, client
<1>2. f \in Frame /\ f.seq = q /\ f.op = "chunk" /\ f.n = m
  BY <1>1 DEF Frame, Chunks
<1>3. wire' = [wire EXCEPT ![s] = Append(@, f)]
  BY DEF ServeChunk
<1>m. m = sent[s][q] + 1
  OBVIOUS
<1> HIDE DEF f, m
<1>4. ASSUME NEW p \in Seqs
      PROVE  /\ N \in Nat /\ wire'[s][N + 1] = f
             /\ \A i : i \in Of(s, p)' <=> i \in Of(s, p) \/ (i = N + 1 /\ f.seq = p)
             /\ \A i \in Of(s, p) : i \in Nat /\ i < N + 1 /\ wire'[s][i] = wire[s][i]
  BY <1>2, <1>3, AppendOf
<1>b. \A t \in Sockets : t # s => wire'[t] = wire[t]
  BY <1>3 DEF TypeOK
<1>5. \A n \in Chunks : Lost(s, q, n)' <=> Lost(s, q, n)
  BY <1>1 DEF Lost
<1> HIDE DEF N, Of
<1>6. /\ \A i \in Of(s, q)' : (i \in Of(s, q) /\ i < N + 1) \/ i = N + 1
      /\ \A i \in Of(s, q) : i \in Nat /\ i # N + 1 /\ i \in Of(s, q)' /\ wire'[s][i] = wire[s][i]
      /\ N + 1 \in Of(s, q)'
  BY <1>2, <1>4
<1>7. FramesInv(s, q)
  BY DEF AnswersInv
<1>8. \A i \in Of(s, q) : /\ wire[s][i].op = "chunk" /\ wire[s][i].n \in 1..sent[s][q]
                          /\ wire[s][i].n \in 1..m /\ wire[s][i].n < m
  <2>1. \A i \in Of(s, q) : wire[s][i].op = "chunk" /\ wire[s][i].n \in 1..sent[s][q]
    BY <1>1, <1>7 DEF FramesInv
  <2>2. \A n \in 1..sent[s][q] : n \in 1..m /\ n < m
    BY <1>1, <1>m
  <2> QED BY <2>1, <2>2
<1>9. \A n \in Chunks : Lost(s, q, n) => n \in 1..m /\ n < m /\ ~OnWire(s, q, n)
  <2> HIDE DEF Lost, OnWire
  <2>1. \A n \in 1..sent[s][q] : n \in 1..m /\ n < m
    BY <1>1, <1>m
  <2> QED BY <1>7, <2>1 DEF FramesInv
<1>w. \A n \in Chunks : OnWire(s, q, n)' <=> OnWire(s, q, n) \/ n = m
  BY <1>2, <1>4, <1>6 DEF OnWire
<1>10. FramesInv(s, q)'
  <2>0. m \in Nat /\ m \in 1..m
    BY <1>1, <1>m
  <2>1. ASSUME NEW i \in Of(s, q)', NEW j \in Of(s, q)', i < j
        PROVE  wire'[s][i].op = "chunk" /\ wire'[s][i].n < wire'[s][j].n
    <3>1. i \in Of(s, q)
      BY <1>4, <1>6, <2>1
    <3>2. CASE j \in Of(s, q)
      BY <1>6, <1>7, <1>8, <2>1, <3>1, <3>2 DEF FramesInv
    <3>3. CASE j = N + 1
      BY <1>2, <1>4, <1>6, <1>8, <3>1, <3>3
    <3> QED BY <1>6, <3>2, <3>3
  <2>2. ASSUME NEW i \in Of(s, q)'
        PROVE  wire'[s][i].op = "chunk" /\ wire'[s][i].n \in 1..sent'[s][q]
    <3>2. CASE i \in Of(s, q)
      BY <1>1, <1>6, <1>8, <3>2
    <3>3. CASE i = N + 1
      BY <1>1, <1>2, <1>4, <2>0, <3>3
    <3> QED BY <1>6, <3>2, <3>3
  <2> HIDE DEF Lost, OnWire
  <2>3. \A n \in Chunks : Lost(s, q, n)' => n \in 1..sent'[s][q] /\ ~OnWire(s, q, n)'
    <3>1. ASSUME NEW n \in Chunks, Lost(s, q, n)'
          PROVE  n \in 1..sent'[s][q] /\ ~OnWire(s, q, n)'
      <4>1. n \in 1..m /\ n < m /\ ~OnWire(s, q, n)
        BY <1>5, <1>9, <3>1
      <4>2. n # m
        BY <2>0, <4>1
      <4> QED BY <1>1, <1>w, <4>1, <4>2
    <3> QED BY <3>1
  <2> QED BY <2>1, <2>2, <2>3 DEF FramesInv
<1>11. ASSUME NEW c \in Calls
       PROVE  AnswerOf(c, s, q)'
  <2>2. /\ \A n \in Chunks : Got(c, n)' <=> Got(c, n)
        /\ Rising(c)' <=> Rising(c)
        /\ call' = call /\ Up(s)' = Up(s)
    BY <1>1 DEF Got, Rising, Up
  <2>3. AnswerOf(c, s, q)
    BY DEF AnswersInv
  <2> HIDE DEF Lost, Got, OnWire, Rising, Up
  <2>4. ~Finished(c, s, q)
    BY <1>1 DEF Finished
  <2>5. ASSUME Accounted(c, s, q) PROVE Accounted(c, s, q)'
    <3>1. \A n \in Chunks : n \in 1..sent'[s][q] <=> n \in 1..sent[s][q] \/ n = m
      BY <1>1, <1>m DEF Chunks
    <3>2. \A n \in Chunks : Got(c, n) => n \in 1..sent[s][q] /\ n < m
      BY <1>1, <1>m, <2>5 DEF Accounted
    <3>3. \A n \in Chunks : n \in 1..sent'[s][q] <=>
          Got(c, n)' \/ OnWire(s, q, n)' \/ Lost(s, q, n)'
      BY <1>5, <1>w, <2>2, <2>5, <3>1 DEF Accounted
    <3>4. \A n \in Chunks : Got(c, n)' => ~Lost(s, q, n)'
                              /\ \A k \in Chunks : OnWire(s, q, k)' => n < k
      BY <1>5, <1>w, <2>2, <2>5, <3>2 DEF Accounted
    <3> QED BY <2>2, <2>5, <3>3, <3>4 DEF Accounted
  <2> QED BY <2>2, <2>3, <2>4, <2>5 DEF AnswerOf, GoneTo
<1>12. \A t \in Sockets, p \in Seqs : t # s \/ p # q =>
           sent'[t][p] = sent[t][p] /\ (p \in asked'[t] => p \in asked[t])
  BY <1>1
<1>13. \A p \in Seqs :
         /\ \A i : i \in Of(s, p)' <=>
                    i \in Of(s, p) \/ (i = Len(wire[s]) + 1 /\ f.seq = p)
         /\ \A i \in Of(s, p) : wire'[s][i] = wire[s][i]
  BY <1>4 DEF N
<1> QED BY <1>1, <1>2, <1>b, <1>10, <1>11, <1>12, <1>13, SendElse

LEMMA ServeEndStep ==
  ASSUME TypeOK, AnswersInv, NEW s \in Sockets, NEW q \in Seqs, ServeEnd(s, q)
  PROVE  AnswersInv'
<1>1. PICK op \in {"complete", "error"} :
        wire' = [wire EXCEPT ![s] = Append(@, [seq |-> q, op |-> op, n |-> 0])]
  BY DEF ServeEnd
<1> DEFINE f == [seq |-> q, op |-> op, n |-> 0]
           N == Len(wire[s])
<1>2. /\ q \in asked[s] /\ q \notin asked'[s]
      /\ \A t \in Sockets, p \in Seqs : p \in asked'[t] => p \in asked[t]
      /\ UNCHANGED <<call, conn, sent, lost>>
  BY DEF ServeEnd, TypeOK, client
<1>3. f \in Frame /\ f.seq = q /\ f.op # "chunk"
  BY VbpAssumption DEF Frame
<1>4. wire' = [wire EXCEPT ![s] = Append(@, f)]
  BY <1>1
<1> HIDE DEF f
<1>5. ASSUME NEW p \in Seqs
      PROVE  /\ N \in Nat /\ wire'[s][N + 1] = f
             /\ \A i : i \in Of(s, p)' <=> i \in Of(s, p) \/ (i = N + 1 /\ f.seq = p)
             /\ \A i \in Of(s, p) : i \in Nat /\ i < N + 1 /\ wire'[s][i] = wire[s][i]
  BY <1>3, <1>4, AppendOf
<1>b. \A t \in Sockets : t # s => wire'[t] = wire[t]
  BY <1>4 DEF TypeOK
<1>6. \A n \in Chunks : Lost(s, q, n)' <=> Lost(s, q, n)
  BY <1>2 DEF Lost
<1> HIDE DEF N, Of
<1>7. /\ \A i \in Of(s, q)' : (i \in Of(s, q) /\ i < N + 1) \/ i = N + 1
      /\ \A i \in Of(s, q) : i \in Nat /\ i # N + 1 /\ i \in Of(s, q)' /\ wire'[s][i] = wire[s][i]
      /\ N + 1 \in Of(s, q)'
  BY <1>3, <1>5
<1>8. FramesInv(s, q)
  BY DEF AnswersInv
<1>9. \A i \in Of(s, q) : wire[s][i].op = "chunk" /\ wire[s][i].n \in 1..sent[s][q]
  BY <1>2, <1>8 DEF FramesInv
<1>w. \A n \in Chunks : OnWire(s, q, n)' <=> OnWire(s, q, n)
  BY <1>3, <1>5, <1>7 DEF OnWire
<1>10. FramesInv(s, q)'
  <2>1. ASSUME NEW i \in Of(s, q)', NEW j \in Of(s, q)', i < j
        PROVE  /\ wire'[s][i].op = "chunk"
               /\ wire'[s][j].op = "chunk" => wire'[s][i].n < wire'[s][j].n
    <3>1. i \in Of(s, q)
      BY <1>5, <1>7, <2>1
    <3>2. CASE j \in Of(s, q)
      BY <1>7, <1>8, <1>9, <2>1, <3>1, <3>2 DEF FramesInv
    <3>3. CASE j = N + 1
      BY <1>3, <1>5, <1>7, <1>9, <3>1, <3>3
    <3> QED BY <1>7, <3>2, <3>3
  <2>2. ASSUME NEW i \in Of(s, q)'
        PROVE  IF wire'[s][i].op = "chunk"
               THEN wire'[s][i].n \in 1..sent'[s][q] ELSE q \notin asked'[s]
    <3>1. CASE i \in Of(s, q)
      BY <1>2, <1>7, <1>9, <3>1
    <3>2. CASE i = N + 1
      BY <1>2, <1>3, <1>5, <3>2
    <3> QED BY <1>7, <3>1, <3>2
  <2> HIDE DEF Lost, OnWire
  <2>3. \A n \in Chunks : Lost(s, q, n)' => n \in 1..sent'[s][q] /\ ~OnWire(s, q, n)'
    BY <1>2, <1>6, <1>8, <1>w DEF FramesInv
  <2> QED BY <2>1, <2>2, <2>3 DEF FramesInv
<1>11. ASSUME NEW c \in Calls
       PROVE  AnswerOf(c, s, q)'
  <2>2. /\ \A n \in Chunks : Got(c, n)' <=> Got(c, n)
        /\ Rising(c)' <=> Rising(c)
        /\ call' = call /\ Up(s)' = Up(s)
    BY <1>2 DEF Got, Rising, Up
  <2>3. AnswerOf(c, s, q)
    BY DEF AnswersInv
  <2> HIDE DEF Lost, Got, OnWire, Rising, Up
  <2>4. ~Finished(c, s, q)
    BY <1>2 DEF Finished
  <2>5. Accounted(c, s, q) => Accounted(c, s, q)'
    BY <1>2, <1>6, <1>w, <2>2 DEF Accounted
  <2> QED BY <2>2, <2>3, <2>4, <2>5 DEF AnswerOf, GoneTo
<1>12. \A p \in Seqs :
         /\ \A i : i \in Of(s, p)' <=>
                    i \in Of(s, p) \/ (i = Len(wire[s]) + 1 /\ f.seq = p)
         /\ \A i \in Of(s, p) : wire'[s][i] = wire[s][i]
  BY <1>5 DEF N
<1> QED BY <1>2, <1>3, <1>b, <1>10, <1>11, <1>12, SendElse

\* The first k frames leave the wire of s: read, or thrown away.
Cut(s, k) ==
  /\ k \in 1..Len(wire[s]) /\ Len(wire'[s]) = Len(wire[s]) - k
  /\ \A i \in 1..(Len(wire[s]) - k) : wire'[s][i] = wire[s][i + k]
  /\ \A t \in Sockets : t # s => wire'[t] = wire[t]
Taken(s, q, k, n) ==
  \E i \in Of(s, q) : i =< k /\ wire[s][i].op = "chunk" /\ wire[s][i].n = n

LEMMA CutOf ==
  ASSUME TypeOK, NEW s \in Sockets, NEW k, Cut(s, k), NEW q \in Seqs
  PROVE  /\ k \in Nat /\ \A i \in Of(s, q) : i \in Nat
         /\ \A i \in Of(s, q)' : i \in Nat /\ i + k \in Of(s, q) /\ k < i + k
                                 /\ wire'[s][i] = wire[s][i + k]
         /\ \A j \in Of(s, q) : j > k => \E i \in Of(s, q)' : i + k = j
<1> DEFINE N == Len(wire[s])
<1>1. N \in Nat
  BY DEF TypeOK
<1>2. /\ k \in 1..N /\ Len(wire'[s]) = N - k
      /\ \A i \in 1..(N - k) : wire'[s][i] = wire[s][i + k]
  BY DEF Cut
<1>3. /\ \A i : i \in Of(s, q)' <=> i \in 1..(N - k) /\ wire'[s][i].seq = q
      /\ \A i : i \in Of(s, q) <=> i \in 1..N /\ wire[s][i].seq = q
  BY <1>2 DEF Of
<1> HIDE DEF N, Of
<1>4. k \in Nat /\ \A i \in Of(s, q) : i \in Nat
  BY <1>1, <1>2, <1>3
<1>5. ASSUME NEW i \in Of(s, q)'
      PROVE  i \in Nat /\ i + k \in Of(s, q) /\ k < i + k /\ wire'[s][i] = wire[s][i + k]
  <2>1. i \in 1..(N - k) /\ wire'[s][i].seq = q
    BY <1>3
  <2>2. i \in Nat /\ i + k \in 1..N /\ k < i + k
    BY <1>1, <1>2, <2>1
  <2>3. wire'[s][i] = wire[s][i + k]
    BY <1>2, <2>1
  <2> QED BY <1>3, <2>1, <2>2, <2>3
<1>6. ASSUME NEW j \in Of(s, q), j > k
      PROVE  \E i \in Of(s, q)' : i + k = j
  <2>1. j \in 1..N /\ wire[s][j].seq = q
    BY <1>3
  <2>2. j - k \in 1..(N - k) /\ (j - k) + k = j
    BY <1>1, <1>2, <1>6, <2>1
  <2>3. wire'[s][j - k] = wire[s][j]
    BY <1>2, <2>2
  <2> QED BY <1>3, <2>1, <2>2, <2>3
<1> QED BY <1>4, <1>5, <1>6

LEMMA CutWire ==
  ASSUME TypeOK, NEW s \in Sockets, NEW k, Cut(s, k), NEW q \in Seqs, FramesInv(s, q)
  PROVE  /\ \A n \in Chunks : OnWire(s, q, n) <=> OnWire(s, q, n)' \/ Taken(s, q, k, n)
         /\ \A n, m \in Chunks : Taken(s, q, k, n) /\ OnWire(s, q, m)' => n < m
         /\ \A n \in Chunks : Taken(s, q, k, n) => n \in 1..sent[s][q]
<1>1. /\ k \in Nat /\ \A i \in Of(s, q) : i \in Nat
      /\ \A i \in Of(s, q)' : i \in Nat /\ i + k \in Of(s, q) /\ k < i + k
                              /\ wire'[s][i] = wire[s][i + k]
      /\ \A j \in Of(s, q) : j > k => \E i \in Of(s, q)' : i + k = j
  BY CutOf
<1> HIDE DEF Of
<1>2. ASSUME NEW n \in Chunks
      PROVE  OnWire(s, q, n) <=> OnWire(s, q, n)' \/ Taken(s, q, k, n)
  <2>1. ASSUME OnWire(s, q, n) PROVE OnWire(s, q, n)' \/ Taken(s, q, k, n)
    <3>1. PICK j \in Of(s, q) : wire[s][j].op = "chunk" /\ wire[s][j].n = n
      BY <2>1 DEF OnWire
    <3>2. CASE j > k
      BY <1>1, <3>1, <3>2 DEF OnWire
    <3>3. CASE j =< k
      BY <3>1, <3>3 DEF Taken
    <3> QED BY <1>1, <3>2, <3>3
  <2>2. OnWire(s, q, n)' => OnWire(s, q, n)
    BY <1>1 DEF OnWire
  <2>3. Taken(s, q, k, n) => OnWire(s, q, n)
    BY DEF Taken, OnWire
  <2> QED BY <2>1, <2>2, <2>3
<1>3. ASSUME NEW n \in Chunks, NEW m \in Chunks, Taken(s, q, k, n), OnWire(s, q, m)'
      PROVE  n < m
  <2>1. PICK i \in Of(s, q) : i =< k /\ wire[s][i].op = "chunk" /\ wire[s][i].n = n
    BY <1>3 DEF Taken
  <2>2. PICK j \in Of(s, q)' : wire'[s][j].op = "chunk" /\ wire'[s][j].n = m
    BY <1>3 DEF OnWire
  <2>3. /\ j + k \in Of(s, q) /\ i < j + k
        /\ wire[s][j + k].op = "chunk" /\ wire[s][j + k].n = m
    BY <1>1, <2>1, <2>2
  <2> QED BY <2>1, <2>3 DEF FramesInv
<1>4. \A n \in Chunks : Taken(s, q, k, n) => n \in 1..sent[s][q]
  BY DEF Taken, FramesInv
<1> QED BY <1>2, <1>3, <1>4

LEMMA CutFrames ==
  ASSUME TypeOK, NEW s \in Sockets, NEW k, Cut(s, k), NEW q \in Seqs, FramesInv(s, q),
         sent'[s] = sent[s], asked'[s] = asked[s],
         \A n \in Chunks : Lost(s, q, n)' => Lost(s, q, n) \/ Taken(s, q, k, n)
  PROVE  FramesInv(s, q)' /\ (Of(s, q) = {} => Of(s, q)' = {})
<1>1. /\ k \in Nat /\ \A i \in Of(s, q) : i \in Nat
      /\ \A i \in Of(s, q)' : i \in Nat /\ i + k \in Of(s, q) /\ k < i + k
                              /\ wire'[s][i] = wire[s][i + k]
  BY CutOf
<1>2. /\ \A n \in Chunks : OnWire(s, q, n) <=> OnWire(s, q, n)' \/ Taken(s, q, k, n)
      /\ \A n, m \in Chunks : Taken(s, q, k, n) /\ OnWire(s, q, m)' => n < m
      /\ \A n \in Chunks : Taken(s, q, k, n) => n \in 1..sent[s][q]
  BY CutWire
<1> HIDE DEF Of, Lost, OnWire, Taken
<1>3. ASSUME NEW i \in Of(s, q)', NEW j \in Of(s, q)', i < j
      PROVE  /\ wire'[s][i].op = "chunk"
             /\ wire'[s][j].op = "chunk" => wire'[s][i].n < wire'[s][j].n
  <2>1. i + k \in Of(s, q) /\ j + k \in Of(s, q) /\ i + k < j + k
    BY <1>1, <1>3
  <2>2. wire'[s][i] = wire[s][i + k] /\ wire'[s][j] = wire[s][j + k]
    BY <1>1
  <2> QED BY <2>1, <2>2 DEF FramesInv
<1>4. ASSUME NEW i \in Of(s, q)'
      PROVE  IF wire'[s][i].op = "chunk"
             THEN wire'[s][i].n \in 1..sent'[s][q] ELSE q \notin asked'[s]
  <2>1. i + k \in Of(s, q) /\ wire'[s][i] = wire[s][i + k]
    BY <1>1
  <2> QED BY <2>1 DEF FramesInv
<1>5. ASSUME NEW n \in Chunks, Lost(s, q, n)'
      PROVE  n \in 1..sent'[s][q] /\ ~OnWire(s, q, n)'
  <2>1. CASE Lost(s, q, n)
    BY <1>2, <2>1 DEF FramesInv
  <2>2. CASE Taken(s, q, k, n)
    <3>1. n \in 1..sent'[s][q]
      BY <1>2, <2>2
    <3>2. ~OnWire(s, q, n)'
      <4>1. ~(n < n)
        BY VbpAssumption DEF Chunks
      <4> QED BY <1>2, <2>2, <4>1
    <3> QED BY <3>1, <3>2
  <2> QED BY <1>5, <2>1, <2>2
<1>6. Of(s, q) = {} => Of(s, q)' = {}
  BY <1>1
<1>7. FramesInv(s, q)'
  BY <1>3, <1>4, <1>5 DEF FramesInv
<1> QED BY <1>6, <1>7

LEMMA CutAnswer ==
  ASSUME TypeOK, NEW s \in Sockets, NEW k, Cut(s, k), NEW q \in Seqs, FramesInv(s, q),
         sent'[s] = sent[s], asked'[s] = asked[s], conn' = conn,
         NEW c \in Calls, AnswerOf(c, s, q), call'[c] = call[c],
         \A n \in Chunks : Lost(s, q, n)' <=> Lost(s, q, n) \/ Taken(s, q, k, n)
  PROVE  AnswerOf(c, s, q)'
<1>1. /\ \A n \in Chunks : OnWire(s, q, n) <=> OnWire(s, q, n)' \/ Taken(s, q, k, n)
      /\ \A n, m \in Chunks : Taken(s, q, k, n) /\ OnWire(s, q, m)' => n < m
  BY CutWire
<1>2. Of(s, q) = {} => Of(s, q)' = {} /\ \A n \in Chunks : ~Taken(s, q, k, n)
  <2>1. Of(s, q) = {} => Of(s, q)' = {}
    BY CutFrames
  <2> QED BY <2>1 DEF Taken
<1>3. /\ \A n \in Chunks : Got(c, n)' <=> Got(c, n)
      /\ Rising(c)' <=> Rising(c)
      /\ Up(s)' <=> Up(s)
  BY DEF Got, Rising, Up
<1> HIDE DEF Of, Lost, OnWire, Taken, Got, Rising, Up
<1>4. ASSUME Accounted(c, s, q) PROVE Accounted(c, s, q)'
  <2>1. \A n \in Chunks : n \in 1..sent'[s][q] <=>
          Got(c, n)' \/ OnWire(s, q, n)' \/ Lost(s, q, n)'
    BY <1>1, <1>3, <1>4 DEF Accounted
  <2>2. ASSUME NEW n \in Chunks, Got(c, n)'
        PROVE  ~Lost(s, q, n)' /\ \A m \in Chunks : OnWire(s, q, m)' => n < m
    <3>1. Got(c, n) /\ ~Lost(s, q, n) /\ \A m \in Chunks : OnWire(s, q, m) => n < m
      BY <1>3, <1>4, <2>2 DEF Accounted
    <3>2. ~Taken(s, q, k, n)
      <4>1. ~(n < n)
        BY VbpAssumption DEF Chunks
      <4> QED BY <1>1, <3>1, <4>1
    <3> QED BY <1>1, <3>1, <3>2
  <2> QED BY <1>3, <1>4, <2>1, <2>2 DEF Accounted
<1>5. ASSUME Finished(c, s, q) PROVE Finished(c, s, q)'
  BY <1>2, <1>3, <1>5 DEF Finished
<1> QED BY <1>3, <1>4, <1>5 DEF AnswerOf, GoneTo

LEMMA TearStep ==
  ASSUME TypeOK, AnswersInv, NEW s \in Sockets,
         NEW k \in 1..(MaxSeq * (MaxChunks + 1)), Tear(s, k)
  PROVE  AnswersInv'
<1>0. /\ UNCHANGED <<call, conn, asked, sent>> /\ k \in 1..Len(wire[s])
      /\ wire' = [wire EXCEPT ![s] = SubSeq(@, k + 1, Len(@))]
  BY DEF Tear, client
<1>1. Cut(s, k)
  <2>1. /\ wire[s] \in Seq(Frame) /\ Len(wire[s]) \in Nat
        /\ wire'[s] = SubSeq(wire[s], k + 1, Len(wire[s]))
        /\ \A t \in Sockets : t # s => wire'[t] = wire[t]
    BY <1>0 DEF TypeOK
  <2> DEFINE N == Len(wire[s])
             w == wire[s]
             v == wire'[s]
  <2>2. k \in Nat /\ k =< N /\ N \in Nat /\ k + 1 \in Int /\ N \in Int
    BY <1>0, <2>1
  <2>3. \A i \in (k + 1)..N : w[i] \in Frame
    BY <2>1, <2>2
  <2>4. v = SubSeq(w, k + 1, N)
    BY <2>1
  <2> HIDE DEF N, w, v
  <2>5. /\ Len(v) = IF k + 1 =< N THEN N - (k + 1) + 1 ELSE 0
        /\ \A i \in 1..(N - (k + 1) + 1) : v[i] = w[(k + 1) + i - 1]
    BY <2>2, <2>3, <2>4, SubSeqProperties
  <2>6. Len(v) = N - k /\ N - (k + 1) + 1 = N - k
    BY <2>2, <2>5
  <2>7. ASSUME NEW i \in 1..(N - k) PROVE v[i] = w[i + k]
    <3>1. i \in Int /\ (k + 1) + i - 1 = i + k
      BY <2>2
    <3> QED BY <2>5, <2>6, <3>1
  <2>8. k \in 1..N
    BY <1>0 DEF N
  <2>9. \A t \in Sockets : t # s => wire'[t] = wire[t]
    BY <2>1
  <2> QED BY <2>6, <2>7, <2>8, <2>9 DEF Cut, N, w, v
<1>2. ASSUME NEW q \in Seqs, NEW n \in Chunks
      PROVE  Lost(s, q, n)' <=> Lost(s, q, n) \/ Taken(s, q, k, n)
  <2>1. lost' = lost \cup {<<s, wire[s][j].seq, wire[s][j].n>> :
                             j \in {i \in 1..k : wire[s][i].op = "chunk"}}
    BY DEF Tear
  <2>2. \A i : i \in 1..k => i \in 1..Len(wire[s]) /\ i =< k
    BY <1>0 DEF TypeOK
  <2>3. \A i : i \in 1..Len(wire[s]) /\ i =< k => i \in 1..k
    BY <1>0 DEF TypeOK
  <2>4. Lost(s, q, n)' <=> Lost(s, q, n)
          \/ \E i \in 1..k : /\ wire[s][i].op = "chunk" /\ wire[s][i].seq = q
                             /\ wire[s][i].n = n
    BY <2>1 DEF Lost
  <2>5. Taken(s, q, k, n) <=>
          \E i \in 1..k : wire[s][i].op = "chunk" /\ wire[s][i].seq = q /\ wire[s][i].n = n
    BY <2>2, <2>3 DEF Taken, Of
  <2> QED BY <2>4, <2>5
<1>3. ASSUME NEW t \in Sockets, t # s, NEW q \in Seqs, NEW n \in Chunks
      PROVE  Lost(t, q, n)' <=> Lost(t, q, n)
  <2>1. lost' = lost \cup {<<s, wire[s][j].seq, wire[s][j].n>> :
                             j \in {i \in 1..k : wire[s][i].op = "chunk"}}
    BY DEF Tear
  <2> QED BY <1>3, <2>1 DEF Lost
<1>4. ASSUME NEW t \in Sockets, NEW q \in Seqs
      PROVE  FramesInv(t, q)' /\ AskedInv(t, q)' /\ \A c \in Calls : AnswerOf(c, t, q)'
  <2>1. CASE t = s
    <3>1. FramesInv(s, q) /\ AskedInv(s, q) /\ \A c \in Calls : AnswerOf(c, s, q)
      BY DEF AnswersInv
    <3>2. FramesInv(s, q)' /\ (Of(s, q) = {} => Of(s, q)' = {})
      BY <1>0, <1>1, <1>2, <3>1, CutFrames
    <3>3. AskedInv(s, q)'
      BY <1>0, <3>1, <3>2, AskedStays
    <3>4. \A c \in Calls : AnswerOf(c, s, q)'
      BY <1>0, <1>1, <1>2, <3>1, CutAnswer
    <3> QED BY <2>1, <3>2, <3>3, <3>4
  <2>2. CASE t # s
    <3>1. wire'[t] = wire[t]
      BY <1>1, <2>2 DEF Cut
    <3>2. Of(t, q)' = Of(t, q)
      BY <3>1 DEF Of
    <3> QED BY <1>0, <1>3, <2>2, <3>1, <3>2, SameStays
  <2> QED BY <2>1, <2>2
<1>5. \A c \in Calls : Placed(c)'
  BY <1>0 DEF AnswersInv, Placed
<1> QED BY <1>4, <1>5 DEF AnswersInv

\* The frame at the head of the wire is of a call that waits for it, or that
\* has failed.
LEMMA Awaited ==
  ASSUME TypeOK, VbpInv, AnswersInv, NEW s \in Sockets, wire[s] # <<>>,
         NEW f, f = Head(wire[s])
  PROVE  /\ f \in Frame /\ 1 \in Of(s, f.seq) /\ wire[s][1] = f
         /\ \E c \in Calls :
              /\ call[c].seq = f.seq /\ call[c].on = s /\ call[c].written
              /\ \A e \in Calls : call[e].seq = f.seq => e = c
              /\ call[c].state \in {"pending", "failed"}
              /\ inflight[f.seq] \in {c, NoCall}
              /\ call[c].state = "pending" => inflight[f.seq] = c
<1>1. wire[s] \in Seq(Frame)
  BY DEF TypeOK
<1>2. f \in Frame /\ wire[s][1] = f /\ 1 \in 1..Len(wire[s])
  BY <1>1
<1>3. f.seq \in Seqs
  BY <1>2 DEF Frame
<1>4. 1 \in Of(s, f.seq)
  BY <1>2 DEF Of
<1> HIDE DEF Of
<1>5. PICK c \in Calls : call[c].seq = f.seq /\ call[c].on = s /\ call[c].written
  BY <1>3, <1>4 DEF AnswersInv, AskedInv
<1>6. \A e \in Calls : call[e].seq = f.seq => e = c
  BY <1>3, <1>5 DEF VbpInv, Numbered, Seqs
<1>7. call[c].state \in {"new", "pending", "resolved", "failed"}
  BY DEF TypeOK, Call
<1>8. call[c].state # "new"
  BY <1>5 DEF AnswersInv, Placed
<1>9. call[c].state # "resolved"
  BY <1>3, <1>4, <1>5 DEF AnswersInv, AnswerOf, GoneTo, Finished
<1>10. inflight[f.seq] \in {c, NoCall}
  <2>1. inflight[f.seq] \in Calls \cup {NoCall}
    BY <1>3 DEF TypeOK
  <2> QED BY <1>3, <1>6, <2>1 DEF VbpInv, Registered
<1>11. call[c].state = "pending" => inflight[f.seq] = c
  BY <1>5 DEF VbpInv, Registered, PendingIsInflight, Pending
<1> QED BY <1>2, <1>4, <1>5, <1>6, <1>7, <1>8, <1>9, <1>10, <1>11

\* What a frame does to the call that waits for it.
LEMMA Answering ==
  ASSUME NEW d \in Call, NEW f \in Frame
  PROVE  LET e == Answered(d, f) IN
         /\ e.on = d.on /\ e.seq = d.seq /\ e.written = d.written
         /\ d.state = "failed" => e.state = "failed"
         /\ d.state = "pending" =>
              \/ f.op = "chunk" /\ e.state = "pending" /\ e.got = Append(d.got, f.n)
              \/ f.op # "chunk" /\ e.state = "failed"
              \/ f.op # "chunk" /\ e.state = "resolved" /\ e.got = d.got
<1>1. f.n \in 0..MaxChunks
  BY DEF Frame
<1>2. Append(d.got, f.n) \in Seq(0..MaxChunks)
  BY <1>1 DEF Call
<1>3. CASE f.op = "chunk"
  <2> DEFINE g == Append(d.got, f.n)
             e == [d EXCEPT !.got = g]
  <2>1. Answered(d, f) = e
    BY <1>3 DEF Answered, Ends
  <2> HIDE DEF g
  <2>2. /\ e.on = d.on /\ e.seq = d.seq /\ e.written = d.written /\ e.state = d.state
        /\ e.got = g
    BY DEF Call
  <2> HIDE DEF e
  <2> QED BY <1>3, <2>1, <2>2 DEF g
<1>4. CASE f.op # "chunk" /\ (f.op = "error" \/ d.state # "pending")
  <2>1. Answered(d, f) = Failed(d)
    BY <1>4 DEF Answered, Ends
  <2>2. CASE d.state = "pending"
    <3> DEFINE e == [d EXCEPT !.state = "failed", !.got = <<>>]
    <3>1. Failed(d) = e
      BY <2>2 DEF Failed
    <3>2. e.on = d.on /\ e.seq = d.seq /\ e.written = d.written /\ e.state = "failed"
      BY DEF Call
    <3> HIDE DEF e
    <3> QED BY <1>4, <2>1, <2>2, <3>1, <3>2
  <2>3. CASE d.state # "pending"
    BY <2>1, <2>3 DEF Failed
  <2> QED BY <2>2, <2>3
<1>5. CASE f.op # "chunk" /\ ~(f.op = "error" \/ d.state # "pending")
  <2> DEFINE e == [d EXCEPT !.state = "resolved"]
  <2>1. Answered(d, f) = e
    BY <1>5 DEF Answered, Ends
  <2>2. /\ e.on = d.on /\ e.seq = d.seq /\ e.written = d.written /\ e.state = "resolved"
        /\ e.got = d.got
    BY DEF Call
  <2> HIDE DEF e
  <2> QED BY <1>5, <2>1, <2>2
<1> QED BY <1>3, <1>4, <1>5

\* A chunk more with a call.
LEMMA GotOneMore ==
  ASSUME NEW c \in Calls, call[c] \in Call, NEW m \in Chunks,
         call'[c].got = Append(call[c].got, m)
  PROVE  /\ \A n \in Chunks : Got(c, n)' <=> Got(c, n) \/ n = m
         /\ Rising(c) /\ (\A n \in Chunks : Got(c, n) => n < m) => Rising(c)'
<1> DEFINE g == call[c].got
           N == Len(g)
<1>1. g \in Seq(Chunks) /\ N \in Nat
  BY DEF Call, Chunks
<1>2. /\ Len(call'[c].got) = N + 1 /\ call'[c].got[N + 1] = m
      /\ \A i \in 1..N : call'[c].got[i] = g[i]
  BY <1>1, AppendProperties
<1>3. \A i \in 1..N : g[i] \in Chunks /\ Got(c, g[i])
  BY <1>1 DEF Got
<1>4. \A i : i \in 1..(N + 1) <=> i \in 1..N \/ i = N + 1
  BY <1>1
<1>5. /\ \A n : Got(c, n) <=> \E i \in 1..N : g[i] = n
      /\ \A n : Got(c, n)' <=> \E i \in 1..(N + 1) : call'[c].got[i] = n
      /\ Rising(c) <=> \A i, j \in 1..N : i < j => g[i] < g[j]
      /\ Rising(c)' <=> \A i, j \in 1..(N + 1) : i < j => call'[c].got[i] < call'[c].got[j]
  BY <1>2 DEF Got, Rising
<1> HIDE DEF g, N, Got, Rising
<1>6. \A n \in Chunks : Got(c, n)' <=> Got(c, n) \/ n = m
  BY <1>2, <1>4, <1>5
<1>7. ASSUME Rising(c), \A n \in Chunks : Got(c, n) => n < m
      PROVE  Rising(c)'
  <2>1. ASSUME NEW i \in 1..(N + 1), NEW j \in 1..(N + 1), i < j
        PROVE  call'[c].got[i] < call'[c].got[j]
    <3>1. i \in 1..N
      BY <1>1, <2>1
    <3>2. call'[c].got[i] = g[i] /\ g[i] < m
      BY <1>2, <1>3, <1>7, <3>1
    <3>3. CASE j \in 1..N
      BY <1>2, <1>5, <1>7, <2>1, <3>1, <3>2, <3>3
    <3>4. CASE j = N + 1
      BY <1>2, <3>2, <3>4
    <3> QED BY <1>4, <3>3, <3>4
  <2> QED BY <1>5, <2>1
<1> QED BY <1>6, <1>7

LEMMA DeliverStep ==
  ASSUME TypeOK, VbpInv, AnswersInv, NEW s \in Sockets, Deliver(s)
  PROVE  AnswersInv'
<1>h. wire[s] \in Seq(Frame) /\ wire[s] # <<>>
  BY DEF Deliver, TypeOK
<1>f. PICK f \in Frame, p \in Seqs : f = Head(wire[s]) /\ p = f.seq
  <2>1. Head(wire[s]) \in Frame
    BY <1>h
  <2>2. Head(wire[s]).seq \in Seqs
    BY <2>1 DEF Frame
  <2> QED BY <2>1, <2>2
<1>0. /\ conn[s] = "open" /\ wire[s] # <<>> /\ HandleFrame(f)
      /\ wire' = [wire EXCEPT ![s] = Tail(@)]
      /\ UNCHANGED <<conn, asked, sent, lost>>
  BY <1>f DEF Deliver
<1>1. /\ f \in Frame /\ 1 \in Of(s, p) /\ wire[s][1] = f
      /\ \E c \in Calls :
           /\ call[c].seq = p /\ call[c].on = s /\ call[c].written
           /\ \A e \in Calls : call[e].seq = p => e = c
           /\ call[c].state \in {"pending", "failed"}
           /\ inflight[p] \in {c, NoCall}
           /\ call[c].state = "pending" => inflight[p] = c
  BY <1>0, <1>f, Awaited
<1>2. PICK c \in Calls :
           /\ call[c].seq = p /\ call[c].on = s /\ call[c].written
           /\ \A e \in Calls : call[e].seq = p => e = c
           /\ call[c].state \in {"pending", "failed"}
           /\ inflight[p] \in {c, NoCall}
           /\ call[c].state = "pending" => inflight[p] = c
  BY <1>1
<1>3. p \in Seqs /\ f.n \in Chunks
  BY <1>1, <1>f DEF Frame, Chunks
<1>4. Cut(s, 1)
  <2>1. /\ wire[s] \in Seq(Frame) /\ Len(wire[s]) \in Nat /\ wire[s] # <<>>
        /\ wire'[s] = Tail(wire[s])
        /\ \A t \in Sockets : t # s => wire'[t] = wire[t]
    BY <1>0 DEF TypeOK
  <2>2. 1 \in 1..Len(wire[s])
    BY <2>1
  <2>3. /\ Len(wire'[s]) = Len(wire[s]) - 1
        /\ \A i \in 1..(Len(wire[s]) - 1) : wire'[s][i] = wire[s][i + 1]
    BY <2>1, HeadTailProperties
  <2> QED BY <2>1, <2>2, <2>3 DEF Cut
<1>5. \A t \in Sockets, q \in Seqs, n \in Chunks : Lost(t, q, n)' <=> Lost(t, q, n)
  BY <1>0 DEF Lost
<1>6. /\ \A q \in Seqs : q # p => \A n \in Chunks : ~Taken(s, q, 1, n)
      /\ \A n \in Chunks : Taken(s, p, 1, n) <=> f.op = "chunk" /\ f.n = n
  <2>1. \A q \in Seqs : \A i \in Of(s, q) : i =< 1 <=> i = 1
    BY DEF Of
  <2>2. \A q \in Seqs : 1 \in Of(s, q) => q = p
    BY <1>1, <1>f DEF Of
  <2> HIDE DEF Of
  <2> QED BY <1>1, <1>3, <2>1, <2>2 DEF Taken
<1>7. /\ \A e \in Calls : e # c => call'[e] = call[e]
      /\ call'[c].on = s /\ call'[c].seq = p /\ call'[c].written
      /\ call[c].state = "failed" => call'[c].state = "failed"
      /\ call[c].state = "pending" =>
           \/ /\ f.op = "chunk" /\ call'[c].state = "pending"
              /\ call'[c].got = Append(call[c].got, f.n)
           \/ f.op # "chunk" /\ call'[c].state = "failed"
           \/ /\ f.op # "chunk" /\ call'[c].state = "resolved"
              /\ call'[c].got = call[c].got
  <2>1. CASE inflight[p] = NoCall
    <3>1. call' = call
      BY <1>0, <1>f, <2>1 DEF HandleFrame
    <3>2. call[c].state = "failed"
      BY <1>2, <2>1, VbpAssumption
    <3> QED BY <1>2, <3>1, <3>2
  <2>2. CASE inflight[p] = c
    <3>1. call' = [call EXCEPT ![c] = Answered(@, f)]
      BY <1>0, <1>f, <2>2, VbpAssumption DEF HandleFrame
    <3>2. /\ call'[c] = Answered(call[c], f) /\ call[c] \in Call
          /\ \A e \in Calls : e # c => call'[e] = call[e]
      BY <3>1 DEF TypeOK
    <3> QED BY <1>1, <1>2, <3>2, Answering
  <2> QED BY <1>2, <2>1, <2>2
<1>8. \A e \in Calls : call[e].written =>
        call'[e].seq = call[e].seq /\ call'[e].on = call[e].on /\ call'[e].written
  BY <1>2, <1>7
<1>9. ASSUME NEW e \in Calls
      PROVE  Placed(e)'
  <2>1. CASE e = c
    <3>1. call'[c].state # "new"
      BY <1>2, <1>7
    <3>2. p # 0
      BY <1>3 DEF Seqs
    <3> QED BY <1>7, <2>1, <3>1, <3>2 DEF Placed
  <2>2. CASE e # c
    BY <1>7, <2>2 DEF AnswersInv, Placed
  <2> QED BY <2>1, <2>2
<1>10. ASSUME NEW t \in Sockets, NEW q \in Seqs
       PROVE  FramesInv(t, q)' /\ AskedInv(t, q)' /\ (Of(t, q) = {} => Of(t, q)' = {})
  <2>0. FramesInv(t, q) /\ AskedInv(t, q)
    BY DEF AnswersInv
  <2>1. FramesInv(t, q)' /\ (Of(t, q) = {} => Of(t, q)' = {})
    <3>1. CASE t = s
      BY <1>0, <1>4, <1>5, <2>0, <3>1, CutFrames
    <3>2. CASE t # s
      <4>1. wire'[t] = wire[t]
        BY <1>4, <3>2 DEF Cut
      <4> QED BY <1>0, <1>5, <2>0, <4>1, FramesStay
    <3> QED BY <3>1, <3>2
  <2> QED BY <1>0, <1>8, <2>0, <2>1, AskedStays
<1>11. ASSUME Up(s), call[c].state = "pending"
       PROVE  AnswerOf(c, s, p)'
  <2>1. FramesInv(s, p) /\ Accounted(c, s, p)
    BY <1>2, <1>3, <1>11 DEF AnswersInv, AnswerOf, GoneTo
  <2>2. /\ \A n \in Chunks : OnWire(s, p, n) <=> OnWire(s, p, n)' \/ Taken(s, p, 1, n)
        /\ \A n, m \in Chunks : Taken(s, p, 1, n) /\ OnWire(s, p, m)' => n < m
    BY <1>3, <1>4, <2>1, CutWire
  <2>3. CASE f.op = "chunk"
    <3>1. call'[c].state = "pending" /\ call'[c].got = Append(call[c].got, f.n)
      BY <1>7, <1>11, <2>3
    <3>2. call[c] \in Call
      BY DEF TypeOK
    <3>3. /\ \A n \in Chunks : Got(c, n)' <=> Got(c, n) \/ n = f.n
          /\ Rising(c) /\ (\A n \in Chunks : Got(c, n) => n < f.n) => Rising(c)'
      BY <1>3, <3>1, <3>2, GotOneMore
    <3> HIDE DEF Of, Lost, OnWire, Taken, Got, Rising
    <3>4. OnWire(s, p, f.n) /\ ~Lost(s, p, f.n)
      BY <1>3, <1>6, <2>1, <2>2, <2>3 DEF FramesInv
    <3>5. Rising(c)'
      BY <1>3, <2>1, <3>3, <3>4 DEF Accounted
    <3>6. \A n \in Chunks : OnWire(s, p, n) <=> OnWire(s, p, n)' \/ n = f.n
      BY <1>6, <2>2, <2>3
    <3>7. \A n \in Chunks : n \in 1..sent'[s][p] <=>
            Got(c, n)' \/ OnWire(s, p, n)' \/ Lost(s, p, n)'
      BY <1>0, <1>3, <1>5, <2>1, <3>3, <3>6 DEF Accounted
    <3>8. ASSUME NEW n \in Chunks, Got(c, n)'
          PROVE  ~Lost(s, p, n)' /\ \A m \in Chunks : OnWire(s, p, m)' => n < m
      <4>1. CASE Got(c, n)
        BY <1>3, <1>5, <2>1, <3>6, <4>1 DEF Accounted
      <4>2. CASE n = f.n
        BY <1>3, <1>5, <1>6, <2>2, <2>3, <3>4, <4>2
      <4> QED BY <3>3, <3>8, <4>1, <4>2
    <3>9. Accounted(c, s, p)'
      BY <3>5, <3>7, <3>8 DEF Accounted
    <3> QED BY <3>1, <3>9 DEF AnswerOf
  <2>4. CASE f.op # "chunk" /\ call'[c].state = "failed"
    BY <2>4 DEF AnswerOf
  <2>5. CASE f.op # "chunk" /\ call'[c].state = "resolved" /\ call'[c].got = call[c].got
    <3>1. p \notin asked'[s]
      BY <1>0, <1>1, <2>1, <2>5 DEF FramesInv
    <3>2. \A j \in Of(s, p) : ~(1 < j)
      BY <1>1, <2>1, <2>5 DEF FramesInv
    <3>3. Of(s, p)' = {}
      <4>1. \A i \in Of(s, p)' : i \in Nat /\ i + 1 \in Of(s, p) /\ 1 < i + 1
        BY <1>3, <1>4, CutOf
      <4> HIDE DEF Of
      <4> QED BY <3>2, <4>1
    <3>4. \A n \in Chunks : ~OnWire(s, p, n)
      <4>1. \A n \in Chunks : ~OnWire(s, p, n)'
        BY <3>3 DEF OnWire
      <4>2. \A n \in Chunks : ~Taken(s, p, 1, n)
        BY <1>6, <2>5
      <4> HIDE DEF OnWire, Taken
      <4> QED BY <2>2, <4>1, <4>2
    <3>5. /\ \A n \in Chunks : Got(c, n)' <=> Got(c, n)
          /\ Rising(c)' <=> Rising(c)
      BY <2>5 DEF Got, Rising
    <3> HIDE DEF Of, Lost, OnWire, Got, Rising
    <3>6. Finished(c, s, p)'
      BY <1>0, <1>3, <1>5, <2>1, <3>1, <3>3, <3>4, <3>5 DEF Accounted, Finished
    <3> QED BY <2>5, <3>6 DEF AnswerOf
  <2> QED BY <1>7, <1>11, <2>3, <2>4, <2>5
<1>12. Up(s)
  BY <1>0 DEF Up
<1>13. ASSUME NEW e \in Calls, NEW t \in Sockets, NEW q \in Seqs
       PROVE  AnswerOf(e, t, q)'
  <2>0. AnswerOf(e, t, q) /\ FramesInv(t, q)
    BY DEF AnswersInv
  <2>1. CASE e = c /\ t = s /\ q = p
    <3>1. CASE call[c].state = "pending"
      BY <1>11, <1>12, <2>1, <3>1
    <3>2. CASE call[c].state = "failed"
      BY <1>7, <2>1, <3>2 DEF AnswerOf
    <3> QED BY <1>2, <3>1, <3>2
  <2>2. CASE e = c /\ ~(t = s /\ q = p)
    BY <1>7, <2>2 DEF AnswerOf, GoneTo
  <2>3. CASE e # c
    <3>1. call'[e] = call[e]
      BY <1>7, <2>3
    <3>2. CASE t = s /\ q = p
      <4>1. call[e].seq # p
        BY <1>2, <2>3
      <4> QED BY <3>1, <3>2, <4>1 DEF AnswerOf, GoneTo
    <3>3. CASE t = s /\ q # p
      <4>1. \A n \in Chunks : Lost(s, q, n)' <=> Lost(s, q, n) \/ Taken(s, q, 1, n)
        BY <1>5, <1>6, <3>3
      <4> QED BY <1>0, <1>4, <2>0, <3>1, <3>3, <4>1, CutAnswer
    <3>4. CASE t # s
      <4>1. wire'[t] = wire[t] /\ (Up(t)' => Up(t))
        BY <1>0, <1>4, <3>4 DEF Cut, Up
      <4> QED BY <1>0, <1>5, <2>0, <3>1, <4>1, AnswerStays
    <3> QED BY <3>2, <3>3, <3>4
  <2> QED BY <2>1, <2>2, <2>3
<1> QED BY <1>9, <1>10, <1>13 DEF AnswersInv

\* The inductive invariant: where each chunk that the server sent has gone.
THEOREM AnswersInvariant == Spec => []AnswersInv
<1>1. Init => AnswersInv
  <2> SUFFICES ASSUME Init PROVE AnswersInv
    OBVIOUS
  <2>1. ASSUME NEW s \in Sockets, NEW q \in Seqs
        PROVE  /\ Of(s, q) = {} /\ q \notin asked[s] /\ sent[s][q] = 0
               /\ \A n \in Chunks : ~Lost(s, q, n)
    BY DEF Init, Of, Lost
  <2>2. ASSUME NEW s \in Sockets, NEW q \in Seqs
        PROVE  FramesInv(s, q) /\ AskedInv(s, q)
    <3>1. Of(s, q) = {} /\ q \notin asked[s] /\ sent[s][q] = 0 /\ \A n \in Chunks : ~Lost(s, q, n)
      BY <2>1
    <3> HIDE DEF Of, Lost
    <3> QED BY <3>1 DEF FramesInv, AskedInv
  <2>3. ASSUME NEW c \in Calls
        PROVE  /\ call[c].state = "new" /\ call[c].got = <<>> /\ ~call[c].written
               /\ call[c].seq = 0
    BY DEF Init
  <2>4. ASSUME NEW c \in Calls
        PROVE  Placed(c) /\ \A s \in Sockets, q \in Seqs : AnswerOf(c, s, q)
    BY <2>3 DEF Placed, AnswerOf
  <2> QED BY <2>2, <2>4 DEF AnswersInv
<1>2. TypeOK /\ TypeOK' /\ VbpInv /\ AnswersInv /\ [Next]_vars => AnswersInv'
  <2> SUFFICES ASSUME TypeOK, TypeOK', VbpInv, AnswersInv, [Next]_vars PROVE AnswersInv'
    OBVIOUS
  <2>1. ASSUME \/ \E s \in Sockets : Connect(s) \/ OnConnect(s) \/ HelloWritten(s) \/ OnClose(s)
               \/ Close
               \/ \E c \in Calls : Refuse(c) \/ StartBeyond(c) \/ WriteFails(c) \/ PingTimeout(c)
        PROVE  AnswersInv'
    BY <2>1, CallSteps
  <2>2. ASSUME NEW c \in Calls, Start(c) PROVE AnswersInv'
    BY <2>2, StartStep
  <2>3. ASSUME NEW c \in Calls, Write(c) PROVE AnswersInv'
    BY <2>3, WriteStep
  <2>4. ASSUME NEW s \in Sockets, NEW q \in Seqs, ServeChunk(s, q) PROVE AnswersInv'
    BY <2>4, ServeChunkStep
  <2>5. ASSUME NEW s \in Sockets, NEW q \in Seqs, ServeEnd(s, q) PROVE AnswersInv'
    BY <2>5, ServeEndStep
  <2>6. ASSUME NEW s \in Sockets, Deliver(s) PROVE AnswersInv'
    BY <2>6, DeliverStep
  <2>7. ASSUME NEW s \in Sockets, NEW k \in 1..(MaxSeq * (MaxChunks + 1)), Tear(s, k)
        PROVE  AnswersInv'
    BY <2>7, TearStep
  <2>8. CASE UNCHANGED vars
    <3>1. UNCHANGED <<call, conn, asked, sent, wire, lost>>
      BY <2>8 DEF vars, client, server
    <3> QED BY <3>1, ServerStays DEF Keeps, Up
  <2> QED BY <2>1, <2>2, <2>3, <2>4, <2>5, <2>6, <2>7, <2>8 DEF Next
<1> QED BY <1>1, <1>2, TypeCorrect, VbpInvariant, PTL DEF Spec

\* A query resolves with all the chunks that the server sent for it, in order
\* and none of another call: the terminal frame comes after them on the same
\* socket, and an entry takes the frames of its own number only.
THEOREM AnswersComeWhole == Spec => []AnswersAreWhole
<1>1. TypeOK /\ VbpInv /\ AnswersInv => AnswersAreWhole
  <2> SUFFICES ASSUME TypeOK, VbpInv, AnswersInv, NEW c \in Calls, call[c].state = "resolved"
               PROVE  LET d == call[c] IN
                      /\ \A i, j \in 1..Len(d.got) : i < j => d.got[i] < d.got[j]
                      /\ {d.got[i] : i \in 1..Len(d.got)}
                           = {n \in 1..sent[d.on][d.seq] : <<d.on, d.seq, n>> \notin lost}
    BY DEF AnswersAreWhole
  <2>1. call[c] \in Call
    BY DEF TypeOK
  <2>2. PICK s \in Sockets, q \in Seqs : call[c].on = s /\ call[c].seq = q
    BY <2>1 DEF AnswersInv, Placed, Call, Seqs
  <2>3. Finished(c, s, q)
    BY <2>2 DEF AnswersInv, AnswerOf, GoneTo
  <2>4. \A n : Got(c, n) => n \in Chunks
    <3>1. call[c].got \in Seq(Chunks)
      BY <2>1 DEF Call, Chunks
    <3> QED BY <3>1 DEF Got
  <2>5. \A n \in 1..sent[s][q] : n \in Chunks
    <3>1. sent[s][q] \in 0..MaxChunks
      BY DEF TypeOK
    <3> QED BY <3>1, VbpAssumption DEF Chunks
  <2>6. \A n : Got(c, n) <=> n \in 1..sent[s][q] /\ ~Lost(s, q, n)
    <3> HIDE DEF Got, Lost
    <3> QED BY <2>3, <2>4, <2>5 DEF Finished
  <2>7. {call[c].got[i] : i \in 1..Len(call[c].got)}
          = {n \in 1..sent[s][q] : <<s, q, n>> \notin lost}
    BY <2>6 DEF Got, Lost
  <2>8. Rising(c)
    BY <2>3 DEF Finished
  <2> QED BY <2>2, <2>7, <2>8 DEF Rising
<1> QED BY <1>1, TypeCorrect, VbpInvariant, AnswersInvariant, PTL

----------------------------------------------------------------------------
(* The session of the web application                                      *)

\* The calls a function of a kind makes.
CallsOf(k) ==
    CASE k = "enter"  -> {"none", "options", "passkey", "enter", "me", "refresh"}
      [] k = "edit"   -> {"none", "edit", "me", "refresh"}
      [] k = "delete" -> {"none", "delete"}

\* The calls of a tab that signs in as somebody.
Asking == {"options", "passkey", "enter"}

\* The functions of a tab: what is called, and what an answer brings.
FlowShape ==
  \A t \in Tabs : \A k \in Kinds :
    /\ flow[t][k].call \in CallsOf(k)
    /\ (flow[t][k].at = "idle") <=> (flow[t][k].call = "none")
    /\ flow[t][k].call \in Asking => flow[t][k].want \in Accounts
    /\ (flow[t][k].at = "ok" /\ flow[t][k].call \in {"enter", "me", "refresh"})
         => flow[t][k].with # NoSession

\* A store that is signed out is empty, and a session that is signed in is
\* there.
StoreShape(s) == (s.auth => s.session # NoSession) /\ (~s.auth => s = SignedOut)

\* What was persisted is the store of the tab that persisted it.
SavedIsAStore == \A t \in Tabs : savedBy = t => saved = store[t]

\* The persisted store is signed in with a session only.
SavedSigned == saved.auth => saved.session # NoSession

\* A tab signs in only while it is signed out, and edits, fetches and renews
\* only while it is signed in; it does not edit before it shows a user.
CallsMatchStore ==
  \A t \in Tabs :
    /\ \A k \in Kinds : flow[t][k].call \in {"edit", "me", "refresh"} => store[t].auth
    /\ flow[t]["enter"].call \in Asking => ~store[t].auth
    /\ flow[t]["enter"].at # "idle"
         => store[t].user = Nobody /\ flow[t]["edit"].at = "idle"

\* Until it is loaded again signed out, the tab that wrote the shared tokens is
\* signed in for as long as they are there.
TokensAreSomebodys == (ls # NoSession /\ ~stranded) => writer \in Tabs /\ store[writer].auth

\* A user is fetched with the tokens of the tab that wrote them last.
FetchedWithTokens ==
  \A t \in Tabs : \A k \in Kinds :
    (flow[t][k].call = "me" /\ writer = t /\ ls # NoSession) => flow[t][k].with = ls

\* The tab that wrote the tokens last shows their account, or fetches it.
ShownOrFetched ==
  \A t \in Tabs :
    (writer = t /\ ls # NoSession /\ origin[t] = t /\ store[t].user # Nobody)
    => (store[t].user = ls.did \/ Fetching(t))

Uncrossed ==
  /\ \A t \in Tabs : StoreShape(store[t])
  /\ StoreShape(saved)
  /\ CallsMatchStore
  /\ TokensAreSomebodys
  /\ FetchedWithTokens
  /\ ShownOrFetched

\* The inductive invariant: what relates the tabs and the tokens holds until a
\* tab signs in or out with another call of its own under way.
TabsInv ==
  /\ SessionTypeOK
  /\ FlowShape
  /\ SavedIsAStore
  /\ SavedSigned
  /\ ~crossed => Uncrossed

Flow == [call : Kinds \cup {"none", "options", "passkey", "me", "refresh"},
         at : {"idle", "sent", "ok", "bad"},
         with : Sessions \cup {NoSession}, want : Accounts \cup {Nobody}]

\* One function of one tab goes on.
Flowed(t, k, f) ==
  /\ flow' \in [Tabs -> [Kinds -> Flow]]
  /\ flow'[t][k] = f
  /\ \A u \in Tabs : \A j \in Kinds : (u # t \/ j # k) => flow'[u][j] = flow[u][j]

LEMMA FlowPut ==
  ASSUME SessionTypeOK, NEW t \in Tabs, NEW k \in Kinds, NEW f \in Flow,
         flow' = [flow EXCEPT ![t][k] = f]
  PROVE  Flowed(t, k, f)
<1>1. flow \in [Tabs -> [Kinds -> Flow]]
  BY DEF SessionTypeOK, Flow
<1> QED BY <1>1 DEF Flowed

LEMMA AnswerPuts ==
  ASSUME SessionTypeOK, NEW t \in Tabs, NEW k \in Kinds,
         NEW at \in {"ok", "bad"}, NEW s \in Sessions \cup {NoSession}, Answer(t, k, at, s)
  PROVE  \E f \in Flow :
           /\ Flowed(t, k, f)
           /\ f.call = flow[t][k].call /\ f.want = flow[t][k].want
           /\ f.at = at /\ f.with = s
<1> DEFINE f == [flow[t][k] EXCEPT !.at = at, !.with = s]
<1>1. flow \in [Tabs -> [Kinds -> Flow]]
  BY DEF SessionTypeOK, Flow
<1>2. flow[t][k] \in Flow
  BY <1>1
<1>3. /\ f \in Flow /\ f.call = flow[t][k].call /\ f.want = flow[t][k].want
      /\ f.at = at /\ f.with = s
  BY <1>2 DEF Flow
<1>4. flow' = [flow EXCEPT ![t][k] = f]
  BY DEF Answer
<1> HIDE DEF f
<1>5. Flowed(t, k, f)
  BY <1>3, <1>4, FlowPut
<1> QED BY <1>3, <1>5

LEMMA SentIsAFlow ==
  ASSUME NEW k \in Kinds \cup {"me", "refresh"}, NEW s \in Sessions \cup {NoSession}
  PROVE  /\ Send(k, s) \in Flow
         /\ Send(k, s).call = k /\ Send(k, s).at = "sent" /\ Send(k, s).with = s
BY DEF Send, Flow, Kinds

LEMMA AskIsAFlow ==
  ASSUME NEW c \in Asking, NEW a \in Accounts
  PROVE  /\ Ask(c, a) \in Flow
         /\ Ask(c, a).call = c /\ Ask(c, a).at = "sent" /\ Ask(c, a).want = a
BY DEF Ask, Send, Flow, Kinds, Asking

LEMMA IdleIsAFlow == Idle \in Flow /\ Idle.call = "none" /\ Idle.at = "idle"
BY DEF Idle, Flow, Kinds

\* What the functions of a tab may become while the stores and the tokens stay.
Fits(t, k, f) ==
  /\ f \in Flow /\ f.call \in CallsOf(k)
  /\ (f.at = "idle") <=> (f.call = "none")
  /\ f.call \in Asking => f.want \in Accounts
  /\ (f.at = "ok" /\ f.call \in {"enter", "me", "refresh"}) => f.with # NoSession

Allowed(t, k, f) ==
  /\ f.call \in {"edit", "me", "refresh"} => store[t].auth
  /\ f.call \in Asking => ~store[t].auth
  /\ (k = "enter" /\ f.at # "idle")
       => store[t].user = Nobody /\ flow[t]["edit"].at = "idle"
  /\ (k = "edit" /\ f.at # "idle") => flow[t]["enter"].at = "idle"
  /\ (f.call = "me" /\ writer = t /\ ls # NoSession) => f.with = ls
  /\ flow[t][k].call \in {"me", "refresh"} => f.call \in {"me", "refresh"}

\* A function that goes on without touching the stores.
LEMMA QuietStep ==
  ASSUME TabsInv, NEW t \in Tabs, NEW k \in Kinds, NEW f,
         Flowed(t, k, f), Fits(t, k, f), ~crossed => Allowed(t, k, f), UNCHANGED browser,
         account' \in [Accounts -> {"new", "active", "leaving", "erased"}],
         now' \in 0 .. MaxTime, starts' \in 0 .. MaxStarts, faults' \in 0 .. MaxFaults
  PROVE  TabsInv'
<1>1. SessionTypeOK'
  BY DEF TabsInv, SessionTypeOK, Flowed, Flow, browser, Sessions, Stores
<1>2. FlowShape'
  BY DEF TabsInv, FlowShape, Flowed, Fits
<1>3. SavedIsAStore' /\ SavedSigned'
  BY DEF TabsInv, SavedIsAStore, SavedSigned, browser
<1>4. ASSUME ~crossed'
      PROVE  Uncrossed'
  <2>1. Uncrossed /\ Allowed(t, k, f)
    BY <1>4 DEF TabsInv, browser
  <2>2. (\A u \in Tabs : StoreShape(store[u]))' /\ StoreShape(saved)' /\ TokensAreSomebodys'
    BY <2>1 DEF Uncrossed, browser, StoreShape, TokensAreSomebodys
  <2>3. CallsMatchStore'
    BY <2>1 DEF Uncrossed, browser, CallsMatchStore, Flowed, Allowed, Kinds
  <2>4. FetchedWithTokens'
    BY <2>1 DEF Uncrossed, browser, FetchedWithTokens, Flowed, Allowed
  <2>5. \A u \in Tabs : Fetching(u) => Fetching(u)'
    BY <2>1 DEF Fetching, Flowed, Allowed
  <2>6. ShownOrFetched'
    BY <2>1, <2>5 DEF Uncrossed, browser, ShownOrFetched
  <2> QED BY <2>2, <2>3, <2>4, <2>6 DEF Uncrossed
<1> QED BY <1>1, <1>2, <1>3, <1>4 DEF TabsInv

LEMMA BrowserTyped ==
  ASSUME SessionTypeOK
  PROVE  /\ flow \in [Tabs -> [Kinds -> Flow]]
         /\ account \in [Accounts -> {"new", "active", "leaving", "erased"}]
         /\ now \in 0 .. MaxTime /\ starts \in 0 .. MaxStarts /\ faults \in 0 .. MaxFaults
BY DEF SessionTypeOK, Flow

LEMMA IssuedIsASession ==
  ASSUME SessionTypeOK, NEW a \in Accounts
  PROVE  IssueSession(a) \in Sessions
BY DEF SessionTypeOK, IssueSession, Sessions

LEMMA SessionsAreReal == \A s \in Sessions : s # NoSession
BY SessionAssumption DEF Sessions

\* An answer that the tab has not looked at yet.
LEMMA ServeStep ==
  ASSUME TabsInv, NEW t \in Tabs, NEW k \in Kinds, Serve(t, k)
  PROVE  TabsInv'
<1>t. SessionTypeOK /\ flow[t][k] \in Flow
  BY BrowserTyped DEF TabsInv
<1>1. UNCHANGED browser /\ UNCHANGED <<now, starts, faults>>
  BY DEF Serve
<1>2. account' \in [Accounts -> {"new", "active", "leaving", "erased"}]
  BY <1>t, BrowserTyped
     DEF Serve, Register, LoginOptions, VerifyLogin, ServeMe, ServeDelete, ServeRefresh
<1>3. /\ flow[t][k].call \in CallsOf(k) /\ flow[t][k].call # "none"
      /\ flow[t][k].call \in Asking => flow[t][k].want \in Accounts
  BY DEF TabsInv, FlowShape, Serve
\* What the service answers.
<1>4. \E at \in {"ok", "bad"}, s \in Sessions \cup {NoSession} :
        /\ Answer(t, k, at, s)
        /\ (at = "ok" /\ flow[t][k].call \in {"enter", "me", "refresh"}) => s # NoSession
        /\ flow[t][k].call = "me" => s = flow[t][k].with
  <2>s. flow[t][k].with \in Sessions \cup {NoSession}
    BY <1>t DEF Flow
  <2>1. CASE Register(t, k)
    BY <2>1, <1>t, <1>3, IssuedIsASession, SessionsAreReal DEF Register, Asking
  <2>2. CASE VerifyLogin(t, k)
    BY <2>2, <1>t, <1>3, IssuedIsASession, SessionsAreReal DEF VerifyLogin, Asking
  <2>3. CASE ServeMe(t, k)
    BY <2>3, <2>s DEF ServeMe, Admits
  <2>4. CASE ServeDelete(t, k)
    BY <2>4, <2>s DEF ServeDelete
  <2>5. CASE ServeRefresh(t, k)
    <3>1. CASE Renews(flow[t][k].with)
      <4>1. flow[t][k].with.did \in Accounts
        BY <3>1, <2>s DEF Renews, Sessions
      <4> QED BY <4>1, <2>5, <3>1, <1>t, IssuedIsASession, SessionsAreReal DEF ServeRefresh
    <3> QED BY <2>5, <2>s, <3>1 DEF ServeRefresh
  <2>6. CASE LoginOptions(t, k)
    BY <2>6 DEF LoginOptions
  <2> QED BY <2>1, <2>2, <2>3, <2>4, <2>5, <2>6 DEF Serve
<1>5. PICK at \in {"ok", "bad"}, s \in Sessions \cup {NoSession} :
        /\ Answer(t, k, at, s)
        /\ (at = "ok" /\ flow[t][k].call \in {"enter", "me", "refresh"}) => s # NoSession
        /\ flow[t][k].call = "me" => s = flow[t][k].with
  BY <1>4
<1>6. PICK f \in Flow :
        /\ Flowed(t, k, f)
        /\ f.call = flow[t][k].call /\ f.want = flow[t][k].want
        /\ f.at = at /\ f.with = s
  BY <1>t, <1>5, AnswerPuts
<1>7. Fits(t, k, f)
  BY <1>3, <1>5, <1>6 DEF Fits
<1>8. ~crossed => Allowed(t, k, f)
  <2> SUFFICES ASSUME ~crossed
               PROVE  Allowed(t, k, f)
    OBVIOUS
  <2>1. CallsMatchStore /\ FetchedWithTokens
    BY DEF TabsInv, Uncrossed
  <2>2. flow[t][k].at # "idle"
    BY DEF Serve
  <2>3. flow[t][k].call \in Asking => k = "enter"
    BY <1>3 DEF CallsOf, Kinds, Asking
  <2>4. f.call \in {"edit", "me", "refresh"} => store[t].auth
    BY <1>6, <2>1 DEF CallsMatchStore
  <2>5. f.call \in Asking => ~store[t].auth
    BY <1>6, <2>1, <2>3 DEF CallsMatchStore
  <2>6. /\ (k = "enter" /\ f.at # "idle")
             => store[t].user = Nobody /\ flow[t]["edit"].at = "idle"
        /\ (k = "edit" /\ f.at # "idle") => flow[t]["enter"].at = "idle"
    BY <2>1, <2>2 DEF CallsMatchStore, Kinds
  <2>7. (f.call = "me" /\ writer = t /\ ls # NoSession) => f.with = ls
    BY <1>5, <1>6, <2>1 DEF FetchedWithTokens
  <2> QED BY <1>6, <2>4, <2>5, <2>6, <2>7 DEF Allowed
<1> QED BY <1>t, <1>1, <1>2, <1>6, <1>7, <1>8, BrowserTyped, QuietStep

\* A call that fails.
LEMMA FailStep ==
  ASSUME TabsInv, NEW t \in Tabs, NEW k \in Kinds, Fail(t, k)
  PROVE  TabsInv'
<1>t. SessionTypeOK /\ flow[t][k] \in Flow
  BY BrowserTyped DEF TabsInv
<1> DEFINE f == [flow[t][k] EXCEPT !.at = "bad"]
<1>1. /\ f \in Flow /\ f.call = flow[t][k].call /\ f.want = flow[t][k].want
      /\ f.at = "bad" /\ f.with = flow[t][k].with
  BY <1>t DEF Flow
<1>2. flow' = [flow EXCEPT ![t][k] = f]
  BY DEF Fail
<1>3. /\ UNCHANGED browser /\ UNCHANGED <<account, now, starts>>
      /\ faults' \in 0 .. MaxFaults /\ flow[t][k].at # "idle"
  BY <1>t, BrowserTyped, SessionAssumption DEF Fail, Fault
<1> HIDE DEF f
<1>4. Flowed(t, k, f)
  BY <1>t, <1>1, <1>2, FlowPut
<1>5. Fits(t, k, f)
  BY <1>1, <1>3 DEF Fits, TabsInv, FlowShape
<1>6. ~crossed => Allowed(t, k, f)
  <2> SUFFICES ASSUME ~crossed
               PROVE  Allowed(t, k, f)
    OBVIOUS
  <2>1. CallsMatchStore /\ FetchedWithTokens
    BY DEF TabsInv, Uncrossed
  <2>2. flow[t][k].call \in Asking => k = "enter"
    BY <1>1, <1>5 DEF Fits, CallsOf, Kinds, Asking
  <2>3. /\ f.call \in {"edit", "me", "refresh"} => store[t].auth
        /\ f.call \in Asking => ~store[t].auth
        /\ (k = "enter" /\ f.at # "idle")
             => store[t].user = Nobody /\ flow[t]["edit"].at = "idle"
        /\ (k = "edit" /\ f.at # "idle") => flow[t]["enter"].at = "idle"
    BY <1>1, <1>3, <2>1, <2>2 DEF CallsMatchStore, Kinds
  <2>4. (f.call = "me" /\ writer = t /\ ls # NoSession) => f.with = ls
    BY <1>1, <2>1 DEF FetchedWithTokens
  <2> QED BY <1>1, <2>3, <2>4 DEF Allowed
<1> QED BY <1>t, <1>3, <1>4, <1>5, <1>6, BrowserTyped, QuietStep

\* What the invariant says of one tab.
TabRight(t) ==
  /\ StoreShape(store[t])
  /\ \A k \in Kinds : flow[t][k].call \in {"edit", "me", "refresh"} => store[t].auth
  /\ flow[t]["enter"].call \in Asking => ~store[t].auth
  /\ flow[t]["enter"].at # "idle"
       => store[t].user = Nobody /\ flow[t]["edit"].at = "idle"
  /\ \A k \in Kinds :
       (flow[t][k].call = "me" /\ writer = t /\ ls # NoSession) => flow[t][k].with = ls
  /\ (writer = t /\ ls # NoSession /\ origin[t] = t /\ store[t].user # Nobody)
       => (store[t].user = ls.did \/ Fetching(t))

LEMMA UncrossedByTab ==
  /\ Uncrossed <=> (\A t \in Tabs : TabRight(t)) /\ StoreShape(saved) /\ TokensAreSomebodys
  /\ Uncrossed'
       <=> ((\A t \in Tabs : TabRight(t)) /\ StoreShape(saved) /\ TokensAreSomebodys)'
BY DEF Uncrossed, TabRight, CallsMatchStore, FetchedWithTokens, ShownOrFetched

\* A page sends a call.
LEMMA CallStarts ==
  ASSUME TabsInv, NEW t \in Tabs, NEW k \in Kinds, NEW f, StartCall(t, k, f), Fits(t, k, f),
         ~crossed => Allowed(t, k, f), UNCHANGED browser
  PROVE  TabsInv'
<1>t. SessionTypeOK
  BY DEF TabsInv
<1>1. flow' = [flow EXCEPT ![t][k] = f]
  BY DEF StartCall, To
<1>2. UNCHANGED <<account, now, faults>> /\ starts' \in 0 .. MaxStarts
  BY <1>t, BrowserTyped, SessionAssumption DEF StartCall
<1>3. Flowed(t, k, f)
  BY <1>t, <1>1, FlowPut DEF Fits
<1> QED BY <1>t, <1>2, <1>3, BrowserTyped, QuietStep

LEMMA EditStep ==
  ASSUME TabsInv, NEW t \in Tabs, Edit(t)
  PROVE  TabsInv'
<1> DEFINE f == Send("edit", ls)
<1>t. ls \in Sessions \cup {NoSession} /\ "edit" \in Kinds
  BY DEF TabsInv, SessionTypeOK, Kinds
<1>1. f \in Flow /\ f.call = "edit" /\ f.at = "sent"
  BY <1>t, SentIsAFlow
<1>2. StartCall(t, "edit", f) /\ store[t].user # Nobody /\ UNCHANGED browser
  BY DEF Edit
<1> HIDE DEF f
<1>3. flow[t]["edit"].call = "none"
  BY <1>2, <1>t DEF StartCall, TabsInv, FlowShape
<1>4. Fits(t, "edit", f)
  BY <1>1 DEF Fits, CallsOf, Asking
<1>5. ~crossed => Allowed(t, "edit", f)
  <2> SUFFICES ASSUME ~crossed
               PROVE  Allowed(t, "edit", f)
    OBVIOUS
  <2>1. TabRight(t)
    BY UncrossedByTab DEF TabsInv
  <2>2. store[t].auth /\ flow[t]["enter"].at = "idle"
    BY <1>2, <2>1 DEF TabRight, StoreShape, SignedOut
  <2> QED BY <1>1, <1>3, <2>2 DEF Allowed, Asking
<1> QED BY <1>t, <1>2, <1>4, <1>5, CallStarts

LEMMA DeleteStep ==
  ASSUME TabsInv, NEW t \in Tabs, DeleteAccount(t)
  PROVE  TabsInv'
<1> DEFINE f == Send("delete", ls)
<1>t. ls \in Sessions \cup {NoSession} /\ "delete" \in Kinds
  BY DEF TabsInv, SessionTypeOK, Kinds
<1>1. f \in Flow /\ f.call = "delete" /\ f.at = "sent"
  BY <1>t, SentIsAFlow
<1>2. StartCall(t, "delete", f) /\ UNCHANGED browser
  BY DEF DeleteAccount
<1> HIDE DEF f
<1>3. flow[t]["delete"].call = "none"
  BY <1>2, <1>t DEF StartCall, TabsInv, FlowShape
<1>4. Fits(t, "delete", f)
  BY <1>1 DEF Fits, CallsOf, Asking
<1>5. ~crossed => Allowed(t, "delete", f)
  BY <1>1, <1>3 DEF Allowed, Asking
<1> QED BY <1>t, <1>2, <1>4, <1>5, CallStarts

\* A function that goes on and writes the store of its tab.
LEMMA TabStep ==
  ASSUME TabsInv, NEW t \in Tabs, NEW k \in Kinds, NEW f, NEW s \in Stores,
         Flowed(t, k, f), Fits(t, k, f), Set(t, s), s.auth => s.session # NoSession,
         UNCHANGED <<account, now, faults>>, starts' \in 0 .. MaxStarts,
         ls' \in Sessions \cup {NoSession},
         \/ writer' = t /\ stranded' = FALSE
         \/ UNCHANGED <<ls, writer, stranded>>,
         \E o \in {t, origin[t]} : origin' = [origin EXCEPT ![t] = o],
         crossed' \in BOOLEAN,
         ~crossed' => /\ ~crossed /\ TabRight(t)'
                      /\ (writer' = t /\ ls' # NoSession /\ ~stranded') => s.auth
  PROVE  TabsInv'
<1>t. SessionTypeOK /\ store \in [Tabs -> Stores] /\ origin \in [Tabs -> Tabs \cup {NoTab}]
  BY DEF TabsInv, SessionTypeOK
<1>o. PICK o \in {t, origin[t]} : origin' = [origin EXCEPT ![t] = o]
  OBVIOUS
<1>1. /\ store' \in [Tabs -> Stores] /\ store'[t] = s
      /\ \A u \in Tabs \ {t} : store'[u] = store[u] /\ origin'[u] = origin[u]
      /\ origin' \in [Tabs -> Tabs \cup {NoTab}]
      /\ saved' = s /\ savedBy' = t
  BY <1>t, <1>o DEF Set
<1>2. \A u \in Tabs : store'[u].auth => store'[u].session # NoSession
  BY <1>1, <1>t DEF SessionTypeOK
<1>3. SessionTypeOK'
  <2>1. writer' \in Tabs \cup {NoTab} /\ stranded' \in BOOLEAN
    BY <1>t DEF SessionTypeOK
  <2>2. flow' \in [Tabs -> [Kinds -> Flow]]
    BY DEF Flowed
  <2> QED BY <1>t, <1>1, <1>2, <2>1, <2>2
        DEF SessionTypeOK, Flow, Sessions, Stores
<1>4. FlowShape'
  BY DEF TabsInv, FlowShape, Flowed, Fits
<1>5. SavedIsAStore' /\ SavedSigned'
  BY <1>1 DEF SavedIsAStore, SavedSigned
<1>6. ASSUME ~crossed'
      PROVE  Uncrossed'
  <2>1. /\ ~crossed /\ TabRight(t)'
        /\ (writer' = t /\ ls' # NoSession /\ ~stranded') => s.auth
    BY <1>6
  <2>2. \A u \in Tabs : TabRight(u)
    BY <2>1, UncrossedByTab DEF TabsInv
  <2>3. \A u \in Tabs \ {t} : TabRight(u)'
    <3> SUFFICES ASSUME NEW u \in Tabs \ {t}
                 PROVE  TabRight(u)'
      OBVIOUS
    <3>1. \A j \in Kinds : flow'[u][j] = flow[u][j]
      BY DEF Flowed
    <3>2. Fetching(u)' = Fetching(u)
      BY <3>1 DEF Fetching
    <3>3. writer' = u => ls' = ls /\ writer = u
      OBVIOUS
    <3>4. "enter" \in Kinds /\ "edit" \in Kinds
      BY DEF Kinds
    <3> QED BY <1>1, <2>2, <3>1, <3>2, <3>3, <3>4 DEF TabRight, StoreShape, SignedOut
  <2>4. StoreShape(saved)'
    BY <1>1, <2>1 DEF TabRight, StoreShape, SignedOut
  <2>5. TokensAreSomebodys'
    <3>1. TokensAreSomebodys
      BY <2>1 DEF TabsInv, Uncrossed
    <3>2. CASE writer' = t
      BY <1>1, <2>1, <3>2 DEF TokensAreSomebodys
    <3>3. CASE writer' # t /\ UNCHANGED <<ls, writer, stranded>>
      BY <1>1, <3>1, <3>3 DEF TokensAreSomebodys
    <3> QED BY <3>2, <3>3
  <2> QED BY <2>1, <2>3, <2>4, <2>5, UncrossedByTab
<1> QED BY <1>3, <1>4, <1>5, <1>6 DEF TabsInv

\* A function that goes on, in a tab that persists its store as it is.
LEMMA PersistStep ==
  ASSUME TabsInv, NEW t \in Tabs, NEW k \in Kinds, NEW f,
         Flowed(t, k, f), Fits(t, k, f), ~crossed => Allowed(t, k, f), Persist(t),
         UNCHANGED <<account, now, faults>>, starts' \in 0 .. MaxStarts
  PROVE  TabsInv'
<1> DEFINE s == store[t]
<1>1. /\ store \in [Tabs -> Stores] /\ s \in Stores /\ (s.auth => s.session # NoSession)
      /\ ls \in Sessions \cup {NoSession} /\ crossed \in BOOLEAN /\ stranded \in BOOLEAN
      /\ origin \in [Tabs -> Tabs \cup {NoTab}]
  BY DEF TabsInv, SessionTypeOK
<1>2. Set(t, s) /\ UNCHANGED <<ls, writer, origin, crossed, stranded>> /\ store' = store
  BY <1>1 DEF Persist, Set
<1>3. origin' = [origin EXCEPT ![t] = origin[t]]
  BY <1>1, <1>2
<1>4. ASSUME ~crossed
      PROVE  TabRight(t)' /\ ((writer = t /\ ls # NoSession /\ ~stranded) => s.auth)
  <2>1. TabRight(t) /\ TokensAreSomebodys /\ Allowed(t, k, f)
    BY <1>4, UncrossedByTab DEF TabsInv
  <2>2. flow'[t][k] = f /\ \A j \in Kinds \ {k} : flow'[t][j] = flow[t][j]
    BY DEF Flowed
  <2>3. "enter" \in Kinds /\ "edit" \in Kinds
    BY DEF Kinds
  <2>4. Fetching(t) => Fetching(t)'
    BY <2>1, <2>2 DEF Fetching, Allowed
  <2>5. flow'[t]["enter"].at # "idle"
          => store[t].user = Nobody /\ flow'[t]["edit"].at = "idle"
    BY <2>1, <2>2, <2>3 DEF TabRight, Allowed
  <2>6. TabRight(t)'
    BY <1>2, <2>1, <2>2, <2>3, <2>4, <2>5 DEF TabRight, Allowed, StoreShape
  <2> QED BY <2>1, <2>6 DEF TokensAreSomebodys
<1> HIDE DEF s
<1> QED BY <1>1, <1>2, <1>3, <1>4, TabStep

\* A page begins to sign in.
LEMMA SignStep ==
  ASSUME TabsInv, NEW t \in Tabs, NEW c \in {"enter", "options"},
         NEW a \in Accounts, Sign(t, c, a)
  PROVE  TabsInv'
<1> DEFINE f == Ask(c, a)
<1>1. /\ f \in Flow /\ f.call = c /\ f.at = "sent" /\ f.want = a
  BY AskIsAFlow DEF Asking
<1>2. StartCall(t, "enter", f) /\ ~store[t].auth /\ Persist(t)
  BY DEF Sign
<1> HIDE DEF f
<1>3. "enter" \in Kinds /\ flow[t]["enter"].at = "idle"
  BY <1>2 DEF StartCall, Kinds
<1>4. Fits(t, "enter", f)
  BY <1>1 DEF Fits, CallsOf, Asking
<1>5. ~crossed => Allowed(t, "enter", f)
  <2> SUFFICES ASSUME ~crossed
               PROVE  Allowed(t, "enter", f)
    OBVIOUS
  <2>1. TabRight(t)
    BY UncrossedByTab DEF TabsInv
  <2>2. store[t].user = Nobody
    BY <1>2, <2>1 DEF TabRight, StoreShape, SignedOut
  <2>3. flow[t]["edit"].call \in {"none", "edit", "me", "refresh"}
    BY DEF TabsInv, FlowShape, CallsOf, Kinds
  <2>4. flow[t]["edit"].at = "idle"
    BY <1>2, <2>1, <2>3 DEF TabRight, TabsInv, FlowShape, Kinds
  <2>5. flow[t]["enter"].call = "none"
    BY <1>3 DEF TabsInv, FlowShape
  <2> QED BY <1>1, <1>2, <2>2, <2>4, <2>5 DEF Allowed
<1>6. flow' = [flow EXCEPT ![t]["enter"] = f]
  BY <1>2 DEF StartCall, To
<1>7. UNCHANGED <<account, now, faults>> /\ starts' \in 0 .. MaxStarts
  BY <1>2, BrowserTyped, SessionAssumption DEF StartCall, TabsInv
<1>8. Flowed(t, "enter", f)
  BY <1>1, <1>3, <1>6, FlowPut DEF TabsInv
<1> QED BY <1>2, <1>3, <1>4, <1>5, <1>7, <1>8, PersistStep

\* A function of a tab that ends, or sends its next call.
LEMMA GoesOn ==
  ASSUME TabsInv, NEW t \in Tabs, NEW k \in Kinds, NEW f \in Flow, To(t, k, f)
  PROVE  Flowed(t, k, f)
BY FlowPut DEF TabsInv, To

LEMMA IdleFits ==
  ASSUME NEW t \in Tabs, NEW k \in Kinds
  PROVE  Fits(t, k, Idle)
<1>1. "none" \in CallsOf(k)
  BY DEF CallsOf, Kinds
<1> QED BY <1>1, SentIsAFlow, IdleIsAFlow DEF Fits, Asking

LEMMA SentFits ==
  ASSUME NEW t \in Tabs, NEW k \in {"enter", "edit"}, NEW s \in Sessions \cup {NoSession}
  PROVE  Fits(t, k, Send("me", s)) /\ Fits(t, k, Send("refresh", s))
<1>1. k \in Kinds /\ {"me", "refresh"} \subseteq CallsOf(k)
  BY DEF CallsOf, Kinds
<1> QED BY <1>1, SentIsAFlow, IdleIsAFlow DEF Fits, Asking

\* Signing out.
LEMMA SignoutStep ==
  ASSUME TabsInv, NEW t \in Tabs, NEW k \in Kinds, To(t, k, Idle), Signout(t, k),
         UNCHANGED world
  PROVE  TabsInv'
<1>1. SignedOut \in Stores /\ ~SignedOut.auth /\ SignedOut.user = Nobody
  BY DEF SignedOut, Stores
<1>2. Flowed(t, k, Idle) /\ Fits(t, k, Idle)
  BY GoesOn, IdleFits, SentIsAFlow, IdleIsAFlow
<1>3. /\ Set(t, SignedOut) /\ ls' = NoSession /\ writer' = t /\ stranded' = FALSE
      /\ crossed' = (crossed \/ Others(t, k)) /\ origin' = [origin EXCEPT ![t] = t]
  BY DEF Signout
<1>4. ASSUME ~crossed'
      PROVE  ~crossed /\ TabRight(t)'
  <2>1. ~crossed /\ \A j \in Kinds \ {k} : flow[t][j].at = "idle"
    BY <1>3, <1>4 DEF Others
  <2>2. \A j \in Kinds : flow'[t][j].at = "idle" /\ flow'[t][j].call = "none"
    BY <1>2, <2>1, SentIsAFlow, IdleIsAFlow DEF Flowed, TabsInv, FlowShape
  <2>3. store'[t] = SignedOut
    BY <1>3 DEF Set, TabsInv, SessionTypeOK
  <2>4. "enter" \in Kinds
    BY DEF Kinds
  <2> QED BY <1>1, <1>3, <2>1, <2>2, <2>3, <2>4 DEF TabRight, StoreShape
<1>5. /\ crossed' \in BOOLEAN
      /\ UNCHANGED <<account, now, faults>> /\ starts' \in 0 .. MaxStarts
  BY <1>3 DEF TabsInv, SessionTypeOK, world
<1> QED BY <1>1, <1>2, <1>3, <1>4, <1>5, TabStep

\* The tab keeps the tokens of an answer and fetches the user with them.
LEMMA KeepStep ==
  ASSUME TabsInv, NEW t \in Tabs, NEW k \in {"enter", "edit"},
         NEW s \in Sessions, NEW auth \in BOOLEAN,
         KeepTokens(t, s, auth), FetchMe(t, k, auth, s),
         UNCHANGED world, UNCHANGED origin, crossed' \in BOOLEAN,
         ~crossed' => /\ ~crossed /\ auth
                      /\ k = "enter" => store[t].user = Nobody
                      /\ flow[t][IF k = "enter" THEN "edit" ELSE "enter"].at = "idle"
  PROVE  TabsInv'
<1>t. /\ k \in Kinds /\ store[t] \in Stores
      /\ origin \in [Tabs -> Tabs \cup {NoTab}]
      /\ store \in [Tabs -> Stores]
  BY DEF Kinds, TabsInv, SessionTypeOK
<1> DEFINE new == [store[t] EXCEPT !.session = s, !.auth = auth]
           f == IF auth THEN Send("me", s) ELSE Idle
<1>1. /\ new \in Stores /\ new.session = s /\ new.auth = auth
      /\ new.user = store[t].user
  BY <1>t DEF Stores
<1>2. Set(t, new) /\ ls' = s /\ writer' = t /\ stranded' = FALSE
  BY DEF KeepTokens
<1>3. Flowed(t, k, f) /\ Fits(t, k, f)
  <2>1. f \in Flow
    BY <1>t, SentIsAFlow, IdleIsAFlow
  <2>2. To(t, k, f)
    BY DEF FetchMe
  <2>3. Fits(t, k, f)
    BY <1>t, SentFits, IdleFits
  <2> QED BY <1>t, <2>1, <2>2, <2>3, GoesOn
<1>4. auth => f.call = "me" /\ f.with = s /\ f.at = "sent"
  BY SentIsAFlow, IdleIsAFlow
<1> HIDE DEF new, f
<1>5. s # NoSession
  BY SessionsAreReal
<1>6. ASSUME ~crossed'
      PROVE  ~crossed /\ TabRight(t)' /\ new.auth
  <2>1. /\ ~crossed /\ auth
        /\ k = "enter" => store[t].user = Nobody
        /\ flow[t][IF k = "enter" THEN "edit" ELSE "enter"].at = "idle"
    BY <1>6
  <2>2. store'[t] = new
    BY <1>t, <1>2 DEF Set
  <2>3. /\ flow'[t][k] = f
        /\ \A j \in Kinds \ {k} : flow'[t][j] = flow[t][j]
    BY <1>t, <1>3 DEF Flowed
  <2>4. \A j \in Kinds \ {k} : flow'[t][j].call \in {"none", "delete"}
    BY <2>1, <2>3 DEF TabsInv, FlowShape, Kinds, CallsOf
  <2>5. k = "edit" => flow'[t]["enter"].at = "idle"
    BY <2>1, <2>3 DEF Kinds
  <2>6. k = "enter" => flow'[t]["edit"].at = "idle"
    BY <2>1, <2>3 DEF Kinds
  <2>7. Fetching(t)'
    BY <1>t, <1>4, <2>1, <2>3 DEF Fetching
  <2>8. "enter" \in Kinds
    BY DEF Kinds
  <2> QED BY <1>1, <1>2, <1>4, <1>5, <2>1, <2>2, <2>3, <2>4, <2>5, <2>6, <2>7, <2>8
        DEF TabRight, StoreShape, Asking
<1>7. \E o \in {t, origin[t]} : origin' = [origin EXCEPT ![t] = o]
  BY <1>t
<1>8. UNCHANGED <<account, now, faults>> /\ starts' \in 0 .. MaxStarts
  BY DEF TabsInv, SessionTypeOK, world
<1> QED BY <1>t, <1>1, <1>2, <1>3, <1>5, <1>6, <1>7, <1>8, TabStep

LEMMA AfterEnterStep ==
  ASSUME TabsInv, NEW t \in Tabs, NEW k \in Kinds, flow[t][k].at # "idle",
         AfterEnter(t, k), UNCHANGED world
  PROVE  TabsInv'
<1>t. flow[t][k] \in Flow /\ k = "enter"
  BY BrowserTyped DEF TabsInv, FlowShape, AfterEnter, CallsOf, Kinds
<1>1. CASE flow[t][k].at = "ok"
  <2>1. flow[t][k].with \in Sessions
    BY <1>1, <1>t DEF TabsInv, FlowShape, AfterEnter, Flow
  <2>2. /\ KeepTokens(t, flow[t][k].with, TRUE)
        /\ FetchMe(t, k, TRUE, flow[t][k].with)
        /\ crossed' = (crossed \/ Others(t, k)) /\ UNCHANGED origin
    BY <1>1 DEF AfterEnter, KeepTokens
  <2>3. ASSUME ~crossed'
        PROVE  ~crossed /\ store[t].user = Nobody /\ flow[t]["edit"].at = "idle"
    BY <2>2, <2>3, <1>t, UncrossedByTab DEF TabsInv, TabRight
  <2>4. crossed' \in BOOLEAN
    BY <2>2 DEF TabsInv, SessionTypeOK
  <2> QED BY <1>t, <2>1, <2>2, <2>3, <2>4, KeepStep
<1>2. CASE flow[t][k].at = "bad"
  <2>1. Persist(t) /\ Flowed(t, k, Idle) /\ Fits(t, k, Idle)
    BY <1>2, GoesOn, IdleFits, SentIsAFlow, IdleIsAFlow DEF AfterEnter
  <2>2. flow[t][k].call = "enter"
    BY DEF AfterEnter
  <2>3. Allowed(t, k, Idle)
    BY <1>t, <2>2, SentIsAFlow, IdleIsAFlow DEF Allowed, Asking
  <2> QED BY <2>1, <2>3, BrowserTyped, PersistStep DEF world, TabsInv
<1> QED BY <1>1, <1>2 DEF AfterEnter

\* The two steps of a login that come before the call that may sign in.
LEMMA AfterOptionsStep ==
  ASSUME TabsInv, NEW t \in Tabs, NEW k \in Kinds, AfterOptions(t, k) \/ AfterPasskey(t, k),
         UNCHANGED world
  PROVE  TabsInv'
<1>t. /\ flow[t][k] \in Flow /\ k = "enter" /\ flow[t][k].call \in {"options", "passkey"}
      /\ flow[t][k].want \in Accounts /\ flow[t][k].at # "idle"
  BY BrowserTyped DEF TabsInv, FlowShape, AfterOptions, AfterPasskey, CallsOf, Kinds, Asking
<1> DEFINE given == [flow[t][k] EXCEPT !.call = "passkey"]
           called == Ask("enter", flow[t][k].want)
<1>1. /\ given \in Flow /\ given.call = "passkey" /\ given.want = flow[t][k].want
      /\ given.at = flow[t][k].at
  BY <1>t DEF Flow
<1>2. /\ called \in Flow /\ called.call = "enter" /\ called.want = flow[t][k].want
      /\ called.at = "sent"
  BY <1>t, AskIsAFlow DEF Asking
<1>3. To(t, k, given) \/ To(t, k, called) \/ To(t, k, Idle)
  <2>1. AfterOptions(t, k) => To(t, k, given) \/ To(t, k, Idle)
    BY DEF AfterOptions
  <2>2. AfterPasskey(t, k) => To(t, k, called) \/ To(t, k, Idle)
    BY DEF AfterPasskey
  <2> QED BY <2>1, <2>2
<1>4. Persist(t) \/ UNCHANGED browser
  BY DEF AfterOptions, AfterPasskey
<1> HIDE DEF given, called
<1>5. PICK f \in Flow :
        /\ To(t, k, f)
        /\ f # Idle => /\ f.call \in {"passkey", "enter"} /\ f.want \in Accounts
                       /\ f.at # "idle" /\ (f.call = "enter" => f.at = "sent")
  BY <1>t, <1>1, <1>2, <1>3, IdleIsAFlow
<1>6. Flowed(t, k, f)
  BY <1>5, GoesOn
<1>7. Fits(t, k, f)
  <2>1. CASE f = Idle
    BY <2>1, IdleFits
  <2>2. CASE f # Idle
    BY <1>t, <1>5, <2>2 DEF Fits, CallsOf
  <2> QED BY <2>1, <2>2
<1>8. ~crossed => Allowed(t, k, f)
  <2> SUFFICES ASSUME ~crossed
               PROVE  Allowed(t, k, f)
    OBVIOUS
  <2>1. TabRight(t)
    BY UncrossedByTab DEF TabsInv
  <2>2. /\ ~store[t].auth /\ store[t].user = Nobody /\ flow[t]["edit"].at = "idle"
        /\ flow[t][k].call \notin {"me", "refresh"}
    BY <1>t, <2>1 DEF TabRight, Asking
  <2> QED BY <1>t, <1>5, <2>2, IdleIsAFlow DEF Allowed
<1> QED BY <1>4, <1>6, <1>7, <1>8, BrowserTyped, PersistStep, QuietStep DEF world, TabsInv

LEMMA AfterMeStep ==
  ASSUME TabsInv, NEW t \in Tabs, NEW k \in Kinds, AfterMe(t, k), UNCHANGED world
  PROVE  TabsInv'
<1>t. /\ flow[t][k] \in Flow /\ k \in {"enter", "edit"} /\ flow[t][k].call = "me"
      /\ store[t] \in Stores /\ ls \in Sessions \cup {NoSession}
      /\ store \in [Tabs -> Stores]
  BY BrowserTyped DEF TabsInv, FlowShape, AfterMe, CallsOf, Kinds, SessionTypeOK
<1>1. CASE flow[t][k].at = "ok"
  <2> DEFINE new == [store[t] EXCEPT !.user = flow[t][k].with.did]
  <2>1. /\ Set(t, new) /\ To(t, k, Idle) /\ origin' = [origin EXCEPT ![t] = t]
        /\ UNCHANGED <<ls, writer, crossed, stranded>>
    BY <1>1 DEF AfterMe
  <2>2. flow[t][k].with \in Sessions
    BY <1>1, <1>t DEF TabsInv, FlowShape, Flow
  <2>3. /\ new \in Stores /\ new.auth = store[t].auth /\ new.session = store[t].session
        /\ new.user = flow[t][k].with.did
    BY <1>t, <2>2 DEF Stores, Sessions
  <2> HIDE DEF new
  <2>4. Flowed(t, k, Idle) /\ Fits(t, k, Idle)
    BY <2>1, GoesOn, IdleFits, SentIsAFlow, IdleIsAFlow
  <2>5. new.auth => new.session # NoSession
    BY <2>3 DEF TabsInv, SessionTypeOK
  <2>6. ASSUME ~crossed'
        PROVE  ~crossed /\ TabRight(t)' /\ new.auth
    <3>1. ~crossed /\ TabRight(t) /\ store[t].auth
      BY <2>1, <2>6, <1>t, UncrossedByTab DEF TabsInv, TabRight
    <3>2. store'[t] = new
      BY <1>t, <2>1 DEF Set
    <3>3. /\ flow'[t][k] = Idle
          /\ \A j \in Kinds \ {k} : flow'[t][j] = flow[t][j]
      BY <2>4 DEF Flowed
    <3>4. flow'[t]["enter"].at = "idle" /\ flow'[t]["enter"].call = "none"
      <4>1. CASE k = "enter"
        BY <4>1, <3>3, SentIsAFlow, IdleIsAFlow
      <4>2. CASE k = "edit"
        <5>1. flow[t]["edit"].at # "idle" /\ "enter" \in Kinds /\ "edit" \in Kinds
          BY <4>2, <1>1 DEF Kinds
        <5>2. flow[t]["enter"].at = "idle"
          BY <5>1, <3>1 DEF TabRight
        <5> QED BY <4>2, <3>3, <5>1, <5>2 DEF TabsInv, FlowShape
      <4> QED BY <1>t, <4>1, <4>2
    <3>5. \A j \in Kinds : (flow'[t][j].call = "me" /\ writer = t /\ ls # NoSession)
                             => flow'[t][j].with = ls
      BY <3>1, <3>3, SentIsAFlow, IdleIsAFlow DEF TabRight
    <3>6. (writer = t /\ ls # NoSession) => flow[t][k].with = ls
      BY <1>t, <3>1 DEF TabRight
    <3>7. \A j \in Kinds : flow'[t][j].call \in {"edit", "me", "refresh"} => new.auth
      BY <2>3, <3>1
    <3> QED BY <2>1, <2>3, <2>5, <3>1, <3>2, <3>4, <3>5, <3>6, <3>7
          DEF TabRight, StoreShape, Asking
  <2>7. /\ ls' \in Sessions \cup {NoSession} /\ crossed' \in BOOLEAN
        /\ UNCHANGED <<account, now, faults>> /\ starts' \in 0 .. MaxStarts
    BY <2>1 DEF TabsInv, SessionTypeOK, world
  <2> QED BY <2>1, <2>3, <2>4, <2>5, <2>6, <2>7, TabStep
<1>2. CASE flow[t][k].at = "bad" /\ RefreshTokenOf(t) # NoSession
  <2>1. UNCHANGED browser /\ To(t, k, Send("refresh", RefreshTokenOf(t)))
    BY <1>2 DEF AfterMe
  <2>2. RefreshTokenOf(t) \in Sessions \cup {NoSession}
    BY <1>t DEF RefreshTokenOf, Stores
  <2> DEFINE f == Send("refresh", RefreshTokenOf(t))
  <2>3. f \in Flow /\ f.call = "refresh" /\ f.at = "sent" /\ Fits(t, k, f)
    BY <1>t, <2>2, SentIsAFlow, IdleIsAFlow, SentFits
  <2> HIDE DEF f
  <2>4. Flowed(t, k, f)
    BY <2>1, <2>3, GoesOn DEF f
  <2>5. ~crossed => Allowed(t, k, f)
    <3> SUFFICES ASSUME ~crossed
                 PROVE  Allowed(t, k, f)
      OBVIOUS
    <3>1. TabRight(t)
      BY UncrossedByTab DEF TabsInv
    <3>2. store[t].auth
      BY <3>1, <1>t DEF TabRight
    <3>3. k = "enter" => store[t].user = Nobody /\ flow[t]["edit"].at = "idle"
      BY <3>1, <1>2 DEF TabRight
    <3>4. k = "edit" => flow[t]["enter"].at = "idle"
      BY <3>1, <1>2 DEF TabRight
    <3> QED BY <2>3, <3>2, <3>3, <3>4 DEF Allowed, Asking
  <2> QED BY <2>1, <2>3, <2>4, <2>5, BrowserTyped, QuietStep DEF world, TabsInv
<1>3. CASE flow[t][k].at = "bad" /\ RefreshTokenOf(t) = NoSession
  BY <1>3, SignoutStep DEF AfterMe
<1> QED BY <1>1, <1>2, <1>3 DEF AfterMe

LEMMA AfterRefreshStep ==
  ASSUME TabsInv, NEW t \in Tabs, NEW k \in Kinds, AfterRefresh(t, k), UNCHANGED world
  PROVE  TabsInv'
<1>t. /\ flow[t][k] \in Flow /\ k \in {"enter", "edit"} /\ flow[t][k].call = "refresh"
      /\ store[t].auth \in BOOLEAN
  <2>1. flow[t][k] \in Flow /\ store[t] \in Stores
    BY BrowserTyped DEF TabsInv, SessionTypeOK
  <2>2. flow[t][k].call = "refresh"
    BY DEF AfterRefresh
  <2>3. k \in {"enter", "edit"}
    BY <2>2 DEF TabsInv, FlowShape, CallsOf, Kinds
  <2> QED BY <2>1, <2>2, <2>3 DEF Stores
<1>1. CASE flow[t][k].at = "ok"
  <2>1. flow[t][k].with \in Sessions
    BY <1>1, <1>t DEF TabsInv, FlowShape, Flow
  <2>2. /\ KeepTokens(t, flow[t][k].with, store[t].auth)
        /\ FetchMe(t, k, store[t].auth, flow[t][k].with)
        /\ UNCHANGED <<origin, crossed>>
    BY <1>1 DEF AfterRefresh, KeepTokens
  <2>3. ASSUME ~crossed'
        PROVE  /\ ~crossed /\ store[t].auth
               /\ k = "enter" => store[t].user = Nobody
               /\ flow[t][IF k = "enter" THEN "edit" ELSE "enter"].at = "idle"
    <3>1. ~crossed /\ TabRight(t)
      BY <2>2, <2>3, UncrossedByTab DEF TabsInv
    <3>2. store[t].auth
      BY <3>1, <1>t DEF TabRight
    <3>3. k = "enter" => store[t].user = Nobody /\ flow[t]["edit"].at = "idle"
      BY <3>1, <1>1 DEF TabRight
    <3>4. k = "edit" => flow[t]["enter"].at = "idle"
      BY <3>1, <1>1 DEF TabRight
    <3> QED BY <1>t, <3>1, <3>2, <3>3, <3>4
  <2>4. crossed' \in BOOLEAN
    BY <2>2 DEF TabsInv, SessionTypeOK
  <2> QED BY <1>t, <2>1, <2>2, <2>3, <2>4, KeepStep
<1>2. CASE flow[t][k].at = "bad"
  BY <1>2, SignoutStep DEF AfterRefresh
<1> QED BY <1>1, <1>2 DEF AfterRefresh
LEMMA AfterEditStep ==
  ASSUME TabsInv, NEW t \in Tabs, NEW k \in Kinds, AfterEdit(t, k), UNCHANGED world
  PROVE  TabsInv'
<1>t. /\ flow[t][k] \in Flow /\ k = "edit" /\ flow[t][k].call = "edit"
      /\ ls \in Sessions \cup {NoSession} /\ flow[t][k].at # "idle"
  BY BrowserTyped DEF TabsInv, FlowShape, AfterEdit, CallsOf, Kinds, SessionTypeOK
<1>1. PICK f \in {Idle, Send("me", ls)} :
        To(t, k, f) /\ (f = Idle \/ store[t].auth)
  BY DEF AfterEdit, FetchMe
<1>2. Flowed(t, k, f) /\ Fits(t, k, f) /\ UNCHANGED browser
  BY <1>t, <1>1, GoesOn, IdleFits, SentFits, SentIsAFlow, IdleIsAFlow DEF AfterEdit
<1>3. ~crossed => Allowed(t, k, f)
  <2>1. ~crossed => flow[t]["enter"].at = "idle"
    BY <1>t, UncrossedByTab DEF TabsInv, TabRight
  <2> QED BY <1>t, <1>1, <2>1, SentIsAFlow, IdleIsAFlow DEF Allowed, Asking
<1> QED BY <1>2, <1>3, BrowserTyped, QuietStep DEF world, TabsInv

LEMMA AfterDeleteStep ==
  ASSUME TabsInv, NEW t \in Tabs, NEW k \in Kinds, AfterDelete(t, k), UNCHANGED world
  PROVE  TabsInv'
<1>t. flow[t][k] \in Flow /\ k = "delete" /\ flow[t][k].call = "delete"
  BY BrowserTyped DEF TabsInv, FlowShape, AfterDelete, CallsOf, Kinds
<1>1. CASE flow[t][k].at = "ok"
  BY <1>1, SignoutStep DEF AfterDelete
<1>2. CASE flow[t][k].at = "bad"
  <2>1. UNCHANGED browser /\ Flowed(t, k, Idle) /\ Fits(t, k, Idle)
    BY <1>2, GoesOn, IdleFits, IdleIsAFlow DEF AfterDelete
  <2>2. Allowed(t, k, Idle)
    BY <1>t, IdleIsAFlow DEF Allowed, Asking
  <2> QED BY <2>1, <2>2, BrowserTyped, QuietStep DEF world, TabsInv
<1> QED BY <1>1, <1>2 DEF AfterDelete

\* A tab that is loaded again shows what was persisted.
LEMMA ReloadStep ==
  ASSUME TabsInv, NEW t \in Tabs, Reload(t)
  PROVE  TabsInv'
<1>t. /\ store \in [Tabs -> Stores] /\ saved \in Stores
      /\ origin \in [Tabs -> Tabs \cup {NoTab}] /\ savedBy \in Tabs \cup {NoTab}
      /\ flow \in [Tabs -> [Kinds -> Flow]] /\ starts' \in 0 .. MaxStarts
  BY SessionAssumption DEF TabsInv, SessionTypeOK, Flow, Reload
<1>1. /\ store' \in [Tabs -> Stores] /\ store'[t] = saved
      /\ \A u \in Tabs \ {t} : store'[u] = store[u]
  BY <1>t DEF Reload
<1>2. OriginOf(t) \in Tabs \cup {NoTab}
  BY <1>t DEF OriginOf
<1>3. /\ origin' \in [Tabs -> Tabs \cup {NoTab}] /\ origin'[t] = OriginOf(t)
      /\ \A u \in Tabs \ {t} : origin'[u] = origin[u]
  BY <1>t, <1>2 DEF Reload
<1>4. /\ flow' \in [Tabs -> [Kinds -> Flow]]
      /\ \A k \in Kinds : flow'[t][k].call = "none" /\ flow'[t][k].at = "idle"
      /\ \A u \in Tabs \ {t} : flow'[u] = flow[u]
  <2>1. [k \in Kinds |-> Idle] \in [Kinds -> Flow]
    BY IdleIsAFlow
  <2> QED BY <1>t, <2>1, IdleIsAFlow DEF Reload
<1>5. /\ UNCHANGED <<account, ls, saved, now, faults, writer, savedBy, crossed>>
      /\ stranded' \in BOOLEAN
      /\ ~stranded' => ~stranded /\ ((writer = t /\ ls # NoSession /\ store[t].auth) => saved.auth)
  BY DEF Reload, TabsInv, SessionTypeOK
<1>6. saved.auth => saved.session # NoSession
  BY DEF TabsInv, SavedSigned
<1>7. SessionTypeOK'
  <2>1. \A u \in Tabs : store'[u].auth => store'[u].session # NoSession
    BY <1>1, <1>6 DEF TabsInv, SessionTypeOK
  <2> QED BY <1>t, <1>1, <1>3, <1>4, <1>5, <2>1
        DEF TabsInv, SessionTypeOK, Flow, Sessions, Stores
<1>8. FlowShape'
  <2>1. \A k \in Kinds : "none" \in CallsOf(k)
    BY DEF CallsOf, Kinds
  <2> QED BY <1>4, <2>1 DEF TabsInv, FlowShape, Asking
<1>9. SavedIsAStore' /\ SavedSigned'
  BY <1>1, <1>5 DEF TabsInv, SavedIsAStore, SavedSigned
<1>10. ASSUME ~crossed'
       PROVE  Uncrossed'
  <2>1. (\A u \in Tabs : TabRight(u)) /\ StoreShape(saved) /\ TokensAreSomebodys
    BY <1>5, <1>10, UncrossedByTab DEF TabsInv
  <2>2. "enter" \in Kinds /\ "edit" \in Kinds
    BY DEF Kinds
  <2>3. \A u \in Tabs \ {t} : TabRight(u)'
    BY <1>1, <1>3, <1>4, <1>5, <2>1, <2>2
    DEF TabRight, StoreShape, SignedOut, Fetching
  <2>4. (writer = t /\ ls # NoSession /\ origin'[t] = t /\ store'[t].user # Nobody)
          => store'[t].user = ls.did
    <3> SUFFICES ASSUME writer = t, ls # NoSession, OriginOf(t) = t, saved.user # Nobody
                 PROVE  saved.user = ls.did
      BY <1>1, <1>3
    <3>1. ~Fetching(t) /\ savedBy = t /\ origin[t] = t
      BY SessionAssumption DEF OriginOf
    <3>2. store[t] = saved
      BY <3>1 DEF TabsInv, SavedIsAStore
    <3> QED BY <2>1, <3>1, <3>2 DEF TabRight
  <2>5. TabRight(t)'
    BY <1>1, <1>4, <1>5, <2>1, <2>2, <2>4 DEF TabRight, StoreShape, SignedOut, Asking
  <2>6. StoreShape(saved)' /\ TokensAreSomebodys'
    BY <1>1, <1>5, <2>1 DEF StoreShape, SignedOut, TokensAreSomebodys
  <2> QED BY <2>3, <2>5, <2>6, UncrossedByTab
<1> QED BY <1>7, <1>8, <1>9, <1>10 DEF TabsInv

LEMMA RecoveredStep ==
  ASSUME TabsInv, NEW a \in Accounts, Recovered(a)
  PROVE  TabsInv'
<1> DEFINE s == [auth |-> TRUE, user |-> a, session |-> IssueSession(a)]
<1>1. IssueSession(a) \in Sessions /\ IssueSession(a) # NoSession
  BY IssuedIsASession, SessionsAreReal DEF TabsInv
<1>2. s \in Stores /\ s.auth /\ s.session # NoSession
  BY <1>1 DEF Stores
<1>3. /\ saved' = s /\ savedBy' = NoTab /\ faults' \in 0 .. MaxFaults
      /\ UNCHANGED <<account, ls, store, flow, now, starts, writer, origin, crossed, stranded>>
  BY SessionAssumption, BrowserTyped DEF Recovered, Fault, TabsInv
<1> HIDE DEF s
<1>4. SessionTypeOK'
  BY <1>2, <1>3 DEF TabsInv, SessionTypeOK, Sessions
<1>5. FlowShape' /\ SavedIsAStore' /\ SavedSigned'
  BY <1>2, <1>3, SessionAssumption DEF TabsInv, FlowShape, SavedIsAStore, SavedSigned
<1>6. ASSUME ~crossed'
      PROVE  Uncrossed'
  <2>1. \A u \in Tabs : TabRight(u)
    BY <1>3, <1>6, UncrossedByTab DEF TabsInv
  <2>2. \A u \in Tabs : TabRight(u)'
    BY <1>3, <2>1 DEF TabRight, StoreShape, SignedOut, Fetching
  <2>3. StoreShape(saved)' /\ TokensAreSomebodys'
    BY <1>2, <1>3, <1>6 DEF StoreShape, TokensAreSomebodys, TabsInv, Uncrossed
  <2> QED BY <2>2, <2>3, UncrossedByTab
<1> QED BY <1>4, <1>5, <1>6 DEF TabsInv

\* Time, the deletion worker, and nothing at all.
LEMMA OutsideStep ==
  ASSUME TabsInv, UNCHANGED <<browser, flow, starts, faults>>,
         account' \in [Accounts -> {"new", "active", "leaving", "erased"}],
         now' \in 0 .. MaxTime
  PROVE  TabsInv'
<1>1. SessionTypeOK'
  BY DEF TabsInv, SessionTypeOK, browser, Sessions, Stores
<1>2. FlowShape' /\ SavedIsAStore' /\ SavedSigned'
  BY DEF TabsInv, FlowShape, SavedIsAStore, SavedSigned, browser
<1>3. ASSUME ~crossed'
      PROVE  Uncrossed'
  <2>1. \A t \in Tabs : TabRight(t) => TabRight(t)'
    BY DEF browser, TabRight, StoreShape, SignedOut, Fetching
  <2>2. /\ StoreShape(saved) => StoreShape(saved)'
        /\ TokensAreSomebodys => TokensAreSomebodys'
    BY DEF browser, StoreShape, SignedOut, TokensAreSomebodys
  <2>3. (\A t \in Tabs : TabRight(t)) /\ StoreShape(saved) /\ TokensAreSomebodys
    BY <1>3, UncrossedByTab DEF TabsInv, browser
  <2>4. \A t \in Tabs : TabRight(t)'
    BY <2>1, <2>3
  <2> QED BY <2>2, <2>3, <2>4, UncrossedByTab
<1> QED BY <1>1, <1>2, <1>3 DEF TabsInv

LEMMA TabsInit ==
  ASSUME SessionInit
  PROVE  TabsInv
<1>1. /\ Idle \in Flow /\ SignedOut \in Stores
      /\ Idle.at = "idle" /\ Idle.call = "none" /\ ~SignedOut.auth
  BY IdleIsAFlow DEF SignedOut, Stores
<1>2. SessionTypeOK
  <2>1. flow \in [Tabs -> [Kinds -> Flow]] /\ store \in [Tabs -> Stores] /\ saved \in Stores
    BY <1>1 DEF SessionInit
  <2>2. \A t \in Tabs : ~store[t].auth
    BY <1>1 DEF SessionInit
  <2>3. now \in 0 .. MaxTime /\ starts \in 0 .. MaxStarts /\ faults \in 0 .. MaxFaults
    BY SessionAssumption DEF SessionInit
  <2>4. /\ account \in [Accounts -> {"new", "active", "leaving", "erased"}]
        /\ ls \in Sessions \cup {NoSession} /\ crossed \in BOOLEAN /\ stranded \in BOOLEAN
        /\ writer \in Tabs \cup {NoTab} /\ savedBy \in Tabs \cup {NoTab}
        /\ origin \in [Tabs -> Tabs \cup {NoTab}]
    BY DEF SessionInit
  <2> QED BY <2>1, <2>2, <2>3, <2>4 DEF SessionTypeOK, Flow
<1>3. FlowShape
  <2>1. \A k \in Kinds : "none" \in CallsOf(k)
    BY DEF CallsOf, Kinds
  <2> QED BY <1>1, <2>1 DEF SessionInit, FlowShape, Asking
<1>4. SavedIsAStore /\ SavedSigned
  BY <1>1, SessionAssumption DEF SessionInit, SavedIsAStore, SavedSigned
<1>5. Uncrossed
  <2>1. "enter" \in Kinds /\ "edit" \in Kinds
    BY DEF Kinds
  <2> QED BY <1>1, <2>1 DEF SessionInit, Uncrossed, StoreShape, CallsMatchStore, SignedOut,
            TokensAreSomebodys, FetchedWithTokens, ShownOrFetched, Asking
<1> QED BY <1>2, <1>3, <1>4, <1>5 DEF TabsInv

LEMMA TabsNext ==
  ASSUME TabsInv, [SessionNext]_sessionVars
  PROVE  TabsInv'
<1>t. /\ account \in [Accounts -> {"new", "active", "leaving", "erased"}]
      /\ now \in 0 .. MaxTime
  BY BrowserTyped DEF TabsInv
<1>1. ASSUME NEW t \in Tabs, SignUp(t) \/ LogIn(t)
      PROVE  TabsInv'
  <2>1. CASE SignUp(t)
    <3>1. \E a \in Accounts : a \notin Known
      BY <2>1 DEF SignUp, Known
    <3>2. (CHOOSE a \in Accounts : a \notin Known) \in Accounts
      BY <3>1
    <3> QED BY <2>1, <3>2, SignStep DEF SignUp
  <2>2. CASE LogIn(t)
    BY <2>2, SignStep DEF LogIn, Known
  <2> QED BY <1>1, <2>1, <2>2
<1>2. ASSUME NEW t \in Tabs, Edit(t) \/ DeleteAccount(t) \/ Reload(t)
      PROVE  TabsInv'
  BY <1>2, EditStep, DeleteStep, ReloadStep
<1>3. ASSUME NEW t \in Tabs, NEW k \in Kinds, Serve(t, k) \/ Fail(t, k)
      PROVE  TabsInv'
  BY <1>3, ServeStep, FailStep
<1>4. ASSUME NEW t \in Tabs, NEW k \in Kinds, Continue(t, k)
      PROVE  TabsInv'
  <2>1. UNCHANGED world
    BY <1>4 DEF Continue
  <2>2. CASE AfterEnter(t, k)
    <3>1. flow[t][k].at # "idle"
      BY <2>2 DEF AfterEnter, TabsInv, FlowShape
    <3> QED BY <2>1, <2>2, <3>1, AfterEnterStep
  <2> QED BY <1>4, <2>1, <2>2, AfterOptionsStep, AfterMeStep, AfterRefreshStep,
              AfterEditStep, AfterDeleteStep
        DEF Continue
<1>5. ASSUME NEW a \in Accounts, Recovered(a)
      PROVE  TabsInv'
  BY <1>5, RecoveredStep
<1>6. ASSUME NEW a \in Accounts, Erase(a)
      PROVE  TabsInv'
  BY <1>t, <1>6, OutsideStep DEF Erase
<1>7. CASE Tick
  <2>1. now' \in 0 .. MaxTime
    BY <1>t, <1>7, SessionAssumption DEF Tick
  <2> QED BY <1>t, <1>7, <2>1, OutsideStep DEF Tick
<1>8. CASE UNCHANGED sessionVars
  BY <1>t, <1>8, OutsideStep DEF sessionVars, browser
<1> QED BY <1>1, <1>2, <1>3, <1>4, <1>5, <1>6, <1>7, <1>8 DEF SessionNext

\* Every reachable state is well typed, and until a tab signs in or out with
\* another call under way the stores, the calls and the shared tokens agree.
THEOREM SessionInvariant == SessionSpec => []TabsInv
<1>1. SessionInit => TabsInv
  BY TabsInit
<1>2. TabsInv /\ [SessionNext]_sessionVars => TabsInv'
  BY TabsNext
<1> QED BY <1>1, <1>2, PTL DEF SessionSpec

\* What a tab saves or deletes belongs to the account it shows, and signing out
\* leaves no session behind but where a tab was loaded signed out over it,
\* however many tabs share the tokens.
THEOREM SessionIsSafe == SessionSpec => []SessionInv
<1>1. ASSUME TabsInv
      PROVE  ShownAccountActs
  <2> SUFFICES ASSUME NEW t \in Tabs, Quiet(t), writer = t, origin[t] = t, ~crossed,
                      store[t].user # Nobody, ls # NoSession
               PROVE  store[t].user = ls.did
    BY DEF ShownAccountActs
  <2>1. ~Fetching(t)
    BY <1>1 DEF Quiet, Fetching, TabsInv, FlowShape
  <2>2. TabRight(t)
    BY <1>1, UncrossedByTab DEF TabsInv
  <2> QED BY <2>1, <2>2 DEF TabRight
<1>2. ASSUME TabsInv
      PROVE  SignOutForgets
  <2> SUFFICES ASSUME \A t \in Tabs : ~store[t].auth, ~crossed
               PROVE  /\ ls # NoSession => stranded
                      /\ saved.session # NoSession => savedBy = NoTab
    BY DEF SignOutForgets
  <2>1. StoreShape(saved) /\ TokensAreSomebodys /\ savedBy \in Tabs \cup {NoTab}
    BY <1>2 DEF TabsInv, Uncrossed, SessionTypeOK
  <2>2. ls # NoSession => stranded
    BY <2>1 DEF TokensAreSomebodys
  <2>3. ASSUME savedBy # NoTab PROVE saved.session = NoSession
    <3>1. saved = store[savedBy] /\ savedBy \in Tabs
      BY <1>2, <2>1, <2>3 DEF TabsInv, SavedIsAStore
    <3> QED BY <2>1, <3>1 DEF StoreShape, SignedOut
  <2> QED BY <2>2, <2>3
<1>3. TabsInv => SessionInv
  BY <1>1, <1>2 DEF TabsInv, SessionInv
<1> QED BY <1>3, SessionInvariant, PTL
=============================================================================
