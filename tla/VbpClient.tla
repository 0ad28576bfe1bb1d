----------------------------- MODULE VbpClient -----------------------------
(***************************************************************************)
(* VBPClient of the Node driver (drivers/node/src/index.ts): calls         *)
(* multiplexed over a socket by sequence number, answered by a stream of   *)
(* DATA_CHUNK frames and a terminal one.                                   *)
(*                                                                         *)
(* JavaScript runs each callback to its end, so that an action is a        *)
(* callback or a call; the server and TCP are external.  TCP cuts the      *)
(* stream into segments anywhere: one that ends on a frame is Deliver, one *)
(* that ends inside a frame is Tear, for onData drops the started frame.   *)
(***************************************************************************)
EXTENDS Naturals, Sequences

CONSTANTS
  Calls,       \* calls of query and ping, each made at most once
  Pings,       \* those of ping
  Sockets,     \* one for each call of connect
  MaxSeq,      \* the last sequence number of 32 bits
  MaxChunks,   \* bound: chunks of an answer
  NoCall, NoSocket

ASSUME VbpAssumption ==
  /\ Pings \subseteq Calls
  /\ MaxSeq \in Nat \ {0} /\ MaxChunks \in Nat
  /\ NoCall \notin Calls /\ NoSocket \notin Sockets

VARIABLES
  nextSeq,
  call,        \* the promise of each call, and the frames of its entry
  inflight,    \* sequence number -> call
  socket,      \* this.socket
  connected,
  hello,       \* for each socket, the one its hello was written to, while the
               \* callback of that write is due
  conn,        \* each socket
  asked,       \* sequence numbers the server works on, by socket
  sent,        \* chunks the server has sent for each, by socket
  wire,        \* frames on their way to the client
  lost,        \* chunks dropped by onData
  torn         \* sockets of which a segment ended inside a frame

client == <<nextSeq, call, inflight, socket, connected, hello>>
server == <<asked, sent, wire, lost, torn>>
vars == <<client, conn, server>>

Seqs == 1..MaxSeq
Frame == [seq : Seqs, op : {"chunk", "complete", "error"}, n : 0..MaxChunks]

\* written: the callback of socket.write has run.  on: the socket written to.
Call == [state : {"new", "pending", "resolved", "failed"},
         seq : 0..MaxSeq, on : Sockets \cup {NoSocket}, written : BOOLEAN,
         got : Seq(0..MaxChunks)]

TypeOK ==
  /\ nextSeq \in Nat \ {0}
  /\ call \in [Calls -> Call]
  /\ inflight \in [Seqs -> Calls \cup {NoCall}]
  /\ socket \in Sockets \cup {NoSocket}
  /\ connected \in BOOLEAN
  /\ hello \in [Sockets -> Sockets \cup {NoSocket}]
  /\ conn \in [Sockets -> {"new", "hello", "open", "closing", "closed"}]
  /\ asked \in [Sockets -> SUBSET Seqs]
  /\ sent \in [Sockets -> [Seqs -> 0..MaxChunks]]
  /\ wire \in [Sockets -> Seq(Frame)]
  /\ lost \subseteq Sockets \X Seqs \X (0..MaxChunks)
  /\ torn \subseteq Sockets

Init ==
  /\ nextSeq = 1
  /\ call = [c \in Calls |-> [state |-> "new", seq |-> 0, on |-> NoSocket,
                              written |-> FALSE, got |-> <<>>]]
  /\ inflight = [q \in Seqs |-> NoCall]
  /\ socket = NoSocket
  /\ connected = FALSE
  /\ hello = [s \in Sockets |-> NoSocket]
  /\ conn = [s \in Sockets |-> "new"]
  /\ asked = [s \in Sockets |-> {}]
  /\ sent = [s \in Sockets |-> [q \in Seqs |-> 0]]
  /\ wire = [s \in Sockets |-> <<>>]
  /\ lost = {} /\ torn = {}
-----------------------------------------------------------------------------
(***************************************************************************)
(* connect and close.                                                      *)
(***************************************************************************)
\* Mutant: numbers start again with each connection.
SeqFromOne == 1
SeqOfConnection == nextSeq

Connect(s) ==
  /\ conn[s] = "new"
  /\ conn' = [conn EXCEPT ![s] = "hello"]
  /\ socket' = s
  /\ nextSeq' = SeqOfConnection
  /\ UNCHANGED <<call, inflight, connected, hello, server>>

\* onConnect: the hello goes to this.socket, whichever that is by now; after close
\* there is none, and connect rejects, as it does when that socket is closed.
OnConnect(s) ==
  /\ conn[s] = "hello"
  /\ conn' = [conn EXCEPT ![s] = "open"]
  /\ hello' = [hello EXCEPT ![s] = IF socket = NoSocket THEN NoSocket
                                   ELSE IF conn[socket] = "closed" THEN NoSocket
                                   ELSE socket]
  /\ UNCHANGED <<nextSeq, call, inflight, socket, connected, server>>

\* The callback of its write; that of a socket destroyed after the write may still
\* come without an error.
HelloWritten(s) ==
  /\ hello[s] # NoSocket
  /\ conn[hello[s]] = "open" \/ (hello[s] = s /\ conn[s] = "closing")
  /\ connected' = TRUE
  /\ hello' = [hello EXCEPT ![s] = NoSocket]
  /\ UNCHANGED <<nextSeq, call, inflight, socket, conn, server>>

\* 'close', of whichever socket: calls in flight are left alone.  A hello that was
\* to be written there has failed before.
OnClose(s) ==
  /\ conn[s] \in {"hello", "open", "closing"}
  /\ conn' = [conn EXCEPT ![s] = "closed"]
  /\ connected' = FALSE
  /\ hello' = [t \in Sockets |-> IF hello[t] = s THEN NoSocket ELSE hello[t]]
  /\ asked' = [asked EXCEPT ![s] = {}]
  /\ wire' = [wire EXCEPT ![s] = <<>>]
  /\ UNCHANGED <<nextSeq, call, inflight, socket, sent, lost, torn>>

\* A promise that is settled stays as it is; the frames go with the entry.
Failed(d) == IF d.state = "pending"
             THEN [d EXCEPT !.state = "failed", !.got = <<>>] ELSE d
Pending(c) == call[c].state = "pending"

\* What close rejects.
\* Mutant: only what was written to the socket it closes.
RejectedOfSocket(c) ==
  /\ \E q \in Seqs : inflight[q] = c
  /\ call[c].on = socket
Rejected(c) == \E q \in Seqs : inflight[q] = c

Close ==
  /\ conn' = [s \in Sockets |-> IF s = socket /\ conn[s] \in {"hello", "open"}
                                THEN "closing" ELSE conn[s]]
  /\ wire' = [s \in Sockets |-> IF s = socket THEN <<>> ELSE wire[s]]
  /\ asked' = [s \in Sockets |-> IF s = socket THEN {} ELSE asked[s]]
  /\ socket' = NoSocket
  /\ connected' = FALSE
  /\ call' = [c \in Calls |-> IF Rejected(c) THEN Failed(call[c]) ELSE call[c]]
  /\ inflight' = [q \in Seqs |-> NoCall]
  /\ UNCHANGED <<nextSeq, hello, sent, lost, torn>>

(***************************************************************************)
(* query and ping.                                                         *)
(***************************************************************************)
\* Without a connection query throws and ping answers false.
Refuse(c) ==
  /\ call[c].state = "new"
  /\ ~connected \/ socket = NoSocket
  /\ call' = [call EXCEPT ![c].state = "failed"]
  /\ UNCHANGED <<nextSeq, inflight, socket, connected, hello, conn, server>>

Start(c) ==
  /\ call[c].state = "new"
  /\ connected /\ socket # NoSocket
  /\ nextSeq =< MaxSeq
  /\ nextSeq' = nextSeq + 1
  /\ call' = [call EXCEPT ![c] = [@ EXCEPT !.state = "pending",
                                           !.seq = nextSeq, !.on = socket]]
  /\ inflight' = [inflight EXCEPT ![nextSeq] = c]
  /\ UNCHANGED <<socket, connected, hello, conn, server>>

\* writeUInt32LE throws for a larger number and the promise rejects; the
\* entry under that number stays, and no frame can reach it.
StartBeyond(c) ==
  /\ call[c].state = "new"
  /\ connected /\ socket # NoSocket
  /\ nextSeq > MaxSeq
  /\ nextSeq' = nextSeq + 1
  /\ call' = [call EXCEPT ![c].state = "failed"]
  /\ UNCHANGED <<inflight, socket, connected, hello, conn, server>>

\* The socket takes the frame and the server reads it.
Write(c) ==
  LET d == call[c] IN
  /\ d.seq # 0 /\ ~d.written /\ conn[d.on] = "open"
  /\ call' = [call EXCEPT ![c].written = TRUE]
  /\ asked' = [asked EXCEPT ![d.on] = @ \cup {d.seq}]
  /\ UNCHANGED <<nextSeq, inflight, socket, connected, hello, conn,
                 sent, wire, lost, torn>>

\* The callback of write with an error, which ping does not ask for.
WriteFails(c) ==
  LET d == call[c] IN
  /\ c \notin Pings
  /\ d.seq # 0 /\ ~d.written /\ conn[d.on] \in {"closing", "closed"}
  /\ call' = [call EXCEPT ![c] = [Failed(@) EXCEPT !.written = TRUE]]
  /\ inflight' = [inflight EXCEPT ![d.seq] = NoCall]
  /\ UNCHANGED <<nextSeq, socket, connected, hello, conn, server>>

\* The 5 seconds of ping: the promise is settled, the entry stays.
PingTimeout(c) ==
  /\ c \in Pings /\ Pending(c)
  /\ call' = [call EXCEPT ![c] = Failed(@)]
  /\ UNCHANGED <<nextSeq, inflight, socket, connected, hello, conn, server>>

(***************************************************************************)
(* Answers.                                                                *)
(***************************************************************************)
ServeChunk(s, q) ==
  /\ \A c \in Pings : call[c].seq # q
  /\ q \in asked[s] /\ sent[s][q] < MaxChunks
  /\ sent' = [sent EXCEPT ![s][q] = @ + 1]
  /\ wire' = [wire EXCEPT ![s] =
                Append(@, [seq |-> q, op |-> "chunk", n |-> sent[s][q] + 1])]
  /\ UNCHANGED <<client, conn, asked, lost, torn>>

ServeEnd(s, q) ==
  /\ q \in asked[s]
  /\ asked' = [asked EXCEPT ![s] = @ \ {q}]
  /\ \E op \in {"complete", "error"} :
       wire' = [wire EXCEPT ![s] =
                  Append(@, [seq |-> q, op |-> op, n |-> 0])]
  /\ UNCHANGED <<client, conn, sent, lost, torn>>

\* The entry of a frame's number goes on as d.  A number without an entry is
\* ignored.
\* Mutant: the first chunk is taken for the whole answer.
EndsAtOnce(f) == TRUE
\* Mutant: an error does not end the answer.
EndsIfComplete(f) == f.op = "complete"
Ends(f) == f.op # "chunk"

Answered(d, f) ==
  IF ~Ends(f) THEN [d EXCEPT !.got = Append(@, f.n)]
  ELSE IF f.op = "error" \/ d.state # "pending" THEN Failed(d)
  ELSE [d EXCEPT !.state = "resolved"]

HandleFrame(f) ==
  LET c == inflight[f.seq] IN
  IF c = NoCall THEN UNCHANGED <<call, inflight>>
  ELSE /\ call' = [call EXCEPT ![c] = Answered(@, f)]
       /\ inflight' = IF Ends(f) THEN [inflight EXCEPT ![f.seq] = NoCall]
                      ELSE inflight

Deliver(s) ==
  /\ conn[s] = "open" /\ wire[s] # <<>>
  /\ wire' = [wire EXCEPT ![s] = Tail(@)]
  /\ HandleFrame(Head(wire[s]))
  /\ UNCHANGED <<nextSeq, socket, connected, hello, conn, asked, sent, lost, torn>>

\* onData breaks out of its loop and keeps nothing of the started frame; the
\* next segment begins inside it and goes the same way to its end, k frames in
\* all.  (Row text read as a header gives lengths and numbers above 2^29: no
\* such frame fits the segment or has a number in flight.)
Tear(s, k) ==
  /\ conn[s] = "open" /\ k \in 1..Len(wire[s])
  /\ wire' = [wire EXCEPT ![s] = SubSeq(@, k + 1, Len(@))]
  /\ lost' = lost \cup
       {<<s, wire[s][j].seq, wire[s][j].n>> :
          j \in {i \in 1..k : wire[s][i].op = "chunk"}}
  /\ torn' = torn \cup {s}
  /\ UNCHANGED <<client, conn, asked, sent>>
-----------------------------------------------------------------------------
Next ==
  \/ \E s \in Sockets : Connect(s)
  \/ \E s \in Sockets : OnConnect(s)
  \/ \E s \in Sockets : HelloWritten(s)
  \/ \E s \in Sockets : OnClose(s)
  \/ Close
  \/ \E c \in Calls : Refuse(c)
  \/ \E c \in Calls : Start(c)
  \/ \E c \in Calls : StartBeyond(c)
  \/ \E c \in Calls : Write(c)
  \/ \E c \in Calls : WriteFails(c)
  \/ \E c \in Calls : PingTimeout(c)
  \/ \E s \in Sockets, q \in Seqs : ServeChunk(s, q)
  \/ \E s \in Sockets, q \in Seqs : ServeEnd(s, q)
  \/ \E s \in Sockets : Deliver(s)
  \/ \E s \in Sockets, k \in 1..(MaxSeq * (MaxChunks + 1)) : Tear(s, k)

\* Node runs the callbacks that are due (nothing below needs that of HelloWritten);
\* the server ends what it was asked.
Fairness ==
  /\ \A s \in Sockets : WF_vars(OnConnect(s)) /\ WF_vars(Deliver(s))
  /\ \A s \in Sockets, q \in Seqs : WF_vars(ServeEnd(s, q))
  /\ \A c \in Calls :
       WF_vars(Write(c)) /\ WF_vars(WriteFails(c)) /\ WF_vars(PingTimeout(c))

Spec == Init /\ [][Next]_vars /\ Fairness
-----------------------------------------------------------------------------
(***************************************************************************)
(* Properties.                                                             *)
(***************************************************************************)

\* A query resolves with the chunks that the server sent for it, its own, all
\* and in order, whatever is multiplexed with it, reconnected or closed --
\* less those that a torn segment took.
AnswersAreWhole ==
  \A c \in Calls :
    LET d == call[c] IN
    d.state = "resolved"
      => /\ \A i, j \in 1..Len(d.got) : i < j => d.got[i] < d.got[j]
         /\ {d.got[i] : i \in 1..Len(d.got)}
              = {n \in 1..sent[d.on][d.seq] : <<d.on, d.seq, n>> \notin lost}

\* A call whose promise is open has its entry under its own number, where its
\* answer, a failed write or close will find it.
PendingIsInflight ==
  \A c \in Calls : Pending(c) => inflight[call[c].seq] = c

\* After close no promise is open, also when connect had not come to its end
\* or several connections were open.
ClosedIsSettled ==
  socket = NoSocket => \A c \in Calls : ~Pending(c)

\* Every query is answered, unless its socket closes (close events settle
\* nothing) or a segment of it ends inside a frame.
QueriesEnd ==
  \A c \in Calls :
    Pending(c) ~> \/ ~Pending(c)
                  \/ conn[call[c].on] \in {"closing", "closed"}
                  \/ call[c].on \in torn
=============================================================================
