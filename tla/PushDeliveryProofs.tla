------------------------ MODULE PushDeliveryProofs ------------------------
(***************************************************************************)
(* Proofs about PushDelivery, for any users, tokens, jobs, attempts and    *)
(* stalls.                                                                 *)
(***************************************************************************)
EXTENDS PushDelivery, TLAPS

\* Only a registered token has an id, and it is one that was drawn.
RowsHaveIds ==
  \A t \in Tokens : Registered(t) => device[t].id \in 1 .. MaxId

\* A job in the queue has its addressee; only one that is sent has devices to
\* answer for, each once.
JobPlaced(b) ==
  /\ b.state \in {"waiting", "sending"} => b.user \in Users
  /\ b.state # "sending" => b.todo = {}
  /\ \A c, d \in b.todo : c[1] = d[1] => c = d

\* How often an attempt of b may already have told t: each attempt that
\* stalled did so once at most, and this one only what it has answered for.
MayHaveTold(b, t) ==
  CASE b.state = "unused"  -> 0
    [] b.state = "waiting" -> b.stalls
    [] b.state = "sending" -> b.stalls + (IF \E d \in b.todo : d[1] = t THEN 0 ELSE 1)
    [] OTHER               -> b.stalls + 1

\* Whoever may still be told has been listening since the job was queued.
Heard(j) ==
  /\ job[j].state \in {"waiting", "sending"}
       => \A t \in Tokens : Active(job[j].user, t) => t \in listening[j]
  /\ \A d \in job[j].todo : d[1] \in listening[j]
  /\ \A t \in Tokens : reached[j][t] > 0 => t \in listening[j]

RowInv ==
  /\ device \in [Tokens -> Device]
  /\ \A s, t \in Tokens : (Registered(s) /\ device[s].id = device[t].id) => s = t
  /\ nextId \in 1 .. MaxId + 1
  /\ \A t \in Tokens : device[t].id < nextId
  /\ RowsHaveIds

JobInv ==
  /\ job \in [Jobs -> Job]
  /\ \A j \in Jobs : JobPlaced(job[j])
  /\ verdicts \in SUBSET (Users \X Tokens)
  /\ reached \in [Jobs -> [Tokens -> Nat]]
  /\ \A j \in Jobs, t \in Tokens : reached[j][t] =< MayHaveTold(job[j], t)
  /\ listening \in [Jobs -> SUBSET Tokens]
  /\ \A j \in Jobs : Heard(j)

DeliveryInv == RowInv /\ JobInv
-----------------------------------------------------------------------------
(***************************************************************************)
(* Jobs.                                                                   *)
(***************************************************************************)
LEMMA UnusedTyped == Unused \in Job /\ JobPlaced(Unused)
BY AttemptsAssumption, BoundAssumption DEF Unused, Job, JobPlaced

\* What an attempt may have told grows with nothing but what it does.
LEMMA ToldIsNat ==
  ASSUME NEW b \in Job, NEW t
  PROVE  /\ MayHaveTold(b, t) \in Nat
         /\ MayHaveTold(b, t) =< b.stalls + 1
<1>1. b.stalls \in Nat
  BY BoundAssumption DEF Job
<1> QED BY <1>1 DEF MayHaveTold

\* A step of one job, which may tell some tokens, keeps the invariant.
LEMMA JobGoesOn ==
  ASSUME DeliveryInv, NEW j \in Jobs, NEW b \in Job, JobPlaced(b),
         NEW r \in [Tokens -> Nat],
         job' = [job EXCEPT ![j] = b], reached' = [reached EXCEPT ![j] = r],
         verdicts' \in SUBSET (Users \X Tokens),
         UNCHANGED <<device, nextId, listening>>,
         b.state \in {"waiting", "sending"}
           => b.user = job[j].user /\ job[j].state \in {"waiting", "sending"},
         \A d \in b.todo : d[1] \in listening[j],
         \A t \in Tokens : r[t] > 0 => t \in listening[j],
         \A t \in Tokens : r[t] =< MayHaveTold(b, t)
  PROVE  DeliveryInv'
<1>1. RowInv'
  BY DEF DeliveryInv, RowInv, RowsHaveIds, Registered
<1>2. /\ job' \in [Jobs -> Job] /\ reached' \in [Jobs -> [Tokens -> Nat]]
      /\ listening' \in [Jobs -> SUBSET Tokens]
      /\ \A k \in Jobs : JobPlaced(job'[k])
  BY DEF DeliveryInv, JobInv
<1>3. ASSUME NEW k \in Jobs, NEW t \in Tokens
      PROVE  reached'[k][t] =< MayHaveTold(job'[k], t)
  BY DEF DeliveryInv, JobInv
<1>4. ASSUME NEW k \in Jobs
      PROVE  Heard(k)'
  <2>1. CASE k = j
    BY <2>1 DEF DeliveryInv, JobInv, Heard, Active
  <2>2. CASE k # j
    BY <2>2 DEF DeliveryInv, JobInv, Heard, Active
  <2> QED BY <2>1, <2>2
<1> QED BY <1>1, <1>2, <1>3, <1>4 DEF DeliveryInv, JobInv

LEMMA SelectStep ==
  ASSUME DeliveryInv, NEW j \in Jobs, Select(j)
  PROVE  DeliveryInv'
<1> DEFINE found == {<<t, device[t].id>> : t \in ActiveDevices(job[j].user)}
           b == [job[j] EXCEPT !.state = IF found = {} THEN "done" ELSE "sending",
                               !.todo = found]
<1>1. /\ job[j] \in Job /\ JobPlaced(job[j]) /\ Heard(j)
      /\ job[j].state = "waiting" /\ job[j].user \in Users
      /\ reached[j] \in [Tokens -> Nat]
  BY DEF DeliveryInv, JobInv, JobPlaced, Select
<1>2. \A t \in Tokens : Active(job[j].user, t) => device[t].id \in 1 .. MaxId
  BY <1>1, NoUserAssumption DEF DeliveryInv, RowInv, RowsHaveIds, Registered, Active
<1>3. /\ found \in SUBSET (Tokens \X (1 .. MaxId))
      /\ \A c, d \in found : c[1] = d[1] => c = d
      /\ \A d \in found : d[1] \in listening[j]
  BY <1>1, <1>2 DEF ActiveDevices, Heard
<1>4. job' = [job EXCEPT ![j] = b] /\ UNCHANGED <<device, nextId, verdicts, reached, listening>>
  BY DEF Select, DeliveryInv, JobInv
<1> HIDE DEF found
<1>5. b \in Job /\ JobPlaced(b)
  BY <1>1, <1>3 DEF Job, JobPlaced
<1>6. \A t \in Tokens : reached[j][t] =< MayHaveTold(b, t)
  <2>1. job[j].stalls \in Nat
    BY <1>1, BoundAssumption DEF Job
  <2>2. \A t \in Tokens : reached[j][t] =< job[j].stalls
    BY <1>1 DEF DeliveryInv, JobInv, MayHaveTold
  <2>3. b.stalls = job[j].stalls /\ b.todo = found /\ b.state \in {"done", "sending"}
    BY <1>1 DEF Job
  <2> HIDE DEF b
  <2> QED BY <1>1, <2>1, <2>2, <2>3 DEF MayHaveTold
<1>7. /\ b.user = job[j].user /\ b.todo = found
  BY <1>1 DEF Job
<1>8. /\ reached' = [reached EXCEPT ![j] = reached[j]]
      /\ verdicts' \in SUBSET (Users \X Tokens)
      /\ \A t \in Tokens : reached[j][t] > 0 => t \in listening[j]
  BY <1>1, <1>4 DEF DeliveryInv, JobInv, Heard
<1> HIDE DEF b
<1> QED BY <1>1, <1>3, <1>4, <1>5, <1>6, <1>7, <1>8, JobGoesOn

LEMMA SelectFailsStep ==
  ASSUME DeliveryInv, NEW j \in Jobs, SelectFails(j)
  PROVE  DeliveryInv'
<1> DEFINE b == Retried(job[j])
<1>1. /\ job[j] \in Job /\ JobPlaced(job[j]) /\ Heard(j)
      /\ job[j].state = "waiting" /\ reached[j] \in [Tokens -> Nat]
  BY DEF DeliveryInv, JobInv, SelectFails
<1>2. /\ b \in Job /\ b.state \in {"waiting", "failed"}
      /\ b.user = job[j].user /\ b.todo = job[j].todo /\ b.stalls = job[j].stalls
  <2>1. job[j].left \in 0 .. Attempts /\ Attempts \in Nat
    BY <1>1, AttemptsAssumption DEF Job
  <2>2. CASE job[j].left > 1
    <3>1. job[j].left - 1 \in 0 .. Attempts
      BY <2>1, <2>2
    <3>2. b = [job[j] EXCEPT !.left = job[j].left - 1]
      BY <2>2 DEF Retried
    <3> QED BY <1>1, <3>1, <3>2 DEF Job
  <2>3. CASE ~(job[j].left > 1)
    <3>1. 0 \in 0 .. Attempts
      BY <2>1
    <3>2. b = [job[j] EXCEPT !.left = 0, !.state = "failed"]
      BY <2>3 DEF Retried
    <3> QED BY <1>1, <3>1, <3>2 DEF Job
  <2> QED BY <2>2, <2>3
<1>3. /\ job' = [job EXCEPT ![j] = b]
      /\ reached' = [reached EXCEPT ![j] = reached[j]]
      /\ UNCHANGED <<device, nextId, verdicts, listening>>
  BY DEF SelectFails, DeliveryInv, JobInv
<1> HIDE DEF b
<1>4. JobPlaced(b)
  BY <1>1, <1>2 DEF JobPlaced
<1>5. \A t \in Tokens : reached[j][t] =< MayHaveTold(b, t)
  <2>1. job[j].stalls \in Nat
    BY <1>1, BoundAssumption DEF Job
  <2>2. \A t \in Tokens : reached[j][t] =< job[j].stalls
    BY <1>1 DEF DeliveryInv, JobInv, MayHaveTold
  <2> QED BY <1>1, <1>2, <2>1, <2>2 DEF MayHaveTold
<1>6. /\ verdicts' \in SUBSET (Users \X Tokens)
      /\ \A t \in Tokens : reached[j][t] > 0 => t \in listening[j]
      /\ \A d \in b.todo : d[1] \in listening[j]
  BY <1>1, <1>2, <1>3 DEF DeliveryInv, JobInv, Heard
<1> QED BY <1>1, <1>2, <1>3, <1>4, <1>5, <1>6, JobGoesOn

\* A device is answered for, and was told or not.
LEMMA AnswerStep ==
  ASSUME DeliveryInv, NEW j \in Jobs, NEW d \in Tokens \X (1 .. MaxId), Answer(j, d)
  PROVE  DeliveryInv'
<1> DEFINE r == reached'[j]
           b == job'[j]
<1>1. /\ job[j] \in Job /\ JobPlaced(job[j]) /\ Heard(j)
      /\ job[j].state = "sending" /\ d \in job[j].todo /\ job[j].user \in Users
      /\ reached[j] \in [Tokens -> Nat] /\ job[j].stalls \in Nat
      /\ d[1] \in Tokens /\ d[2] \in 1 .. MaxId
  <2>1. /\ job[j] \in Job /\ JobPlaced(job[j]) /\ Heard(j) /\ d \in job[j].todo
        /\ reached[j] \in [Tokens -> Nat]
    BY DEF DeliveryInv, JobInv, Answer, PushAccepted, PushDead, PushError, PushWithoutTicket
  <2> QED BY <2>1, BoundAssumption DEF JobPlaced, Job
<1>2. /\ job' = [job EXCEPT ![j] = b] /\ b \in Job
      /\ b.state = "sending" /\ b.user = job[j].user /\ b.stalls = job[j].stalls
      /\ b.todo = job[j].todo \ {d}
  <2>1. ASSUME NEW success \in BOOLEAN, job' = [job EXCEPT ![j] = Answered(@, d, success)]
        PROVE  <1>2
    <3>1. job[j].results \cup {<<d[2], success>>} \in SUBSET ((1 .. MaxId) \X BOOLEAN)
      BY <1>1 DEF Job
    <3> QED BY <1>1, <2>1, <3>1 DEF Answered, Job, DeliveryInv, JobInv
  <2>2. ASSUME job' = [job EXCEPT ![j].todo = @ \ {d}]
        PROVE  <1>2
    BY <1>1, <2>2 DEF Job, DeliveryInv, JobInv
  <2> QED BY <2>1, <2>2 DEF Answer, PushAccepted, PushDead, PushError, PushWithoutTicket
<1>3. /\ reached' = [reached EXCEPT ![j] = r] /\ r \in [Tokens -> Nat]
      /\ \A t \in Tokens : r[t] = reached[j][t] \/ (t = d[1] /\ r[t] = reached[j][t] + 1)
  <2>1. ASSUME Arrives(j, d[1])
        PROVE  <1>3
    BY <1>1, <2>1 DEF Arrives, DeliveryInv, JobInv
  <2>2. ASSUME UNCHANGED reached
        PROVE  <1>3
    BY <1>1, <2>2 DEF DeliveryInv, JobInv
  <2> QED BY <2>1, <2>2 DEF Answer, PushAccepted, PushDead, PushError, PushWithoutTicket
<1>4. /\ UNCHANGED <<device, nextId, listening>>
      /\ verdicts' \in SUBSET (Users \X Tokens)
  <2>1. verdicts' = verdicts \/ verdicts' = verdicts \cup {<<job[j].user, d[1]>>}
    BY DEF Answer, PushAccepted, PushDead, PushError, PushWithoutTicket
  <2>2. verdicts \in SUBSET (Users \X Tokens)
    BY DEF DeliveryInv, JobInv
  <2>3. <<job[j].user, d[1]>> \in Users \X Tokens
    BY <1>1
  <2>4. UNCHANGED <<device, nextId, listening>>
    BY DEF Answer, PushAccepted, PushDead, PushError, PushWithoutTicket
  <2> QED BY <2>1, <2>2, <2>3, <2>4
<1> HIDE DEF b, r
<1>5. JobPlaced(b) /\ \A c \in b.todo : c[1] \in listening[j]
  BY <1>1, <1>2 DEF JobPlaced, Heard
<1>6. \A t \in Tokens : r[t] > 0 => t \in listening[j]
  BY <1>1, <1>3 DEF Heard
<1>7. ASSUME NEW t \in Tokens
      PROVE  r[t] =< MayHaveTold(b, t)
  <2>1. reached[j][t] =< job[j].stalls + (IF \E c \in job[j].todo : c[1] = t THEN 0 ELSE 1)
    BY <1>1 DEF DeliveryInv, JobInv, MayHaveTold
  <2>2. MayHaveTold(b, t) = job[j].stalls + (IF \E c \in b.todo : c[1] = t THEN 0 ELSE 1)
    BY <1>2 DEF MayHaveTold
  <2>3. CASE t = d[1]
    <3>1. ~ \E c \in b.todo : c[1] = t
      BY <1>1, <1>2, <2>3 DEF JobPlaced
    <3>2. \E c \in job[j].todo : c[1] = t
      BY <1>1, <2>3
    <3> QED BY <1>1, <1>3, <2>1, <2>2, <3>1, <3>2
  <2>4. CASE t # d[1]
    <3>1. (\E c \in b.todo : c[1] = t) <=> \E c \in job[j].todo : c[1] = t
      BY <1>2, <2>4
    <3> QED BY <1>1, <1>3, <2>1, <2>2, <2>4, <3>1
  <2> QED BY <2>3, <2>4
<1> QED BY <1>1, <1>2, <1>3, <1>4, <1>5, <1>6, <1>7, JobGoesOn

LEMMA LogAttemptsStep ==
  ASSUME DeliveryInv, NEW j \in Jobs, LogAttempts(j)
  PROVE  DeliveryInv'
<1>1. PICK logged \in BOOLEAN :
        job' = [job EXCEPT ![j].state = "done", ![j].logged = logged]
  BY DEF LogAttempts
<1> DEFINE b == [job[j] EXCEPT !.state = "done", !.logged = logged]
<1>2. /\ job[j] \in Job /\ Heard(j) /\ job[j].state = "sending" /\ job[j].todo = {}
      /\ reached[j] \in [Tokens -> Nat] /\ job[j].stalls \in Nat
  BY BoundAssumption DEF DeliveryInv, JobInv, LogAttempts, Job
<1>3. /\ b \in Job /\ b.state = "done" /\ b.todo = {} /\ b.stalls = job[j].stalls
      /\ b.user = job[j].user
  BY <1>2 DEF Job
<1>4. /\ job' = [job EXCEPT ![j] = b]
      /\ reached' = [reached EXCEPT ![j] = reached[j]]
      /\ UNCHANGED <<device, nextId, verdicts, listening>>
  BY <1>1 DEF LogAttempts, DeliveryInv, JobInv
<1> HIDE DEF b
<1>5. JobPlaced(b)
  BY <1>3 DEF JobPlaced
<1>6. \A t \in Tokens : reached[j][t] =< MayHaveTold(b, t)
  BY <1>2, <1>3 DEF MayHaveTold, DeliveryInv, JobInv
<1>7. /\ verdicts' \in SUBSET (Users \X Tokens)
      /\ \A t \in Tokens : reached[j][t] > 0 => t \in listening[j]
  BY <1>2, <1>4 DEF DeliveryInv, JobInv, Heard
<1> QED BY <1>2, <1>3, <1>4, <1>5, <1>6, <1>7, JobGoesOn

LEMMA SendStep ==
  ASSUME DeliveryInv, NEW j \in Jobs, NEW u \in Users, Send(j, u)
  PROVE  DeliveryInv'
<1>1. PICK queued \in BOOLEAN :
        job' = [job EXCEPT ![j] =
                  [Unused EXCEPT !.state = IF queued THEN "waiting" ELSE "failed",
                                 !.user = u,
                                 !.left = IF queued THEN Attempts ELSE 0]]
  BY DEF Send
<1> DEFINE b == job'[j]
<1>2. /\ b \in Job /\ JobPlaced(b) /\ b.state \in {"waiting", "failed"}
      /\ b.user = u /\ b.todo = {} /\ b.stalls = 0
      /\ job' = [job EXCEPT ![j] = b]
  <2> DEFINE state == IF queued THEN "waiting" ELSE "failed"
             left  == IF queued THEN Attempts ELSE 0
  <2>1. /\ state \in {"waiting", "failed"} /\ left \in 0 .. Attempts
        /\ 0 \in 0 .. MaxStalls
    BY AttemptsAssumption, BoundAssumption
  <2>2. job' = [job EXCEPT ![j] = [Unused EXCEPT !.state = state, !.user = u, !.left = left]]
    BY <1>1
  <2> HIDE DEF state, left
  <2>3. b = [Unused EXCEPT !.state = state, !.user = u, !.left = left]
    BY <2>2 DEF DeliveryInv, JobInv
  <2>4. job' = [job EXCEPT ![j] = b]
    BY <2>2, <2>3
  <2> HIDE DEF b
  <2>5. b \in Job /\ b.state = state /\ b.user = u /\ b.todo = {} /\ b.stalls = 0
    BY <2>1, <2>3 DEF Unused, Job
  <2> QED BY <2>1, <2>4, <2>5 DEF JobPlaced
<1>3. \A t \in Tokens : reached[j][t] = 0
  <2>1. job[j].state = "unused"
    BY DEF Send, Unused
  <2> QED BY <2>1 DEF DeliveryInv, JobInv, MayHaveTold
<1>4. /\ listening' = [listening EXCEPT ![j] = {t \in Tokens : Active(u, t)}]
      /\ UNCHANGED <<device, nextId, verdicts, reached>>
  BY DEF Send
<1> HIDE DEF b
<1>5. RowInv'
  BY <1>4 DEF DeliveryInv, RowInv, RowsHaveIds, Registered
<1>6. /\ job' \in [Jobs -> Job] /\ reached' \in [Jobs -> [Tokens -> Nat]]
      /\ listening' \in [Jobs -> SUBSET Tokens]
      /\ \A k \in Jobs : JobPlaced(job'[k])
      /\ verdicts' \in SUBSET (Users \X Tokens)
  BY <1>2, <1>4 DEF DeliveryInv, JobInv
<1>7. ASSUME NEW k \in Jobs, NEW t \in Tokens
      PROVE  reached'[k][t] =< MayHaveTold(job'[k], t)
  <2>1. CASE k = j
    BY <2>1, <1>2, <1>3, <1>4 DEF DeliveryInv, JobInv, MayHaveTold
  <2>2. CASE k # j
    BY <2>2, <1>2, <1>4 DEF DeliveryInv, JobInv
  <2> QED BY <2>1, <2>2
<1>8. ASSUME NEW k \in Jobs
      PROVE  Heard(k)'
  <2>1. CASE k = j
    BY <2>1, <1>2, <1>3, <1>4 DEF DeliveryInv, JobInv, Heard, Active
  <2>2. CASE k # j
    BY <2>2, <1>2, <1>4 DEF DeliveryInv, JobInv, Heard, Active
  <2> QED BY <2>1, <2>2
<1> QED BY <1>5, <1>6, <1>7, <1>8 DEF DeliveryInv, JobInv

\* Every job that was being sent waits again, or is given up.
LEMMA CrashStep ==
  ASSUME DeliveryInv, Crash
  PROVE  DeliveryInv'
<1>1. ASSUME NEW b \in Job, JobPlaced(b)
      PROVE  /\ Stalled(b) \in Job /\ JobPlaced(Stalled(b))
             /\ Stalled(b).state \in {"waiting", "sending"}
                  => Stalled(b).user = b.user /\ b.state \in {"waiting", "sending"}
             /\ Stalled(b).todo = {} \/ Stalled(b) = b
             /\ \A t : MayHaveTold(b, t) =< MayHaveTold(Stalled(b), t)
  <2>1. CASE b.state # "sending"
    <3>1. MayHaveTold(b, 0) \in Nat /\ \A t : MayHaveTold(b, t) \in Nat
      BY ToldIsNat
    <3> QED BY <1>1, <2>1, <3>1 DEF Stalled, JobPlaced
  <2>2. CASE b.state = "sending"
    <3>1. /\ Stalled(b) \in Job /\ Stalled(b).todo = {} /\ Stalled(b).user = b.user
          /\ \/ Stalled(b).state = "waiting" /\ Stalled(b).stalls = b.stalls + 1
             \/ Stalled(b).state = "failed" /\ Stalled(b).stalls = b.stalls
          /\ b.stalls \in Nat
      <4>1. b.stalls \in 0 .. MaxStalls /\ MaxStalls \in Nat
        BY BoundAssumption DEF Job
      <4>2. CASE b.stalls < MaxStalls
        <5>1. b.stalls + 1 \in 0 .. MaxStalls
          BY <4>1, <4>2
        <5> DEFINE n == b.stalls + 1
                   c == [b EXCEPT !.state = "waiting", !.stalls = n, !.todo = {},
                                  !.results = {}]
        <5>2. Stalled(b) = c
          BY <2>2, <4>2 DEF Stalled
        <5>3. n \in 0 .. MaxStalls
          BY <5>1
        <5> HIDE DEF n
        <5>4. /\ c \in Job /\ c.todo = {} /\ c.user = b.user
              /\ c.state = "waiting" /\ c.stalls = n
          BY <5>3 DEF Job
        <5> HIDE DEF c
        <5> QED BY <4>1, <5>2, <5>4 DEF n
      <4>3. CASE ~(b.stalls < MaxStalls)
        <5> DEFINE c == [b EXCEPT !.state = "failed", !.todo = {}, !.results = {}]
        <5>1. Stalled(b) = c
          BY <2>2, <4>3 DEF Stalled
        <5>2. /\ c \in Job /\ c.todo = {} /\ c.user = b.user
              /\ c.state = "failed" /\ c.stalls = b.stalls
          BY DEF Job
        <5> HIDE DEF c
        <5> QED BY <4>1, <5>1, <5>2
      <4> QED BY <4>2, <4>3
    <3>2. JobPlaced(Stalled(b))
      BY <1>1, <2>2, <3>1 DEF JobPlaced
    <3>3. ASSUME NEW t
          PROVE  MayHaveTold(b, t) =< MayHaveTold(Stalled(b), t)
      BY <2>2, <3>1 DEF MayHaveTold
    <3> QED BY <2>2, <3>1, <3>2, <3>3
  <2> QED BY <2>1, <2>2
<1>2. /\ job' = [j \in Jobs |-> Stalled(job[j])] /\ verdicts' = {}
      /\ UNCHANGED <<device, nextId, reached, listening>>
  BY DEF Crash
<1>3. \A j \in Jobs : job[j] \in Job /\ JobPlaced(job[j])
  BY DEF DeliveryInv, JobInv
<1>4. RowInv'
  BY <1>2 DEF DeliveryInv, RowInv, RowsHaveIds, Registered
<1>5. /\ job' \in [Jobs -> Job] /\ \A j \in Jobs : JobPlaced(job'[j])
  BY <1>1, <1>2, <1>3
<1>6. ASSUME NEW j \in Jobs, NEW t \in Tokens
      PROVE  reached'[j][t] =< MayHaveTold(job'[j], t)
  <2>1. /\ reached[j][t] =< MayHaveTold(job[j], t) /\ reached[j][t] \in Nat
        /\ MayHaveTold(job[j], t) =< MayHaveTold(job'[j], t)
    BY <1>1, <1>2, <1>3 DEF DeliveryInv, JobInv
  <2>2. MayHaveTold(job[j], t) \in Nat /\ MayHaveTold(job'[j], t) \in Nat
    BY <1>3, <1>5, ToldIsNat
  <2> QED BY <1>2, <2>1, <2>2
<1>7. ASSUME NEW j \in Jobs
      PROVE  Heard(j)'
  <2>1. /\ job'[j].state \in {"waiting", "sending"}
             => job'[j].user = job[j].user /\ job[j].state \in {"waiting", "sending"}
        /\ job'[j].todo = {} \/ job'[j] = job[j]
    BY <1>1, <1>2, <1>3
  <2> QED BY <1>2, <2>1 DEF DeliveryInv, JobInv, Heard, Active
<1> QED BY <1>2, <1>4, <1>5, <1>6, <1>7 DEF DeliveryInv, JobInv
-----------------------------------------------------------------------------
(***************************************************************************)
(* Devices.                                                                *)
(***************************************************************************)
\* Rows change hands, and jobs hear of whoever began to listen.
LEMMA DevicesChange ==
  ASSUME DeliveryInv, RowInv', UNCHANGED <<job, reached>>,
         verdicts' \in SUBSET (Users \X Tokens),
         listening' \in [Jobs -> SUBSET Tokens],
         \A j \in Jobs : listening[j] \subseteq listening'[j],
         \A j \in Jobs, t \in Tokens :
           (job[j].state \in {"waiting", "sending"} /\ Active(job[j].user, t)')
             => Active(job[j].user, t) \/ t \in listening'[j]
  PROVE  DeliveryInv'
<1>1. ASSUME NEW j \in Jobs
      PROVE  Heard(j)'
  <2>1. Heard(j) /\ job[j] \in Job
    BY DEF DeliveryInv, JobInv
  <2>2. /\ \A d \in job[j].todo : d[1] \in listening'[j]
        /\ \A t \in Tokens : reached[j][t] > 0 => t \in listening'[j]
    BY <2>1 DEF Heard
  <2>3. job[j].state \in {"waiting", "sending"}
          => \A t \in Tokens : Active(job[j].user, t)' => t \in listening'[j]
    BY <2>1 DEF Heard
  <2> QED BY <2>2, <2>3 DEF Heard, Active
<1>2. \A j \in Jobs, t \in Tokens : reached'[j][t] =< MayHaveTold(job'[j], t)
  BY DEF DeliveryInv, JobInv
<1>3. /\ job' \in [Jobs -> Job] /\ reached' \in [Jobs -> [Tokens -> Nat]]
      /\ \A j \in Jobs : JobPlaced(job'[j])
  BY DEF DeliveryInv, JobInv
<1> QED BY <1>1, <1>2, <1>3 DEF DeliveryInv, JobInv

\* Listen is what a job must hear when u comes to have t enabled.
LEMMA ListenHears ==
  ASSUME DeliveryInv, NEW u \in Users, NEW t \in Tokens, Listen(u, t)
  PROVE  /\ listening' \in [Jobs -> SUBSET Tokens]
         /\ \A j \in Jobs : listening[j] \subseteq listening'[j]
         /\ \A j \in Jobs : (job[j].state \in {"waiting", "sending"} /\ job[j].user = u)
              => t \in listening'[j]
BY DEF DeliveryInv, JobInv, Listen

LEMMA NoRowTyped == NoRow \in Device
BY BoundAssumption DEF NoRow, Device

LEMMA RegisterStep ==
  ASSUME DeliveryInv, NEW u \in Users, NEW t \in Tokens, Register(u, t)
  PROVE  DeliveryInv'
<1>1. /\ Listen(u, t) /\ UNCHANGED <<job, verdicts, reached>>
      /\ verdicts \in SUBSET (Users \X Tokens)
  BY DEF Register, DeliveryInv, JobInv
<1>2. device[t] \in Device /\ nextId \in 1 .. MaxId + 1 /\ MaxId \in Nat /\ u # NoUser
  BY BoundAssumption, NoUserAssumption DEF DeliveryInv, RowInv
<1> DEFINE d == device'[t]
<1>3. /\ device' = [device EXCEPT ![t] = d] /\ d \in Device /\ d.owner = u
      /\ \/ Registered(t) /\ d.id = device[t].id /\ nextId' = nextId
         \/ ~Registered(t) /\ d.id = nextId /\ nextId' = nextId + 1 /\ nextId =< MaxId
  <2>1. CASE Registered(t)
    BY <1>2, <2>1 DEF Register, Device, DeliveryInv, RowInv
  <2>2. CASE ~Registered(t)
    <3>1. nextId \in 0 .. MaxId /\ nextId =< MaxId /\ nextId' = nextId + 1
      BY <1>2, <2>2 DEF Register
    <3> DEFINE new == [owner |-> u, enabled |-> TRUE, id |-> nextId]
    <3>2. device' = [device EXCEPT ![t] = new]
      BY <2>2 DEF Register
    <3>3. new \in Device /\ new.owner = u /\ new.id = nextId
      BY <3>1 DEF Device
    <3> HIDE DEF new
    <3>4. d = new
      BY <3>2 DEF DeliveryInv, RowInv
    <3> HIDE DEF d
    <3> QED BY <2>2, <3>1, <3>2, <3>3, <3>4
  <2> QED BY <2>1, <2>2
<1> HIDE DEF d
<1>4. RowInv'
  <2>1. device' \in [Tokens -> Device] /\ nextId' \in 1 .. MaxId + 1
    BY <1>2, <1>3 DEF DeliveryInv, RowInv
  <2>2. \A s \in Tokens : /\ device'[s].id < nextId'
                          /\ Registered(s)' => device'[s].id \in 1 .. MaxId
    BY <1>2, <1>3 DEF DeliveryInv, RowInv, RowsHaveIds, Registered, Device
  <2>3. ASSUME NEW r \in Tokens, NEW s \in Tokens,
               Registered(r)', device'[r].id = device'[s].id
        PROVE  r = s
    BY <1>2, <1>3, <2>3 DEF DeliveryInv, RowInv, RowsHaveIds, Registered, Device
  <2> QED BY <2>1, <2>2, <2>3 DEF RowInv, RowsHaveIds, Registered
<1>5. ASSUME NEW j \in Jobs, NEW s \in Tokens,
             job[j].state \in {"waiting", "sending"}, Active(job[j].user, s)'
      PROVE  Active(job[j].user, s) \/ s \in listening'[j]
  <2>1. CASE s = t
    BY <1>1, <1>3, <1>5, <2>1, ListenHears DEF Active, DeliveryInv, RowInv
  <2>2. CASE s # t
    BY <1>1, <1>3, <1>5, <2>2 DEF Active, DeliveryInv, RowInv
  <2> QED BY <2>1, <2>2
<1> QED BY <1>1, <1>4, <1>5, ListenHears, DevicesChange

\* Rows that go, and rows that stay.
LEMMA RemoveKeeps ==
  ASSUME RowInv, NEW u \in Users, NEW t \in Tokens, Remove(u, t), UNCHANGED nextId
  PROVE  /\ RowInv'
         /\ \A v \in Users, s \in Tokens : Active(v, s)' => Active(v, s)
<1>1. CASE device[t].owner = u
  <2>1. device' = [device EXCEPT ![t] = NoRow] /\ NoRow \in Device /\ nextId \in 1 .. MaxId + 1
    BY <1>1, NoRowTyped DEF Remove, RowInv
  <2> QED BY <2>1, NoUserAssumption, BoundAssumption
          DEF RowInv, RowsHaveIds, Registered, Active, NoRow, Device
<1>2. CASE device[t].owner # u
  BY <1>2 DEF Remove, RowInv, RowsHaveIds, Registered, Active
<1> QED BY <1>1, <1>2

LEMMA UnregisterStep ==
  ASSUME DeliveryInv, NEW u \in Users, NEW t \in Tokens,
         Unregister(u, t) \/ DropDeadToken(u, t)
  PROVE  DeliveryInv'
<1>1. /\ UNCHANGED <<nextId, job, reached, listening>>
      /\ Remove(u, t) \/ UNCHANGED device
      /\ verdicts' \in SUBSET (Users \X Tokens)
      /\ listening \in [Jobs -> SUBSET Tokens]
  BY DEF Unregister, DropDeadToken, DeliveryInv, JobInv
<1>2. RowInv' /\ \A v \in Users, s \in Tokens : Active(v, s)' => Active(v, s)
  <2>1. CASE Remove(u, t)
    BY <1>1, <2>1, RemoveKeeps DEF DeliveryInv
  <2>2. CASE UNCHANGED device
    BY <1>1, <2>2 DEF DeliveryInv, RowInv, RowsHaveIds, Registered, Active
  <2> QED BY <1>1, <2>1, <2>2
<1>3. \A j \in Jobs : job[j].state \in {"waiting", "sending"} => job[j].user \in Users
  BY DEF DeliveryInv, JobInv, JobPlaced
<1> QED BY <1>1, <1>2, <1>3, DevicesChange

\* The cascade of an erasure: rows go, and the others stay as they are.
LEMMA EraseStep ==
  ASSUME DeliveryInv, NEW u \in Users, Erase(u)
  PROVE  DeliveryInv'
<1>1. /\ UNCHANGED <<nextId, job, verdicts, reached, listening>>
      /\ device' = [t \in Tokens |-> IF device[t].owner = u THEN NoRow ELSE device[t]]
      /\ verdicts' \in SUBSET (Users \X Tokens)
      /\ listening' \in [Jobs -> SUBSET Tokens]
  BY DEF Erase, DeliveryInv, JobInv
<1>2. /\ device \in [Tokens -> Device] /\ nextId \in 1 .. MaxId + 1 /\ MaxId \in Nat
      /\ NoRow \in Device /\ NoRow.owner = NoUser /\ NoRow.id = 0
  BY NoRowTyped, BoundAssumption DEF DeliveryInv, RowInv, NoRow
<1>3. \A t \in Tokens : device'[t] = device[t] \/ device'[t] = NoRow
  BY <1>1
<1>4. RowInv'
  <2>1. device' \in [Tokens -> Device]
    BY <1>1, <1>2
  <2>2. \A t \in Tokens : /\ Registered(t)' => Registered(t) /\ device'[t] = device[t]
                          /\ device'[t].id = device[t].id \/ device'[t].id = 0
    BY <1>2, <1>3 DEF Registered
  <2>3. \A t \in Tokens : Registered(t) => device[t].id \in 1 .. MaxId
    BY DEF DeliveryInv, RowInv, RowsHaveIds
  <2>4. \A t \in Tokens : device'[t].id < nextId'
    BY <1>1, <1>2, <2>2 DEF DeliveryInv, RowInv, Device
  <2>5. ASSUME NEW s \in Tokens, NEW t \in Tokens,
               Registered(s)', device'[s].id = device'[t].id
        PROVE  s = t
    <3>1. Registered(s) /\ device[s].id \in 1 .. MaxId /\ device[s].id = device'[t].id
      BY <2>2, <2>3, <2>5
    <3>2. device[t].id = device[s].id
      BY <1>2, <2>2, <3>1
    <3> QED BY <3>1, <3>2 DEF DeliveryInv, RowInv
  <2>6. RowsHaveIds'
    BY <2>2, <2>3 DEF RowsHaveIds
  <2> QED BY <1>1, <1>2, <2>1, <2>4, <2>5, <2>6 DEF RowInv
<1>5. \A v \in Users, t \in Tokens : Active(v, t)' => Active(v, t)
  BY <1>2, <1>3, NoUserAssumption DEF Active
<1>6. \A j \in Jobs : /\ job[j].state \in {"waiting", "sending"} => job[j].user \in Users
                      /\ listening[j] \subseteq listening'[j]
  BY <1>1 DEF DeliveryInv, JobInv, JobPlaced
<1> QED BY <1>1, <1>4, <1>5, <1>6, DevicesChange

LEMMA SetEnabledStep ==
  ASSUME DeliveryInv, NEW u \in Users, NEW t \in Tokens, SetEnabled(u, t)
  PROVE  DeliveryInv'
<1>1. /\ device[t] \in Device /\ device[t].owner = u
      /\ device' = [device EXCEPT ![t].enabled = ~@]
      /\ IF device[t].enabled THEN UNCHANGED listening ELSE Listen(u, t)
      /\ UNCHANGED <<nextId, job, verdicts, reached>>
      /\ verdicts \in SUBSET (Users \X Tokens) /\ listening \in [Jobs -> SUBSET Tokens]
  BY DEF SetEnabled, DeliveryInv, RowInv, JobInv
<1> DEFINE e == ~device[t].enabled
           d == [device[t] EXCEPT !.enabled = e]
<1>2. e \in BOOLEAN /\ device' = [device EXCEPT ![t] = d]
  BY <1>1 DEF Device
<1>3. d \in Device /\ d.owner = u /\ d.id = device[t].id /\ d.enabled = e
  <2> HIDE DEF e
  <2> QED BY <1>1, <1>2 DEF Device
<1>4. RowInv'
  <2> HIDE DEF d
  <2> QED BY <1>1, <1>2, <1>3 DEF DeliveryInv, RowInv, RowsHaveIds, Registered
<1>5. /\ listening' \in [Jobs -> SUBSET Tokens]
      /\ \A j \in Jobs : listening[j] \subseteq listening'[j]
  BY <1>1, ListenHears
<1>6. ASSUME NEW j \in Jobs, NEW s \in Tokens,
             job[j].state \in {"waiting", "sending"}, Active(job[j].user, s)'
      PROVE  Active(job[j].user, s) \/ s \in listening'[j]
  <2>1. CASE s # t
    <3> HIDE DEF d
    <3> QED BY <1>1, <1>2, <1>6, <2>1 DEF Active, DeliveryInv, RowInv
  <2>2. CASE s = t
    <3>1. device'[t].owner = u /\ device'[t].enabled = e
      <4> HIDE DEF d
      <4> QED BY <1>1, <1>2, <1>3 DEF DeliveryInv, RowInv
    <3>2. job[j].user = u /\ e
      <4> HIDE DEF d, e
      <4> QED BY <1>1, <1>6, <2>2, <3>1 DEF Active
    <3>3. Listen(u, t)
      BY <1>1, <3>2
    <3> QED BY <1>6, <2>2, <3>2, <3>3, ListenHears
  <2> QED BY <2>1, <2>2
<1> HIDE DEF d, e
<1> QED BY <1>1, <1>4, <1>5, <1>6, DevicesChange
-----------------------------------------------------------------------------
(***************************************************************************)
(* The theorems.                                                           *)
(***************************************************************************)
LEMMA DeliveryInit == Init => DeliveryInv
<1> SUFFICES ASSUME Init PROVE DeliveryInv
  OBVIOUS
<1>1. RowInv
  BY NoRowTyped, BoundAssumption DEF Init, RowInv, RowsHaveIds, Registered, NoRow
<1>2. JobInv
  <2>1. \A j \in Jobs : job[j] = Unused /\ Unused.todo = {} /\ Unused.state = "unused"
    BY DEF Init, Unused
  <2>2. \A j \in Jobs, t \in Tokens : reached[j][t] = 0 /\ MayHaveTold(job[j], t) = 0
    BY <2>1 DEF Init, MayHaveTold
  <2>3. \A j \in Jobs : Heard(j)
    BY <2>1, <2>2 DEF Heard
  <2> QED BY <2>1, <2>2, <2>3, UnusedTyped DEF Init, JobInv
<1> QED BY <1>1, <1>2 DEF DeliveryInv

LEMMA DeliveryStep == DeliveryInv /\ [Next]_vars => DeliveryInv'
<1> SUFFICES ASSUME DeliveryInv, [Next]_vars
             PROVE  DeliveryInv'
  OBVIOUS
<1>1. CASE UserStep
  BY <1>1, RegisterStep, UnregisterStep, SetEnabledStep, EraseStep DEF UserStep
<1>2. ASSUME NEW j \in Jobs, NEW u \in Users, Send(j, u)
      PROVE  DeliveryInv'
  BY <1>2, SendStep
<1>3. ASSUME NEW j \in Jobs, WorkerStep(j)
      PROVE  DeliveryInv'
  BY <1>3, SelectStep, SelectFailsStep, AnswerStep, LogAttemptsStep DEF WorkerStep
<1>4. CASE Crash
  BY <1>4, CrashStep
<1>5. CASE UNCHANGED vars
  BY <1>5 DEF vars, DeliveryInv, RowInv, RowsHaveIds, Registered, JobInv, Heard, Active
<1> QED BY <1>1, <1>2, <1>3, <1>4, <1>5 DEF Next

\* Accounts only go.
LEMMA AccountsTyped == Spec => [](accounts \in SUBSET Users)
<1>1. Init => accounts \in SUBSET Users
  BY DEF Init
<1>2. accounts \in SUBSET Users /\ [Next]_vars => (accounts \in SUBSET Users)'
  BY DEF Next, UserStep, Register, Unregister, SetEnabled, DropDeadToken, Erase, Send, WorkerStep,
         Select, SelectFails, Answer, PushAccepted, PushDead, PushError, PushWithoutTicket,
         LogAttempts, Crash, vars
<1> QED BY <1>1, <1>2, PTL DEF Spec

LEMMA DeliveryInvHolds == Spec => []DeliveryInv
BY DeliveryInit, DeliveryStep, PTL DEF Spec

\* Whatever is retried, moved, disabled and answered late: a device is told of a
\* notification once, and once more for each attempt that was cut off, and only if
\* its addressee had it enabled since the notification was queued
\* (PushService.sendToUser and the worker of the queue).
THEOREM PushesAreRight == Spec => []PushInv
<1>1. DeliveryInv /\ accounts \in SUBSET Users => PushInv
  <2> SUFFICES ASSUME DeliveryInv, accounts \in SUBSET Users PROVE PushInv
    OBVIOUS
  <2>1. RepeatsOnlyAfterStalls
    BY ToldIsNat, BoundAssumption DEF RepeatsOnlyAfterStalls, DeliveryInv, JobInv, Job
  <2>2. OnlyListenersAreTold
    BY DEF OnlyListenersAreTold, DeliveryInv, JobInv, Heard
  <2>3. reached \in [Jobs -> [Tokens -> 0 .. MaxStalls + 1]]
    <3>1. \A j \in Jobs, t \in Tokens : reached[j][t] \in 0 .. MaxStalls + 1
      BY <2>1, BoundAssumption DEF RepeatsOnlyAfterStalls, DeliveryInv, JobInv, Job
    <3> QED BY <3>1 DEF DeliveryInv, JobInv
  <2> QED BY <2>1, <2>2, <2>3 DEF PushInv, TypeOK, DeliveryInv, RowInv, JobInv
<1> QED BY <1>1, DeliveryInvHolds, AccountsTyped, PTL

\* A registration goes only by its owner, by a verdict about a push to this
\* very owner, or with this owner's account: the un-awaited removal of a dead token takes no device from the
\* user it has moved to, and
\* the erasure of a former owner none either.
THEOREM RegistrationsStay == Spec => RegistrationsAreTheirOwners
<1> DEFINE A == \A t \in Tokens, u \in Users :
                  (device[t].owner = u /\ device'[t].owner = NoUser)
                    => Unregister(u, t) \/ <<u, t>> \in verdicts \/ Erase(u)
<1>1. DeliveryInv /\ [Next]_vars => [A]_vars
  <2> SUFFICES ASSUME DeliveryInv, Next, NEW t \in Tokens, NEW u \in Users,
                      device[t].owner = u, device'[t].owner = NoUser
               PROVE  Unregister(u, t) \/ <<u, t>> \in verdicts \/ Erase(u)
    OBVIOUS
  <2>1. device \in [Tokens -> Device] /\ u # NoUser /\ device' # device
    BY NoUserAssumption DEF DeliveryInv, RowInv
  <2>2. \/ \E v \in Users, s \in Tokens :
             Register(v, s) \/ Unregister(v, s) \/ SetEnabled(v, s) \/ DropDeadToken(v, s)
        \/ \E v \in Users : Erase(v)
    BY <2>1 DEF Next, UserStep, Send, WorkerStep, Select, SelectFails, Answer, PushAccepted,
                PushDead, PushError, PushWithoutTicket, LogAttempts, Crash
  <2>3. ASSUME NEW v \in Users, Erase(v)
        PROVE  Erase(u)
    <3>1. v = u
      BY <2>1, <2>3 DEF Erase
    <3> QED BY <2>3, <3>1
  <2>4. ASSUME NEW v \in Users, NEW s \in Tokens,
               Register(v, s) \/ Unregister(v, s) \/ SetEnabled(v, s) \/ DropDeadToken(v, s)
        PROVE  Unregister(u, t) \/ <<u, t>> \in verdicts
    <3>1. ~Register(v, s) /\ ~SetEnabled(v, s)
      BY <2>1, NoUserAssumption DEF Register, SetEnabled, Device
    <3>2. Remove(v, s)
      BY <2>1, <2>4, <3>1 DEF Unregister, DropDeadToken
    <3>3. s = t /\ v = u
      BY <2>1, <3>2 DEF Remove
    <3> QED BY <2>4, <3>1, <3>3 DEF DropDeadToken
  <2> QED BY <2>2, <2>3, <2>4
<1>2. RegistrationsAreTheirOwners <=> [][A]_vars
  BY DEF RegistrationsAreTheirOwners
<1> QED BY <1>1, <1>2, DeliveryInvHolds, PTL DEF Spec
=============================================================================
