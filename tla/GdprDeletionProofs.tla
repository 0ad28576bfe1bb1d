------------------------- MODULE GdprDeletionProofs -------------------------
(***************************************************************************)
(* Proofs about GdprDeletion, for any set of accounts, of requests and of  *)
(* jobs, and any grace period.                                             *)
(***************************************************************************)
EXTENDS GdprDeletion, TLAPS

USE GraceAssumption, AttemptsAssumption, BoundAssumption, UserAssumption

\* A request in flight was stamped at the current time or one unit before.
RequestIsFresh ==
  \A r \in Slots : InFlight(r) =>
    /\ request[r].due =< Horizon + Grace
    /\ request[r].due = now + Grace \/ request[r].due = now + Grace - 1

\* What a job carries: its delay ends no earlier than the promised date, and
\* the worker holds it only after that.
JobDates ==
  \A j \in JobIds : Pending(j) =>
    /\ jobs[j].scheduledFor =< jobs[j].runAt
    /\ jobs[j].state = "active" => jobs[j].runAt =< now

\* No call and no job of a user carries a later date than the latest promise,
\* and that lies at most the grace period ahead.
LatestPromise ==
  /\ \A u \in Users : promised[u] =< now + Grace
  /\ \A r \in Slots : InFlight(r) => request[r].due =< promised[request[r].user]
  /\ \A j \in JobIds : Pending(j) => jobs[j].scheduledFor =< promised[jobs[j].user]

\* The type invariant and the dates are inductive together.
TypeInv == TypeOK /\ RequestIsFresh /\ JobDates /\ LatestPromise

LEMMA PendingJobs ==
  ASSUME NEW job \in Job, job.state # "none" PROVE job \in PendingJob
BY DEF Job, Unused

LEMMA StalledJob ==
  ASSUME NEW job \in Job
  PROVE  /\ Stalled(job) \in Job
         /\ Stalled(job).state # "active"
         /\ Stalled(job).state # "none" =>
              /\ job.state # "none"
              /\ Stalled(job).user = job.user
              /\ Stalled(job).scheduledFor = job.scheduledFor
              /\ Stalled(job).runAt = job.runAt
<1>1. CASE job.state # "active"
  <2>1. Stalled(job) = job
    BY <1>1 DEF Stalled
  <2> QED
    BY <1>1, <2>1
<1>2. CASE job.state = "active" /\ job.stalls < MaxStalls
  <2>1. job \in PendingJob
    BY <1>2, PendingJobs
  <2>2. Stalled(job) = [job EXCEPT !.state = "delayed", !.stalls = @ + 1]
    BY <1>2 DEF Stalled
  <2>3. job.stalls + 1 \in 0 .. MaxStalls
    BY <1>2, <2>1 DEF PendingJob
  <2>4. Stalled(job) \in PendingJob
    BY <2>1, <2>2, <2>3 DEF PendingJob
  <2>5. /\ Stalled(job).state = "delayed"
        /\ Stalled(job).user = job.user
        /\ Stalled(job).scheduledFor = job.scheduledFor
        /\ Stalled(job).runAt = job.runAt
    BY <2>1, <2>2 DEF PendingJob
  <2> QED
    BY <1>2, <2>4, <2>5 DEF Job
<1>3. CASE job.state = "active" /\ ~(job.stalls < MaxStalls)
  BY <1>3 DEF Stalled, Unused, Job
<1> QED
  BY <1>1, <1>2, <1>3

LEMMA InitTypeInv == Init => TypeInv
BY DEF Init, TypeInv, TypeOK, RequestIsFresh, JobDates, LatestPromise, Time, Row, Live, Idle,
       Unused, Request, Job, PendingJob, InFlight, Pending, NoDate

LEMMA NextTypeInv == TypeInv /\ [Next]_vars => TypeInv'
<1> SUFFICES ASSUME TypeInv, [Next]_vars PROVE TypeInv'
  OBVIOUS
<1> USE DEF TypeInv, TypeOK, RequestIsFresh, JobDates, LatestPromise, InFlight, Pending,
           FireTime, HasAnotherTry
<1>1. ASSUME NEW r \in Slots, NEW u \in Users, SoftDeleteMark(r, u)
      PROVE TypeInv'
  <2>1. TypeOK' /\ RequestIsFresh' /\ JobDates'
    BY <1>1 DEF SoftDeleteMark, Row, Request, Idle, Time, NoDate
  <2>2. \A v \in Users : /\ promised[v] \in Int /\ promised'[v] =< now + Grace
                          /\ promised'[v] >= promised[v]
    BY <1>1 DEF SoftDeleteMark, Time, NoDate
  <2>3. now' = now /\ jobs' = jobs /\ promised'[u] = now + Grace
    BY <1>1 DEF SoftDeleteMark
  <2>4. ASSUME NEW q \in Slots, InFlight(q)'
        PROVE  request'[q].due =< promised'[request'[q].user]
    <3>1. CASE q = r
      <4>1. request'[q].user = u /\ request'[q].due = now + Grace
        BY <1>1, <3>1 DEF SoftDeleteMark
      <4>2. now + Grace \in Int
        BY DEF Time
      <4> QED
        BY <2>3, <4>1, <4>2
    <3>2. CASE q # r
      <4>1. request'[q] = request[q] /\ request[q].user \in Users /\ request[q].due \in Int
        BY <1>1, <2>4, <3>2 DEF SoftDeleteMark, Request, Idle, Time
      <4>2. request[q].due =< promised[request[q].user]
        BY <2>4, <4>1
      <4>3. /\ promised[request[q].user] \in Int /\ promised'[request[q].user] \in Int
            /\ promised'[request[q].user] >= promised[request[q].user]
        BY <2>1, <2>2, <4>1 DEF Time, NoDate
      <4> QED
        BY <4>1, <4>2, <4>3
    <3> QED
      BY <3>1, <3>2
  <2>5. ASSUME NEW j \in JobIds, Pending(j)
        PROVE  jobs[j].scheduledFor =< promised'[jobs[j].user]
    <3>1. jobs[j] \in PendingJob
      BY <2>5, PendingJobs
    <3>2. jobs[j].user \in Users /\ jobs[j].scheduledFor \in Int
      BY <3>1 DEF PendingJob, Time
    <3>3. jobs[j].scheduledFor =< promised[jobs[j].user]
      BY <2>5
    <3>4. /\ promised[jobs[j].user] \in Int /\ promised'[jobs[j].user] \in Int
          /\ promised'[jobs[j].user] >= promised[jobs[j].user]
      BY <2>1, <2>2, <3>2 DEF Time, NoDate
    <3> QED
      BY <3>2, <3>3, <3>4
  <2>6. LatestPromise'
    BY <2>2, <2>3, <2>4, <2>5
  <2> QED
    BY <2>1, <2>6
<1>2. ASSUME NEW r \in Slots, SoftDeleteRecord(r) PROVE TypeInv'
  BY <1>2 DEF SoftDeleteRecord, Request, Idle
<1>3. ASSUME NEW r \in Slots, SoftDeleteRecordFails(r) PROVE TypeInv'
  BY <1>3 DEF SoftDeleteRecordFails, EndRequest, Request, Idle
<1>4. ASSUME NEW r \in Slots, SoftDeleteEnqueue(r) PROVE TypeInv'
  <2>1. PICK j \in UnusedIds :
          jobs' = [jobs EXCEPT ![j] =
                     [state |-> "delayed", user |-> request[r].user,
                      scheduledFor |-> request[r].due, runAt |-> FireTime,
                      left |-> Attempts, stalls |-> 0]]
    BY <1>4 DEF SoftDeleteEnqueue
  <2>2. request[r].user \in Users /\ request[r].due \in Time /\ InFlight(r)
    BY <1>4 DEF SoftDeleteEnqueue, Request, Idle
  <2>3. now + Grace \in Time /\ request[r].due =< now + Grace
    BY <2>2 DEF Time
  <2>4. jobs' \in [JobIds -> Job]
    <3> DEFINE new == [state |-> "delayed", user |-> request[r].user,
                       scheduledFor |-> request[r].due, runAt |-> FireTime,
                       left |-> Attempts, stalls |-> 0]
    <3>1. Attempts \in 1 .. Attempts /\ 0 \in 0 .. MaxStalls
      OBVIOUS
    <3>2. new \in PendingJob
      BY <2>2, <2>3, <3>1 DEF PendingJob
    <3> QED
      BY <2>1, <3>2 DEF Job
  <2>5. request' \in [Slots -> Request]
    BY <1>4 DEF SoftDeleteEnqueue, EndRequest, Request, Idle
  <2> QED
    BY <1>4, <2>1, <2>3, <2>4, <2>5
    DEF SoftDeleteEnqueue, EndRequest, Idle, UnusedIds
<1>5. ASSUME NEW r \in Slots, SoftDeleteEnqueueFails(r) PROVE TypeInv'
  BY <1>5 DEF SoftDeleteEnqueueFails, EndRequest, Request, Idle
<1>6. ASSUME NEW u \in Users, CancelDelete(u) PROVE TypeInv'
  BY <1>6 DEF CancelDelete, Row, Live, NoDate, Time
<1>7. ASSUME NEW u \in Users, DirectHardDelete(u) PROVE TypeInv'
  BY <1>7 DEF DirectHardDelete, HardDeleteUser, Row, Deleted, NoDate, Time
<1>8. ASSUME NEW u \in Users, CreateData(u) PROVE TypeInv'
  BY <1>8 DEF CreateData
<1>9. ASSUME NEW u \in Users, CreateReference(u) PROVE TypeInv'
  BY <1>9 DEF CreateReference
<1>10. ASSUME NEW j \in JobIds, WorkerSkip(j) PROVE TypeInv'
  BY <1>10 DEF WorkerSkip, EndJob, Job, PendingJob, Unused
<1>11. ASSUME NEW j \in JobIds, WorkerCheck(j) PROVE TypeInv'
  BY <1>11 DEF WorkerCheck, Ready, Job, PendingJob, Unused
<1>12. ASSUME NEW j \in JobIds, WorkerErase(j) PROVE TypeInv'
  <2>1. jobs[j].user \in Users
    BY <1>12 DEF WorkerErase, Job, PendingJob, Unused
  <2>2. row' \in [Users -> Row] /\ data' \in SUBSET Users
    BY <1>12, <2>1 DEF WorkerErase, HardDeleteUser, Row, Deleted, NoDate, Time
  <2>3. jobs' \in [JobIds -> Job] /\ stranded' \in SUBSET Users
    BY <1>12, <2>1 DEF WorkerErase, EndJob, Job, PendingJob, Unused
  <2> QED
    BY <1>12, <2>2, <2>3 DEF WorkerErase, EndJob, Unused
<1>13. ASSUME NEW j \in JobIds, WorkerFails(j) PROVE TypeInv'
  <2>1. jobs[j] \in PendingJob
    BY <1>13, PendingJobs DEF WorkerFails, Ready
  <2>2. CASE jobs[j].left > 1
    <3>1. jobs' = [jobs EXCEPT ![j] = Retried(jobs[j])]
      BY <1>13, <2>2 DEF WorkerFails
    <3>2. Retried(jobs[j]) \in Job
      <4>1. /\ jobs[j].left - 1 \in 1 .. Attempts
            /\ "delayed" \in {"delayed", "active"}
        BY <2>1, <2>2 DEF PendingJob
      <4>2. Retried(jobs[j]) \in PendingJob
        BY <2>1, <4>1 DEF Retried, PendingJob
      <4> QED
        BY <4>2 DEF Job
    <3> QED
      BY <1>13, <2>1, <2>2, <3>1, <3>2 DEF WorkerFails, Retried, PendingJob
  <2>3. CASE ~(jobs[j].left > 1)
    BY <1>13, <2>1, <2>3 DEF WorkerFails, EndJob, Unused, Job, PendingJob
  <2> QED
    BY <2>2, <2>3
<1>14. CASE Crash
  <2>1. jobs' \in [JobIds -> Job]
    BY <1>14, StalledJob DEF Crash
  <2>2. request' \in [Slots -> Request]
    BY <1>14 DEF Crash, Request
  <2>3. stranded' \in SUBSET Users
    <3>1. \A r \in Slots : InFlight(r) => request[r].user \in Users
      BY DEF Request, Idle
    <3>2. \A j \in JobIds : jobs[j].state = "active" => jobs[j].user \in Users
      BY PendingJobs DEF PendingJob
    <3> QED
      BY <1>14, <3>1, <3>2 DEF Crash
  <2>4. JobDates'
    BY <1>14, StalledJob DEF Crash
  <2>5. LatestPromise'
    BY <1>14, StalledJob DEF Crash, Idle
  <2> QED
    BY <1>14, <2>1, <2>2, <2>3, <2>4, <2>5 DEF Crash, Idle
<1>15. CASE Tick
  <2>1. TypeOK' /\ RequestIsFresh' /\ JobDates'
    BY <1>15 DEF Tick, Time, Job, PendingJob, Unused, Request, Idle
  <2>2. LatestPromise'
    BY <1>15 DEF Tick, Time, NoDate
  <2> QED
    BY <2>1, <2>2
<1>16. CASE UNCHANGED vars
  BY <1>16 DEF vars
<1> QED
  BY <1>1, <1>2, <1>3, <1>4, <1>5, <1>6, <1>7, <1>8, <1>9, <1>10, <1>11,
     <1>12, <1>13, <1>14, <1>15, <1>16
  DEF Next, RequestStep, UserStep, WorkerStep

\* Every reachable state is well typed, with fresh requests and consistent dates.
LEMMA TypeInvHolds == Spec => []TypeInv
BY InitTypeInv, NextTypeInv, PTL DEF Spec

\* Every reachable state is well typed, whatever the bounds.
THEOREM TypeCorrect == Spec => []TypeOK
<1>1. TypeInv => TypeOK
  BY DEF TypeInv
<1> QED
  BY <1>1, TypeInvHolds, PTL
-----------------------------------------------------------------------------
\* The worker never erases an account before the date that was answered to
\* the user who queued the job.
THEOREM JobsRunOnTime == Spec => []JobNeverEarly
<1>1. TypeInv => JobNeverEarly
  <2> SUFFICES ASSUME TypeInv, NEW j \in JobIds, jobs[j].state = "active"
               PROVE  jobs[j].scheduledFor =< now
    BY DEF JobNeverEarly
  <2>1. jobs[j] \in PendingJob
    BY PendingJobs DEF TypeInv, TypeOK
  <2> QED
    BY <2>1 DEF TypeInv, TypeOK, JobDates, Pending, PendingJob, Time
<1> QED
  BY <1>1, TypeInvHolds, PTL

(***************************************************************************)
(* Only a left-over job breaks a promise.  A job that is not left over     *)
(* carries the latest date itself.  The worker's check sees an inactive    *)
(* account at a moment past that date, so a row that is active while the   *)
(* job is held was re-activated after it.                                  *)
(***************************************************************************)
Kept(j) ==
  LET u == jobs[j].user IN
  \/ jobs[j].state # "active"
  \/ ~row[u].present
  \/ jobs[j].scheduledFor < promised[u]
  \/ promised[u] =< now /\ (row[u].active => cancelledAt[u] >= promised[u])

LEMMA KeptIsThePromise ==
  ASSUME TypeInv PROVE OnlyLeftOverJobsBreakThePromise <=> \A j \in JobIds : Kept(j)
<1> SUFFICES ASSUME NEW j \in JobIds
             PROVE  Kept(j) <=> (BreaksThePromise(j) => LeftOver(j))
  BY DEF OnlyLeftOverJobsBreakThePromise
<1>1. CASE jobs[j].state = "active"
  <2>1. jobs[j].user \in Users
    BY <1>1, PendingJobs DEF TypeInv, TypeOK, PendingJob
  <2>2. /\ promised[jobs[j].user] \in Int /\ now \in Int
        /\ cancelledAt[jobs[j].user] \in Int
    BY <2>1 DEF TypeInv, TypeOK, Time, NoDate
  <2> QED
    BY <2>2 DEF Kept, BreaksThePromise, LeftOver
<1>2. CASE jobs[j].state # "active"
  BY <1>2 DEF Kept, BreaksThePromise
<1> QED
  BY <1>1, <1>2

\* A step that leaves a held job, its account and its dates alone, or removes
\* the account, keeps its promise.
LEMMA SameKept ==
  ASSUME NEW j \in JobIds, Kept(j), jobs'[j] = jobs[j],
         \/ row'[jobs[j].user] = row[jobs[j].user]
         \/ ~row'[jobs[j].user].present,
         UNCHANGED <<promised, cancelledAt>>,
         TypeInv, now' >= now, now' \in Int
  PROVE  Kept(j)'
<1>1. CASE jobs[j].state = "active"
  <2>1. jobs[j].user \in Users
    BY <1>1, PendingJobs DEF TypeInv, TypeOK, PendingJob
  <2>2. promised[jobs[j].user] \in Int /\ now \in Int
    BY <2>1 DEF TypeInv, TypeOK, Time, NoDate
  <2> QED
    BY <2>2 DEF Kept
<1>2. CASE jobs[j].state # "active"
  BY <1>2 DEF Kept
<1> QED
  BY <1>1, <1>2

LEMMA NextKept ==
  ASSUME TypeInv, TypeInv', NEW j \in JobIds, Kept(j), [Next]_vars
  PROVE  Kept(j)'
<1>1. CASE jobs'[j].state # "active"
  BY <1>1 DEF Kept
<1>2. CASE jobs'[j].state = "active"
  <2> USE <1>2 DEF TypeInv, TypeOK, HasAnotherTry, SkipsErasure
  <2>a. now' = now \/ Tick
    BY DEF Next, RequestStep, UserStep, WorkerStep, SoftDeleteMark, SoftDeleteRecord,
         SoftDeleteRecordFails, SoftDeleteEnqueue, SoftDeleteEnqueueFails, CancelDelete,
         DirectHardDelete, CreateData, CreateReference, WorkerSkip, WorkerCheck, WorkerErase,
         WorkerFails, Crash, vars
  <2>b. now' >= now /\ now' \in Int /\ now \in Int
    BY <2>a DEF Tick, Time
  <2>c. ASSUME UNCHANGED <<promised, cancelledAt>>, jobs'[j] = jobs[j],
               \/ row'[jobs[j].user] = row[jobs[j].user]
               \/ ~row'[jobs[j].user].present
        PROVE  Kept(j)'
    BY <2>b, <2>c, SameKept
  <2>1. ASSUME NEW r \in Slots, NEW u \in Users, SoftDeleteMark(r, u) PROVE Kept(j)'
    <3>1. jobs' = jobs /\ cancelledAt' = cancelledAt /\ now' = now
      BY <2>1 DEF SoftDeleteMark
    <3>2. jobs[j] \in PendingJob /\ jobs[j].scheduledFor =< now
      BY <3>1, PendingJobs DEF JobDates, Pending, PendingJob, Time
    <3>3. CASE jobs[j].user = u
      <4>1. promised'[u] = now + Grace
        BY <2>1 DEF SoftDeleteMark
      <4>2. jobs'[j].scheduledFor < promised'[jobs'[j].user]
        BY <3>1, <3>2, <3>3, <4>1 DEF PendingJob, Time
      <4> QED
        BY <4>2 DEF Kept
    <3>4. CASE jobs[j].user # u
      <4>1. /\ row'[jobs[j].user] = row[jobs[j].user]
            /\ promised'[jobs[j].user] = promised[jobs[j].user]
        BY <2>1, <3>2, <3>4 DEF SoftDeleteMark, PendingJob
      <4> QED
        BY <3>1, <4>1 DEF Kept
    <3> QED
      BY <3>3, <3>4
  <2>2. ASSUME NEW r \in Slots, RequestStep(r) PROVE Kept(j)'
    BY <2>c, <2>2 DEF RequestStep, SoftDeleteRecord, SoftDeleteRecordFails,
         SoftDeleteEnqueue, SoftDeleteEnqueueFails, EndRequest
  <2>3. ASSUME NEW u \in Users, CancelDelete(u) PROVE Kept(j)'
    <3>1. jobs' = jobs /\ promised' = promised /\ now' = now
      BY <2>3 DEF CancelDelete
    <3>2. jobs[j] \in PendingJob
      BY <3>1, PendingJobs
    <3>3. CASE jobs[j].user = u
      <4>1. cancelledAt'[u] = now /\ row[u].present
        BY <2>3 DEF CancelDelete
      <4>2. promised[u] \in Int
        BY DEF Time, NoDate
      <4> QED
        BY <2>b, <3>1, <3>2, <3>3, <4>1, <4>2 DEF Kept
    <3>4. CASE jobs[j].user # u
      <4>1. /\ row'[jobs[j].user] = row[jobs[j].user]
            /\ cancelledAt'[jobs[j].user] = cancelledAt[jobs[j].user]
        BY <2>3, <3>4 DEF CancelDelete
      <4> QED
        BY <3>1, <4>1 DEF Kept
    <3> QED
      BY <3>3, <3>4
  <2>4. ASSUME NEW u \in Users, DirectHardDelete(u) PROVE Kept(j)'
    <3>1. row'[jobs[j].user] = row[jobs[j].user] \/ ~row'[jobs[j].user].present
      BY <2>4 DEF DirectHardDelete, HardDeleteUser, Deleted
    <3> QED
      BY <2>4, <2>c, <3>1 DEF DirectHardDelete
  <2>5. ASSUME NEW u \in Users, CreateData(u) \/ CreateReference(u) PROVE Kept(j)'
    BY <2>c, <2>5 DEF CreateData, CreateReference
  <2>6. ASSUME NEW k \in JobIds, WorkerSkip(k) PROVE Kept(j)'
    BY <2>c, <2>6 DEF WorkerSkip, EndJob, Unused
  <2>7. ASSUME NEW k \in JobIds, WorkerCheck(k) PROVE Kept(j)'
    <3>1. CASE k = j
      <4>1. /\ jobs[j] \in PendingJob /\ jobs[j].runAt =< now
            /\ row[jobs[j].user].present /\ ~row[jobs[j].user].active
        BY <2>7, <3>1, PendingJobs DEF WorkerCheck, Ready
      <4>2. /\ jobs[j].scheduledFor =< now
            /\ jobs[j].scheduledFor =< promised[jobs[j].user]
        BY <4>1 DEF JobDates, LatestPromise, Pending, PendingJob, Time
      <4>3. /\ jobs'[j].user = jobs[j].user
            /\ jobs'[j].scheduledFor = jobs[j].scheduledFor
            /\ UNCHANGED <<row, promised, now>>
        BY <2>7, <3>1, <4>1 DEF WorkerCheck, PendingJob
      <4>4. jobs[j].scheduledFor \in Int /\ promised[jobs[j].user] \in Int
        BY <4>1 DEF PendingJob, Time, NoDate
      <4> QED
        BY <2>b, <4>1, <4>2, <4>3, <4>4 DEF Kept
    <3>2. CASE k # j
      BY <2>7, <2>c, <3>2 DEF WorkerCheck
    <3> QED
      BY <3>1, <3>2
  <2>8. ASSUME NEW k \in JobIds, WorkerErase(k) PROVE Kept(j)'
    <3>1. jobs'[j] = jobs[j]
      BY <2>8 DEF WorkerErase, EndJob, Unused
    <3>2. row'[jobs[j].user] = row[jobs[j].user] \/ ~row'[jobs[j].user].present
      BY <2>8, <3>1 DEF WorkerErase, HardDeleteUser, Deleted
    <3> QED
      BY <2>8, <2>c, <3>1, <3>2 DEF WorkerErase
  <2>9. ASSUME NEW k \in JobIds, WorkerFails(k) PROVE Kept(j)'
    <3>1. jobs'[k] = Retried(jobs[k]) \/ jobs'[k] = Unused
      BY <2>9 DEF WorkerFails, EndJob
    <3>2. jobs[k] \in PendingJob
      BY <2>9, PendingJobs DEF WorkerFails, Ready
    <3>3. jobs'[k].state # "active"
      <4>1. Retried(jobs[k]).state = "delayed"
        BY <3>2 DEF Retried, PendingJob
      <4>2. Unused.state = "none"
        BY DEF Unused
      <4> QED
        BY <3>1, <4>1, <4>2
    <3>4. jobs'[j] = jobs[j]
      BY <2>9, <3>3 DEF WorkerFails, EndJob
    <3> QED
      BY <2>9, <2>c, <3>4 DEF WorkerFails
  <2>10. CASE Crash
    BY <2>10, StalledJob DEF Crash
  <2>11. CASE Tick
    BY <2>c, <2>11 DEF Tick
  <2>12. CASE UNCHANGED vars
    BY <2>c, <2>12 DEF vars
  <2> QED
    BY <2>1, <2>2, <2>3, <2>4, <2>5, <2>6, <2>7, <2>8, <2>9, <2>10, <2>11, <2>12
    DEF Next, UserStep, WorkerStep
<1> QED
  BY <1>1, <1>2

\* Whatever the interleaving of requests, worker, clock and crashes: the worker
\* erases an account before the date of its latest deletion, or one that was
\* taken back before that date, only for a job left over from an earlier one.
THEOREM PromisesAreKept == Spec => []OnlyLeftOverJobsBreakThePromise
<1>1. Init => OnlyLeftOverJobsBreakThePromise
  BY DEF Init, OnlyLeftOverJobsBreakThePromise, BreaksThePromise, Unused
<1>2. TypeInv /\ OnlyLeftOverJobsBreakThePromise /\ [Next]_vars
        => OnlyLeftOverJobsBreakThePromise'
  <2> SUFFICES ASSUME TypeInv, OnlyLeftOverJobsBreakThePromise, [Next]_vars
               PROVE  OnlyLeftOverJobsBreakThePromise'
    OBVIOUS
  <2>1. TypeInv'
    BY NextTypeInv
  <2>2. \A j \in JobIds : Kept(j)
    BY KeptIsThePromise
  <2>3. \A j \in JobIds : Kept(j)'
    BY <2>1, <2>2, NextKept
  <2>4. \A j \in JobIds : (BreaksThePromise(j) => LeftOver(j))'
    <3> SUFFICES ASSUME NEW j \in JobIds, BreaksThePromise(j)' PROVE LeftOver(j)'
      OBVIOUS
    <3>1. Kept(j)' /\ jobs'[j].state = "active"
      BY <2>3 DEF BreaksThePromise
    <3>2. jobs'[j].user \in Users
      <4>1. jobs'[j] \in Job
        BY <2>1 DEF TypeInv, TypeOK
      <4> QED
        BY <3>1, <4>1, PendingJobs DEF PendingJob
    <3>3. /\ promised'[jobs'[j].user] \in Int /\ now' \in Int
          /\ cancelledAt'[jobs'[j].user] \in Int
      BY <2>1, <3>2 DEF TypeInv, TypeOK, Time, NoDate
    <3> QED
      BY <3>1, <3>3 DEF Kept, BreaksThePromise, LeftOver
  <2> QED
    BY <2>4 DEF OnlyLeftOverJobsBreakThePromise
<1> QED
  BY <1>1, <1>2, TypeInvHolds, PTL DEF Spec
-----------------------------------------------------------------------------
(***************************************************************************)
(* No deletion is forgotten.  Path(u) is what an inactive account must     *)
(* have; each action either keeps what u had, hands it on (a request to    *)
(* its job), or enters u in stranded.                                      *)
(***************************************************************************)
Path(u) ==
  \/ \E r \in Slots : InFlight(r) /\ request[r].user = u
  \/ \E j \in JobIds : Pending(j) /\ jobs[j].user = u
  \/ u \in stranded

LEMMA NextPath ==
  TypeInv /\ InactiveHasCleanupPath /\ [Next]_vars => InactiveHasCleanupPath'
<1> SUFFICES ASSUME TypeInv, InactiveHasCleanupPath, [Next]_vars,
                    NEW u \in Users, row'[u].present, ~row'[u].active
             PROVE  Path(u)'
  BY DEF InactiveHasCleanupPath, Path
<1> USE DEF TypeInv, TypeOK, InFlight, Pending, FireTime, HasAnotherTry,
           SkipsErasure
<1>a. ASSUME row'[u] = row[u] PROVE Path(u)
  BY <1>a DEF InactiveHasCleanupPath, Path
<1>1. ASSUME NEW r \in Slots, NEW v \in Users, SoftDeleteMark(r, v)
      PROVE  Path(u)'
  <2>1. CASE v = u
    BY <1>1, <2>1 DEF SoftDeleteMark, Path
  <2>2. CASE v # u
    <3>1. row'[u] = row[u]
      BY <1>1, <2>2 DEF SoftDeleteMark
    <3> QED
      BY <1>1, <1>a, <3>1 DEF SoftDeleteMark, Path
  <2> QED
    BY <2>1, <2>2
<1>2. ASSUME NEW r \in Slots, SoftDeleteRecord(r) PROVE Path(u)'
  <2>1. \A s \in Slots : request'[s].user = request[s].user
                        /\ (InFlight(s) => request'[s].pc # "idle")
    BY <1>2 DEF SoftDeleteRecord, Request, Idle
  <2> QED
    BY <1>2, <1>a, <2>1 DEF SoftDeleteRecord, Path
<1>3. ASSUME NEW r \in Slots,
             SoftDeleteRecordFails(r) \/ SoftDeleteEnqueueFails(r)
      PROVE  Path(u)'
  <2>1. stranded' = stranded \cup {request[r].user}
    BY <1>3 DEF SoftDeleteRecordFails, SoftDeleteEnqueueFails
  <2>2. \A s \in Slots \ {r} : request'[s] = request[s]
    BY <1>3 DEF SoftDeleteRecordFails, SoftDeleteEnqueueFails, EndRequest
  <2> QED
    BY <1>3, <1>a, <2>1, <2>2
    DEF SoftDeleteRecordFails, SoftDeleteEnqueueFails, Path
<1>4. ASSUME NEW r \in Slots, SoftDeleteEnqueue(r) PROVE Path(u)'
  <2>1. PICK j \in UnusedIds :
          jobs' = [jobs EXCEPT ![j] =
                     [state |-> "delayed", user |-> request[r].user,
                      scheduledFor |-> request[r].due, runAt |-> FireTime,
                      left |-> Attempts, stalls |-> 0]]
    BY <1>4 DEF SoftDeleteEnqueue
  <2>2. j \in JobIds /\ ~Pending(j)
    BY DEF UnusedIds
  <2>3. jobs'[j].state = "delayed" /\ jobs'[j].user = request[r].user
    BY <2>1, <2>2
  <2>4. \A k \in JobIds \ {j} : jobs'[k] = jobs[k]
    BY <2>1, <2>2
  <2>5. \A s \in Slots \ {r} : request'[s] = request[s]
    BY <1>4 DEF SoftDeleteEnqueue, EndRequest
  <2>6. row' = row /\ stranded' = stranded
    BY <1>4 DEF SoftDeleteEnqueue
  <2> QED
    BY <1>a, <2>2, <2>3, <2>4, <2>5, <2>6 DEF Path
<1>5. ASSUME NEW v \in Users, CancelDelete(v) PROVE Path(u)'
  <2>1. row'[u] = row[u]
    BY <1>5 DEF CancelDelete, Live
  <2> QED
    BY <1>5, <1>a, <2>1 DEF CancelDelete, Path
<1>6. ASSUME NEW v \in Users, DirectHardDelete(v) PROVE Path(u)'
  <2>1. row'[u] = row[u]
    BY <1>6 DEF DirectHardDelete, HardDeleteUser, Deleted
  <2> QED
    BY <1>6, <1>a, <2>1 DEF DirectHardDelete, Path
<1>7. ASSUME NEW v \in Users, CreateData(v) \/ CreateReference(v)
      PROVE  Path(u)'
  BY <1>7, <1>a DEF CreateData, CreateReference, Path
<1>8. ASSUME NEW j \in JobIds, WorkerSkip(j) PROVE Path(u)'
  <2>1. row' = row /\ jobs[j].user # u
    BY <1>8 DEF WorkerSkip
  <2>2. \A k \in JobIds \ {j} : jobs'[k] = jobs[k]
    BY <1>8 DEF WorkerSkip, EndJob
  <2> QED
    BY <1>8, <1>a, <2>1, <2>2 DEF WorkerSkip, Path
<1>9. ASSUME NEW j \in JobIds, WorkerCheck(j) PROVE Path(u)'
  <2>1. \A k \in JobIds : Pending(k) =>
          jobs'[k].state # "none" /\ jobs'[k].user = jobs[k].user
    BY <1>9 DEF WorkerCheck
  <2> QED
    BY <1>9, <1>a, <2>1 DEF WorkerCheck, Path
<1>10. ASSUME NEW j \in JobIds, WorkerErase(j) PROVE Path(u)'
  <2>1. \A k \in JobIds \ {j} : jobs'[k] = jobs[k]
    BY <1>10 DEF WorkerErase, EndJob
  <2>2. CASE jobs[j].user = u
    <3>1. u \in referenced
      BY <1>10, <2>2 DEF WorkerErase, HardDeleteUser, Deleted
    <3> QED
      BY <1>10, <2>2, <3>1 DEF WorkerErase, Path
  <2>3. CASE jobs[j].user # u
    <3>1. row'[u] = row[u] /\ stranded \subseteq stranded'
      BY <1>10, <2>3 DEF WorkerErase, HardDeleteUser
    <3> QED
      BY <1>10, <1>a, <2>1, <2>3, <3>1 DEF WorkerErase, Path
  <2> QED
    BY <2>2, <2>3
<1>11. ASSUME NEW j \in JobIds, WorkerFails(j) PROVE Path(u)'
  <2>1. jobs[j] \in PendingJob
    BY <1>11, PendingJobs DEF WorkerFails, Ready
  <2>2. \A k \in JobIds \ {j} : jobs'[k] = jobs[k]
    BY <1>11 DEF WorkerFails, EndJob
  <2>3. \/ /\ jobs'[j].user = jobs[j].user
           /\ jobs'[j].state = "delayed"
           /\ stranded' = stranded
        \/ stranded' = stranded \cup {jobs[j].user}
    <3>1. CASE jobs[j].left > 1
      <4>1. jobs'[j] = Retried(jobs[j]) /\ stranded' = stranded
        BY <1>11, <3>1 DEF WorkerFails
      <4>2. /\ Retried(jobs[j]).user = jobs[j].user
            /\ Retried(jobs[j]).state = "delayed"
        BY <2>1 DEF Retried, PendingJob
      <4> QED
        BY <4>1, <4>2
    <3>2. CASE ~(jobs[j].left > 1)
      BY <1>11, <3>2 DEF WorkerFails
    <3> QED
      BY <3>1, <3>2
  <2> QED
    BY <1>11, <1>a, <2>2, <2>3 DEF WorkerFails, Path
<1>12. CASE Crash
  <2>1. ASSUME NEW r \in Slots, InFlight(r), request[r].user = u
        PROVE  u \in stranded'
    BY <1>12, <2>1 DEF Crash
  <2>2. ASSUME NEW j \in JobIds, Pending(j), jobs[j].user = u
        PROVE  u \in stranded' \/ (jobs'[j].state # "none"
                                    /\ jobs'[j].user = u)
    <3>1. jobs'[j] = Stalled(jobs[j]) /\ jobs[j] \in PendingJob
      BY <1>12, <2>2, PendingJobs DEF Crash
    <3>2. CASE jobs[j].state = "active" /\ jobs[j].stalls >= MaxStalls
      BY <1>12, <2>2, <3>2 DEF Crash
    <3>3. CASE ~(jobs[j].state = "active" /\ jobs[j].stalls >= MaxStalls)
      BY <2>2, <3>1, <3>3 DEF Stalled, PendingJob
    <3> QED
      BY <3>2, <3>3
  <2>3. row' = row /\ stranded \subseteq stranded'
    BY <1>12 DEF Crash
  <2> QED
    BY <1>a, <2>1, <2>2, <2>3 DEF Path
<1>13. CASE Tick
  BY <1>13, <1>a DEF Tick, Path
<1>14. CASE UNCHANGED vars
  BY <1>14, <1>a DEF vars, Path
<1> QED
  BY <1>1, <1>2, <1>3, <1>4, <1>5, <1>6, <1>7, <1>8, <1>9, <1>10, <1>11,
     <1>12, <1>13, <1>14
  DEF Next, RequestStep, UserStep, WorkerStep

\* A soft-deleted account always has a request, a job, or a known failure
\* that explains why it has neither.
THEOREM NoDeletionIsForgotten == Spec => []InactiveHasCleanupPath
<1>1. Init => InactiveHasCleanupPath
  BY DEF Init, InactiveHasCleanupPath, Live
<1> QED
  BY <1>1, NextPath, TypeInvHolds, PTL DEF Spec
=============================================================================
