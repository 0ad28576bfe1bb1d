---------------------------- MODULE GdprDeletion ----------------------------
(***************************************************************************)
(* The life of an account under GDPR erasure: GdprService.softDeleteUser,  *)
(* cancelDelete and hardDeleteUser (gdpr.service.ts), the delayed job that *)
(* joins them in the gdpr-hard-delete queue, and the worker that runs the  *)
(* job thirty days later (gdpr-hard-delete.processor.ts).                  *)
(*                                                                         *)
(* Every await is a point where other requests, the worker, the clock or a *)
(* crash of the process may come in between, so each SQL statement and     *)
(* each queue call is an action of its own.  hardDeleteUser is a single    *)
(* transaction and therefore a single action, with its savepoints inside.  *)
(*                                                                         *)
(* A unit of time is the granularity of the grace period (days), so an     *)
(* HTTP request is over, or dead, before the clock has advanced twice.     *)
(***************************************************************************)
EXTENDS Integers, FiniteSets

CONSTANTS
  Users,      \* the accounts' DIDs
  NoUser,     \* the user of an idle slot and of an unused job
  Slots,      \* softDeleteUser calls the API can have in flight
  JobIds,     \* jobs of the gdpr-hard-delete queue (bounds their number)
  Grace,      \* the thirty days, in units of time
  Attempts,   \* defaultJobOptions.attempts of the queue
  MaxStalls,  \* BullMQ's maxStalledCount
  Horizon     \* bound: last moment at which a deletion is asked for

ASSUME UserAssumption == NoUser \notin Users
ASSUME GraceAssumption == Grace \in Nat \ {0}
ASSUME AttemptsAssumption == Attempts \in Nat \ {0}
ASSUME BoundAssumption == MaxStalls \in Nat /\ Horizon \in Nat

VARIABLES
  row,          \* row[u]: the users row (is_active, deletion_scheduled_for)
  data,         \* users that own rows in the tables hardDeleteUser empties
  referenced,   \* users named by a row that neither cascades nor is deleted
  request,      \* request[r]: a call of softDeleteUser
  jobs,         \* jobs[j]: the gdpr-hard-delete queue
  now,          \* the clock
  promised,     \* history: the date of each user's latest softDeleteUser
  cancelledAt,  \* history: when each user last cancelled
  stranded      \* history: users whose cleanup was lost, and by what step

vars ==
  <<row, data, referenced, request, jobs, now, promised, cancelledAt, stranded>>

(***************************************************************************)
(* Values.                                                                 *)
(***************************************************************************)
NoDate == -1
Time   == 0 .. Horizon + Grace + 1

Row == [present : BOOLEAN, active : BOOLEAN, due : Time \cup {NoDate}]

Live    == [present |-> TRUE,  active |-> TRUE,  due |-> NoDate]
Deleted == [present |-> FALSE, active |-> FALSE, due |-> NoDate]

\* "marked": the users row is updated; "recorded": gdpr_requests row inserted.
Idle    == [pc |-> "idle", user |-> NoUser, due |-> 0]
Request == [pc : {"marked", "recorded"}, user : Users, due : Time] \cup {Idle}

\* "active": the worker has read the users row as inactive and is about to
\* call hardDeleteUser.  A job that ended, well or not, leaves its id unused.
Unused == [state |-> "none", user |-> NoUser, scheduledFor |-> 0, runAt |-> 0,
           left |-> 0, stalls |-> 0]
PendingJob == [state : {"delayed", "active"}, user : Users,
               scheduledFor : Time, runAt : Time, left : 1 .. Attempts,
               stalls : 0 .. MaxStalls]
Job == PendingJob \cup {Unused}

InFlight(r)   == request[r].pc # "idle"
Pending(j)    == jobs[j].state # "none"
Ready(j)      == jobs[j].state = "delayed" /\ jobs[j].runAt =< now
UnusedIds     == {j \in JobIds : ~Pending(j)}
WorkerIsBusy  == \E j \in JobIds : jobs[j].state = "active"

TypeOK ==
  /\ row \in [Users -> Row]
  /\ data \in SUBSET Users
  /\ referenced \in SUBSET Users
  /\ request \in [Slots -> Request]
  /\ jobs \in [JobIds -> Job]
  /\ now \in Time
  /\ promised \in [Users -> Time \cup {NoDate}]
  /\ cancelledAt \in [Users -> Time \cup {NoDate}]
  /\ stranded \in SUBSET Users

Init ==
  /\ row = [u \in Users |-> Live]
  /\ data = Users
  /\ referenced = {}
  /\ request = [r \in Slots |-> Idle]
  /\ jobs = [j \in JobIds |-> Unused]
  /\ now = 0
  /\ promised = [u \in Users |-> NoDate]
  /\ cancelledAt = [u \in Users |-> NoDate]
  /\ stranded = {}
-----------------------------------------------------------------------------
(***************************************************************************)
(* POST /gdpr/delete: softDeleteUser, statement by statement.              *)
(***************************************************************************)

\* UPDATE users: matches no row when the account is already gone, and the
\* token of a gone account is still accepted (JwtAuthGuard reads no row).
SoftDeleteMark(r, u) ==
  /\ request[r].pc = "idle"
  /\ now =< Horizon                                               \* bound
  /\ Cardinality(UnusedIds) > Cardinality({s \in Slots : InFlight(s)})
                                                          \* bound: JobIds
  /\ request' = [request EXCEPT ![r] =
                   [pc |-> "marked", user |-> u, due |-> now + Grace]]
  /\ row' = IF row[u].present
              THEN [row EXCEPT ![u] = [present |-> TRUE, active |-> FALSE,
                                       due |-> now + Grace]]
              ELSE row
  /\ promised' = [promised EXCEPT ![u] = now + Grace]
  /\ UNCHANGED <<data, referenced, jobs, now, cancelledAt, stranded>>

EndRequest(r) == request' = [request EXCEPT ![r] = Idle]

\* INSERT INTO gdpr_requests: its foreign key needs the users row.
SoftDeleteRecord(r) ==
  /\ request[r].pc = "marked"
  /\ row[request[r].user].present
  /\ request' = [request EXCEPT ![r].pc = "recorded"]
  /\ UNCHANGED <<row, data, referenced, jobs, now, promised, cancelledAt, stranded>>

\* The INSERT throws (no users row, or the database is unavailable): the
\* request answers 500 with the account already inactive and no job queued.
SoftDeleteRecordFails(r) ==
  /\ request[r].pc = "marked"
  /\ EndRequest(r)
  /\ stranded' = stranded \cup {request[r].user}
  /\ UNCHANGED <<row, data, referenced, jobs, now, promised, cancelledAt>>

\* Mutant: the delay option is forgotten.
FireTimeNoDelay == now
\* hardDeleteQueue.add counts its delay from the moment of the call.
FireTime == now + Grace

SoftDeleteEnqueue(r) ==
  /\ request[r].pc = "recorded"
  /\ \E j \in UnusedIds :
       jobs' = [jobs EXCEPT ![j] =
                  [state |-> "delayed", user |-> request[r].user,
                   scheduledFor |-> request[r].due, runAt |-> FireTime,
                   left |-> Attempts, stalls |-> 0]]
  /\ EndRequest(r)
  /\ UNCHANGED <<row, data, referenced, now, promised, cancelledAt, stranded>>

\* The queue is not there, or add throws: logged, and the request succeeds.
SoftDeleteEnqueueFails(r) ==
  /\ request[r].pc = "recorded"
  /\ EndRequest(r)
  /\ stranded' = stranded \cup {request[r].user}
  /\ UNCHANGED <<row, data, referenced, jobs, now, promised, cancelledAt>>

(***************************************************************************)
(* POST /gdpr/cancel-delete: one UPDATE; the queue is not touched.         *)
(***************************************************************************)
CancelDelete(u) ==
  /\ row[u].present
  /\ row' = [row EXCEPT ![u] = Live]
  /\ cancelledAt' = [cancelledAt EXCEPT ![u] = now]
  /\ UNCHANGED <<data, referenced, request, jobs, now, promised, stranded>>

(***************************************************************************)
(* hardDeleteUser: every table of its list in one transaction, each under  *)
(* a savepoint.  The users row goes last, and stays when a row that does   *)
(* not cascade (threads.created_by, groups.created_by, reports.reporter_id *)
(* ...) still names it: that DELETE is rolled back alone, the rest commits.*)
(***************************************************************************)
\* Mutant: 'users' is missing from the list of tables.
HardDeleteKeepsRow(u) ==
  /\ data' = data \ {u}
  /\ row' = row
HardDeleteUser(u) ==
  /\ data' = data \ {u}
  /\ row' = IF u \in referenced THEN row ELSE [row EXCEPT ![u] = Deleted]

\* DELETE /gdpr/hard-delete: immediate, whatever the row says.
DirectHardDelete(u) ==
  /\ row[u].present
  /\ HardDeleteUser(u)
  /\ UNCHANGED <<referenced, request, jobs, now, promised, cancelledAt, stranded>>
-----------------------------------------------------------------------------
(***************************************************************************)
(* GdprHardDeleteProcessor.process, concurrency 1.                         *)
(***************************************************************************)

\* Mutant: the processor does not look at is_active.
SkipsOnlyMissing(u) == ~row[u].present
SkipsErasure(u) == ~row[u].present \/ row[u].active

EndJob(j) == jobs' = [jobs EXCEPT ![j] = Unused]

\* SELECT is_active ...: a missing or an active row completes the job.
WorkerSkip(j) ==
  /\ ~WorkerIsBusy
  /\ Ready(j)
  /\ SkipsErasure(jobs[j].user)
  /\ EndJob(j)
  /\ UNCHANGED <<row, data, referenced, request, now, promised, cancelledAt, stranded>>

WorkerCheck(j) ==
  /\ ~WorkerIsBusy
  /\ Ready(j)
  /\ ~SkipsErasure(jobs[j].user)
  /\ jobs' = [jobs EXCEPT ![j].state = "active"]
  /\ UNCHANGED <<row, data, referenced, request, now, promised, cancelledAt, stranded>>

\* hardDeleteUser commits and the job completes; a users row that stayed
\* behind has no job left.
WorkerErase(j) ==
  LET u == jobs[j].user IN
  /\ jobs[j].state = "active"
  /\ HardDeleteUser(u)
  /\ EndJob(j)
  /\ stranded' = IF u \in referenced THEN stranded \cup {u} ELSE stranded
  /\ UNCHANGED <<referenced, request, now, promised, cancelledAt>>

\* A failed attempt: the SELECT or the transaction throws (rolled back).
\* BullMQ retries after seconds, and gives up when no attempt is left.
\* Mutant: attempts are not counted down.
RetriedForever(job) == [job EXCEPT !.state = "delayed"]
HasAnotherTry(job) == job.left > 1
Retried(job) == [job EXCEPT !.state = "delayed", !.left = @ - 1]

WorkerFails(j) ==
  /\ jobs[j].state = "active" \/ (Ready(j) /\ ~WorkerIsBusy)
  /\ IF HasAnotherTry(jobs[j])
       THEN /\ jobs' = [jobs EXCEPT ![j] = Retried(@)]
            /\ UNCHANGED stranded
       ELSE /\ EndJob(j)
            /\ stranded' = stranded \cup {jobs[j].user}
  /\ UNCHANGED <<row, data, referenced, request, now, promised, cancelledAt>>
-----------------------------------------------------------------------------
(***************************************************************************)
(* Around the service.                                                     *)
(***************************************************************************)

\* Whatever the account does with its token while the users row exists: posts,
\* media, follows ... (rows hardDeleteUser knows how to delete) ...
CreateData(u) ==
  /\ row[u].present /\ u \notin data
  /\ data' = data \cup {u}
  /\ UNCHANGED <<row, referenced, request, jobs, now, promised, cancelledAt, stranded>>

\* ... and threads, groups, events, reports (rows it does not).
CreateReference(u) ==
  /\ row[u].present /\ u \notin referenced
  /\ referenced' = referenced \cup {u}
  /\ UNCHANGED <<row, data, request, jobs, now, promised, cancelledAt, stranded>>

\* The API process dies.  Requests in flight are lost; BullMQ returns the job
\* its worker held to the queue, and fails it when it stalled too often.
Stalled(job) ==
  IF job.state # "active" THEN job
  ELSE IF job.stalls < MaxStalls
         THEN [job EXCEPT !.state = "delayed", !.stalls = @ + 1]
         ELSE Unused

Crash ==
  /\ \/ \E r \in Slots : InFlight(r)
     \/ WorkerIsBusy
  /\ request' = [r \in Slots |-> Idle]
  /\ jobs' = [j \in JobIds |-> Stalled(jobs[j])]
  /\ stranded' = stranded
       \cup {request[r].user : r \in {s \in Slots : InFlight(s)}}
       \cup {jobs[j].user : j \in {k \in JobIds : jobs[k].state = "active"
                                       /\ jobs[k].stalls >= MaxStalls}}
  /\ UNCHANGED <<row, data, referenced, now, promised, cancelledAt>>

Tick ==
  /\ now < Horizon + Grace + 1
  /\ \A r \in Slots : InFlight(r) => request[r].due = now + Grace
  /\ now' = now + 1
  /\ UNCHANGED <<row, data, referenced, request, jobs, promised, cancelledAt, stranded>>
-----------------------------------------------------------------------------
RequestStep(r) ==
  \/ SoftDeleteRecord(r)
  \/ SoftDeleteRecordFails(r)
  \/ SoftDeleteEnqueue(r)
  \/ SoftDeleteEnqueueFails(r)

WorkerStep(j) ==
  \/ WorkerSkip(j)
  \/ WorkerCheck(j)
  \/ WorkerErase(j)
  \/ WorkerFails(j)

UserStep(u) ==
  \/ CancelDelete(u)
  \/ DirectHardDelete(u)
  \/ CreateData(u)
  \/ CreateReference(u)

Next ==
  \/ \E r \in Slots, u \in Users : SoftDeleteMark(r, u)
  \/ \E r \in Slots : RequestStep(r)
  \/ \E u \in Users : UserStep(u)
  \/ \E j \in JobIds : WorkerStep(j)
  \/ Crash
  \/ Tick

Spec == Init /\ [][Next]_vars

\* A request that was accepted runs on, the worker serves its queue, and time
\* passes.  Users owe nothing, and crashes need not happen.
Fairness ==
  /\ \A r \in Slots : WF_vars(RequestStep(r))
  /\ \A j \in JobIds : SF_vars(WorkerStep(j))
  /\ WF_vars(Tick)

FairSpec == Spec /\ Fairness
-----------------------------------------------------------------------------
(***************************************************************************)
(* Properties.                                                             *)
(***************************************************************************)

\* A deletion that was asked for is never forgotten: an inactive account has
\* its softDeleteUser call still running or a job still pending, unless one
\* of the steps that can lose it did (the gdpr_requests INSERT or the enqueue
\* failed, a crash, a job out of attempts, a users row held by a reference).
\* "manual cleanup can be triggered later" (gdpr.service.ts:162) is owed to
\* exactly these accounts.
InactiveHasCleanupPath ==
  \A u \in Users :
    (row[u].present /\ ~row[u].active) =>
      \/ \E r \in Slots : InFlight(r) /\ request[r].user = u
      \/ \E j \in JobIds : Pending(j) /\ jobs[j].user = u
      \/ u \in stranded

\* The delay is counted from the enqueue, the promised date from the arrival
\* of the request: the worker never acts before the date answered to the user
\* who asked for this job (of a later deletion's date it says nothing).
JobNeverEarly ==
  \A j \in JobIds : jobs[j].state = "active" => jobs[j].scheduledFor =< now

\* A job is left over when its account has been deleted again since: neither
\* cancelDelete nor a second softDeleteUser takes it out of the queue.
LeftOver(j) == jobs[j].scheduledFor < promised[jobs[j].user]

\* The worker is about to erase an account before its date, or one whose owner
\* took the deletion back before its date.  The date is the one that the
\* latest softDeleteUser promised, whatever job is at work.
BreaksThePromise(j) ==
  LET u == jobs[j].user IN
  /\ jobs[j].state = "active" /\ row[u].present
  /\ promised[u] > now \/ (row[u].active /\ cancelledAt[u] < promised[u])

\* cancelDelete leaves the job in the queue and counts on the worker's check.
\* The check keeps every account until the date of its latest deletion, and
\* honours every cancellation before that date, except against one kind of
\* job: one left over from an earlier deletion of the account.  It compares
\* is_active and never deletion_scheduled_for, which it reads, so it takes the
\* second deletion for its own.
OnlyLeftOverJobsBreakThePromise ==
  \A j \in JobIds : BreaksThePromise(j) => LeftOver(j)

\* What the processor's header says: "If user logs back in and cancels before
\* 30 days, the job is removed."  False of an account that was deleted before:
\* nothing removes a job, and the job of the earlier deletion, held inside the
\* grace period of the later one, erases an account that its owner has taken
\* back in time.
CancelledInTimeIsKept ==
  \A j \in JobIds :
    LET u == jobs[j].user IN
    (jobs[j].state = "active" /\ row[u].present /\ row[u].active)
      => cancelledAt[u] >= promised[u]

\* A pending job of an inactive account ends with the account erased, taken
\* back by its owner, or known to be stranded.
QueuedDeletionIsCarriedOut ==
  \A u \in Users :
    (\E j \in JobIds : Pending(j) /\ jobs[j].user = u)
      ~> (~row[u].present \/ row[u].active \/ u \in stranded)
=============================================================================
