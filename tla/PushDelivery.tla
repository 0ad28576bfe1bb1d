---------------------------- MODULE PushDelivery ----------------------------
(***************************************************************************)
(* Push notifications: NotificationService.send queues a job, the          *)
(* NotificationsProcessor runs PushService.sendToUser for it, and devices  *)
(* come, go and change hands meanwhile (push.service.ts,                   *)
(* notifications.processor.ts, db/migrations/009_device_tokens.sql).       *)
(*                                                                         *)
(* Each query and each answer of a push provider is a step.  Expo answers  *)
(* for a batch and Web Push for one device; either way the outcome of each *)
(* device of a send is its own step here, since devices and jobs change in *)
(* between.  muted_until acts as enabled = FALSE and is not kept apart.    *)
(***************************************************************************)
EXTENDS Integers, FiniteSets

CONSTANTS
  Users,
  NoUser,     \* the owner of a token that is not registered
  Tokens,     \* push tokens; device_tokens has one row per token
  Jobs,       \* notifications (bounds their number)
  Attempts,   \* attempts of a job of the notifications queue
  MaxStalls,  \* BullMQ's maxStalledCount
  MaxId       \* bound: device_tokens rows ever inserted

ASSUME NoUserAssumption == NoUser \notin Users
ASSUME AttemptsAssumption == Attempts \in Nat \ {0}
ASSUME BoundAssumption == MaxStalls \in Nat /\ MaxId \in Nat

VARIABLES
  accounts,  \* the users rows
  device,    \* device[t]: the device_tokens row of a token
  nextId,    \* its sequence
  job,       \* job[j]: the push job of a notification
  verdicts,  \* unregisterDevice calls that sends left running, <<user, token>>
  reached,   \* history: reached[j][t]: pushes for j that arrived at t
  listening  \* history: listening[j]: tokens that the addressee of j had
             \* enabled at some moment since j was queued

vars == <<accounts, device, nextId, job, verdicts, reached, listening>>

Device == [owner : Users \cup {NoUser}, enabled : BOOLEAN, id : 0 .. MaxId]
NoRow  == [owner |-> NoUser, enabled |-> FALSE, id |-> 0]

\* "sending": the active devices are read; todo: those not yet answered for,
\* as <<token, row id>>; results: <<row id, success>>.
Job == [state : {"unused", "waiting", "sending", "done", "failed"},
        user : Users \cup {NoUser}, left : 0 .. Attempts,
        stalls : 0 .. MaxStalls, todo : SUBSET (Tokens \X (1 .. MaxId)),
        results : SUBSET ((1 .. MaxId) \X BOOLEAN), logged : BOOLEAN]
Unused == [state |-> "unused", user |-> NoUser, left |-> 0, stalls |-> 0,
           todo |-> {}, results |-> {}, logged |-> FALSE]

Registered(t) == device[t].owner # NoUser
Active(u, t)  == device[t].owner = u /\ device[t].enabled
RowIds        == {device[t].id : t \in {s \in Tokens : Registered(s)}}

\* Rows of different tokens have different ids, and no id is used again.
TypeOK ==
  /\ accounts \in SUBSET Users
  /\ device \in [Tokens -> Device]
  /\ \A s, t \in Tokens : (Registered(s) /\ device[s].id = device[t].id) => s = t
  /\ nextId \in 1 .. MaxId + 1
  /\ \A t \in Tokens : device[t].id < nextId
  /\ job \in [Jobs -> Job]
  /\ verdicts \in SUBSET (Users \X Tokens)
  /\ reached \in [Jobs -> [Tokens -> 0 .. MaxStalls + 1]]
  /\ listening \in [Jobs -> SUBSET Tokens]

Init ==
  /\ accounts = Users
  /\ device = [t \in Tokens |-> NoRow]
  /\ nextId = 1
  /\ job = [j \in Jobs |-> Unused]
  /\ verdicts = {}
  /\ reached = [j \in Jobs |-> [t \in Tokens |-> 0]]
  /\ listening = [j \in Jobs |-> {}]
-----------------------------------------------------------------------------
(***************************************************************************)
(* Devices.                                                                *)
(***************************************************************************)
\* Every job that is still to be sent to u remembers that u had t enabled.
Listen(u, t) ==
  listening' =
    [j \in Jobs |-> IF job[j].user = u /\ job[j].state \in {"waiting", "sending"}
                      THEN listening[j] \cup {t} ELSE listening[j]]

\* INSERT ... ON CONFLICT (token) DO UPDATE: a known token keeps its row and
\* goes to the new user.  The foreign key refuses an account that is gone.
Register(u, t) ==
  /\ u \in accounts
  /\ IF Registered(t)
       THEN /\ device' = [device EXCEPT ![t].owner = u, ![t].enabled = TRUE]
            /\ UNCHANGED nextId
       ELSE /\ nextId =< MaxId                                      \* bound
            /\ device' = [device EXCEPT ![t] = [owner |-> u, enabled |-> TRUE,
                                                id |-> nextId]]
            /\ nextId' = nextId + 1
  /\ Listen(u, t)
  /\ UNCHANGED <<accounts, job, verdicts, reached>>

\* Mutant: DELETE ... WHERE token = $2.
RemoveWhoeverOwns(u, t) == device' = [device EXCEPT ![t] = NoRow]
Remove(u, t) ==
  device' = IF device[t].owner = u THEN [device EXCEPT ![t] = NoRow] ELSE device

Unregister(u, t) ==
  /\ device[t].owner = u
  /\ Remove(u, t)
  /\ UNCHANGED <<accounts, nextId, job, verdicts, reached, listening>>

SetEnabled(u, t) ==
  /\ device[t].owner = u
  /\ device' = [device EXCEPT ![t].enabled = ~@]
  /\ IF device[t].enabled THEN UNCHANGED listening ELSE Listen(u, t)
  /\ UNCHANGED <<accounts, nextId, job, verdicts, reached>>

\* hardDeleteUser (gdpr.service.ts) deletes the users row, and the cascade of
\* device_tokens.user_did every registration of the account with it.  An
\* erasure whose users row stays behind, or that rolls back, changes nothing
\* here.  Jobs and verdicts of the account live on.
Erase(u) ==
  /\ u \in accounts
  /\ accounts' = accounts \ {u}
  /\ device' = [t \in Tokens |-> IF device[t].owner = u THEN NoRow ELSE device[t]]
  /\ UNCHANGED <<nextId, job, verdicts, reached, listening>>
-----------------------------------------------------------------------------
(***************************************************************************)
(* NotificationService.send, as far as pushes go: the job is queued, or    *)
(* the queue is not there and the notification lives without a push.  The  *)
(* account may have been erased since its notifications row was inserted.  *)
(***************************************************************************)
Send(j, u) ==
  /\ job[j] = Unused
  /\ \E queued \in BOOLEAN :
       job' = [job EXCEPT ![j] =
                 [Unused EXCEPT !.state = IF queued THEN "waiting" ELSE "failed",
                                !.user = u,
                                !.left = IF queued THEN Attempts ELSE 0]]
  /\ listening' = [listening EXCEPT ![j] = {t \in Tokens : Active(u, t)}]
  /\ UNCHANGED <<accounts, device, nextId, verdicts, reached>>
-----------------------------------------------------------------------------
(***************************************************************************)
(* NotificationsProcessor.process, concurrency 5.                          *)
(***************************************************************************)
\* Mutant: getActiveDevices forgets "AND enabled = TRUE".
AllDevices(u) == {t \in Tokens : device[t].owner = u}
ActiveDevices(u) == {t \in Tokens : Active(u, t)}

\* getActiveDevices; no device ends the job.
Select(j) ==
  /\ job[j].state = "waiting"
  /\ LET found == {<<t, device[t].id>> : t \in ActiveDevices(job[j].user)} IN
     job' = [job EXCEPT ![j].state = IF found = {} THEN "done" ELSE "sending",
                        ![j].todo = found]
  /\ UNCHANGED <<accounts, device, nextId, verdicts, reached, listening>>

\* The SELECT throws, the only failure the processor hands to BullMQ.
\* Mutant: attempts are counted and never run out.
RetriedTooOften(b) == [b EXCEPT !.left = @ - 1]
Retried(b) == IF b.left > 1 THEN [b EXCEPT !.left = @ - 1]
              ELSE [b EXCEPT !.left = 0, !.state = "failed"]

SelectFails(j) ==
  /\ job[j].state = "waiting"
  /\ job' = [job EXCEPT ![j] = Retried(@)]
  /\ UNCHANGED <<accounts, device, nextId, verdicts, reached, listening>>

Arrives(j, t) == reached' = [reached EXCEPT ![j][t] = @ + 1]

\* What a provider's answer leaves behind: the device is answered for.
\* Mutant: the device stays on the list, as if it were tried again.
AnsweredAgain(b, d, success) ==
  [b EXCEPT !.results = @ \cup {<<d[2], success>>}]
Answered(b, d, success) ==
  [b EXCEPT !.todo = @ \ {d}, !.results = @ \cup {<<d[2], success>>}]

PushAccepted(j, d) ==
  /\ d \in job[j].todo
  /\ Arrives(j, d[1])
  /\ job' = [job EXCEPT ![j] = Answered(@, d, TRUE)]
  /\ UNCHANGED <<accounts, device, nextId, verdicts, listening>>

\* DeviceNotRegistered, 404 or 410: unregisterDevice is called and not
\* awaited, with the user the device had when it was read.
PushDead(j, d) ==
  /\ d \in job[j].todo
  /\ verdicts' = verdicts \cup {<<job[j].user, d[1]>>}
  /\ job' = [job EXCEPT ![j] = Answered(@, d, FALSE)]
  /\ UNCHANGED <<accounts, device, nextId, reached, listening>>

\* Any other error, a timeout included: the push may have arrived all the
\* same.  The failure is recorded and not thrown.
PushError(j, d) ==
  /\ d \in job[j].todo
  /\ Arrives(j, d[1]) \/ UNCHANGED reached
  /\ job' = [job EXCEPT ![j] = Answered(@, d, FALSE)]
  /\ UNCHANGED <<accounts, device, nextId, verdicts, listening>>

\* Expo answers with fewer tickets than messages: no result is recorded.
PushWithoutTicket(j, d) ==
  /\ d \in job[j].todo
  /\ Arrives(j, d[1]) \/ UNCHANGED reached
  /\ job' = [job EXCEPT ![j].todo = @ \ {d}]
  /\ UNCHANGED <<accounts, device, nextId, verdicts, listening>>

\* logAttempts: one INSERT for all results.  device_token_id references
\* device_tokens, so one row that is gone fails all of it; this failure, as
\* any other of the INSERT, is swallowed and the job is done.
LogAttempts(j) ==
  /\ job[j].state = "sending" /\ job[j].todo = {}
  /\ \E logged \in BOOLEAN :
       /\ logged => /\ job[j].results # {}
                    /\ \A r \in job[j].results : r[1] \in RowIds
       /\ job' = [job EXCEPT ![j].state = "done", ![j].logged = logged]
  /\ UNCHANGED <<accounts, device, nextId, verdicts, reached, listening>>

\* The call that a send left running gets to the database, or fails there.
DropDeadToken(u, t) ==
  /\ <<u, t>> \in verdicts
  /\ verdicts' = verdicts \ {<<u, t>>}
  /\ Remove(u, t) \/ UNCHANGED device
  /\ UNCHANGED <<accounts, nextId, job, reached, listening>>

\* The process dies: BullMQ gives a stalled job to another worker, from the
\* beginning, and fails it when it stalled too often.
Stalled(b) ==
  IF b.state # "sending" THEN b
  ELSE IF b.stalls < MaxStalls
         THEN [b EXCEPT !.state = "waiting", !.stalls = @ + 1, !.todo = {},
                        !.results = {}]
         ELSE [b EXCEPT !.state = "failed", !.todo = {}, !.results = {}]

Crash ==
  /\ \E j \in Jobs : job[j].state = "sending"
  /\ job' = [j \in Jobs |-> Stalled(job[j])]
  /\ verdicts' = {}
  /\ UNCHANGED <<accounts, device, nextId, reached, listening>>
-----------------------------------------------------------------------------
UserStep ==
  \/ \E u \in Users, t \in Tokens :
       \/ Register(u, t)
       \/ Unregister(u, t)
       \/ SetEnabled(u, t)
       \/ DropDeadToken(u, t)
  \/ \E u \in Users : Erase(u)

Answer(j, d) ==
  \/ PushAccepted(j, d)
  \/ PushDead(j, d)
  \/ PushError(j, d)
  \/ PushWithoutTicket(j, d)

WorkerStep(j) ==
  \/ Select(j)
  \/ SelectFails(j)
  \/ \E d \in Tokens \X (1 .. MaxId) : Answer(j, d)
  \/ LogAttempts(j)

Next ==
  \/ UserStep
  \/ \E j \in Jobs, u \in Users : Send(j, u)
  \/ \E j \in Jobs : WorkerStep(j)
  \/ Crash

Spec == Init /\ [][Next]_vars

\* Workers serve the queue, and providers answer or time out.
FairSpec == Spec /\ \A j \in Jobs : WF_vars(WorkerStep(j))
-----------------------------------------------------------------------------
(***************************************************************************)
(* Properties.                                                             *)
(***************************************************************************)

\* Only an attempt that sent nothing is retried, so a device is told twice of
\* one notification only when a worker died in the middle of a send.
RepeatsOnlyAfterStalls ==
  \A j \in Jobs, t \in Tokens : reached[j][t] =< job[j].stalls + 1

\* A device that changed hands keeps its new registration: it goes only when
\* its owner takes it away, a provider called it dead in a send to this very
\* owner, or this owner's account is erased.  A late verdict about the former
\* owner's send does nothing, nor does the former owner's erasure.
RegistrationsAreTheirOwners ==
  [][\A t \in Tokens, u \in Users :
       (device[t].owner = u /\ device'[t].owner = NoUser)
         => Unregister(u, t) \/ <<u, t>> \in verdicts \/ Erase(u)]_vars

\* "Send a push to all of a user's enabled devices" (push.service.ts:242),
\* from the queue on: whatever is retried, moved, disabled and enabled while a
\* notification waits or is sent, it reaches only tokens that its addressee
\* had enabled at some moment since it was queued -- never one that had gone
\* to another user, or had been disabled for good, before that.
OnlyListenersAreTold ==
  \A j \in Jobs, t \in Tokens : reached[j][t] > 0 => t \in listening[j]

\* What holds of pushes in every state.
PushInv == TypeOK /\ RepeatsOnlyAfterStalls /\ OnlyListenersAreTold

\* A queued push ends: sent, or out of attempts.
PushesEnd ==
  \A j \in Jobs :
    job[j].state = "waiting" ~> job[j].state \in {"done", "failed"}
=============================================================================
