--------------------------- MODULE AccountRecovery ---------------------------
(***************************************************************************)
(* Account recovery: the page that asks for a code by e-mail, shows the    *)
(* account it belongs to and sets a new handle, the three endpoints it     *)
(* calls, the codes kept in the memory of one process, and the mails with  *)
(* their retry queue.  Sources: forgot/page.tsx of the web application,    *)
(* auth-enhancement.controller.ts, auth-code.service.ts, email.service.ts, *)
(* email-retry.processor.ts and the queries of identity.service.ts.        *)
(*                                                                         *)
(* A user stands for the one e-mail address of its account.  The codes are *)
(* numbered in the order they are issued, so no two are equal (the code    *)
(* draws six digits); 0 is a mistyped one.                                 *)
(***************************************************************************)
EXTENDS Integers, Sequences, FiniteSets

CONSTANTS Owners, Handles, Gone,
          Leaving,      \* users who may be erased or renamed elsewhere
          Pages,        \* open recovery pages
          MaxTries,     \* comparisons a code allows: 5 in the code
          MaxSends,     \* attempts of a queued mail: 3 in the code
          Ttl,          \* life of a code: 30 minutes in the code
          MaxCalls,     \* bound of the calls of all pages
          MaxCodes,     \* bound of the codes that are issued
          MaxFaults     \* bound of what disturbs: first sendings that fail, restarts,
                        \* or files not written, steps of the clock, accounts erased
                        \* or renamed elsewhere

NoOwner == "none"

ASSUME RecoveryAssumption ==
    /\ MaxTries \in Nat \ {0} /\ MaxSends \in Nat \ {0} /\ Ttl \in Nat
    /\ {MaxCalls, MaxCodes, MaxFaults} \subseteq Nat
    /\ Gone \notin Handles /\ NoOwner \notin Owners
    /\ \E h \in [Owners -> Handles] : \A u, v \in Owners : h[u] = h[v] => u = v

VARIABLES
    handle,     \* handle[u]: the row of users, Gone once erased
    codes,      \* codes[u]: the Map of AuthCodeService, {} or one record
    mail,       \* mail[c]: what became of the mail with code c
    page,       \* page[p]: the React state of a page
    call,       \* call[x][k]: the call of kind k that client x has under way
    now, calls, restarts, faults,
    tried,      \* history: comparisons with code c
    accepted    \* history: the endpoints that accepted code c, in order

recoveryVars == <<handle, codes, mail, page, call, now, calls, restarts, faults, tried, accepted>>

Kinds == {"request", "verify", "reset"}
Issued == 1 .. Len(mail)
\* The mails written to files, which the page can list.
DevInbox == {c \in Issued : mail[c].at = "file"}
Known == {c \in Issued : mail[c].at = "arrived"} \cup DevInbox
IdleCall == [at |-> "idle", to |-> NoOwner, code |-> 0, want |-> Gone, did |-> NoOwner]
Ended == {"ok", "bad", "lost"}

\* Every account has a handle of its own; which one it is makes no difference.
RecoveryInit ==
    /\ handle = CHOOSE h \in [Owners -> Handles] : \A u, v \in Owners : h[u] = h[v] => u = v
    /\ codes = [u \in Owners |-> {}]
    /\ mail = << >>
    /\ page = [p \in Pages |-> [step |-> "email", to |-> NoOwner, code |-> 0,
                                shown |-> NoOwner, set |-> NoOwner, edited |-> FALSE]]
    /\ call = [x \in Pages |-> [k \in Kinds |-> IdleCall]]
    /\ now = 0 /\ calls = 0 /\ faults = 0 /\ restarts = 0
    /\ tried = << >> /\ accepted = << >>

----------------------------------------------------------------------------
(* AuthCodeService                                                         *)

IssuedRecord(u, c) == [code |-> c, did |-> u, expires |-> now + Ttl, attempts |-> 0]

\* Mutant: the older code of the address stays beside the new one.
AfterIssueBoth(u, c) == codes[u] \cup {IssuedRecord(u, c)}
AfterIssue(u, c) == {IssuedRecord(u, c)}

Alive(u) == {r \in codes[u] : r.expires >= now}

\* The record that answers a code typed for address u: none, or one.
\* Mutant: the record is found by its code alone.
MatchesAnywhere(u, c) == {r \in UNION {Alive(v) : v \in Owners} :
                             r.attempts < MaxTries /\ r.code = c}
\* Mutant: the tries are counted and not compared.
MatchesForever(u, c) == {r \in Alive(u) : r.code = c}
Matches(u, c) == {r \in Alive(u) : r.attempts < MaxTries /\ r.code = c}

\* The records left after the comparison.
\* Mutant: the code that matched stays.
LeftAfterKept(u, c) ==
    {[r EXCEPT !.attempts = @ + 1] : r \in {s \in Alive(u) : s.attempts < MaxTries}}
LeftAfter(u, c) ==
    {[r EXCEPT !.attempts = @ + 1] :
        r \in {s \in Alive(u) : s.attempts < MaxTries /\ s.code # c}}

\* verify: runs to its end without an await.
VerifyCode(x, k) ==
    LET u == call[x][k].to
        c == call[x][k].code
        hit == Matches(u, c)
    IN  /\ codes' = [codes EXCEPT ![u] = LeftAfter(u, c)]
        /\ tried' = [d \in DOMAIN tried |->
                        IF \E r \in Alive(u) : r.code = d /\ r.attempts < MaxTries
                        THEN tried[d] + 1 ELSE tried[d]]
        /\ accepted' = IF hit = {} THEN accepted
                       ELSE [accepted EXCEPT ![c] = Append(@, k)]
        /\ call' = [call EXCEPT
              ![x][k].at = IF hit = {} THEN "bad" ELSE "checked",
              ![x][k].did = IF hit = {} THEN NoOwner ELSE (CHOOSE r \in hit : TRUE).did]

\* The interval of five minutes.
Cleanup ==
    /\ \E u \in Owners : codes[u] # Alive(u)
    /\ codes' = [u \in Owners |-> Alive(u)]
    /\ UNCHANGED <<handle, mail, page, call, now, calls, restarts, faults, tried, accepted>>

----------------------------------------------------------------------------
(* The page                                                                *)

\* One call of a kind at a time, as the buttons have it.  The Enter key does not ask
\* whether one is under way: two calls of a kind are those of two pages here.
Start(x, k, to, c, want) ==
    /\ calls < MaxCalls /\ calls' = calls + 1
    /\ call[x][k].at = "idle"
    /\ k = "request" => Len(mail) + Cardinality({y \in Pages :
                            call[y]["request"].at \in {"sent", "found"}}) < MaxCodes
    /\ call' = [call EXCEPT ![x][k] = [at |-> "sent", to |-> to, code |-> c,
                                       want |-> want, did |-> NoOwner]]

\* The field of the first step.
TypeEmail(p) ==
    /\ page[p].step = "email"
    /\ \E u \in Owners \ {page[p].to} :
          page' = [page EXCEPT ![p].to = u,
                       ![p].edited = @ \/ \E k \in {"verify", "reset"} : call[p][k].at # "idle"]
    /\ UNCHANGED <<handle, codes, mail, call, now, calls, restarts, faults, tried, accepted>>

\* "Send code" and "Resend code".
RequestCode(p) ==
    /\ page[p].step \in {"email", "code"} /\ page[p].to # NoOwner
    /\ Start(p, "request", page[p].to, 0, Gone)
    /\ UNCHANGED <<handle, codes, mail, page, now, restarts, faults, tried, accepted>>

\* The field of the second step: a code read in a mail or in the developers'
\* inbox, or a wrong one.
TypeCode(p) ==
    /\ page[p].step = "code"
    /\ \E c \in (Known \cup {0}) \ {page[p].code} : page' = [page EXCEPT ![p].code = c]
    /\ UNCHANGED <<handle, codes, mail, call, now, calls, restarts, faults, tried, accepted>>

SubmitCode(p) ==
    /\ page[p].step = "code"
    /\ Start(p, "verify", page[p].to, page[p].code, Gone)
    /\ UNCHANGED <<handle, codes, mail, page, now, restarts, faults, tried, accepted>>

SubmitHandle(p) ==
    /\ page[p].step = "new-handle"
    /\ \E h \in Handles : Start(p, "reset", page[p].to, page[p].code, h)
    /\ UNCHANGED <<handle, codes, mail, page, now, restarts, faults, tried, accepted>>

\* The buttons that only change the step.
Follows == {<<"code", "email">>, <<"identity", "new-handle">>, <<"new-handle", "identity">>}
Turn(p) ==
    /\ \E f \in Follows : page[p].step = f[1] /\ page' = [page EXCEPT ![p].step = f[2]]
    /\ UNCHANGED <<handle, codes, mail, call, now, calls, restarts, faults, tried, accepted>>

\* What the page does with an answer; a lost one only shows an error.
AfterAnswer(p, k) ==
    LET r == call[p][k] IN
    CASE k = "request" /\ r.at # "lost" -> [page[p] EXCEPT !.step = "code"]
      [] k = "verify" /\ r.at = "ok"    -> [page[p] EXCEPT !.step = "identity", !.shown = r.did]
      [] k = "reset" /\ r.at = "ok"     -> [page[p] EXCEPT !.step = "done", !.set = r.did]
      [] OTHER                          -> page[p]

Answer(x, k) ==
    /\ call[x][k].at \in Ended
    /\ call' = [call EXCEPT ![x][k] = IdleCall]
    /\ page' = [page EXCEPT ![x] = AfterAnswer(x, k)]
    /\ UNCHANGED <<handle, codes, mail, now, calls, restarts, faults, tried, accepted>>

----------------------------------------------------------------------------
(* recovery/request                                                        *)

FindOwner(x) ==
    LET r == call[x]["request"] IN
    /\ r.at = "sent"
    /\ call' = [call EXCEPT ![x]["request"].at = IF handle[r.to] = Gone THEN "ok" ELSE "found"]
    /\ UNCHANGED <<handle, codes, mail, page, now, calls, restarts, faults, tried, accepted>>

\* The mail of the template, with its sending under way.
RecoveryMail(u) == [at |-> "sending", to |-> u, left |-> 0, failed |-> 0,
                    issued |-> now, epoch |-> restarts]

\* issue, and send called.
Issue(x) ==
    LET u == call[x]["request"].to
        c == Len(mail) + 1
    IN  /\ call[x]["request"].at = "found"
        /\ codes' = [codes EXCEPT ![u] = AfterIssue(u, c)]
        /\ mail' = Append(mail, RecoveryMail(u))
        /\ call' = [call EXCEPT ![x]["request"].at = "sending", ![x]["request"].code = c]
        /\ tried' = Append(tried, 0)
        /\ accepted' = Append(accepted, << >>)
        /\ UNCHANGED <<handle, page, now, calls, restarts, faults>>

\* What send makes of the mail: delivered by SMTP, or after it failed put in
\* the queue, or written to a file when there is no queue or no transport.
\* Mutant: the job gets one attempt.
RetriesOnce == 1
Retries == MaxSends

\* mkdir and writeFile: outside of any try, so what they throw leaves send,
\* and nothing holds the mail any more.
WriteFile == {"file", "unwritten"}

\* initTransporter found no transport.
FileMock == {"sending"} \X WriteFile

\* Mutant: no file when the queue is down.
OutcomesWithoutFile == {<<"sending", "arrived">>, <<"sending", "failed">>} \cup FileMock
Outcomes == {<<"sending", "arrived">>, <<"sending", "failed">>, <<"failed", "queued">>}
              \cup ({"failed"} \X WriteFile) \cup FileMock
AfterSend(m, s) == [m EXCEPT !.at = s, !.failed = IF s = "failed" THEN 1 ELSE @,
                                       !.left = IF s = "queued" THEN Retries ELSE @]
Fault == faults < MaxFaults /\ faults' = faults + 1

\* How requestRecovery goes on: the error of a file that was not written is
\* the answer.
\* Mutant: the error is caught, and the answer is the generic one.
GoesOnQuietly(s) == IF s = "failed" THEN "sending" ELSE "ok"
GoesOn(s) == IF s = "failed" THEN "sending" ELSE IF s = "unwritten" THEN "bad" ELSE "ok"

SendMail(x) ==
    LET c == call[x]["request"].code IN
    /\ call[x]["request"].at = "sending"
    /\ \E o \in Outcomes :
          /\ mail[c].at = o[1]
          /\ IF o \in {<<"sending", "failed">>, <<"sending", "unwritten">>} THEN Fault
             ELSE UNCHANGED faults
          /\ mail' = [mail EXCEPT ![c] = AfterSend(@, o[2])]
          /\ call' = [call EXCEPT ![x]["request"].at = GoesOn(o[2])]
    /\ UNCHANGED <<handle, codes, page, now, calls, restarts, tried, accepted>>

\* sendDirect delivers or throws.
SendDirect(m) ==
    {[m EXCEPT !.at = "arrived"],
     [m EXCEPT !.left = @ - 1, !.failed = @ + 1, !.at = IF m.left = 1 THEN "dropped" ELSE @]}

\* EmailRetryProcessor: a job whose sending throws is tried again while it has
\* attempts.
RetryMail(c) ==
    /\ mail[c].at = "queued"
    /\ \E m \in SendDirect(mail[c]) : mail' = [mail EXCEPT ![c] = m]
    /\ UNCHANGED <<handle, codes, page, call, now, calls, restarts, faults, tried, accepted>>

----------------------------------------------------------------------------
(* recovery/verify and recovery/reset                                      *)

CheckCode(x, k) ==
    /\ call[x][k].at = "sent" /\ k \in {"verify", "reset"}
    /\ VerifyCode(x, k)
    /\ UNCHANGED <<handle, mail, page, now, calls, restarts, faults>>

\* findByDid of recovery/verify.
VerifyRecovery(x) ==
    LET r == call[x]["verify"] IN
    /\ r.at = "checked"
    /\ call' = [call EXCEPT ![x]["verify"].at = IF handle[r.did] = Gone THEN "bad" ELSE "ok"]
    /\ UNCHANGED <<handle, codes, mail, page, now, calls, restarts, faults, tried, accepted>>

Taken(u, h) == \E v \in Owners \ {u} : handle[v] = h

\* The three statements of recovery/reset: findByHandle, UPDATE under the
\* UNIQUE constraint, and the SELECT of issueSessionForDid.
ResetHandle(x) ==
    LET r == call[x]["reset"]
        to(s) == call' = [call EXCEPT ![x]["reset"].at = s]
    IN  /\ \/ /\ r.at = "checked" /\ UNCHANGED handle
              /\ to(IF Taken(r.did, r.want) THEN "bad" ELSE "free")
           \/ /\ r.at = "free" /\ Taken(r.did, r.want)
              /\ to("bad") /\ UNCHANGED handle
           \/ /\ r.at = "free" /\ ~Taken(r.did, r.want)
              /\ handle' = [handle EXCEPT ![r.did] = IF @ = Gone THEN Gone ELSE r.want]
              /\ to("updated")
           \/ /\ r.at = "updated" /\ UNCHANGED handle
              /\ to(IF handle[r.did] = Gone THEN "bad" ELSE "ok")
        /\ UNCHANGED <<codes, mail, page, now, calls, restarts, faults, tried, accepted>>

----------------------------------------------------------------------------
(* The rest of the system                                                  *)

Tick ==
    /\ Fault /\ now' = now + 1
    /\ UNCHANGED <<handle, codes, mail, page, call, calls, restarts, tried, accepted>>

\* hardDeleteUser erases an account.
EraseOwner(u) ==
    /\ handle[u] # Gone /\ Fault
    /\ handle' = [handle EXCEPT ![u] = Gone]
    /\ UNCHANGED <<codes, mail, page, call, now, calls, restarts, tried, accepted>>

\* updateHandle for the recovery of another account, in a page of its own.
Rename(u) ==
    /\ handle[u] # Gone /\ Fault
    /\ \E h \in Handles : ~Taken(u, h) /\ h # handle[u] /\ handle' = [handle EXCEPT ![u] = h]
    /\ UNCHANGED <<codes, mail, page, call, now, calls, restarts, tried, accepted>>

\* The process restarts: the Map is empty, the handlers are gone with the
\* mails they held; the queue and the answers under way are not.
Restart ==
    /\ Fault /\ restarts' = restarts + 1
    /\ codes' = [u \in Owners |-> {}]
    /\ mail' = [c \in Issued |-> IF mail[c].at \in {"sending", "failed"}
                                 THEN [mail[c] EXCEPT !.at = "dropped"] ELSE mail[c]]
    /\ call' = [x \in Pages |-> [k \in Kinds |->
                   IF call[x][k].at \in Ended \cup {"idle"} THEN call[x][k]
                   ELSE [call[x][k] EXCEPT !.at = "lost"]]]
    /\ UNCHANGED <<handle, page, now, calls, tried, accepted>>

Serve(x) ==
    \/ FindOwner(x) \/ Issue(x) \/ SendMail(x)
    \/ \E k \in Kinds : CheckCode(x, k)
    \/ VerifyRecovery(x) \/ ResetHandle(x)

RecoveryNext ==
    \/ \E p \in Pages : TypeEmail(p) \/ RequestCode(p) \/ TypeCode(p) \/ SubmitCode(p)
                           \/ SubmitHandle(p) \/ Turn(p)
    \/ \E x \in Pages : Serve(x) \/ \E k \in Kinds : Answer(x, k)
    \/ \E c \in Issued : RetryMail(c)
    \/ \E u \in Leaving : EraseOwner(u) \/ Rename(u)
    \/ Cleanup \/ Tick \/ Restart

\* The event loop runs every handler to its end, an answer or the error of a
\* closed connection reaches its client, and the worker takes every job.
Fairness ==
    /\ \A x \in Pages : WF_recoveryVars(Serve(x)) /\ \A k \in Kinds : WF_recoveryVars(Answer(x, k))
    /\ \A c \in 1 .. MaxCodes : WF_recoveryVars(c \in Issued /\ RetryMail(c))

RecoverySpec == RecoveryInit /\ [][RecoveryNext]_recoveryVars /\ Fairness

----------------------------------------------------------------------------
(* Properties                                                              *)

Calls == [at : {"idle", "sent", "found", "sending", "checked", "free", "updated"} \cup Ended,
          to : Owners \cup {NoOwner}, code : Nat, want : Handles \cup {Gone},
          did : Owners \cup {NoOwner}]
Mails == [at : {"sending", "failed", "queued", "arrived", "file", "unwritten", "dropped"},
          to : Owners,
          left : 0 .. MaxSends, failed : 0 .. MaxSends + 1, issued : 0 .. MaxFaults,
          epoch : 0 .. MaxFaults]
Records == [code : Nat, did : Owners, expires : Nat, attempts : 0 .. MaxTries]

\* Every variable has its type, and an address has at most one code.
RecoveryTypeOK ==
    /\ handle \in [Owners -> Handles \cup {Gone}]
    /\ codes \in [Owners -> SUBSET Records]
    /\ \A u \in Owners : \A r, s \in codes[u] : r = s
    /\ mail \in Seq(Mails)
    /\ page \in [Pages -> [step : {"email", "code", "identity", "new-handle", "done"},
                           to : Owners \cup {NoOwner}, code : Nat, shown : Owners \cup {NoOwner},
                           set : Owners \cup {NoOwner}, edited : BOOLEAN]]
    /\ call \in [Pages -> [Kinds -> Calls]]
    /\ now \in 0 .. MaxFaults /\ calls \in 0 .. MaxCalls /\ restarts \in 0 .. MaxFaults
    /\ faults \in 0 .. MaxFaults
    /\ tried \in [Issued -> 0 .. MaxTries]
    /\ accepted \in [Issued -> Seq(Kinds)]

\* What a reader of the mails may expect of a code: it is the last one issued
\* for the address, young enough, of this run of the process, not used yet and
\* compared fewer than MaxTries times.
Good(u, c) ==
    /\ c \in Issued /\ mail[c].to = u
    /\ \A d \in Issued : mail[d].to = u => d <= c
    /\ mail[c].issued + Ttl >= now /\ mail[c].epoch = restarts
    /\ accepted[c] = << >> /\ tried[c] < MaxTries

\* However calls, resends, the interval and restarts interleave, verify and
\* reset accept exactly the codes that are Good: what is in the Map never
\* says more or less than the mails do (AuthCodeService.issue and verify).
OnlyGoodCodesWork ==
    [][\A x \in Pages, k \in {"verify", "reset"} :
          (call[x][k].at = "sent" /\ call'[x][k].at \in {"checked", "bad"})
          => ((call'[x][k].at = "checked") <=> Good(call[x][k].to, call[x][k].code))]_recoveryVars

\* The page reaches its last step only with two codes, one that verify
\* accepted and another that reset did: verify uses its code up, so the page
\* ends only when a resent code was typed while verify was under way.
PageSpendsTwoCodes ==
    \A p \in Pages : page[p].step = "done" =>
        \E c, d \in Issued : accepted[c] = <<"verify">> /\ accepted[d] = <<"reset">>

\* The page renames the account it asked "Is this you?" about, unless the
\* address was edited while verify or reset was under way.
ShownAccountIsReset ==
    \A p \in Pages : page[p].step = "done" => page[p].shown = page[p].set \/ page[p].edited

\* A queued mail is given up only after one failed sending and MaxSends failed
\* retries, and one that is not yet queued with the process that was sending
\* it, or when its file could not be written.  That is the one loss after a
\* single failure, or none, and it is not silent: the request of the mail
\* answers an error exactly then, and any other answer finds the mail
\* delivered, in a file, in the queue or given up after all its attempts.
MailsAreRetried ==
    /\ \A c \in Issued : mail[c].at = "dropped" =>
          \/ mail[c].failed = MaxSends + 1
          \/ mail[c].failed <= 1 /\ mail[c].epoch < restarts
    /\ \A x \in Pages :
          LET r == call[x]["request"] IN
          (r.at \in {"ok", "bad"} /\ r.code # 0) =>
             /\ r.at = "bad" <=> mail[r.code].at = "unwritten"
             /\ mail[r.code].at \notin {"sending", "failed"}
             /\ mail[r.code].at = "dropped" => mail[r.code].failed = MaxSends + 1

\* Every call ends, and every mail is delivered, written to a file or given
\* up: after the last call the system comes to rest.
Settled ==
    /\ \A x \in Pages, k \in Kinds : call[x][k].at = "idle"
    /\ \A c \in Issued : mail[c].at \in {"arrived", "file", "unwritten", "dropped"}

CallsAndMailsEnd == <>[]Settled

\* What holds in every state of a recovery, for its pages and its mails.
RecoveryInv ==
    /\ RecoveryTypeOK
    /\ PageSpendsTwoCodes
    /\ ShownAccountIsReset
    /\ MailsAreRetried
=============================================================================
