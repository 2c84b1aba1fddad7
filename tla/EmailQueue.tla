----------------------------- MODULE EmailQueue -----------------------------
(***************************************************************************)
(* The queue of outgoing mail.  Every part of the application queues       *)
(* RawEmail rows (EmailService.queue).  A Quartz job (SendEmailJob) reads  *)
(* a batch of unsent rows and sends them one by one: each sendEmail is a   *)
(* transaction of its own that talks to the SMTP server and then writes    *)
(* the outcome.  Around it DeadlockManager repeats calls that failed on a  *)
(* database lock.  Another job (DeleteEmailsJob) deletes old rows.         *)
(*                                                                         *)
(* The job is a StatefulJob: one server runs it once at a time.  While a   *)
(* new release replaces the old one two servers run it side by side.       *)
(* EmailSynchroManager keeps ids in the memory of one server, where this   *)
(* job, one mail after the other, is its only caller: it never turns a     *)
(* mail down and has no variable here.                                     *)
(***************************************************************************)
EXTENDS Integers, FiniteSets

CONSTANTS
    Emails,          \* RawEmail rows, existing or future
    Urgent,          \* those with the higher of two priorities
    BadAddress,      \* those whose address the mail library refuses
    NoEmail,         \* a model value
    Servers,         \* JVMs that run the job
    MaxAttempts,     \* maxNumberOfAttempts: failures before giving up
    MaxRetries,      \* DeadlockManager.maxRetries
    BatchSize,       \* emailBatchSize
    MaxFaults        \* bound: lock failures, exceptions, crashes

ASSUME LimitsAssumption ==
    MaxAttempts \in Nat /\ MaxRetries \in Nat \ {0} /\ BatchSize \in Nat /\ MaxFaults \in Nat
ASSUME NoEmailAssumption == NoEmail \notin Emails

\* RawEmailLogStatus (LOGGED and CANCELED are never assigned); "NONE" before the
\* row exists, "DELETED" after it is gone.
EmailStatus == {"NONE", "INITIAL", "SENT", "ERROR", "RETRY", "DELETED"}
\* Faults for the mutation runs: mails to be retried are not looked for; mails
\* given up are.
RetryStatus_InitialOnly == {"INITIAL"}
RetryStatus_WithErrors == {"INITIAL", "RETRY", "ERROR"}
RetryStatus == {"INITIAL", "RETRY"}

\* The job of a server: outside a batch, between two mails, in sendEmail before
\* the SMTP conversation, after it with an outcome to commit.
JobState == [pc : {"idle", "next", "send", "commit"},
             todo : SUBSET Emails,                    \* the rest of the batch
             email : Emails \cup {NoEmail},           \* the mail being sent
             try : Nat,                               \* DeadlockManager's attempt
             outcome : {"NONE", "SENT", "ERROR", "RETRY"}]

VARIABLES
    switchedOn,  \* the tumbler switch of the mail service
    \* database
    status, attempt,
    waiting,     \* the retry time is still to come
    age,         \* 0 young, 1 older than maxDaysToKeepLogs, 2 older than twice that
    \* memory of the servers
    job,
    inMemory,    \* attempt number of the detached RawEmail object
    \* bookkeeping, per mail
    accepted,    \* SMTP conversations that handed the mail over
    failed,      \* sendings that ended in an EmailException
    faults

rowVars == <<status, attempt, waiting, age>>
jobVars == <<job, inMemory>>
smtpVars == <<accepted, failed>>
vars == <<switchedOn, rowVars, jobVars, smtpVars, faults>>

TypeOK ==
    /\ switchedOn \in BOOLEAN
    /\ status \in [Emails -> EmailStatus]
    /\ attempt \in [Emails -> Nat]
    /\ waiting \in [Emails -> BOOLEAN]
    /\ age \in [Emails -> 0..2]
    /\ job \in [Servers -> JobState]
    /\ inMemory \in [Servers -> [Emails -> Nat]]
    /\ accepted \in [Emails -> Nat]
    /\ failed \in [Emails -> Nat]
    /\ faults \in 0..MaxFaults

\* A job between two mails, with the rest of its batch.
Between(todo) == [pc |-> "next", todo |-> todo, email |-> NoEmail, try |-> 0,
                  outcome |-> "NONE"]
IdleJob == [Between({}) EXCEPT !.pc = "idle"]
NothingRead == [e \in Emails |-> 0]

Init ==
    /\ switchedOn = TRUE
    /\ status = [e \in Emails |-> "NONE"]
    /\ attempt = [e \in Emails |-> 0]
    /\ waiting = [e \in Emails |-> FALSE]
    /\ age = [e \in Emails |-> 0]
    /\ job = [s \in Servers |-> IdleJob]
    /\ inMemory = [s \in Servers |-> NothingRead]
    /\ accepted = [e \in Emails |-> 0]
    /\ failed = [e \in Emails |-> 0]
    /\ faults = 0

-----------------------------------------------------------------------------
(* Callers, time and administrators. *)

Queue(e) ==
    /\ status[e] = "NONE"
    /\ status' = [status EXCEPT ![e] = "INITIAL"]
    /\ UNCHANGED <<switchedOn, attempt, waiting, age, jobVars, smtpVars, faults>>

\* The retry time, 2^attempt delays after the failure, passes.
RetryTimeComes(e) ==
    /\ waiting[e]
    /\ waiting' = [waiting EXCEPT ![e] = FALSE]
    /\ UNCHANGED <<switchedOn, status, attempt, age, jobVars, smtpVars, faults>>

\* Another maxDaysToKeepLogs days since the last update of the row.
GrowOld(e) ==
    /\ status[e] \notin {"NONE", "DELETED"}
    /\ age[e] < 2
    /\ age' = [age EXCEPT ![e] = @ + 1]
    /\ UNCHANGED <<switchedOn, status, attempt, waiting, jobVars, smtpVars, faults>>

Switch ==
    /\ switchedOn' = ~switchedOn
    /\ UNCHANGED <<rowVars, jobVars, smtpVars, faults>>

-----------------------------------------------------------------------------
(* SendEmailJob and EmailService.sendEmail. *)

Fault == faults < MaxFaults /\ faults' = faults + 1

\* No mail of one set is more urgent than those of the other.
Precede(first, rest) == \A e \in first, f \in rest : f \in Urgent => e \in Urgent

Limit == IF BatchSize = 0 THEN 1 ELSE BatchSize

\* The trigger fires: at most Limit due mails, by priority, else at random.
FindUnsentEmails(s) ==
    LET due == {e \in Emails : status[e] \in RetryStatus /\ ~waiting[e]}
    IN  /\ job[s].pc = "idle"
        /\ switchedOn
        /\ \E batch \in SUBSET due :
              /\ batch # {}
              /\ Precede(batch, due \ batch)
              /\ Cardinality(batch) <= Limit
              /\ batch # due => Cardinality(batch) = Limit
              /\ job' = [job EXCEPT ![s] = Between(batch)]
              /\ inMemory' = [inMemory EXCEPT ![s] =
                                  [e \in Emails |-> IF e \in batch THEN attempt[e] ELSE 0]]
        /\ UNCHANGED <<switchedOn, rowVars, smtpVars, faults>>

\* Fault for the mutation runs: the mail stays in the batch.
NextEmail_KeepsEmail(s) ==
    /\ job[s].pc = "next"
    /\ \E e \in job[s].todo :
          /\ Precede({e}, job[s].todo)
          /\ job' = [job EXCEPT ![s] = [pc |-> "send", todo |-> job[s].todo,
                                        email |-> e, try |-> 1, outcome |-> "NONE"]]
    /\ UNCHANGED <<switchedOn, rowVars, inMemory, smtpVars, faults>>

NextEmail(s) ==
    /\ job[s].pc = "next"
    /\ \E e \in job[s].todo :
          /\ Precede({e}, job[s].todo)
          /\ job' = [job EXCEPT ![s] = [pc |-> "send", todo |-> job[s].todo \ {e},
                                        email |-> e, try |-> 1, outcome |-> "NONE"]]
    /\ UNCHANGED <<switchedOn, rowVars, inMemory, smtpVars, faults>>

EndBatch(s) ==
    /\ job[s].pc = "next"
    /\ job[s].todo = {}
    /\ job' = [job EXCEPT ![s] = IdleJob]
    /\ inMemory' = [inMemory EXCEPT ![s] = NothingRead]
    /\ UNCHANGED <<switchedOn, rowVars, smtpVars, faults>>

\* The SMTP server takes the mail; the object becomes SENT.
Accepted(s) ==
    LET e == job[s].email
    IN  /\ job[s].pc = "send"
        /\ e \notin BadAddress
        /\ accepted' = [accepted EXCEPT ![e] = @ + 1]
        /\ job' = [job EXCEPT ![s].pc = "commit", ![s].outcome = "SENT"]
        /\ UNCHANGED <<switchedOn, rowVars, inMemory, failed, faults>>

\* Faults for the mutation runs: one attempt too few, one too many.
HandleEmailException_OneFewer(s) ==
    LET e == job[s].email
        again == inMemory[s][e] + 2 < MaxAttempts /\ e \notin BadAddress
    IN  /\ failed' = [failed EXCEPT ![e] = @ + 1]
        /\ inMemory' = [inMemory EXCEPT ![s][e] = IF again THEN @ + 1 ELSE @]
        /\ job' = [job EXCEPT ![s].pc = "commit",
                              ![s].outcome = IF again THEN "RETRY" ELSE "ERROR"]
HandleEmailException_OneMore(s) ==
    LET e == job[s].email
        again == inMemory[s][e] + 1 <= MaxAttempts /\ e \notin BadAddress
    IN  /\ failed' = [failed EXCEPT ![e] = @ + 1]
        /\ inMemory' = [inMemory EXCEPT ![s][e] = IF again THEN @ + 1 ELSE @]
        /\ job' = [job EXCEPT ![s].pc = "commit",
                              ![s].outcome = IF again THEN "RETRY" ELSE "ERROR"]

\* handleEmailException: another try later, unless the address is refused or the
\* attempts are used up.  The attempt is counted in the object.
HandleEmailException(s) ==
    LET e == job[s].email
        again == inMemory[s][e] + 1 < MaxAttempts /\ e \notin BadAddress
    IN  /\ failed' = [failed EXCEPT ![e] = @ + 1]
        /\ inMemory' = [inMemory EXCEPT ![s][e] = IF again THEN @ + 1 ELSE @]
        /\ job' = [job EXCEPT ![s].pc = "commit",
                              ![s].outcome = IF again THEN "RETRY" ELSE "ERROR"]

Rejected(s) ==
    /\ job[s].pc = "send"
    /\ HandleEmailException(s)
    /\ UNCHANGED <<switchedOn, rowVars, accepted, faults>>

\* The server took the mail and the connection broke before it said so.
Unacknowledged(s) ==
    LET e == job[s].email
    IN  /\ job[s].pc = "send"
        /\ e \notin BadAddress
        /\ accepted' = [accepted EXCEPT ![e] = @ + 1]
        /\ HandleEmailException(s)
        /\ Fault
        /\ UNCHANGED <<switchedOn, rowVars>>

SendAgain(s) ==
    job' = [job EXCEPT ![s].pc = "send", ![s].try = @ + 1, ![s].outcome = "NONE"]
Leave(s) == job' = [job EXCEPT ![s] = Between(job[s].todo)]

\* Faults for the mutation runs: the outcome is not saved; it is SENT whatever
\* the SMTP server said; a deleted row is inserted again.
Commit_NotSaved(s) ==
    /\ job[s].pc = "commit"
    /\ Leave(s)
    /\ UNCHANGED <<switchedOn, rowVars, inMemory, smtpVars, faults>>
Commit_AlwaysSent(s) ==
    LET e == job[s].email
    IN  /\ job[s].pc = "commit"
        /\ status' = [status EXCEPT ![e] = IF @ = "DELETED" THEN @ ELSE "SENT"]
        /\ Leave(s)
        /\ UNCHANGED <<switchedOn, attempt, waiting, age, inMemory, smtpVars, faults>>
Commit_Resurrects(s) ==
    LET e == job[s].email
    IN  /\ job[s].pc = "commit"
        /\ status' = [status EXCEPT ![e] = job[s].outcome]
        /\ Leave(s)
        /\ UNCHANGED <<switchedOn, attempt, waiting, age, inMemory, smtpVars, faults>>

\* The time of the update is the database's own, but if the row was updated since
\* the object was read, the object's older time is a change and is written too.
NewAges(s, e) == {0} \cup (IF \A t \in Servers : t = s THEN {} ELSE age[e]..2)

\* The transaction commits the object over the row: no version is compared.  If
\* the row is gone its log entry violates the foreign key, the exception is
\* logged and the batch goes on.
Commit(s) ==
    LET e == job[s].email
        outcome == job[s].outcome
    IN  /\ job[s].pc = "commit"
        /\ IF status[e] = "DELETED"
           THEN UNCHANGED rowVars
           ELSE /\ status' = [status EXCEPT ![e] = outcome]
                /\ attempt' = [attempt EXCEPT ![e] = inMemory[s][e]]
                /\ waiting' = [waiting EXCEPT ![e] = outcome = "RETRY"]
                /\ \E a \in NewAges(s, e) : age' = [age EXCEPT ![e] = a]
        /\ Leave(s)
        /\ UNCHANGED <<switchedOn, inMemory, smtpVars, faults>>

\* The transaction cannot get a lock.  DeadlockManager calls sendEmail again with
\* the same object, up to maxRetries times.
CommitFailsOnLock(s) ==
    /\ job[s].pc = "commit"
    /\ IF job[s].try < MaxRetries
       THEN SendAgain(s)
       ELSE Leave(s)
    /\ Fault
    /\ UNCHANGED <<switchedOn, rowVars, inMemory, smtpVars>>

\* Any other runtime exception, before or after the conversation.
SendingFails(s) ==
    /\ job[s].pc \in {"send", "commit"}
    /\ Leave(s)
    /\ Fault
    /\ UNCHANGED <<switchedOn, rowVars, inMemory, smtpVars>>

Crash(s) ==
    /\ job[s].pc # "idle"
    /\ job' = [job EXCEPT ![s] = IdleJob]
    /\ inMemory' = [inMemory EXCEPT ![s] = NothingRead]
    /\ Fault
    /\ UNCHANGED <<switchedOn, rowVars, smtpVars>>

-----------------------------------------------------------------------------
(* DeleteEmailsJob: two transactions. *)

\* Fault for the mutation runs: old rows are cancelled instead of deleted.
Delete_Cancels(old) ==
    /\ old # {}
    /\ status' = [e \in Emails |-> IF e \in old THEN "CANCELED" ELSE status[e]]
    /\ UNCHANGED <<switchedOn, attempt, waiting, age, jobVars, smtpVars, faults>>

Delete(old) ==
    /\ old # {}
    /\ status' = [e \in Emails |-> IF e \in old THEN "DELETED" ELSE status[e]]
    /\ UNCHANGED <<switchedOn, attempt, waiting, age, jobVars, smtpVars, faults>>

DeleteOldEmails == Delete({e \in Emails : status[e] = "SENT" /\ age[e] >= 1})

\* Despite its name, deleteOldErrorEmails does not look at the status.
DeleteOldErrorEmails ==
    Delete({e \in Emails : status[e] \notin {"NONE", "DELETED"} /\ age[e] >= 2})

-----------------------------------------------------------------------------
Work(s) ==
    \/ FindUnsentEmails(s) \/ NextEmail(s) \/ EndBatch(s)
    \/ Accepted(s) \/ Rejected(s) \/ Commit(s)

Faults(s) ==
    Unacknowledged(s) \/ CommitFailsOnLock(s) \/ SendingFails(s) \/ Crash(s)

Next ==
    \/ \E e \in Emails : Queue(e) \/ RetryTimeComes(e) \/ GrowOld(e)
    \/ Switch \/ DeleteOldEmails \/ DeleteOldErrorEmails
    \/ \E s \in Servers : Work(s) \/ Faults(s)

Spec == Init /\ [][Next]_vars

\* The trigger fires every 30 seconds, a batch goes on, retry times come.
Fairness ==
    /\ \A s \in Servers : WF_vars(Work(s)) /\ SF_vars(FindUnsentEmails(s))
    /\ \A e \in Emails : WF_vars(RetryTimeComes(e))

FairSpec == Spec /\ Fairness

-----------------------------------------------------------------------------
(* Properties. *)

Resolved == {"SENT", "ERROR", "DELETED"}

\* SENT is only ever written for a mail some SMTP server has taken.
SentWasAccepted == \A e \in Emails : status[e] = "SENT" => accepted[e] > 0

\* A mail is given up only for its address or after MaxAttempts failures, even
\* though attempts are counted in an object that outlives its rolled back
\* transaction, and two servers may count side by side.
GivesUpOnlyWhenDue ==
    \A e \in Emails : status[e] = "ERROR" => e \in BadAddress \/ failed[e] >= MaxAttempts

\* One server tries no mail more often than MaxAttempts times, and once more
\* for every fault.
AttemptsAreBounded ==
    \A e \in Emails : MaxAttempts > 0 => failed[e] + accepted[e] <= MaxAttempts + faults

\* On one server nothing but a fault makes a mail arrive twice ...
DuplicateNeedsFault == \A e \in Emails : accepted[e] > 1 => faults > 0

\* ... and what is SENT stays so until it is deleted: the batch, read long ago,
\* never writes an old outcome over it.
SentIsFinal ==
    [][\A e \in Emails : status[e] = "SENT" => status'[e] \in {"SENT", "DELETED"}]_vars

\* A queued mail is sent, given up or deleted unless the service is switched off
\* again and again, whatever finitely many faults do and whatever more urgent
\* mails are queued (finitely many of them: a stream that never ends may starve
\* the others).
QueuedIsResolved ==
    <>[]switchedOn =>
        \A e \in Emails : status[e] = "INITIAL" ~> status[e] \in Resolved

\* What the javadoc of deleteOldErrorEmails says: only SENT mails are deleted.
OnlySentIsDeleted ==
    [][\A e \in Emails : status'[e] = "DELETED" => status[e] \in {"SENT", "DELETED"}]_vars

Contract == INSTANCE MailContract WITH
    Alone <- (\A s, t \in Servers : s = t),
    struck <- faults > 0

\* Seen from outside, mails are queued, tried, recorded and deleted one at a time,
\* and every outcome is true of what the SMTP servers did, although it is decided
\* by an object read long ago, passes through a transaction that may be repeated
\* or rolled back, and is written over the row without looking at it.  One server
\* alone gives each mail one outcome, too.
ImplementsContract == Contract!Spec

=============================================================================
