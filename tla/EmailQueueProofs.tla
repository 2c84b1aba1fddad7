-------------------------- MODULE EmailQueueProofs --------------------------
(* Theorems about EmailQueue, for every value of its constants.              *)
EXTENDS EmailQueue, TLAPS

-----------------------------------------------------------------------------
(* Types. *)

LEMMA BetweenType ==
  ASSUME NEW todo \in SUBSET Emails
  PROVE  Between(todo) \in JobState
BY DEF Between, JobState

LEMMA IdleType == IdleJob \in JobState
BY DEF IdleJob, Between, JobState

\* A job that leaves a mail keeps its type.
LEMMA LeaveType ==
  ASSUME TypeOK, NEW s \in Servers, Leave(s)
  PROVE  job' \in [Servers -> JobState]
<1>1. job[s].todo \in SUBSET Emails
  BY DEF TypeOK, JobState
<1>2. Between(job[s].todo) \in JobState
  BY <1>1, BetweenType
<1>3. QED
  BY <1>2 DEF Leave, TypeOK

\* So does one that has an outcome, or starts over after a lock failure.
LEMMA OutcomeType ==
  ASSUME TypeOK, NEW s \in Servers, NEW pc \in {"send", "commit"}, NEW try \in Nat,
         NEW outcome \in {"NONE", "SENT", "ERROR", "RETRY"}
  PROVE  /\ [job EXCEPT ![s].pc = pc, ![s].outcome = outcome] \in [Servers -> JobState]
         /\ [job EXCEPT ![s].pc = pc, ![s].try = try, ![s].outcome = outcome]
               \in [Servers -> JobState]
<1>1. job[s] \in JobState
  BY DEF TypeOK
<1>2. /\ [job[s] EXCEPT !.pc = pc, !.outcome = outcome] \in JobState
      /\ [job[s] EXCEPT !.pc = pc, !.try = try, !.outcome = outcome] \in JobState
  BY <1>1 DEF JobState
<1>3. QED
  BY <1>2 DEF TypeOK

LEMMA ExceptionType ==
  ASSUME TypeOK, NEW s \in Servers, job[s].email \in Emails, HandleEmailException(s)
  PROVE  /\ failed' \in [Emails -> Nat]
         /\ inMemory' \in [Servers -> [Emails -> Nat]]
         /\ job' \in [Servers -> JobState]
<1> DEFINE e == job[s].email
           again == inMemory[s][e] + 1 < MaxAttempts /\ e \notin BadAddress
<1>1. failed' \in [Emails -> Nat]
  BY DEF HandleEmailException, TypeOK
<1>2. inMemory' \in [Servers -> [Emails -> Nat]]
  <2>1. inMemory[s] \in [Emails -> Nat]
    BY DEF TypeOK
  <2>2. [inMemory[s] EXCEPT ![e] = IF again THEN @ + 1 ELSE @] \in [Emails -> Nat]
    BY <2>1
  <2>3. QED
    BY <2>2 DEF HandleEmailException, TypeOK
<1>3. job' \in [Servers -> JobState]
  <2>1. (IF again THEN "RETRY" ELSE "ERROR") \in {"NONE", "SENT", "ERROR", "RETRY"}
    OBVIOUS
  <2>2. QED
    BY <2>1, OutcomeType DEF HandleEmailException
<1>4. QED
  BY <1>1, <1>2, <1>3

\* The mail of a job that sends or commits is a mail.
EmailInv == \A s \in Servers : job[s].pc \in {"send", "commit"} => job[s].email \in Emails

TypeInv == TypeOK /\ EmailInv

LEMMA InitType == Init => TypeInv
<1> SUFFICES ASSUME Init PROVE TypeInv
  OBVIOUS
<1>1. job \in [Servers -> JobState]
  BY IdleType DEF Init
<1>2. status \in [Emails -> EmailStatus] /\ faults \in 0..MaxFaults
  BY LimitsAssumption DEF Init, EmailStatus
<1>3. inMemory \in [Servers -> [Emails -> Nat]]
  BY DEF Init, NothingRead
<1>4. TypeOK
  BY <1>1, <1>2, <1>3 DEF Init, TypeOK
<1>5. \A s \in Servers : job[s].pc = "idle"
  BY DEF Init, IdleJob, Between
<1>6. QED
  BY <1>4, <1>5 DEF TypeInv, EmailInv

\* A step of a job s, with the other jobs untouched, keeps EmailInv if the new
\* mail of s is a mail.
LEMMA EmailFrame ==
  ASSUME TypeInv, NEW s \in Servers,
         \A t \in Servers : t # s => job'[t] = job[t],
         job'[s].pc \in {"send", "commit"} => job'[s].email \in Emails
  PROVE  EmailInv'
BY DEF TypeInv, EmailInv

\* What each step makes of its job.
LEMMA LeaveFields ==
  ASSUME TypeOK, NEW s \in Servers, Leave(s)
  PROVE  /\ job'[s].pc = "next" /\ job'[s].todo = job[s].todo
         /\ \A t \in Servers : t # s => job'[t] = job[t]
BY DEF TypeOK, Leave, Between

LEMMA OutcomeFields ==
  ASSUME TypeOK, NEW s \in Servers, NEW outcome,
         job' = [job EXCEPT ![s].pc = "commit", ![s].outcome = outcome]
  PROVE  /\ job'[s].pc = "commit" /\ job'[s].outcome = outcome
         /\ job'[s].email = job[s].email /\ job'[s].todo = job[s].todo
         /\ \A t \in Servers : t # s => job'[t] = job[t]
<1>1. job[s] \in JobState
  BY DEF TypeOK
<1>2. job'[s] = [job[s] EXCEPT !.pc = "commit", !.outcome = outcome]
  BY DEF TypeOK
<1>3. QED
  BY <1>1, <1>2 DEF TypeOK, JobState

LEMMA RecordFields ==
  ASSUME NEW j \in JobState, NEW n \in Nat
  PROVE  LET again == [j EXCEPT !.pc = "send", !.try = n + 1, !.outcome = "NONE"]
         IN  /\ again.pc = "send" /\ again.outcome = "NONE"
             /\ again.email = j.email /\ again.todo = j.todo
BY DEF JobState

LEMMA RetryFields ==
  ASSUME TypeOK, NEW s \in Servers, SendAgain(s)
  PROVE  /\ job' \in [Servers -> JobState]
         /\ job'[s].pc = "send" /\ job'[s].outcome = "NONE"
         /\ job'[s].email = job[s].email /\ job'[s].todo = job[s].todo
         /\ \A t \in Servers : t # s => job'[t] = job[t]
<1>1. job[s] \in JobState /\ job[s].try \in Nat
  BY DEF TypeOK, JobState
<1>2. job'[s] = [job[s] EXCEPT !.pc = "send", !.try = job[s].try + 1, !.outcome = "NONE"]
  BY DEF SendAgain, TypeOK
<1>3. /\ job'[s].pc = "send" /\ job'[s].outcome = "NONE"
      /\ job'[s].email = job[s].email /\ job'[s].todo = job[s].todo
  BY <1>1, <1>2, RecordFields
<1>4. job' \in [Servers -> JobState]
  <2>1. job[s].try + 1 \in Nat
    BY <1>1
  <2>2. QED
    BY <2>1, OutcomeType DEF SendAgain
<1>5. \A t \in Servers : t # s => job'[t] = job[t]
  BY DEF SendAgain, TypeOK
<1>6. QED
  BY <1>3, <1>4, <1>5

\* The first steps of a batch and of a mail.
LEMMA FindFields ==
  ASSUME TypeOK, NEW s \in Servers, FindUnsentEmails(s)
  PROVE  /\ job' \in [Servers -> JobState]
         /\ inMemory' \in [Servers -> [Emails -> Nat]]
         /\ job'[s].pc = "next" /\ job'[s].todo \in SUBSET Emails
         /\ \A e \in job'[s].todo : status[e] \in RetryStatus /\ inMemory'[s][e] = attempt[e]
         /\ \A e \in Emails : inMemory'[s][e] \in {0, attempt[e]}
         /\ \A t \in Servers : t # s => job'[t] = job[t] /\ inMemory'[t] = inMemory[t]
<1> DEFINE due == {e \in Emails : status[e] \in RetryStatus /\ ~waiting[e]}
           read(batch) == [e \in Emails |-> IF e \in batch THEN attempt[e] ELSE 0]
<1>1. PICK batch \in SUBSET due :
        /\ job' = [job EXCEPT ![s] = Between(batch)]
        /\ inMemory' = [inMemory EXCEPT ![s] = read(batch)]
  BY DEF FindUnsentEmails
<1>2. batch \in SUBSET Emails /\ \A e \in batch : status[e] \in RetryStatus
  OBVIOUS
<1>3. Between(batch) \in JobState
  BY <1>2, BetweenType
<1>4. read(batch) \in [Emails -> Nat]
  BY DEF TypeOK
<1>5. job' \in [Servers -> JobState] /\ inMemory' \in [Servers -> [Emails -> Nat]]
  BY <1>1, <1>3, <1>4 DEF TypeOK
<1>6. job'[s] = Between(batch) /\ inMemory'[s] = read(batch)
  BY <1>1 DEF TypeOK
<1>7. job'[s].pc = "next" /\ job'[s].todo = batch
  BY <1>6 DEF Between
<1>8. \A e \in Emails : inMemory'[s][e] \in {0, attempt[e]}
  BY <1>6
<1>9. \A t \in Servers : t # s => job'[t] = job[t] /\ inMemory'[t] = inMemory[t]
  BY <1>1 DEF TypeOK
<1>10. \A e \in job'[s].todo : inMemory'[s][e] = attempt[e]
  BY <1>2, <1>6, <1>7
<1>11. QED
  BY <1>2, <1>5, <1>7, <1>8, <1>9, <1>10

LEMMA NextFields ==
  ASSUME TypeOK, NEW s \in Servers, NextEmail(s)
  PROVE  /\ job' \in [Servers -> JobState]
         /\ job'[s].pc = "send" /\ job'[s].email \in job[s].todo /\ job'[s].email \in Emails
         /\ job'[s].todo = job[s].todo \ {job'[s].email}
         /\ \A t \in Servers : t # s => job'[t] = job[t]
<1> DEFINE sending(e) == [pc |-> "send", todo |-> job[s].todo \ {e}, email |-> e,
                          try |-> 1, outcome |-> "NONE"]
<1>1. PICK e \in job[s].todo : job' = [job EXCEPT ![s] = sending(e)]
  BY DEF NextEmail
<1>2. job[s].todo \in SUBSET Emails
  BY DEF TypeOK, JobState
<1>3. sending(e) \in JobState
  BY <1>2 DEF JobState
<1>4. job'[s] = sending(e)
  BY <1>1 DEF TypeOK
<1>5. job' \in [Servers -> JobState] /\ \A t \in Servers : t # s => job'[t] = job[t]
  BY <1>1, <1>3 DEF TypeOK
<1>6. QED
  BY <1>2, <1>4, <1>5

\* The end of a batch, by its last mail or by a crash.
LEMMA IdleFields ==
  ASSUME TypeOK, NEW s \in Servers,
         job' = [job EXCEPT ![s] = IdleJob],
         inMemory' = [inMemory EXCEPT ![s] = NothingRead]
  PROVE  /\ job' \in [Servers -> JobState]
         /\ inMemory' \in [Servers -> [Emails -> Nat]]
         /\ job'[s].pc = "idle" /\ job'[s].todo = {}
         /\ \A e \in Emails : inMemory'[s][e] = 0
         /\ \A t \in Servers : t # s => job'[t] = job[t] /\ inMemory'[t] = inMemory[t]
<1>1. NothingRead \in [Emails -> Nat] /\ \A e \in Emails : NothingRead[e] = 0
  BY DEF NothingRead
<1>2. job' \in [Servers -> JobState] /\ inMemory' \in [Servers -> [Emails -> Nat]]
  BY <1>1, IdleType DEF TypeOK
<1>3. job'[s] = IdleJob /\ inMemory'[s] = NothingRead
  BY DEF TypeOK
<1>4. job'[s].pc = "idle" /\ job'[s].todo = {}
  BY <1>3 DEF IdleJob, Between
<1>5. \A t \in Servers : t # s => job'[t] = job[t] /\ inMemory'[t] = inMemory[t]
  BY DEF TypeOK
<1>6. QED
  BY <1>1, <1>2, <1>3, <1>4, <1>5

\* handleEmailException counts one more failure and, if the mail is to be tried
\* again, one more attempt; it gives up when the failures, of which the attempts
\* are a part, are MaxAttempts.
LEMMA ExceptionFields ==
  ASSUME TypeOK, NEW s \in Servers, job[s].email \in Emails, HandleEmailException(s)
  PROVE  /\ job'[s].pc = "commit" /\ job'[s].outcome \in {"RETRY", "ERROR"}
         /\ job'[s].email = job[s].email /\ job'[s].todo = job[s].todo
         /\ \A t \in Servers : t # s => job'[t] = job[t] /\ inMemory'[t] = inMemory[t]
         /\ failed'[job[s].email] = failed[job[s].email] + 1
         /\ \A e \in Emails : e # job[s].email => failed'[e] = failed[e]
         /\ inMemory'[s][job[s].email] <= inMemory[s][job[s].email] + 1
         /\ \A e \in Emails : e # job[s].email => inMemory'[s][e] = inMemory[s][e]
         /\ job'[s].outcome = "ERROR" => \/ job[s].email \in BadAddress
                                         \/ inMemory[s][job[s].email] + 1 >= MaxAttempts
         /\ job'[s].outcome = "RETRY" => job[s].email \notin BadAddress
<1> DEFINE e == job[s].email
           again == inMemory[s][e] + 1 < MaxAttempts /\ e \notin BadAddress
           outcome == IF again THEN "RETRY" ELSE "ERROR"
<1>1. job' = [job EXCEPT ![s].pc = "commit", ![s].outcome = outcome]
  BY DEF HandleEmailException
<1>2. /\ job'[s].pc = "commit" /\ job'[s].outcome = outcome
      /\ job'[s].email = job[s].email /\ job'[s].todo = job[s].todo
      /\ \A t \in Servers : t # s => job'[t] = job[t]
  <2>1. job[s] \in JobState
    BY DEF TypeOK
  <2>2. /\ job'[s] = [job[s] EXCEPT !.pc = "commit", !.outcome = outcome]
        /\ \A t \in Servers : t # s => job'[t] = job[t]
    BY <1>1 DEF TypeOK
  <2> HIDE DEF outcome
  <2>3. QED
    BY <2>1, <2>2 DEF JobState
<1>3. inMemory[s] \in [Emails -> Nat] /\ MaxAttempts \in Nat
  BY LimitsAssumption DEF TypeOK
<1>4. inMemory'[s] = [inMemory[s] EXCEPT ![e] = IF again THEN @ + 1 ELSE @]
  BY DEF HandleEmailException, TypeOK
<1>5. \A t \in Servers : t # s => inMemory'[t] = inMemory[t]
  BY DEF HandleEmailException, TypeOK
<1>6. /\ inMemory'[s][e] <= inMemory[s][e] + 1
      /\ \A d \in Emails : d # e => inMemory'[s][d] = inMemory[s][d]
  BY <1>3, <1>4
<1>7. /\ failed'[e] = failed[e] + 1
      /\ \A d \in Emails : d # e => failed'[d] = failed[d]
  BY DEF HandleEmailException, TypeOK
<1>8. outcome \in {"RETRY", "ERROR"}
  OBVIOUS
<1>9. /\ outcome = "ERROR" => e \in BadAddress \/ inMemory[s][e] + 1 >= MaxAttempts
      /\ outcome = "RETRY" => e \notin BadAddress
  BY <1>3
<1> HIDE DEF outcome
<1>10. QED
  BY <1>2, <1>5, <1>6, <1>7, <1>8, <1>9
-----------------------------------------------------------------------------
(* TypeInv is inductive. *)

LEMMA RowsType ==
  ASSUME TypeInv,
         \/ \E e \in Emails : Queue(e) \/ RetryTimeComes(e) \/ GrowOld(e)
         \/ Switch \/ DeleteOldEmails \/ DeleteOldErrorEmails
  PROVE  TypeInv'
<1> USE DEF TypeInv, rowVars, jobVars, smtpVars
<1>1. ASSUME NEW e \in Emails, Queue(e) PROVE TypeInv'
  BY <1>1 DEF Queue, TypeOK, EmailStatus, EmailInv
<1>2. ASSUME NEW e \in Emails, RetryTimeComes(e) PROVE TypeInv'
  BY <1>2 DEF RetryTimeComes, TypeOK, EmailInv
<1>3. ASSUME NEW e \in Emails, GrowOld(e) PROVE TypeInv'
  <2>1. age \in [Emails -> 0..2] /\ age[e] + 1 \in 0..2
    BY <1>3 DEF GrowOld, TypeOK
  <2>2. age' \in [Emails -> 0..2]
    BY <1>3, <2>1 DEF GrowOld
  <2>3. QED
    BY <1>3, <2>2 DEF GrowOld, TypeOK, EmailInv
<1>4. CASE Switch
  BY <1>4 DEF Switch, TypeOK, EmailInv
<1>5. ASSUME NEW old, Delete(old) PROVE TypeInv'
  <2>1. status' \in [Emails -> EmailStatus]
    BY <1>5 DEF Delete, TypeOK, EmailStatus
  <2>2. QED
    BY <1>5, <2>1 DEF Delete, TypeOK, EmailInv
<1>6. QED
  BY <1>1, <1>2, <1>3, <1>4, <1>5 DEF DeleteOldEmails, DeleteOldErrorEmails

LEMMA WorkType == ASSUME TypeInv, NEW s \in Servers, Work(s) PROVE TypeInv'
<1> USE DEF TypeInv, rowVars, jobVars, smtpVars
<1>1. CASE FindUnsentEmails(s)
  <2>1. job' \in [Servers -> JobState] /\ inMemory' \in [Servers -> [Emails -> Nat]]
    BY <1>1, FindFields
  <2>2. EmailInv'
    BY <1>1, FindFields, EmailFrame
  <2>3. QED
    BY <1>1, <2>1, <2>2 DEF FindUnsentEmails, TypeOK
<1>2. CASE NextEmail(s)
  <2>1. job' \in [Servers -> JobState]
    BY <1>2, NextFields
  <2>2. EmailInv'
    BY <1>2, NextFields, EmailFrame
  <2>3. QED
    BY <1>2, <2>1, <2>2 DEF NextEmail, TypeOK
<1>3. CASE EndBatch(s)
  <2>1. job' \in [Servers -> JobState] /\ inMemory' \in [Servers -> [Emails -> Nat]]
    BY <1>3, IdleFields DEF EndBatch
  <2>2. EmailInv'
    BY <1>3, IdleFields, EmailFrame DEF EndBatch
  <2>3. QED
    BY <1>3, <2>1, <2>2 DEF EndBatch, TypeOK
<1>4. CASE Accepted(s)
  <2>1. job' \in [Servers -> JobState]
    BY <1>4, OutcomeType DEF Accepted
  <2>2. EmailInv'
    BY <1>4, OutcomeFields, EmailFrame DEF Accepted, EmailInv
  <2>3. accepted' \in [Emails -> Nat]
    <3>1. job[s].email \in Emails
      BY <1>4 DEF Accepted, EmailInv
    <3>2. accepted[job[s].email] + 1 \in Nat
      BY <3>1 DEF TypeOK
    <3>3. QED
      BY <1>4, <3>2 DEF Accepted, TypeOK
  <2>4. QED
    BY <1>4, <2>1, <2>2, <2>3 DEF Accepted, TypeOK
<1>5. CASE Rejected(s)
  <2>1. job[s].email \in Emails
    BY <1>5 DEF Rejected, EmailInv
  <2>2. /\ failed' \in [Emails -> Nat]
        /\ inMemory' \in [Servers -> [Emails -> Nat]]
        /\ job' \in [Servers -> JobState]
    BY <1>5, <2>1, ExceptionType DEF Rejected
  <2>3. EmailInv'
    BY <1>5, <2>1, ExceptionFields, EmailFrame DEF Rejected
  <2>4. QED
    BY <1>5, <2>2, <2>3 DEF Rejected, TypeOK
<1>6. CASE Commit(s)
  <2>1. job' \in [Servers -> JobState] /\ EmailInv'
    BY <1>6, LeaveType, LeaveFields, EmailFrame DEF Commit
  <2>2. job[s].email \in Emails /\ job[s].outcome \in EmailStatus \cup {"NONE"}
    BY <1>6 DEF Commit, EmailInv, TypeOK, JobState, EmailStatus
  <2>3. /\ status' \in [Emails -> EmailStatus] /\ attempt' \in [Emails -> Nat]
        /\ waiting' \in [Emails -> BOOLEAN] /\ age' \in [Emails -> 0..2]
    <3>1. CASE status[job[s].email] = "DELETED"
      BY <1>6, <3>1 DEF Commit, TypeOK
    <3>2. CASE status[job[s].email] # "DELETED"
      <4>1. status' \in [Emails -> EmailStatus]
        BY <1>6, <2>2, <3>2 DEF Commit, TypeOK, EmailStatus
      <4>2. inMemory[s][job[s].email] \in Nat
        BY <2>2 DEF TypeOK
      <4>3. attempt' \in [Emails -> Nat]
        BY <1>6, <3>2, <4>2 DEF Commit, TypeOK
      <4>4. waiting' \in [Emails -> BOOLEAN]
        <5>1. waiting' = [waiting EXCEPT ![job[s].email] = (job[s].outcome = "RETRY")]
          BY <1>6, <3>2 DEF Commit
        <5>2. waiting \in [Emails -> BOOLEAN]
          BY DEF TypeOK
        <5>3. QED
          BY <5>1, <5>2, Zenon
      <4>5. age' \in [Emails -> 0..2]
        <5>1. age[job[s].email] \in 0..2
          BY <2>2 DEF TypeOK
        <5>2. NewAges(s, job[s].email) \subseteq 0..2
          BY <5>1 DEF NewAges
        <5>3. QED
          BY <1>6, <3>2, <5>2 DEF Commit, TypeOK
      <4>6. QED
        BY <4>1, <4>3, <4>4, <4>5
    <3>3. QED
      BY <3>1, <3>2
  <2>4. QED
    BY <1>6, <2>1, <2>3 DEF Commit, TypeOK
<1>7. QED
  BY <1>1, <1>2, <1>3, <1>4, <1>5, <1>6 DEF Work

LEMMA FaultType == Fault /\ TypeOK => faults' \in 0..MaxFaults
BY LimitsAssumption DEF Fault, TypeOK

LEMMA FaultsType == ASSUME TypeInv, NEW s \in Servers, Faults(s) PROVE TypeInv'
<1> USE DEF TypeInv, rowVars, jobVars, smtpVars
<1>0. faults' \in 0..MaxFaults
  BY FaultType DEF Faults, Unacknowledged, CommitFailsOnLock, SendingFails, Crash
<1>1. CASE Unacknowledged(s)
  <2>1. job[s].email \in Emails
    BY <1>1 DEF Unacknowledged, EmailInv
  <2>2. /\ failed' \in [Emails -> Nat]
        /\ inMemory' \in [Servers -> [Emails -> Nat]]
        /\ job' \in [Servers -> JobState]
    BY <1>1, <2>1, ExceptionType DEF Unacknowledged
  <2>3. EmailInv'
    BY <1>1, <2>1, ExceptionFields, EmailFrame DEF Unacknowledged
  <2>4. accepted' \in [Emails -> Nat]
    <3>1. accepted[job[s].email] + 1 \in Nat
      BY <2>1 DEF TypeOK
    <3>2. QED
      BY <1>1, <3>1 DEF Unacknowledged, TypeOK
  <2>5. QED
    BY <1>0, <1>1, <2>2, <2>3, <2>4 DEF Unacknowledged, TypeOK
<1>2. CASE CommitFailsOnLock(s)
  <2>1. job[s].pc = "commit" /\ (SendAgain(s) \/ Leave(s))
    BY <1>2 DEF CommitFailsOnLock
  <2>2. job' \in [Servers -> JobState]
    BY <2>1, RetryFields, LeaveType
  <2>3. EmailInv'
    BY <2>1, RetryFields, LeaveFields, EmailFrame DEF EmailInv
  <2>4. QED
    BY <1>0, <1>2, <2>2, <2>3 DEF CommitFailsOnLock, TypeOK
<1>3. CASE SendingFails(s)
  <2>1. job' \in [Servers -> JobState] /\ EmailInv'
    BY <1>3, LeaveType, LeaveFields, EmailFrame DEF SendingFails
  <2>2. QED
    BY <1>0, <1>3, <2>1 DEF SendingFails, TypeOK
<1>4. CASE Crash(s)
  <2>1. job' \in [Servers -> JobState] /\ inMemory' \in [Servers -> [Emails -> Nat]]
    BY <1>4, IdleFields DEF Crash
  <2>2. EmailInv'
    BY <1>4, IdleFields, EmailFrame DEF Crash
  <2>3. QED
    BY <1>0, <1>4, <2>1, <2>2 DEF Crash, TypeOK
<1>5. QED
  BY <1>1, <1>2, <1>3, <1>4 DEF Faults

LEMMA StepType == TypeInv /\ [Next]_vars => TypeInv'
<1> SUFFICES ASSUME TypeInv, [Next]_vars PROVE TypeInv'
  OBVIOUS
<1>1. CASE UNCHANGED vars
  BY <1>1 DEF vars, rowVars, jobVars, smtpVars, TypeInv, TypeOK, EmailInv
<1>2. CASE Next
  BY <1>2, RowsType, WorkType, FaultsType DEF Next
<1>3. QED
  BY <1>1, <1>2

\* Every variable keeps its type, for any number of mails, servers and faults.
THEOREM TypeCorrect == Spec => []TypeOK
<1>1. Init => TypeInv
  BY InitType
<1>2. TypeInv /\ [Next]_vars => TypeInv'
  BY StepType
<1>3. TypeInv => TypeOK
  BY DEF TypeInv
<1>4. QED
  BY <1>1, <1>2, <1>3, PTL DEF Spec

-----------------------------------------------------------------------------
(* What is SENT was accepted, what is given up was due. *)

\* Attempts, in the row and in every object read from it, are failures.
AttemptInv == \A e \in Emails : /\ attempt[e] <= failed[e]
                                /\ \A s \in Servers : inMemory[s][e] <= failed[e]

\* An outcome that waits to be committed is justified.
OutcomeInv(s) ==
    job[s].pc = "commit" =>
        /\ job[s].outcome \in {"SENT", "ERROR", "RETRY"}
        /\ job[s].outcome = "SENT" => accepted[job[s].email] > 0
        /\ job[s].outcome = "ERROR" => \/ job[s].email \in BadAddress
                                       \/ failed[job[s].email] >= MaxAttempts
        /\ job[s].outcome = "RETRY" => /\ job[s].email \notin BadAddress
                                       /\ failed[job[s].email] > 0

IInv == /\ TypeInv /\ AttemptInv
        /\ \A s \in Servers : OutcomeInv(s)
        /\ SentWasAccepted /\ GivesUpOnlyWhenDue

\* The counters of the SMTP conversations never decrease.
Grows == \A e \in Emails : accepted'[e] >= accepted[e] /\ failed'[e] >= failed[e]

LEMMA InitInv == Init => IInv
<1> SUFFICES ASSUME Init PROVE IInv
  OBVIOUS
<1>1. TypeInv
  BY InitType
<1>2. AttemptInv
  BY DEF Init, NothingRead, AttemptInv
<1>3. \A s \in Servers : job[s].pc = "idle"
  BY DEF Init, IdleJob, Between
<1>4. SentWasAccepted /\ GivesUpOnlyWhenDue
  BY DEF Init, SentWasAccepted, GivesUpOnlyWhenDue
<1>5. QED
  BY <1>1, <1>2, <1>3, <1>4 DEF IInv, OutcomeInv

\* Growing counters keep what the other servers' outcomes, and rows already
\* written, rest on.
LEMMA OthersKeepOutcome ==
  ASSUME IInv, TypeInv', Grows, NEW t \in Servers, job'[t] = job[t]
  PROVE  OutcomeInv(t)'
<1> USE LimitsAssumption
<1>1. OutcomeInv(t)
  BY DEF IInv
<1>2. CASE job[t].pc = "commit"
  <2>1. job[t].email \in Emails
    BY <1>2 DEF IInv, TypeInv, EmailInv
  <2> DEFINE e == job[t].email
  <2>2. /\ accepted[e] \in Nat /\ accepted'[e] \in Nat /\ accepted'[e] >= accepted[e]
        /\ failed[e] \in Nat /\ failed'[e] \in Nat /\ failed'[e] >= failed[e]
    BY <2>1 DEF IInv, TypeInv, TypeOK, Grows
  <2>3. QED
    BY <1>1, <1>2, <2>1, <2>2 DEF OutcomeInv
<1>3. QED
  BY <1>2 DEF OutcomeInv

LEMMA GrowthKeepsRows ==
  ASSUME IInv, TypeInv', Grows, NEW e \in Emails, status'[e] = status[e]
  PROVE  /\ status'[e] = "SENT" => accepted'[e] > 0
         /\ status'[e] = "ERROR" => e \in BadAddress \/ failed'[e] >= MaxAttempts
<1> USE LimitsAssumption
<1>1. /\ accepted[e] \in Nat /\ accepted'[e] \in Nat /\ accepted'[e] >= accepted[e]
      /\ failed[e] \in Nat /\ failed'[e] \in Nat /\ failed'[e] >= failed[e]
  BY DEF IInv, TypeInv, TypeOK, Grows
<1>2. QED
  BY <1>1 DEF IInv, SentWasAccepted, GivesUpOnlyWhenDue

\* A step that writes no row but with counters that grow.
LEMMA QuietStep ==
  ASSUME IInv, TypeInv', Grows, UNCHANGED status
  PROVE  (SentWasAccepted /\ GivesUpOnlyWhenDue)'
BY GrowthKeepsRows DEF SentWasAccepted, GivesUpOnlyWhenDue

\* Attempts that do not change stay failures.
LEMMA AttemptFrame ==
  ASSUME IInv, TypeInv', Grows, UNCHANGED <<attempt, inMemory>>
  PROVE  AttemptInv'
<1> SUFFICES ASSUME NEW e \in Emails
             PROVE  attempt[e] <= failed'[e] /\ \A s \in Servers : inMemory[s][e] <= failed'[e]
  BY DEF AttemptInv
<1>1. /\ attempt[e] \in Nat /\ failed[e] \in Nat /\ failed'[e] \in Nat
      /\ failed'[e] >= failed[e] /\ \A s \in Servers : inMemory[s][e] \in Nat
  BY DEF IInv, TypeInv, TypeOK, Grows
<1>2. attempt[e] <= failed[e] /\ \A s \in Servers : inMemory[s][e] <= failed[e]
  BY DEF IInv, AttemptInv
<1>3. QED
  BY <1>1, <1>2

LEMMA RowsInv ==
  ASSUME IInv, TypeInv',
         \/ \E e \in Emails : Queue(e) \/ RetryTimeComes(e) \/ GrowOld(e)
         \/ Switch \/ DeleteOldEmails \/ DeleteOldErrorEmails
  PROVE  IInv'
<1>1. UNCHANGED <<attempt, jobVars, smtpVars>>
  BY DEF Queue, RetryTimeComes, GrowOld, Switch, DeleteOldEmails, DeleteOldErrorEmails,
         Delete, rowVars
<1>2. Grows
  BY <1>1 DEF Grows, smtpVars, IInv, TypeInv, TypeOK
<1>3. AttemptInv'
  BY <1>1, <1>2, AttemptFrame DEF jobVars
<1>4. \A s \in Servers : OutcomeInv(s)'
  BY <1>1, <1>2, OthersKeepOutcome DEF jobVars
<1>5. \A e \in Emails : status'[e] \in {status[e], "INITIAL", "DELETED"}
  BY DEF Queue, RetryTimeComes, GrowOld, Switch, DeleteOldEmails, DeleteOldErrorEmails,
         Delete, rowVars, IInv, TypeInv, TypeOK
<1>6. (SentWasAccepted /\ GivesUpOnlyWhenDue)'
  BY <1>2, <1>5, GrowthKeepsRows DEF SentWasAccepted, GivesUpOnlyWhenDue
<1>7. QED
  BY <1>3, <1>4, <1>6 DEF IInv

\* After a failed sending, of any kind, its outcome is justified.
LEMMA ExceptionInv ==
  ASSUME IInv, TypeInv', NEW s \in Servers, job[s].email \in Emails,
         HandleEmailException(s), Grows, UNCHANGED rowVars
  PROVE  IInv'
<1> DEFINE e == job[s].email
<1> USE LimitsAssumption
<1>1. /\ inMemory[s][e] \in Nat /\ failed[e] \in Nat /\ inMemory[s][e] <= failed[e]
      /\ inMemory'[s][e] \in Nat /\ failed'[e] \in Nat
  BY DEF IInv, TypeInv, TypeOK, AttemptInv
<1>2. /\ job'[s].pc = "commit" /\ job'[s].outcome \in {"RETRY", "ERROR"}
      /\ job'[s].email = e
      /\ \A t \in Servers : t # s => job'[t] = job[t] /\ inMemory'[t] = inMemory[t]
      /\ failed'[e] = failed[e] + 1
      /\ inMemory'[s][e] <= inMemory[s][e] + 1
      /\ \A d \in Emails : d # e => inMemory'[s][d] = inMemory[s][d]
      /\ job'[s].outcome = "ERROR" => e \in BadAddress \/ inMemory[s][e] + 1 >= MaxAttempts
      /\ job'[s].outcome = "RETRY" => e \notin BadAddress
  BY ExceptionFields DEF IInv, TypeInv
<1>3. OutcomeInv(s)'
  BY <1>1, <1>2 DEF OutcomeInv
<1>4. \A t \in Servers : OutcomeInv(t)'
  BY <1>2, <1>3, OthersKeepOutcome
<1>5. AttemptInv'
  <2> SUFFICES ASSUME NEW d \in Emails
               PROVE  attempt[d] <= failed'[d] /\ \A t \in Servers : inMemory'[t][d] <= failed'[d]
    BY DEF AttemptInv, rowVars
  <2>1. /\ attempt[d] \in Nat /\ failed[d] \in Nat /\ failed'[d] \in Nat
        /\ failed'[d] >= failed[d]
        /\ \A t \in Servers : inMemory[t][d] \in Nat /\ inMemory'[t][d] \in Nat
    BY DEF IInv, TypeInv, TypeOK, Grows
  <2>2. attempt[d] <= failed[d] /\ \A t \in Servers : inMemory[t][d] <= failed[d]
    BY DEF IInv, AttemptInv
  <2>3. inMemory'[s][d] <= failed'[d]
    <3>1. CASE d = e
      BY <1>1, <1>2, <3>1
    <3>2. CASE d # e
      BY <1>2, <2>1, <2>2, <3>2
    <3>3. QED
      BY <3>1, <3>2
  <2>4. \A t \in Servers : t # s => inMemory'[t][d] <= failed'[d]
    BY <1>2, <2>1, <2>2
  <2>5. QED
    BY <2>1, <2>2, <2>3, <2>4
<1>6. (SentWasAccepted /\ GivesUpOnlyWhenDue)'
  BY QuietStep DEF rowVars
<1>7. QED
  BY <1>4, <1>5, <1>6 DEF IInv

\* A job that leaves, starts over or goes on without a new outcome, with the
\* rows and counters as they were.
LEMMA NoOutcomeStep ==
  ASSUME IInv, TypeInv', NEW s \in Servers, job'[s].pc # "commit",
         \A t \in Servers : t # s => job'[t] = job[t],
         UNCHANGED <<status, attempt, inMemory, smtpVars>>
  PROVE  IInv'
<1>1. Grows
  BY DEF Grows, smtpVars, IInv, TypeInv, TypeOK
<1>2. \A t \in Servers : OutcomeInv(t)'
  BY <1>1, OthersKeepOutcome DEF OutcomeInv
<1>3. QED
  BY <1>1, <1>2, AttemptFrame, QuietStep DEF IInv

\* A job that reads a batch, or forgets what it read.
LEMMA NewReadStep ==
  ASSUME IInv, TypeInv', NEW s \in Servers, job'[s].pc # "commit",
         \A e \in Emails : inMemory'[s][e] \in {0, attempt[e]},
         \A t \in Servers : t # s => job'[t] = job[t] /\ inMemory'[t] = inMemory[t],
         UNCHANGED <<status, attempt, smtpVars>>
  PROVE  IInv'
<1>1. Grows
  BY DEF Grows, smtpVars, IInv, TypeInv, TypeOK
<1>2. \A t \in Servers : OutcomeInv(t)'
  BY <1>1, OthersKeepOutcome DEF OutcomeInv
<1>3. AttemptInv'
  <2> SUFFICES ASSUME NEW e \in Emails
               PROVE  attempt[e] <= failed[e] /\ \A t \in Servers : inMemory'[t][e] <= failed[e]
    BY DEF AttemptInv, smtpVars
  <2>1. attempt[e] \in Nat /\ failed[e] \in Nat
    BY DEF IInv, TypeInv, TypeOK
  <2>2. attempt[e] <= failed[e] /\ \A t \in Servers : inMemory[t][e] <= failed[e]
    BY DEF IInv, AttemptInv
  <2>3. inMemory'[s][e] <= failed[e]
    BY <2>1, <2>2
  <2>4. QED
    BY <2>2, <2>3
<1>4. QED
  BY <1>1, <1>2, <1>3, QuietStep DEF IInv

LEMMA WorkInv == ASSUME IInv, TypeInv', NEW s \in Servers, Work(s) PROVE IInv'
<1>0. TypeOK
  BY DEF IInv, TypeInv
<1>1. CASE FindUnsentEmails(s)
  BY <1>0, <1>1, FindFields, NewReadStep DEF FindUnsentEmails, rowVars
<1>2. CASE NextEmail(s)
  BY <1>0, <1>2, NextFields, NoOutcomeStep DEF NextEmail, rowVars
<1>3. CASE EndBatch(s)
  BY <1>0, <1>3, IdleFields, NewReadStep DEF EndBatch, rowVars
<1>4. CASE Accepted(s)
  <2> DEFINE e == job[s].email
  <2>1. e \in Emails
    BY <1>4 DEF Accepted, IInv, TypeInv, EmailInv
  <2>2. Grows /\ accepted'[e] > 0
    BY <1>0, <1>4, <2>1 DEF Accepted, Grows, TypeOK
  <2>3. /\ job'[s].pc = "commit" /\ job'[s].outcome = "SENT" /\ job'[s].email = e
        /\ \A t \in Servers : t # s => job'[t] = job[t]
    BY <1>0, <1>4, OutcomeFields DEF Accepted
  <2>4. OutcomeInv(s)'
    BY <2>2, <2>3 DEF OutcomeInv
  <2>5. \A t \in Servers : OutcomeInv(t)'
    BY <2>2, <2>3, <2>4, OthersKeepOutcome
  <2>6. QED
    BY <1>4, <2>2, <2>5, AttemptFrame, QuietStep DEF Accepted, rowVars, IInv
<1>5. CASE Rejected(s)
  <2>1. job[s].email \in Emails
    BY <1>5 DEF Rejected, IInv, TypeInv, EmailInv
  <2>2. failed'[job[s].email] = failed[job[s].email] + 1
        /\ \A e \in Emails : e # job[s].email => failed'[e] = failed[e]
    BY <1>0, <1>5, <2>1, ExceptionFields DEF Rejected
  <2>3. Grows
    BY <1>0, <1>5, <2>2 DEF Rejected, Grows, TypeOK
  <2>4. QED
    BY <1>5, <2>1, <2>3, ExceptionInv DEF Rejected
<1>6. CASE Commit(s)
  <2> DEFINE e == job[s].email
  <2>1. e \in Emails /\ job[s].pc = "commit" /\ OutcomeInv(s)
    BY <1>6 DEF Commit, IInv, TypeInv, EmailInv
  <2>2. job'[s].pc = "next" /\ \A t \in Servers : t # s => job'[t] = job[t]
    BY <1>0, <1>6, LeaveFields DEF Commit
  <2>3. CASE status[e] = "DELETED"
    BY <1>6, <2>2, <2>3, NoOutcomeStep DEF Commit, rowVars
  <2>4. CASE status[e] # "DELETED"
    <3>1. /\ status' = [status EXCEPT ![e] = job[s].outcome]
          /\ attempt' = [attempt EXCEPT ![e] = inMemory[s][e]]
          /\ UNCHANGED <<inMemory, smtpVars>>
      BY <1>6, <2>4 DEF Commit
    <3>2. Grows
      BY <1>0, <3>1 DEF Grows, smtpVars, TypeOK
    <3>3. \A t \in Servers : OutcomeInv(t)'
      BY <2>2, <3>2, OthersKeepOutcome DEF OutcomeInv
    <3>4. AttemptInv'
      <4>1. \A d \in Emails : attempt'[d] \in {attempt[d], inMemory[s][d]}
        BY <1>0, <3>1 DEF TypeOK
      <4>2. QED
        BY <3>1, <4>1 DEF IInv, AttemptInv, smtpVars
    <3>5. status'[e] = job[s].outcome /\ \A d \in Emails : d # e => status'[d] = status[d]
      BY <1>0, <2>1, <3>1 DEF TypeOK
    <3>6. (SentWasAccepted /\ GivesUpOnlyWhenDue)'
      BY <2>1, <3>1, <3>5 DEF IInv, OutcomeInv, SentWasAccepted, GivesUpOnlyWhenDue, smtpVars
    <3>7. QED
      BY <3>3, <3>4, <3>6 DEF IInv
  <2>5. QED
    BY <2>3, <2>4
<1>7. QED
  BY <1>1, <1>2, <1>3, <1>4, <1>5, <1>6 DEF Work

LEMMA FaultsInv == ASSUME IInv, TypeInv', NEW s \in Servers, Faults(s) PROVE IInv'
<1>0. TypeOK
  BY DEF IInv, TypeInv
<1>1. CASE Unacknowledged(s)
  <2>1. job[s].email \in Emails
    BY <1>1 DEF Unacknowledged, IInv, TypeInv, EmailInv
  <2>2. failed'[job[s].email] = failed[job[s].email] + 1
        /\ \A e \in Emails : e # job[s].email => failed'[e] = failed[e]
    BY <1>0, <1>1, <2>1, ExceptionFields DEF Unacknowledged
  <2>3. \A e \in Emails : accepted'[e] >= accepted[e]
    BY <1>0, <1>1 DEF Unacknowledged, TypeOK
  <2>4. Grows
    BY <1>0, <2>2, <2>3 DEF Grows, TypeOK
  <2>5. QED
    BY <1>1, <2>1, <2>4, ExceptionInv DEF Unacknowledged
<1>2. CASE CommitFailsOnLock(s)
  <2>1. SendAgain(s) \/ Leave(s)
    BY <1>2 DEF CommitFailsOnLock
  <2>2. job'[s].pc # "commit" /\ \A t \in Servers : t # s => job'[t] = job[t]
    BY <1>0, <2>1, RetryFields, LeaveFields
  <2>3. QED
    BY <1>2, <2>2, NoOutcomeStep DEF CommitFailsOnLock, rowVars
<1>3. CASE SendingFails(s)
  BY <1>0, <1>3, LeaveFields, NoOutcomeStep DEF SendingFails, rowVars
<1>4. CASE Crash(s)
  BY <1>0, <1>4, IdleFields, NewReadStep DEF Crash, rowVars
<1>5. QED
  BY <1>1, <1>2, <1>3, <1>4 DEF Faults

LEMMA StepInv == IInv /\ [Next]_vars => IInv'
<1> SUFFICES ASSUME IInv, [Next]_vars PROVE IInv'
  OBVIOUS
<1>1. TypeInv'
  BY StepType DEF IInv
<1>2. CASE UNCHANGED vars
  <2>1. UNCHANGED <<status, attempt, job, inMemory, accepted, failed>>
    BY <1>2 DEF vars, rowVars, jobVars, smtpVars
  <2>2. (AttemptInv /\ SentWasAccepted /\ GivesUpOnlyWhenDue)'
    BY <2>1 DEF IInv, AttemptInv, SentWasAccepted, GivesUpOnlyWhenDue
  <2>3. \A s \in Servers : OutcomeInv(s)'
    BY <2>1 DEF IInv, OutcomeInv
  <2>4. QED
    BY <1>1, <2>2, <2>3 DEF IInv
<1>3. CASE Next
  BY <1>1, <1>3, RowsInv, WorkInv, FaultsInv DEF Next
<1>4. QED
  BY <1>2, <1>3

LEMMA Invariance == Spec => []IInv
BY InitInv, StepInv, PTL DEF Spec

\* A mail is SENT only if an SMTP server took it, whatever retries, crashes,
\* rollbacks and stale batches of other servers do.
THEOREM SentAccepted == Spec => []SentWasAccepted
<1>1. IInv => SentWasAccepted
  BY DEF IInv
<1>2. QED
  BY <1>1, Invariance, PTL

\* A mail is given up only for its address or after MaxAttempts failures.
THEOREM GivenUpDue == Spec => []GivesUpOnlyWhenDue
<1>1. IInv => GivesUpOnlyWhenDue
  BY DEF IInv
<1>2. QED
  BY <1>1, Invariance, PTL

-----------------------------------------------------------------------------
(* One server: a mail arrives once, and SENT is final. *)

OneServer == \A s, t \in Servers : s = t

\* The mails of a batch are still unsent, or deleted, until their outcome is
\* committed, and none of them is in the batch twice.
Open == RetryStatus \cup {"DELETED"}
BatchInv(s) ==
    /\ \A e \in job[s].todo : status[e] \in Open
    /\ job[s].pc \in {"send", "commit"} =>
          job[s].email \notin job[s].todo /\ status[job[s].email] \in Open

\* A mail that arrived is neither in the rest of a batch nor being sent again,
\* and is SENT or about to be.
Once(e) ==
    /\ accepted[e] <= 1
    /\ accepted[e] = 1 =>
          /\ \A s \in Servers :
                /\ e \notin job[s].todo
                /\ job[s].pc = "send" => job[s].email # e
                /\ job[s].pc = "commit" /\ job[s].email = e => job[s].outcome = "SENT"
          /\ \/ status[e] \in {"SENT", "DELETED"}
             \/ \E s \in Servers : job[s].pc = "commit" /\ job[s].email = e

SingleInv == /\ OneServer /\ TypeInv
             /\ \A s \in Servers : BatchInv(s)
             /\ faults = 0 => \A e \in Emails : Once(e)

LEMMA SingleInit == OneServer /\ Init => SingleInv
<1> SUFFICES ASSUME OneServer, Init PROVE SingleInv
  OBVIOUS
<1>1. TypeInv
  BY InitType
<1>2. \A s \in Servers : job[s].pc = "idle" /\ job[s].todo = {}
  BY DEF Init, IdleJob, Between
<1>3. \A e \in Emails : accepted[e] = 0
  BY DEF Init
<1>4. \A s \in Servers : BatchInv(s)
  BY <1>2 DEF BatchInv
<1>5. \A e \in Emails : Once(e)
  BY <1>3 DEF Once
<1>6. QED
  BY <1>1, <1>4, <1>5 DEF SingleInv

\* Rows only become INITIAL when they are queued and DELETED when they are
\* deleted; neither disturbs a batch or a mail that arrived.
LEMMA SingleRows ==
  ASSUME SingleInv, TypeInv',
         \/ \E e \in Emails : Queue(e) \/ RetryTimeComes(e) \/ GrowOld(e)
         \/ Switch \/ DeleteOldEmails \/ DeleteOldErrorEmails
  PROVE  SingleInv'
<1>1. UNCHANGED <<job, accepted, faults>>
  BY DEF Queue, RetryTimeComes, GrowOld, Switch, DeleteOldEmails, DeleteOldErrorEmails,
         Delete, rowVars, jobVars, smtpVars
<1>2. \A e \in Emails : \/ status'[e] = status[e]
                        \/ status[e] = "NONE" /\ status'[e] = "INITIAL"
                        \/ status'[e] = "DELETED"
  BY DEF Queue, RetryTimeComes, GrowOld, Switch, DeleteOldEmails, DeleteOldErrorEmails,
         Delete, rowVars, SingleInv, TypeInv, TypeOK
<1>3. ASSUME NEW s \in Servers PROVE BatchInv(s)'
  <2>1. BatchInv(s) /\ job[s].todo \in SUBSET Emails
    BY DEF SingleInv, TypeInv, TypeOK, JobState
  <2>2. job[s].pc \in {"send", "commit"} => job[s].email \in Emails
    BY DEF SingleInv, TypeInv, EmailInv
  <2>3. \A e \in Emails : status[e] \in Open => status'[e] \in Open
    BY <1>2 DEF Open, RetryStatus
  <2>4. QED
    BY <1>1, <2>1, <2>2, <2>3 DEF BatchInv
<1>4. ASSUME faults = 0, NEW e \in Emails PROVE Once(e)'
  <2>1. Once(e)
    BY <1>4 DEF SingleInv
  <2>2. CASE accepted[e] = 1
    <3>1. CASE status[e] \in {"SENT", "DELETED"}
      BY <1>1, <1>2, <2>1, <3>1 DEF Once
    <3>2. CASE \E s \in Servers : job[s].pc = "commit" /\ job[s].email = e
      BY <1>1, <2>1, <3>2 DEF Once
    <3>3. QED
      BY <2>1, <2>2, <3>1, <3>2 DEF Once
  <2>3. QED
    BY <1>1, <2>1, <2>2 DEF Once
<1>5. QED
  BY <1>1, <1>3, <1>4 DEF SingleInv, OneServer

\* After a fault nothing is promised but that no mail is in the batch twice.
LEMMA SingleFaults ==
  ASSUME SingleInv, TypeInv', NEW s \in Servers, Faults(s)
  PROVE  SingleInv'
<1>0. TypeOK /\ BatchInv(s) /\ EmailInv
  BY DEF SingleInv, TypeInv
<1>1. faults' # 0
  BY <1>0 DEF Faults, Unacknowledged, CommitFailsOnLock, SendingFails, Crash, Fault, TypeOK
<1>2. UNCHANGED status
  BY DEF Faults, Unacknowledged, CommitFailsOnLock, SendingFails, Crash, rowVars
<1>3. /\ job'[s].todo \subseteq job[s].todo
      /\ job'[s].pc \in {"send", "commit"} =>
            job[s].pc \in {"send", "commit"} /\ job'[s].email = job[s].email
  <2>1. CASE Unacknowledged(s)
    <3>1. job[s].pc = "send" /\ job[s].email \in Emails
      BY <1>0, <2>1 DEF Unacknowledged, EmailInv
    <3>2. QED
      BY <1>0, <2>1, <3>1, ExceptionFields DEF Unacknowledged
  <2>2. CASE CommitFailsOnLock(s)
    <3>1. job[s].pc = "commit" /\ (SendAgain(s) \/ Leave(s))
      BY <2>2 DEF CommitFailsOnLock
    <3>2. QED
      BY <1>0, <3>1, RetryFields, LeaveFields
  <2>3. CASE SendingFails(s)
    BY <1>0, <2>3, LeaveFields DEF SendingFails
  <2>4. CASE Crash(s)
    BY <1>0, <2>4, IdleFields DEF Crash
  <2>5. QED
    BY <2>1, <2>2, <2>3, <2>4 DEF Faults
<1>4. BatchInv(s)'
  BY <1>0, <1>2, <1>3 DEF BatchInv
<1>5. QED
  BY <1>1, <1>4 DEF SingleInv, OneServer

LEMMA SingleWork ==
  ASSUME SingleInv, TypeInv', NEW s \in Servers, Work(s)
  PROVE  SingleInv'
<1> DEFINE e == job[s].email
<1>0. TypeOK /\ EmailInv /\ BatchInv(s) /\ \A t \in Servers : t = s
  BY DEF SingleInv, TypeInv, OneServer
<1>1. UNCHANGED faults
  BY DEF Work, FindUnsentEmails, NextEmail, EndBatch, Accepted, Rejected, Commit
<1>2. SUFFICES BatchInv(s)' /\ (faults = 0 => \A d \in Emails : Once(d)')
  BY <1>0, <1>1 DEF SingleInv, OneServer
<1>3. faults = 0 => \A d \in Emails : Once(d) /\ accepted[d] \in Nat
  BY <1>0 DEF SingleInv, TypeOK
<1>4. CASE FindUnsentEmails(s)
  <2>1. job[s].pc = "idle" /\ UNCHANGED <<status, accepted>>
    BY <1>4 DEF FindUnsentEmails, rowVars, smtpVars
  <2>2. job'[s].pc = "next" /\ \A d \in job'[s].todo : status[d] \in RetryStatus
    BY <1>0, <1>4, FindFields
  <2>3. BatchInv(s)'
    BY <2>1, <2>2 DEF BatchInv, Open
  <2>4. ASSUME faults = 0, NEW d \in Emails PROVE Once(d)'
    <3>1. accepted[d] = 1 => status[d] \in {"SENT", "DELETED"} /\ d \notin job'[s].todo
      BY <1>0, <1>3, <2>1, <2>2, <2>4 DEF Once, RetryStatus
    <3>2. QED
      BY <1>0, <1>3, <2>1, <2>2, <2>4, <3>1 DEF Once
  <2>5. QED
    BY <2>3, <2>4
<1>5. CASE NextEmail(s)
  <2>1. job[s].pc = "next" /\ UNCHANGED <<status, accepted>>
    BY <1>5 DEF NextEmail, rowVars, smtpVars
  <2>2. /\ job'[s].pc = "send" /\ job'[s].email \in job[s].todo
        /\ job'[s].todo = job[s].todo \ {job'[s].email}
    BY <1>0, <1>5, NextFields
  <2>3. BatchInv(s)'
    BY <1>0, <2>1, <2>2 DEF BatchInv
  <2>4. ASSUME faults = 0, NEW d \in Emails PROVE Once(d)'
    BY <1>0, <1>3, <2>1, <2>2, <2>4 DEF Once
  <2>5. QED
    BY <2>3, <2>4
<1>6. CASE EndBatch(s)
  <2>1. job[s].pc = "next" /\ UNCHANGED <<status, accepted>>
    BY <1>6 DEF EndBatch, rowVars, smtpVars
  <2>2. job'[s].pc = "idle" /\ job'[s].todo = {}
    BY <1>0, <1>6, IdleFields DEF EndBatch
  <2>3. BatchInv(s)'
    BY <2>2 DEF BatchInv
  <2>4. ASSUME faults = 0, NEW d \in Emails PROVE Once(d)'
    BY <1>0, <1>3, <2>1, <2>2, <2>4 DEF Once
  <2>5. QED
    BY <2>3, <2>4
<1>7. CASE Accepted(s)
  <2>1. job[s].pc = "send" /\ e \in Emails /\ UNCHANGED status
    BY <1>0, <1>7 DEF Accepted, EmailInv, rowVars
  <2>2. /\ job'[s].pc = "commit" /\ job'[s].outcome = "SENT"
        /\ job'[s].email = e /\ job'[s].todo = job[s].todo
    BY <1>0, <1>7, OutcomeFields DEF Accepted
  <2>3. BatchInv(s)'
    BY <1>0, <2>1, <2>2 DEF BatchInv
  <2>4. ASSUME faults = 0, NEW d \in Emails PROVE Once(d)'
    <3>1. CASE d = e
      <4>1. accepted[d] = 0
        BY <1>3, <2>1, <2>4, <3>1 DEF Once
      <4>2. accepted'[d] = 1
        BY <1>0, <1>7, <2>1, <3>1, <4>1 DEF Accepted, TypeOK
      <4>3. d \notin job'[s].todo
        BY <1>0, <2>1, <2>2, <3>1 DEF BatchInv
      <4>4. QED
        BY <1>0, <2>2, <3>1, <4>2, <4>3 DEF Once
    <3>2. CASE d # e
      <4>1. accepted'[d] = accepted[d]
        BY <1>0, <1>7, <3>2 DEF Accepted, TypeOK
      <4>2. QED
        BY <1>0, <1>3, <2>1, <2>2, <2>4, <3>2, <4>1 DEF Once
    <3>3. QED
      BY <3>1, <3>2
  <2>5. QED
    BY <2>3, <2>4
<1>8. CASE Rejected(s)
  <2>1. job[s].pc = "send" /\ e \in Emails /\ UNCHANGED <<status, accepted>>
    BY <1>0, <1>8 DEF Rejected, EmailInv, rowVars
  <2>2. job'[s].pc = "commit" /\ job'[s].email = e /\ job'[s].todo = job[s].todo
    BY <1>0, <1>8, <2>1, ExceptionFields DEF Rejected
  <2>3. BatchInv(s)'
    BY <1>0, <2>1, <2>2 DEF BatchInv
  <2>4. ASSUME faults = 0, NEW d \in Emails PROVE Once(d)'
    BY <1>0, <1>3, <2>1, <2>2, <2>4 DEF Once
  <2>5. QED
    BY <2>3, <2>4
<1>9. CASE Commit(s)
  <2>1. job[s].pc = "commit" /\ e \in Emails /\ UNCHANGED accepted
    BY <1>0, <1>9 DEF Commit, EmailInv, smtpVars
  <2>2. job'[s].pc = "next" /\ job'[s].todo = job[s].todo
    BY <1>0, <1>9, LeaveFields DEF Commit
  <2>3. /\ status'[e] \in {"DELETED", job[s].outcome}
        /\ \A d \in Emails : d # e => status'[d] = status[d]
    BY <1>0, <1>9, <2>1 DEF Commit, TypeOK, rowVars
  <2>4. BatchInv(s)'
    <3>1. e \notin job[s].todo /\ job[s].todo \in SUBSET Emails
      BY <1>0, <2>1 DEF BatchInv, TypeOK, JobState
    <3>2. QED
      BY <1>0, <2>2, <2>3, <3>1 DEF BatchInv
  <2>5. ASSUME faults = 0, NEW d \in Emails PROVE Once(d)'
    <3>1. CASE d = e
      <4>1. accepted[d] = 1 => status'[d] \in {"SENT", "DELETED"}
        BY <1>3, <2>1, <2>3, <2>5, <3>1 DEF Once
      <4>2. QED
        BY <1>0, <1>3, <2>1, <2>2, <2>5, <4>1 DEF Once
    <3>2. CASE d # e
      <4>1. status'[d] = status[d]
        BY <2>3, <3>2
      <4>2. accepted[d] = 1 => status[d] \in {"SENT", "DELETED"}
        BY <1>0, <1>3, <2>5, <3>2 DEF Once
      <4>3. QED
        BY <1>0, <1>3, <2>1, <2>2, <2>5, <4>1, <4>2 DEF Once
    <3>3. QED
      BY <3>1, <3>2
  <2>6. QED
    BY <2>4, <2>5
<1>10. QED
  BY <1>4, <1>5, <1>6, <1>7, <1>8, <1>9 DEF Work

LEMMA SingleStep == SingleInv /\ [Next]_vars => SingleInv'
<1> SUFFICES ASSUME SingleInv, [Next]_vars PROVE SingleInv'
  OBVIOUS
<1>1. TypeInv'
  BY StepType DEF SingleInv
<1>2. CASE UNCHANGED vars
  <2>1. UNCHANGED <<status, job, accepted, faults>>
    BY <1>2 DEF vars, rowVars, jobVars, smtpVars
  <2>2. QED
    BY <1>1, <2>1 DEF SingleInv, BatchInv, Once, OneServer
<1>3. CASE Next
  BY <1>1, <1>3, SingleRows, SingleWork, SingleFaults DEF Next
<1>4. QED
  BY <1>2, <1>3

\* On one server a mail arrives twice only if a fault struck: between the SMTP
\* conversation and the commit, in effect.
THEOREM ArrivesOnce == OneServer /\ Spec => []DuplicateNeedsFault
<1>1. SingleInv => DuplicateNeedsFault
  BY DEF SingleInv, TypeInv, TypeOK, Once, DuplicateNeedsFault
<1>2. QED
  BY <1>1, SingleInit, SingleStep, PTL DEF Spec

\* On one server SENT stays SENT until the row is deleted.
THEOREM SentStays == OneServer /\ Spec => SentIsFinal
<1> DEFINE Final == \A e \in Emails : status[e] = "SENT" => status'[e] \in {"SENT", "DELETED"}
<1>1. SingleInv /\ [Next]_vars => [Final]_vars
  <2> SUFFICES ASSUME SingleInv, [Next]_vars, NEW e \in Emails, status[e] = "SENT"
               PROVE  UNCHANGED vars \/ status'[e] \in {"SENT", "DELETED"}
    OBVIOUS
  <2>0. TypeOK
    BY DEF SingleInv, TypeInv
  <2>1. ASSUME NEW d \in Emails, Queue(d) \/ RetryTimeComes(d) \/ GrowOld(d)
        PROVE  status'[e] = "SENT"
    BY <2>0, <2>1 DEF Queue, RetryTimeComes, GrowOld, TypeOK
  <2>2. ASSUME Switch \/ DeleteOldEmails \/ DeleteOldErrorEmails
        PROVE  status'[e] \in {"SENT", "DELETED"}
    BY <2>2 DEF Switch, DeleteOldEmails, DeleteOldErrorEmails, Delete, rowVars
  <2>3. ASSUME NEW s \in Servers, Work(s)
        PROVE  status'[e] = "SENT"
    <3>1. CASE Commit(s)
      <4>1. job[s].pc = "commit" /\ BatchInv(s)
        BY <3>1 DEF Commit, SingleInv
      <4>2. e # job[s].email
        BY <4>1 DEF BatchInv, Open, RetryStatus
      <4>3. QED
        BY <2>0, <3>1, <4>2 DEF Commit, TypeOK, rowVars
    <3>2. CASE ~Commit(s)
      BY <2>3, <3>2 DEF Work, FindUnsentEmails, NextEmail, EndBatch, Accepted, Rejected, rowVars
    <3>3. QED
      BY <3>1, <3>2
  <2>4. ASSUME NEW s \in Servers, Faults(s)
        PROVE  status'[e] = "SENT"
    BY <2>4 DEF Faults, Unacknowledged, CommitFailsOnLock, SendingFails, Crash, rowVars
  <2>5. QED
    BY <2>1, <2>2, <2>3, <2>4 DEF Next
<1>2. QED
  BY <1>1, SingleInit, SingleStep, PTL DEF Spec, SentIsFinal

-----------------------------------------------------------------------------
(* One server: attempts are bounded. *)

Tried(e) == failed[e] + accepted[e]
Waits(e) == status[e] \in RetryStatus \cup {"NONE"}
Committing(s, e) == job[s].pc = "commit" /\ job[s].email = e
ToSend(s, e) == e \in job[s].todo \/ (job[s].pc = "send" /\ job[s].email = e)

\* Every conversation about a mail is counted by an attempt or by a fault: in
\* the row, but for the one whose outcome is to be committed, and in the object
\* of the batch, but for the last one, which gives no other try.
Count(e) ==
    /\ attempt[e] < MaxAttempts
    /\ Tried(e) <= MaxAttempts + faults
    /\ Waits(e) => /\ Tried(e) <= attempt[e] + faults + 1
                   /\ (\A s \in Servers : ~Committing(s, e)) => Tried(e) <= attempt[e] + faults
    /\ \A s \in Servers :
          /\ inMemory[s][e] < MaxAttempts
          /\ ToSend(s, e) => Tried(e) <= inMemory[s][e] + faults
          /\ Committing(s, e) =>
                /\ job[s].outcome # "NONE"
                /\ Tried(e) <= inMemory[s][e] + faults + 1
                /\ job[s].outcome = "RETRY" => Tried(e) <= inMemory[s][e] + faults

CountInv == SingleInv /\ (MaxAttempts > 0 => \A e \in Emails : Count(e))

LEMMA CountTypes ==
  ASSUME TypeOK, NEW e \in Emails
  PROVE  /\ attempt[e] \in Nat /\ Tried(e) \in Nat /\ faults \in Nat
         /\ failed[e] \in Nat /\ accepted[e] \in Nat
         /\ \A s \in Servers : inMemory[s][e] \in Nat
BY LimitsAssumption DEF TypeOK, Tried

LEMMA CountInit == OneServer /\ Init => CountInv
<1> SUFFICES ASSUME OneServer, Init, MaxAttempts > 0, NEW e \in Emails PROVE Count(e)
  BY SingleInit DEF CountInv
<1>1. \A s \in Servers : job[s].pc = "idle" /\ job[s].todo = {} /\ inMemory[s][e] = 0
  BY DEF Init, IdleJob, Between, NothingRead
<1>2. Tried(e) = 0 /\ attempt[e] = 0 /\ faults = 0
  BY DEF Init, Tried
<1>3. QED
  BY <1>1, <1>2, LimitsAssumption DEF Count, ToSend, Committing

\* A mail that no step of the conversation touches: its batch may lose it, and
\* the commit of its outcome may fail at the price of a fault.
LEMMA CountFrame ==
  ASSUME TypeOK, TypeOK', MaxAttempts > 0, NEW e \in Emails, Count(e),
         faults' >= faults, Tried(e)' = Tried(e), attempt'[e] = attempt[e], Waits(e)' => Waits(e),
         \A s \in Servers :
            /\ inMemory'[s][e] \in {0, inMemory[s][e]}
            /\ ToSend(s, e)' => /\ inMemory'[s][e] = inMemory[s][e]
                                /\ ToSend(s, e) \/ (Committing(s, e) /\ faults' > faults)
            /\ Committing(s, e)' => /\ inMemory'[s][e] = inMemory[s][e]
                                    /\ Committing(s, e) /\ job'[s].outcome = job[s].outcome
            /\ Committing(s, e) => Committing(s, e)' \/ faults' > faults
  PROVE  Count(e)'
<1> DEFINE n == Tried(e)
           m == Tried(e)'
<1>1. /\ attempt[e] \in Nat /\ n \in Nat /\ faults \in Nat /\ MaxAttempts \in Nat
      /\ \A s \in Servers : inMemory[s][e] \in Nat
      /\ m = n /\ faults' \in Nat
  BY CountTypes, LimitsAssumption DEF TypeOK
<1>2. /\ attempt[e] < MaxAttempts /\ n <= MaxAttempts + faults
      /\ Waits(e) => /\ n <= attempt[e] + faults + 1
                     /\ (\A s \in Servers : ~Committing(s, e)) => n <= attempt[e] + faults
      /\ \A s \in Servers :
            /\ inMemory[s][e] < MaxAttempts
            /\ ToSend(s, e) => n <= inMemory[s][e] + faults
            /\ Committing(s, e) =>
                  /\ job[s].outcome # "NONE"
                  /\ n <= inMemory[s][e] + faults + 1
                  /\ job[s].outcome = "RETRY" => n <= inMemory[s][e] + faults
  BY DEF Count
<1> HIDE DEF n, m
<1>3. attempt'[e] < MaxAttempts /\ m <= MaxAttempts + faults'
  BY <1>1, <1>2
<1>4. ASSUME Waits(e)'
      PROVE  /\ m <= attempt'[e] + faults' + 1
             /\ (\A s \in Servers : ~Committing(s, e)') => m <= attempt'[e] + faults'
  <2>1. m <= attempt'[e] + faults' + 1
    BY <1>1, <1>2, <1>4
  <2>2. ASSUME \A s \in Servers : ~Committing(s, e)' PROVE m <= attempt'[e] + faults'
    <3>1. CASE \A s \in Servers : ~Committing(s, e)
      BY <1>1, <1>2, <1>4, <3>1
    <3>2. CASE faults' > faults
      BY <1>1, <1>2, <1>4, <3>2
    <3>3. QED
      BY <2>2, <3>1, <3>2
  <2>3. QED
    BY <2>1, <2>2
<1>5. ASSUME NEW s \in Servers
      PROVE  /\ inMemory'[s][e] < MaxAttempts
             /\ ToSend(s, e)' => m <= inMemory'[s][e] + faults'
             /\ Committing(s, e)' =>
                   /\ job'[s].outcome # "NONE"
                   /\ m <= inMemory'[s][e] + faults' + 1
                   /\ job'[s].outcome = "RETRY" => m <= inMemory'[s][e] + faults'
  BY <1>1, <1>2
<1>6. QED
  BY <1>3, <1>4, <1>5 DEF Count, m

LEMMA CountRows ==
  ASSUME SingleInv, TypeOK', MaxAttempts > 0, NEW e \in Emails, Count(e),
         \/ \E d \in Emails : Queue(d) \/ RetryTimeComes(d) \/ GrowOld(d)
         \/ Switch \/ DeleteOldEmails \/ DeleteOldErrorEmails
         \/ UNCHANGED vars
  PROVE  Count(e)'
<1>0. TypeOK
  BY DEF SingleInv, TypeInv
<1>1. UNCHANGED <<attempt, job, inMemory, accepted, failed, faults>>
  BY DEF Queue, RetryTimeComes, GrowOld, Switch, DeleteOldEmails, DeleteOldErrorEmails,
         Delete, rowVars, jobVars, smtpVars, vars
<1>2. \/ status'[e] \in {status[e], "DELETED"}
      \/ status[e] = "NONE" /\ status'[e] = "INITIAL"
  BY <1>0 DEF Queue, RetryTimeComes, GrowOld, Switch, DeleteOldEmails, DeleteOldErrorEmails,
         Delete, rowVars, vars, TypeOK
<1>3. Waits(e)' => Waits(e)
  BY <1>2 DEF Waits, RetryStatus
<1>4. /\ faults' >= faults /\ Tried(e)' = Tried(e) /\ attempt'[e] = attempt[e]
      /\ \A s \in Servers : /\ inMemory'[s][e] = inMemory[s][e] /\ job'[s] = job[s]
                            /\ ToSend(s, e)' = ToSend(s, e)
                            /\ Committing(s, e)' = Committing(s, e)
  BY <1>0, <1>1, CountTypes DEF Tried, ToSend, Committing
<1>5. QED
  BY <1>0, <1>3, <1>4, CountFrame

\* What handleEmailException counts.
LEMMA ExceptionCount ==
  ASSUME TypeOK, NEW s \in Servers, job[s].email \in Emails, HandleEmailException(s),
         inMemory[s][job[s].email] < MaxAttempts
  PROVE  LET e == job[s].email
         IN  /\ inMemory'[s][e] < MaxAttempts
             /\ job'[s].outcome = "RETRY" => inMemory'[s][e] = inMemory[s][e] + 1
             /\ inMemory'[s][e] >= inMemory[s][e]
<1> DEFINE e == job[s].email
           again == inMemory[s][e] + 1 < MaxAttempts /\ e \notin BadAddress
           outcome == IF again THEN "RETRY" ELSE "ERROR"
<1>1. job'[s].outcome = outcome
  <2>1. job' = [job EXCEPT ![s].pc = "commit", ![s].outcome = outcome]
    BY DEF HandleEmailException
  <2> HIDE DEF outcome
  <2>2. QED
    BY <2>1, OutcomeFields
<1>2. inMemory[s] \in [Emails -> Nat] /\ MaxAttempts \in Nat
  BY LimitsAssumption DEF TypeOK
<1>3. inMemory'[s] = [inMemory[s] EXCEPT ![e] = IF again THEN @ + 1 ELSE @]
  BY DEF HandleEmailException, TypeOK
<1>4. inMemory'[s][e] = IF again THEN inMemory[s][e] + 1 ELSE inMemory[s][e]
  BY <1>2, <1>3
<1>5. QED
  BY <1>1, <1>2, <1>4

\* A failed sending, with or without the mail having been taken: one more
\* failure, and one more acceptance at the price of a fault.
LEMMA CountException ==
  ASSUME SingleInv, TypeOK', MaxAttempts > 0, NEW s \in Servers, NEW e \in Emails, Count(e),
         job[s].pc = "send", job[s].email \in Emails, HandleEmailException(s), UNCHANGED rowVars,
         \A d \in Emails : d # job[s].email => accepted'[d] = accepted[d],
         \/ accepted' = accepted /\ faults' = faults
         \/ accepted'[job[s].email] = accepted[job[s].email] + 1 /\ faults' = faults + 1
  PROVE  Count(e)'
<1> DEFINE f == job[s].email
           n == Tried(e)
           m == Tried(e)'
<1>0. TypeOK /\ BatchInv(s) /\ \A t \in Servers : t = s
  BY DEF SingleInv, TypeInv, OneServer
<1>1. /\ job'[s].pc = "commit" /\ job'[s].outcome \in {"RETRY", "ERROR"}
      /\ job'[s].email = f /\ job'[s].todo = job[s].todo
      /\ failed'[f] = failed[f] + 1
      /\ \A d \in Emails : d # f => failed'[d] = failed[d] /\ inMemory'[s][d] = inMemory[s][d]
  BY <1>0, ExceptionFields
<1>2. /\ attempt[e] \in Nat /\ n \in Nat /\ faults \in Nat /\ MaxAttempts \in Nat
      /\ inMemory[s][e] \in Nat /\ failed[e] \in Nat /\ accepted[e] \in Nat
      /\ inMemory'[s][e] \in Nat /\ faults' \in Nat /\ m \in Nat
  BY <1>0, CountTypes, LimitsAssumption DEF TypeOK, Tried
<1>3. UNCHANGED <<attempt, status>>
  BY DEF rowVars
<1>4. CASE e # f
  <2>1. Tried(e)' = Tried(e) /\ inMemory'[s][e] = inMemory[s][e]
    BY <1>1, <1>4 DEF Tried
  <2>2. /\ ToSend(s, e)' => ToSend(s, e)
        /\ ~Committing(s, e)' /\ ~Committing(s, e)
    BY <1>1, <1>4 DEF ToSend, Committing
  <2>3. faults' >= faults /\ (Waits(e)' => Waits(e))
    BY <1>2, <1>3 DEF Waits
  <2>4. QED
    BY <1>0, <1>3, <2>1, <2>2, <2>3, CountFrame
<1>5. CASE e = f
  <2>1. /\ attempt[e] < MaxAttempts /\ inMemory[s][e] < MaxAttempts
        /\ Waits(e) => n <= attempt[e] + faults
        /\ n <= inMemory[s][e] + faults
    BY <1>0, <1>5 DEF Count, ToSend, Committing
  <2>2. /\ inMemory'[s][e] < MaxAttempts
        /\ job'[s].outcome = "RETRY" => inMemory'[s][e] = inMemory[s][e] + 1
        /\ inMemory'[s][e] >= inMemory[s][e]
    BY <1>0, <1>5, <2>1, ExceptionCount
  <2>3. (m = n + 1 /\ faults' = faults) \/ (m = n + 2 /\ faults' = faults + 1)
    BY <1>1, <1>2, <1>5 DEF Tried
  <2>4. ~ToSend(s, e)' /\ Committing(s, e)' /\ (Waits(e)' <=> Waits(e))
    BY <1>0, <1>1, <1>3, <1>5 DEF ToSend, Committing, BatchInv, Waits
  <2> HIDE DEF n, m
  <2>5. /\ m <= MaxAttempts + faults'
        /\ Waits(e) => m <= attempt[e] + faults' + 1
        /\ m <= inMemory'[s][e] + faults' + 1
        /\ job'[s].outcome = "RETRY" => m <= inMemory'[s][e] + faults'
    BY <1>2, <2>1, <2>2, <2>3
  <2>6. QED
    BY <1>0, <1>1, <1>3, <2>1, <2>2, <2>4, <2>5 DEF Count, m
<1>6. QED
  BY <1>4, <1>5

LEMMA CountFaults ==
  ASSUME SingleInv, TypeOK', MaxAttempts > 0, NEW e \in Emails, Count(e),
         NEW s \in Servers, Faults(s)
  PROVE  Count(e)'
<1>0. TypeOK /\ EmailInv /\ BatchInv(s) /\ \A t \in Servers : t = s
  BY DEF SingleInv, TypeInv, OneServer
<1>1. CASE Unacknowledged(s)
  <2>1. /\ job[s].pc = "send" /\ job[s].email \in Emails /\ HandleEmailException(s)
        /\ UNCHANGED rowVars
    BY <1>0, <1>1 DEF Unacknowledged, EmailInv, rowVars
  <2>2. /\ \A d \in Emails : d # job[s].email => accepted'[d] = accepted[d]
        /\ accepted'[job[s].email] = accepted[job[s].email] + 1 /\ faults' = faults + 1
    BY <1>0, <1>1, <2>1 DEF Unacknowledged, Fault, TypeOK
  <2>3. QED
    BY <2>1, <2>2, CountException
<1>2. CASE CommitFailsOnLock(s) \/ SendingFails(s) \/ Crash(s)
  <2>1. UNCHANGED <<status, attempt, accepted, failed>> /\ faults' = faults + 1
    BY <1>2 DEF CommitFailsOnLock, SendingFails, Crash, Fault, rowVars, smtpVars
  <2>2. faults' > faults /\ faults' >= faults
    BY <1>0, <2>1, CountTypes
  <2>3. /\ inMemory'[s][e] \in {0, inMemory[s][e]}
        /\ ToSend(s, e)' => /\ inMemory'[s][e] = inMemory[s][e]
                            /\ ToSend(s, e) \/ Committing(s, e)
        /\ ~Committing(s, e)'
    <3>1. CASE CommitFailsOnLock(s)
      <4>1. /\ job[s].pc = "commit" /\ (SendAgain(s) \/ Leave(s))
            /\ UNCHANGED inMemory
        BY <3>1 DEF CommitFailsOnLock
      <4>2. CASE SendAgain(s)
        BY <1>0, <4>1, <4>2, RetryFields DEF ToSend, Committing
      <4>3. CASE Leave(s)
        BY <1>0, <4>1, <4>3, LeaveFields DEF ToSend, Committing
      <4>4. QED
        BY <4>1, <4>2, <4>3
    <3>2. CASE SendingFails(s)
      BY <1>0, <3>2, LeaveFields DEF SendingFails, ToSend, Committing
    <3>3. CASE Crash(s)
      BY <1>0, <3>3, IdleFields DEF Crash, ToSend, Committing
    <3>4. QED
      BY <1>2, <3>1, <3>2, <3>3
  <2>4. Tried(e)' = Tried(e) /\ attempt'[e] = attempt[e] /\ (Waits(e)' => Waits(e))
    BY <2>1 DEF Tried, Waits
  <2>5. QED
    BY <1>0, <2>2, <2>3, <2>4, CountFrame
<1>3. QED
  BY <1>1, <1>2 DEF Faults

LEMMA CountWork ==
  ASSUME SingleInv, TypeOK', MaxAttempts > 0, NEW e \in Emails, Count(e),
         NEW s \in Servers, Work(s)
  PROVE  Count(e)'
<1> DEFINE f == job[s].email
           n == Tried(e)
<1>0. TypeOK /\ EmailInv /\ BatchInv(s) /\ \A t \in Servers : t = s
  BY DEF SingleInv, TypeInv, OneServer
<1>1. /\ attempt[e] \in Nat /\ n \in Nat /\ faults \in Nat /\ MaxAttempts \in Nat
      /\ inMemory[s][e] \in Nat /\ failed[e] \in Nat /\ accepted[e] \in Nat
      /\ faults' = faults
  BY <1>0, CountTypes, LimitsAssumption
     DEF Work, FindUnsentEmails, NextEmail, EndBatch, Accepted, Rejected, Commit
<1>2. CASE FindUnsentEmails(s)
  <2>1. /\ job[s].pc = "idle"
        /\ UNCHANGED <<status, attempt, accepted, failed>>
    BY <1>2 DEF FindUnsentEmails, rowVars, smtpVars
  <2>2. /\ job'[s].pc = "next" /\ inMemory'[s][e] \in {0, attempt[e]}
        /\ e \in job'[s].todo => status[e] \in RetryStatus /\ inMemory'[s][e] = attempt[e]
    BY <1>0, <1>2, FindFields
  <2>3. Tried(e)' = n /\ (Waits(e)' <=> Waits(e))
    BY <2>1 DEF Tried, Waits
  <2>4. /\ ToSend(s, e)' => Waits(e) /\ inMemory'[s][e] = attempt[e]
        /\ ~Committing(s, e) /\ ~Committing(s, e)'
    BY <2>1, <2>2 DEF ToSend, Committing, Waits
  <2>5. /\ attempt[e] < MaxAttempts /\ n <= MaxAttempts + faults
        /\ Waits(e) => n <= attempt[e] + faults
    BY <1>0, <2>4 DEF Count
  <2>6. inMemory'[s][e] < MaxAttempts
    BY <1>1, <2>2, <2>5
  <2> HIDE DEF n
  <2>7. Waits(e) => n <= attempt[e] + faults + 1
    BY <1>1, <2>5
  <2>8. QED
    BY <1>0, <1>1, <2>1, <2>3, <2>4, <2>5, <2>6, <2>7 DEF Count
<1>3. CASE NextEmail(s)
  <2>1. /\ job[s].pc = "next"
        /\ UNCHANGED <<status, attempt, accepted, failed, inMemory>>
    BY <1>3 DEF NextEmail, rowVars, smtpVars
  <2>2. /\ job'[s].pc = "send" /\ job'[s].email \in job[s].todo
        /\ job'[s].todo = job[s].todo \ {job'[s].email}
    BY <1>0, <1>3, NextFields
  <2>3. /\ ToSend(s, e)' => ToSend(s, e)
        /\ ~Committing(s, e) /\ ~Committing(s, e)'
    BY <2>1, <2>2 DEF ToSend, Committing
  <2>4. Tried(e)' = Tried(e) /\ (Waits(e)' => Waits(e)) /\ faults' >= faults
    BY <1>1, <2>1 DEF Tried, Waits
  <2>5. QED
    BY <1>0, <2>1, <2>3, <2>4, CountFrame
<1>4. CASE EndBatch(s)
  <2>1. /\ job[s].pc = "next"
        /\ UNCHANGED <<status, attempt, accepted, failed>>
    BY <1>4 DEF EndBatch, rowVars, smtpVars
  <2>2. job'[s].pc = "idle" /\ job'[s].todo = {} /\ inMemory'[s][e] = 0
    BY <1>0, <1>4, IdleFields DEF EndBatch
  <2>3. ~ToSend(s, e)' /\ ~Committing(s, e) /\ ~Committing(s, e)'
    BY <2>1, <2>2 DEF ToSend, Committing
  <2>4. Tried(e)' = Tried(e) /\ (Waits(e)' => Waits(e)) /\ faults' >= faults
    BY <1>1, <2>1 DEF Tried, Waits
  <2>5. QED
    BY <1>0, <2>1, <2>2, <2>3, <2>4, CountFrame
<1>5. CASE Accepted(s)
  <2>1. /\ job[s].pc = "send" /\ f \in Emails
        /\ UNCHANGED <<status, attempt, inMemory, failed>>
    BY <1>0, <1>5 DEF Accepted, EmailInv, rowVars
  <2>2. /\ job'[s].pc = "commit" /\ job'[s].outcome = "SENT"
        /\ job'[s].email = f /\ job'[s].todo = job[s].todo
    BY <1>0, <1>5, OutcomeFields DEF Accepted
  <2>3. accepted'[e] = IF e = f THEN accepted[e] + 1 ELSE accepted[e]
    BY <1>0, <1>5, <2>1 DEF Accepted, TypeOK
  <2>4. CASE e # f
    <3>1. /\ ToSend(s, e)' => ToSend(s, e)
          /\ ~Committing(s, e) /\ ~Committing(s, e)'
      BY <2>1, <2>2, <2>4 DEF ToSend, Committing
    <3>2. Tried(e)' = Tried(e) /\ (Waits(e)' => Waits(e)) /\ faults' >= faults
      BY <1>1, <2>1, <2>3, <2>4 DEF Tried, Waits
    <3>3. QED
      BY <1>0, <2>1, <3>1, <3>2, CountFrame
  <2>5. CASE e = f
    <3>1. /\ attempt[e] < MaxAttempts /\ inMemory[s][e] < MaxAttempts
          /\ Waits(e) => n <= attempt[e] + faults
          /\ n <= inMemory[s][e] + faults
      BY <1>0, <2>1, <2>5 DEF Count, ToSend, Committing
    <3>2. Tried(e)' = n + 1
      BY <1>1, <2>1, <2>3, <2>5 DEF Tried
    <3>3. ~ToSend(s, e)' /\ Committing(s, e)' /\ (Waits(e)' <=> Waits(e))
      BY <1>0, <2>1, <2>2, <2>5 DEF ToSend, Committing, BatchInv, Waits
    <3> HIDE DEF n
    <3>4. /\ n + 1 <= MaxAttempts + faults
          /\ Waits(e) => n + 1 <= attempt[e] + faults + 1
          /\ n + 1 <= inMemory[s][e] + faults + 1
      BY <1>1, <3>1
    <3>5. QED
      BY <1>0, <1>1, <2>1, <2>2, <3>1, <3>2, <3>3, <3>4 DEF Count
  <2>6. QED
    BY <2>4, <2>5
<1>6. CASE Rejected(s)
  <2>1. /\ job[s].pc = "send" /\ job[s].email \in Emails /\ HandleEmailException(s)
        /\ UNCHANGED rowVars /\ accepted' = accepted
    BY <1>0, <1>6 DEF Rejected, EmailInv, rowVars
  <2>2. QED
    BY <1>1, <2>1, CountException
<1>7. CASE Commit(s)
  <2>1. /\ job[s].pc = "commit" /\ f \in Emails
        /\ UNCHANGED <<accepted, failed, inMemory>>
    BY <1>0, <1>7 DEF Commit, EmailInv, smtpVars
  <2>2. job'[s].pc = "next" /\ job'[s].todo = job[s].todo
    BY <1>0, <1>7, LeaveFields DEF Commit
  <2>3. Tried(e)' = n
    BY <2>1 DEF Tried
  <2>4. CASE e # f
    <3>1. status'[e] = status[e] /\ attempt'[e] = attempt[e]
      BY <1>0, <1>7, <2>1, <2>4 DEF Commit, TypeOK, rowVars
    <3>2. /\ ToSend(s, e)' => ToSend(s, e)
          /\ ~Committing(s, e) /\ ~Committing(s, e)'
      BY <2>1, <2>2, <2>4 DEF ToSend, Committing
    <3>3. (Waits(e)' => Waits(e)) /\ faults' >= faults
      BY <1>1, <3>1 DEF Waits
    <3>4. QED
      BY <1>0, <2>1, <2>3, <3>1, <3>2, <3>3, CountFrame
  <2>5. CASE e = f
    <3>1. ~ToSend(s, e)' /\ Committing(s, e) /\ ~Committing(s, e)'
      BY <1>0, <2>1, <2>2, <2>5 DEF ToSend, Committing, BatchInv
    <3>2. /\ attempt[e] < MaxAttempts /\ inMemory[s][e] < MaxAttempts
          /\ n <= MaxAttempts + faults
          /\ job[s].outcome = "RETRY" => n <= inMemory[s][e] + faults
      BY <3>1 DEF Count
    <3>3. \/ status'[e] = "DELETED" /\ attempt'[e] = attempt[e]
          \/ status'[e] = job[s].outcome /\ attempt'[e] = inMemory[s][e]
      BY <1>0, <1>7, <2>1, <2>5 DEF Commit, TypeOK, rowVars
    <3>4. job[s].outcome \in {"SENT", "ERROR", "RETRY"}
      BY <1>0, <3>1 DEF Count, TypeOK, JobState
    <3>5. attempt'[e] < MaxAttempts
      BY <3>2, <3>3
    <3>6. Waits(e)' => n <= attempt'[e] + faults
      BY <3>2, <3>3, <3>4 DEF Waits, RetryStatus
    <3> HIDE DEF n
    <3>7. Waits(e)' => n <= attempt'[e] + faults + 1
      <4>1. attempt'[e] \in Nat
        BY <1>1, <3>3
      <4>2. QED
        BY <1>1, <3>6, <4>1
    <3>8. QED
      BY <1>0, <1>1, <2>1, <2>3, <3>1, <3>2, <3>5, <3>6, <3>7 DEF Count
  <2>6. QED
    BY <2>4, <2>5
<1>8. QED
  BY <1>2, <1>3, <1>4, <1>5, <1>6, <1>7 DEF Work

LEMMA CountStep == CountInv /\ [Next]_vars => CountInv'
<1> SUFFICES ASSUME CountInv, [Next]_vars PROVE CountInv'
  OBVIOUS
<1>1. SingleInv /\ SingleInv' /\ TypeOK'
  BY SingleStep DEF CountInv, SingleInv, TypeInv
<1>2. ASSUME MaxAttempts > 0, NEW e \in Emails PROVE Count(e)'
  <2>1. Count(e)
    BY <1>2 DEF CountInv
  <2>2. QED
    BY <1>1, <1>2, <2>1, CountRows, CountWork, CountFaults DEF Next
<1>3. QED
  BY <1>1, <1>2 DEF CountInv

\* On one server a mail is tried MaxAttempts times and once more for a fault, at
\* most.
THEOREM AttemptsBounded == OneServer /\ Spec => []AttemptsAreBounded
<1>1. CountInv => AttemptsAreBounded
  BY DEF CountInv, Count, Tried, AttemptsAreBounded
<1>2. QED
  BY <1>1, CountInit, CountStep, PTL DEF Spec

-----------------------------------------------------------------------------
(* The refinement of MailContract. *)

\* No server works on a mail that was never queued.
KnownInv ==
    \A s \in Servers : /\ \A e \in job[s].todo : status[e] # "NONE"
                       /\ job[s].pc \in {"send", "commit"} => status[job[s].email] # "NONE"

\* What the steps of every queue rest on, and those of one server alone.
QueueInv == IInv /\ KnownInv /\ (OneServer => CountInv)

LEMMA KnownInit == Init => KnownInv
BY DEF Init, KnownInv, IdleJob, Between

\* Rows never vanish: at most one job moves, and to mails it knew or has read.
LEMMA KnownFrame ==
  ASSUME IInv, KnownInv, NEW s \in Servers,
         \A e \in Emails : status[e] # "NONE" => status'[e] # "NONE",
         \A t \in Servers : t # s => job'[t] = job[t],
         job'[s].todo \in SUBSET Emails,
         \A e \in job'[s].todo : status[e] # "NONE",
         job'[s].pc \in {"send", "commit"} =>
            job'[s].email \in Emails /\ status[job'[s].email] # "NONE"
  PROVE  KnownInv'
<1> SUFFICES ASSUME NEW t \in Servers
             PROVE  /\ \A e \in job'[t].todo : status'[e] # "NONE"
                    /\ job'[t].pc \in {"send", "commit"} => status'[job'[t].email] # "NONE"
  BY DEF KnownInv
<1>1. CASE t = s
  BY <1>1
<1>2. CASE t # s
  <2>1. job'[t] = job[t] /\ job[t].todo \in SUBSET Emails
    BY <1>2 DEF IInv, TypeInv, TypeOK, JobState
  <2>2. job[t].pc \in {"send", "commit"} => job[t].email \in Emails
    BY DEF IInv, TypeInv, EmailInv
  <2>3. QED
    BY <2>1, <2>2 DEF KnownInv
<1>3. QED
  BY <1>1, <1>2

LEMMA KnownWork == ASSUME IInv, KnownInv, NEW s \in Servers, Work(s) PROVE KnownInv'
<1>0. /\ TypeOK /\ EmailInv /\ OutcomeInv(s) /\ job[s].todo \in SUBSET Emails
      /\ \A e \in job[s].todo : status[e] # "NONE"
      /\ job[s].pc \in {"send", "commit"} => status[job[s].email] # "NONE"
  BY DEF IInv, KnownInv, TypeInv, TypeOK, JobState
<1>1. CASE FindUnsentEmails(s)
  <2>1. /\ UNCHANGED status /\ job'[s].pc = "next" /\ job'[s].todo \in SUBSET Emails
        /\ \A e \in job'[s].todo : status[e] \in RetryStatus
        /\ \A t \in Servers : t # s => job'[t] = job[t]
    BY <1>0, <1>1, FindFields DEF FindUnsentEmails, rowVars
  <2>2. QED
    BY <2>1, KnownFrame DEF RetryStatus
<1>2. CASE NextEmail(s)
  <2>1. /\ UNCHANGED status
        /\ job'[s].pc = "send" /\ job'[s].email \in job[s].todo /\ job'[s].email \in Emails
        /\ job'[s].todo = job[s].todo \ {job'[s].email}
        /\ \A t \in Servers : t # s => job'[t] = job[t]
    BY <1>0, <1>2, NextFields DEF NextEmail, rowVars
  <2>2. QED
    BY <1>0, <2>1, KnownFrame
<1>3. CASE EndBatch(s)
  <2>1. /\ UNCHANGED status /\ job'[s].pc = "idle" /\ job'[s].todo = {}
        /\ \A t \in Servers : t # s => job'[t] = job[t]
    BY <1>0, <1>3, IdleFields DEF EndBatch, rowVars
  <2>2. QED
    BY <2>1, KnownFrame
<1>4. CASE Accepted(s)
  <2>1. /\ UNCHANGED status /\ job[s].pc = "send" /\ job[s].email \in Emails
        /\ job'[s].email = job[s].email /\ job'[s].todo = job[s].todo
        /\ \A t \in Servers : t # s => job'[t] = job[t]
    BY <1>0, <1>4, OutcomeFields DEF Accepted, EmailInv, rowVars
  <2>2. QED
    BY <1>0, <2>1, KnownFrame
<1>5. CASE Rejected(s)
  <2>1. UNCHANGED status /\ job[s].pc = "send" /\ job[s].email \in Emails
    BY <1>0, <1>5 DEF Rejected, EmailInv, rowVars
  <2>2. /\ job'[s].email = job[s].email /\ job'[s].todo = job[s].todo
        /\ \A t \in Servers : t # s => job'[t] = job[t]
    BY <1>0, <1>5, <2>1, ExceptionFields DEF Rejected
  <2>3. QED
    BY <1>0, <2>1, <2>2, KnownFrame
<1>6. CASE Commit(s)
  <2>1. /\ job'[s].pc = "next" /\ job'[s].todo = job[s].todo
        /\ \A t \in Servers : t # s => job'[t] = job[t]
    BY <1>0, <1>6, LeaveFields DEF Commit
  <2>2. job[s].outcome \in {"SENT", "ERROR", "RETRY"}
    BY <1>0, <1>6 DEF Commit, OutcomeInv
  <2>3. \A e \in Emails : status'[e] \in {status[e], job[s].outcome}
    BY <1>0, <1>6 DEF Commit, TypeOK, rowVars
  <2>4. \A e \in Emails : status[e] # "NONE" => status'[e] # "NONE"
    BY <2>2, <2>3
  <2>5. QED
    BY <1>0, <2>1, <2>4, KnownFrame
<1>7. QED
  BY <1>1, <1>2, <1>3, <1>4, <1>5, <1>6 DEF Work

LEMMA KnownFaults == ASSUME IInv, KnownInv, NEW s \in Servers, Faults(s) PROVE KnownInv'
<1>0. /\ TypeOK /\ EmailInv /\ job[s].todo \in SUBSET Emails
      /\ \A e \in job[s].todo : status[e] # "NONE"
      /\ job[s].pc \in {"send", "commit"} => status[job[s].email] # "NONE"
  BY DEF IInv, KnownInv, TypeInv, TypeOK, JobState
<1>1. UNCHANGED status
  BY DEF Faults, Unacknowledged, CommitFailsOnLock, SendingFails, Crash, rowVars
<1>2. CASE Unacknowledged(s)
  <2>1. job[s].pc = "send" /\ job[s].email \in Emails
    BY <1>0, <1>2 DEF Unacknowledged, EmailInv
  <2>2. /\ job'[s].email = job[s].email /\ job'[s].todo = job[s].todo
        /\ \A t \in Servers : t # s => job'[t] = job[t]
    BY <1>0, <1>2, <2>1, ExceptionFields DEF Unacknowledged
  <2>3. QED
    BY <1>0, <1>1, <2>1, <2>2, KnownFrame
<1>3. CASE CommitFailsOnLock(s) \/ SendingFails(s)
  <2>1. job[s].pc \in {"send", "commit"} /\ (SendAgain(s) \/ Leave(s))
    BY <1>3 DEF CommitFailsOnLock, SendingFails
  <2>2. /\ job[s].email \in Emails /\ job'[s].todo = job[s].todo
        /\ job'[s].pc = "next" \/ job'[s].email = job[s].email
        /\ \A t \in Servers : t # s => job'[t] = job[t]
    BY <1>0, <2>1, RetryFields, LeaveFields DEF EmailInv
  <2>3. QED
    BY <1>0, <1>1, <2>1, <2>2, KnownFrame
<1>4. CASE Crash(s)
  <2>1. /\ job'[s].pc = "idle" /\ job'[s].todo = {}
        /\ \A t \in Servers : t # s => job'[t] = job[t]
    BY <1>0, <1>4, IdleFields DEF Crash
  <2>2. QED
    BY <1>1, <2>1, KnownFrame
<1>5. QED
  BY <1>2, <1>3, <1>4 DEF Faults

LEMMA QueueInit == Init => QueueInv
BY InitInv, KnownInit, CountInit DEF QueueInv

LEMMA QueueStep == QueueInv /\ [Next]_vars => QueueInv'
<1> SUFFICES ASSUME QueueInv, [Next]_vars PROVE KnownInv'
  BY StepInv, CountStep DEF QueueInv, OneServer
<1>0. IInv /\ KnownInv /\ TypeOK
  BY DEF QueueInv, IInv, TypeInv
<1>1. CASE \/ \E e \in Emails : Queue(e) \/ RetryTimeComes(e) \/ GrowOld(e)
           \/ Switch \/ DeleteOldEmails \/ DeleteOldErrorEmails
           \/ UNCHANGED vars
  <2>1. UNCHANGED job
    BY <1>1 DEF Queue, RetryTimeComes, GrowOld, Switch, DeleteOldEmails,
                DeleteOldErrorEmails, Delete, jobVars, vars
  <2>2. \A e \in Emails : status[e] # "NONE" => status'[e] # "NONE"
    BY <1>0, <1>1 DEF Queue, RetryTimeComes, GrowOld, Switch, DeleteOldEmails,
                      DeleteOldErrorEmails, Delete, rowVars, vars, TypeOK
  <2>3. \A s \in Servers : /\ job[s].todo \in SUBSET Emails
                           /\ job[s].pc \in {"send", "commit"} => job[s].email \in Emails
    BY <1>0 DEF IInv, TypeInv, TypeOK, EmailInv, JobState
  <2>4. QED
    BY <1>0, <2>1, <2>2, <2>3 DEF KnownInv
<1>2. QED
  BY <1>0, <1>1, KnownWork, KnownFaults DEF Next

\* A mail in front of an SMTP server may be tried.  On one server it is neither
\* SENT nor given up and, before the first fault, has not arrived and has attempts
\* left.
LEMMA SendingMayTry ==
  ASSUME QueueInv, NEW s \in Servers, job[s].pc = "send"
  PROVE  job[s].email \in Emails /\ Contract!MayTry(job[s].email)
<1> DEFINE e == job[s].email
<1>1. e \in Emails /\ status[e] # "NONE" /\ TypeOK
  BY DEF QueueInv, IInv, KnownInv, TypeInv, EmailInv
<1>2. ASSUME OneServer PROVE status[e] \in Contract!Due \cup {"DELETED"}
  BY <1>2 DEF QueueInv, CountInv, SingleInv, BatchInv, Open, RetryStatus, Contract!Due
<1>3. ASSUME OneServer, faults = 0
      PROVE  accepted[e] = 0 /\ (MaxAttempts > 0 => failed[e] < MaxAttempts)
  <2>1. accepted[e] \in Nat /\ failed[e] \in Nat /\ inMemory[s][e] \in Nat
    BY <1>1, CountTypes
  <2>2. accepted[e] = 0
    BY <1>1, <1>3, <2>1 DEF QueueInv, CountInv, SingleInv, Once
  <2>3. ASSUME MaxAttempts > 0 PROVE failed[e] < MaxAttempts
    <3>1. inMemory[s][e] < MaxAttempts /\ failed[e] + accepted[e] <= inMemory[s][e] + faults
      BY <1>1, <1>3, <2>3 DEF QueueInv, CountInv, Count, ToSend, Tried
    <3>2. QED
      BY <1>3, <2>1, <2>2, <3>1, LimitsAssumption
  <2>4. QED
    BY <2>2, <2>3
<1>4. faults \in Nat
  BY <1>1 DEF TypeOK
<1>5. QED
  BY <1>1, <1>2, <1>3, <1>4 DEF Contract!MayTry, OneServer

\* An outcome that waits to be committed is justified and, on one server, finds
\* its row still without one.
LEMMA OutcomeMayBeRecorded ==
  ASSUME QueueInv, NEW s \in Servers, job[s].pc = "commit", status[job[s].email] # "DELETED"
  PROVE  /\ job[s].outcome \in {"SENT", "ERROR", "RETRY"}
         /\ status[job[s].email] \notin {"NONE", "DELETED"}
         /\ OneServer => status[job[s].email] \in Contract!Due
         /\ Contract!Justified(job[s].email, job[s].outcome)
<1>1. OutcomeInv(s) /\ status[job[s].email] # "NONE"
  BY DEF QueueInv, IInv, KnownInv
<1>2. OneServer => status[job[s].email] \in Contract!Due
  BY DEF QueueInv, CountInv, SingleInv, BatchInv, Open, RetryStatus, Contract!Due
<1>3. QED
  BY <1>1, <1>2 DEF OutcomeInv, Contract!Justified

LEMMA InitContract == Init => Contract!Init
BY DEF Init, Contract!Init

LEMMA RowsContract ==
  ASSUME QueueInv,
         \/ \E e \in Emails : Queue(e) \/ RetryTimeComes(e) \/ GrowOld(e)
         \/ Switch \/ DeleteOldEmails \/ DeleteOldErrorEmails
  PROVE  [Contract!Next]_(Contract!vars)
<1>1. ASSUME NEW e \in Emails, Queue(e) PROVE Contract!Next
  <2>1. Contract!Queue(e)
    BY <1>1 DEF Queue, Contract!Queue, smtpVars
  <2>2. QED
    BY <2>1 DEF Contract!Next
<1>2. ASSUME NEW e \in Emails, RetryTimeComes(e) \/ GrowOld(e) PROVE UNCHANGED Contract!vars
  BY <1>2 DEF RetryTimeComes, GrowOld, Contract!vars, smtpVars
<1>3. ASSUME Switch PROVE UNCHANGED Contract!vars
  BY <1>3 DEF Switch, Contract!vars, rowVars, smtpVars
<1>4. ASSUME NEW old \in SUBSET Emails, \A e \in old : status[e] # "NONE", Delete(old)
      PROVE  Contract!Next
  <2>1. Contract!Delete(old)
    BY <1>4 DEF Delete, Contract!Delete, smtpVars
  <2>2. QED
    BY <2>1 DEF Contract!Next
<1>5. ASSUME DeleteOldEmails PROVE Contract!Next
  <2> DEFINE old == {e \in Emails : status[e] = "SENT" /\ age[e] >= 1}
  <2>1. old \in SUBSET Emails /\ \A e \in old : status[e] # "NONE"
    OBVIOUS
  <2>2. Delete(old)
    BY <1>5 DEF DeleteOldEmails
  <2> HIDE DEF old
  <2>3. QED
    BY <1>4, <2>1, <2>2
<1>6. ASSUME DeleteOldErrorEmails PROVE Contract!Next
  <2> DEFINE old == {e \in Emails : status[e] \notin {"NONE", "DELETED"} /\ age[e] >= 2}
  <2>1. old \in SUBSET Emails /\ \A e \in old : status[e] # "NONE"
    OBVIOUS
  <2>2. Delete(old)
    BY <1>6 DEF DeleteOldErrorEmails
  <2> HIDE DEF old
  <2>3. QED
    BY <1>4, <2>1, <2>2
<1>7. QED
  BY <1>1, <1>2, <1>3, <1>5, <1>6

LEMMA WorkContract ==
  ASSUME QueueInv, NEW s \in Servers, Work(s)
  PROVE  [Contract!Next]_(Contract!vars)
<1> DEFINE e == job[s].email
<1>0. TypeOK
  BY DEF QueueInv, IInv, TypeInv
<1>1. CASE FindUnsentEmails(s) \/ NextEmail(s) \/ EndBatch(s)
  BY <1>1 DEF FindUnsentEmails, NextEmail, EndBatch, Contract!vars, rowVars, smtpVars
<1>2. CASE Accepted(s)
  <2>1. e \in Emails /\ Contract!MayTry(e)
    BY <1>2, SendingMayTry DEF Accepted
  <2>2. Contract!Arrive(e)
    BY <1>2, <2>1 DEF Accepted, Contract!Arrive, rowVars
  <2>3. QED
    BY <2>1, <2>2 DEF Contract!Next
<1>3. CASE Rejected(s)
  <2>1. e \in Emails /\ Contract!MayTry(e)
    BY <1>3, SendingMayTry DEF Rejected
  <2>2. failed' = [failed EXCEPT ![e] = @ + 1] /\ UNCHANGED <<status, accepted, faults>>
    BY <1>3 DEF Rejected, HandleEmailException, rowVars
  <2>3. Contract!Fail(e)
    BY <2>1, <2>2 DEF Contract!Fail
  <2>4. QED
    BY <2>1, <2>3 DEF Contract!Next
<1>4. CASE Commit(s)
  <2>1. e \in Emails /\ job[s].pc = "commit" /\ UNCHANGED <<accepted, failed, faults>>
    BY <1>4 DEF Commit, QueueInv, IInv, TypeInv, EmailInv, smtpVars
  <2>2. CASE status[e] = "DELETED"
    BY <1>4, <2>1, <2>2 DEF Commit, rowVars, Contract!vars
  <2>3. CASE status[e] # "DELETED"
    <3>1. /\ job[s].outcome \in {"SENT", "ERROR", "RETRY"}
          /\ status[e] \notin {"NONE", "DELETED"}
          /\ OneServer => status[e] \in Contract!Due
          /\ Contract!Justified(e, job[s].outcome)
      BY <2>1, <2>3, OutcomeMayBeRecorded
    <3>2. status' = [status EXCEPT ![e] = job[s].outcome]
      BY <1>4, <2>3 DEF Commit
    <3>3. Contract!Record(e, job[s].outcome)
      BY <2>1, <3>1, <3>2 DEF Contract!Record, OneServer
    <3>4. QED
      BY <2>1, <3>1, <3>3 DEF Contract!Next
  <2>4. QED
    BY <2>2, <2>3
<1>5. QED
  BY <1>1, <1>2, <1>3, <1>4 DEF Work

LEMMA FaultsContract ==
  ASSUME QueueInv, NEW s \in Servers, Faults(s)
  PROVE  Contract!Next
<1> DEFINE e == job[s].email
<1>0. faults' > 0
  <2>1. faults \in Nat
    BY DEF QueueInv, IInv, TypeInv, TypeOK
  <2>2. faults' = faults + 1
    BY DEF Faults, Unacknowledged, CommitFailsOnLock, SendingFails, Crash, Fault
  <2>3. QED
    BY <2>1, <2>2
<1>1. CASE Unacknowledged(s)
  <2>1. e \in Emails /\ Contract!MayTry(e)
    BY <1>1, SendingMayTry DEF Unacknowledged
  <2>2. /\ e \notin BadAddress /\ UNCHANGED status
        /\ accepted' = [accepted EXCEPT ![e] = @ + 1]
        /\ failed' = [failed EXCEPT ![e] = @ + 1]
    BY <1>1 DEF Unacknowledged, HandleEmailException, rowVars
  <2>3. Contract!ArriveUnnoticed(e)
    BY <1>0, <2>1, <2>2 DEF Contract!ArriveUnnoticed
  <2>4. QED
    BY <2>1, <2>3 DEF Contract!Next
<1>2. CASE CommitFailsOnLock(s) \/ SendingFails(s) \/ Crash(s)
  <2>1. Contract!Strike
    BY <1>0, <1>2 DEF CommitFailsOnLock, SendingFails, Crash, Contract!Strike, rowVars, smtpVars
  <2>2. QED
    BY <2>1 DEF Contract!Next
<1>3. QED
  BY <1>1, <1>2 DEF Faults

\* Every behaviour of the queue is one of MailContract: whatever batches, stale
\* objects, repeated transactions, crashes and a second server do, every outcome
\* on record is true of what the SMTP servers did, and one server gives each mail
\* one outcome.
THEOREM Implements == Spec => ImplementsContract
<1>1. QueueInv /\ [Next]_vars => [Contract!Next]_(Contract!vars)
  <2> SUFFICES ASSUME QueueInv, [Next]_vars PROVE [Contract!Next]_(Contract!vars)
    OBVIOUS
  <2>1. CASE UNCHANGED vars
    BY <2>1 DEF vars, rowVars, smtpVars, Contract!vars
  <2>2. CASE Next
    BY <2>2, RowsContract, WorkContract, FaultsContract DEF Next
  <2>3. QED
    BY <2>1, <2>2
<1>2. QED
  BY <1>1, QueueInit, QueueStep, InitContract, PTL DEF Spec, ImplementsContract, Contract!Spec

=============================================================================
