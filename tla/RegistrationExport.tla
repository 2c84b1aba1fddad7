------------------------- MODULE RegistrationExport -------------------------
(***************************************************************************)
(* The scheduled export of voter registrations to the partners' SFTP       *)
(* servers.  A voter who reaches the final page of the wizard leaves one   *)
(* DataExportHistory row per enabled export configuration.  Quartz jobs    *)
(* (AutomatedDataExporter) look for PREPARED rows, have a pool thread      *)
(* (AsyncDataExportPreparator) build a CSV into the Redis cache, poll the  *)
(* cache for the outcome, copy the CSV to the partner and mark the rows    *)
(* EXPORTED.  Administrators create and edit configurations and ask for    *)
(* rows to be exported again.                                              *)
(*                                                                         *)
(* One JVM, any number of overlapping job runs (the Quartz jobs are        *)
(* concurrent), database transactions and single Redis commands atomic.    *)
(***************************************************************************)
EXTENDS Integers, FiniteSets

CONSTANTS
    Results,     \* WizardResults of completed RAVA flows
    Fickle,      \* those whose voters may still change their answer (a bound)
    Configs,     \* DataExportConfiguration rows, existing or future
    Schedules,   \* values of DeliverySchedule
    Settings,    \* <<enabled, canSftp>> pairs administrators may choose
    Runs,        \* job threads that may be inside doDelivery at once
    MaxVisits,   \* bound: final-page visits of one WizardResults
    MaxFaults,   \* bound: crashes, exceptions, lost cache entries, CSV errors
    NoCsv        \* a model value: the absent or empty csv cache entry

ASSUME BoundsAssumption == MaxVisits \in Nat /\ MaxFaults \in Nat
ASSUME NonEmptyAssumption == Configs # {} /\ Schedules # {}
ASSUME SettingsAssumption == Settings \subseteq BOOLEAN \X BOOLEAN

\* Visit 0 numbers the row that makeHistoriesForNewConfig creates.
Visits == 0..MaxVisits
HistoryId == Configs \X Results \X Visits
ConfigOf(h) == h[1]
ResultOf(h) == h[2]

\* "NONE" stands for a row that was never inserted.  ExportHistoryStatus
\* also declares DELETED, which no code assigns.
HistoryStatus == {"NONE", "NEW", "PREPARED", "EXPORTED"}
PreparationStatus == {"NONE", "CREATED", "IN_PROGRESS", "COMPLETED", "ERROR"}
ConfigRow == [enabled : BOOLEAN, canSftp : BOOLEAN, schedule : Schedules]

RunState == [pc : {"idle", "next", "query", "poll", "fill", "send", "complete"},
             todo : SUBSET Configs, cfg : Configs, histories : SUBSET HistoryId]
TaskState == [pc : {"idle", "queued", "find", "store", "finish"}, rows : SUBSET Results]

VARIABLES
    \* database
    config,      \* the configuration rows,
    saved,       \* which of them exist,
    status,      \* the status of every history row,
    created,     \* its creation date,
    resultDate,  \* the creation date of every WizardResults, 0 if none,
    consent,     \* its current answer to the data transfer question
    \* web requests in flight
    visits,      \* final-page visits of a WizardResults so far,
    visiting,    \* configurations a visit still has to write a row for,
    filling,     \* configurations whose creation has not made histories yet
    run,         \* job threads
    \* the preparation each job thread has asked for, and the cache entries
    \* under the fresh id it drew for it
    task, statusCache, csvCache,
    \* the outside world
    sftp,        \* results whose row is in some file on a partner's server,
    alerts,      \* configurations a failure mail was queued for
    \* bookkeeping
    now,         \* the clock: one tick per creation date handed out
    faults,      \* faults so far
    answered,    \* every answer a WizardResults ever had (history variable)
    copies       \* files copied with a row since it became PREPARED, up to 2

adminVars == <<config, saved, filling>>
wizardVars == <<resultDate, consent, answered, visits, visiting>>
rowVars == <<status, created, copies>>
cacheVars == <<statusCache, csvCache>>
remoteVars == <<sftp, alerts>>
vars == <<adminVars, wizardVars, rowVars, run, task, cacheVars, remoteVars,
          now, faults>>

TypeOK ==
    /\ config \in [Configs -> ConfigRow]
    /\ saved \in SUBSET Configs
    /\ status \in [HistoryId -> HistoryStatus]
    /\ created \in [HistoryId -> Nat]
    /\ resultDate \in [Results -> Nat]
    /\ consent \in [Results -> BOOLEAN]
    /\ visits \in [Results -> Visits]
    /\ visiting \in [Results -> SUBSET Configs]
    /\ filling \in SUBSET Configs
    /\ run \in [Runs -> RunState]
    /\ task \in [Runs -> TaskState]
    /\ statusCache \in [Runs -> PreparationStatus]
    /\ csvCache \in [Runs -> (SUBSET Results) \cup {NoCsv}]
    /\ sftp \in [Configs -> SUBSET Results]
    /\ alerts \in SUBSET Configs
    /\ now \in Nat \ {0}
    /\ faults \in 0..MaxFaults
    /\ answered \in [Results -> SUBSET BOOLEAN]
    /\ copies \in [HistoryId -> 0..2]

\* A job thread outside a pass over a configuration, a pool thread without a
\* task: the fields that mean nothing there have fixed values.
RunAt(pc, todo, cfg) == [pc |-> pc, todo |-> todo, cfg |-> cfg, histories |-> {}]
IdleRun == RunAt("idle", {}, CHOOSE c \in Configs : TRUE)
IdleTask == [pc |-> "idle", rows |-> {}]

\* A fresh database: no configuration, no submission, nothing running.
Init ==
    /\ config = [c \in Configs |-> [enabled |-> FALSE, canSftp |-> FALSE,
                                    schedule |-> CHOOSE s \in Schedules : TRUE]]
    /\ saved = {} /\ filling = {}
    /\ status = [h \in HistoryId |-> "NONE"]
    /\ created = [h \in HistoryId |-> 0]
    /\ copies = [h \in HistoryId |-> 0]
    /\ resultDate = [r \in Results |-> 0]
    /\ consent = [r \in Results |-> FALSE]
    /\ answered = [r \in Results |-> {}]
    /\ visits = [r \in Results |-> 0]
    /\ visiting = [r \in Results |-> {}]
    /\ run = [u \in Runs |-> IdleRun]
    /\ task = [u \in Runs |-> IdleTask]
    /\ statusCache = [u \in Runs |-> "NONE"]
    /\ csvCache = [u \in Runs |-> NoCsv]
    /\ sftp = [c \in Configs |-> {}]
    /\ alerts = {}
    /\ now = 1
    /\ faults = 0

-----------------------------------------------------------------------------
(* The wizard. *)

\* The wizard saves its results, with the voter's answer to the data transfer
\* question; a flow without that question counts as TRUE.
SaveNewResults(r) ==
    /\ resultDate[r] = 0
    /\ resultDate' = [resultDate EXCEPT ![r] = now]
    /\ now' = now + 1
    /\ \E answer \in BOOLEAN :
          /\ consent' = [consent EXCEPT ![r] = answer]
          /\ answered' = [answered EXCEPT ![r] = {answer}]
    /\ UNCHANGED <<adminVars, visits, visiting, rowVars, run, task, cacheVars,
                   remoteVars, faults>>

\* The voter goes back and changes the answer: the same WizardResults row.
ReviseAnswer(r) ==
    /\ r \in Fickle
    /\ resultDate[r] # 0
    /\ consent' = [consent EXCEPT ![r] = ~consent[r]]
    /\ answered' = [answered EXCEPT ![r] = @ \cup {~consent[r]}]
    /\ UNCHANGED <<adminVars, resultDate, visits, visiting, rowVars, run, task,
                   cacheVars, remoteVars, now, faults>>

\* The final page, requested again by every reload: the request reads the
\* enabled configurations, then saves one row for each in its own transaction.
BuildReferences(r) ==
    /\ resultDate[r] # 0
    /\ visiting[r] = {}
    /\ visits[r] < MaxVisits
    /\ visits' = [visits EXCEPT ![r] = @ + 1]
    /\ visiting' = [visiting EXCEPT ![r] = {c \in saved : config[c].enabled}]
    /\ UNCHANGED <<adminVars, resultDate, consent, answered, rowVars, run, task,
                   cacheVars, remoteVars, now, faults>>

CreateExportHistory(r, c) ==
    LET h == <<c, r, visits[r]>>
    IN  /\ c \in visiting[r]
        /\ visiting' = [visiting EXCEPT ![r] = @ \ {c}]
        /\ status' = [status EXCEPT ![h] = "PREPARED"]
        /\ created' = [created EXCEPT ![h] = now]
        /\ copies' = [copies EXCEPT ![h] = 0]
        /\ now' = now + 1
        /\ UNCHANGED <<adminVars, resultDate, consent, answered, visits, run, task,
                       cacheVars, remoteVars, faults>>

-----------------------------------------------------------------------------
(* Administration of the configurations and of their histories. *)

AdminRows == {[enabled |-> s[1], canSftp |-> s[2], schedule |-> d] :
                  s \in Settings, d \in Schedules}

RowsOf(c) == {h \in HistoryId : ConfigOf(h) = c /\ status[h] # "NONE"}

\* Saving a new configuration is one transaction and making the histories of
\* past results another; the second exists only when the id was 0 before.
CreateConfiguration(c) ==
    /\ c \notin saved
    /\ saved' = saved \cup {c}
    /\ filling' = filling \cup {c}
    /\ \E row \in AdminRows : config' = [config EXCEPT ![c] = row]
    /\ UNCHANGED <<wizardVars, rowVars, run, task, cacheVars, remoteVars, now, faults>>

\* Past results newer than the newest row of the configuration get a NEW row.
\* Which of them are downloaded and reportable is left open.
MakeHistoriesForNewConfig(c) ==
    LET newer == {r \in Results : /\ resultDate[r] # 0
                                  /\ \A h \in RowsOf(c) : resultDate[r] > created[h]}
    IN  /\ c \in filling
        /\ filling' = filling \ {c}
        /\ \E past \in SUBSET newer :
              LET made == {<<c, r, 0>> : r \in past}
              IN  /\ status' = [h \in HistoryId |-> IF h \in made THEN "NEW" ELSE status[h]]
                  /\ created' = [h \in HistoryId |-> IF h \in made THEN resultDate[ResultOf(h)]
                                                              ELSE created[h]]
        /\ UNCHANGED <<config, saved, wizardVars, copies, run, task, cacheVars,
                       remoteVars, now, faults>>

SaveConfiguration(c) ==
    /\ c \in saved
    /\ \E row \in AdminRows : row # config[c] /\ config' = [config EXCEPT ![c] = row]
    /\ UNCHANGED <<saved, filling, wizardVars, rowVars, run, task, cacheVars,
                   remoteVars, now, faults>>

\* "Export again everything created after the given date."
UpdateHistoriesForExport(c, exportDate) ==
    LET again == {h \in RowsOf(c) : status[h] # "PREPARED" /\ created[h] > exportDate}
    IN  /\ again # {}
        /\ status' = [h \in HistoryId |-> IF h \in again THEN "PREPARED" ELSE status[h]]
        /\ copies' = [h \in HistoryId |-> IF h \in again THEN 0 ELSE copies[h]]
        /\ UNCHANGED <<adminVars, wizardVars, created, run, task, cacheVars,
                       remoteVars, now, faults>>

-----------------------------------------------------------------------------
(* AutomatedDataExporter.doDelivery, one step per call that leaves the thread. *)

\* The end of a pass: nobody knows its cache id any more, so its entries and
\* whatever a preparation still running may write to them are forgotten.
EndPass(u, pc) ==
    /\ run' = [run EXCEPT ![u] = RunAt(pc, run[u].todo, run[u].cfg)]
    /\ task' = [task EXCEPT ![u] = IdleTask]
    /\ statusCache' = [statusCache EXCEPT ![u] = "NONE"]
    /\ csvCache' = [csvCache EXCEPT ![u] = NoCsv]

Fault == faults < MaxFaults /\ faults' = faults + 1

\* A trigger fires.  The configurations are read once; those without SFTP
\* settings are skipped.
StartDelivery(u, schedule) ==
    /\ run[u].pc = "idle"
    /\ run' = [run EXCEPT ![u].pc = "next",
                          ![u].todo = {c \in saved : /\ config[c].enabled
                                                     /\ config[c].canSftp
                                                     /\ config[c].schedule = schedule}]
    /\ UNCHANGED <<adminVars, wizardVars, rowVars, task, cacheVars, remoteVars, now, faults>>

NextConfiguration(u) ==
    /\ run[u].pc = "next"
    /\ \E c \in run[u].todo :
          run' = [run EXCEPT ![u] = RunAt("query", run[u].todo \ {c}, c)]
    /\ UNCHANGED <<adminVars, wizardVars, rowVars, task, cacheVars, remoteVars, now, faults>>

EndDelivery(u) ==
    /\ run[u].pc = "next"
    /\ run[u].todo = {}
    /\ run' = [run EXCEPT ![u] = IdleRun]
    /\ UNCHANGED <<adminVars, wizardVars, rowVars, task, cacheVars, remoteVars, now, faults>>

Prepared(c) == {h \in RowsOf(c) : status[h] = "PREPARED"}

\* The head of the while loop: nothing PREPARED ends it, otherwise a fresh id
\* and an asynchronous preparation of exactly the rows found.
FindHistoriesForExport(u) ==
    LET found == Prepared(run[u].cfg)
    IN  /\ run[u].pc = "query"
        /\ \/ /\ found = {}
              /\ run' = [run EXCEPT ![u].pc = "next"]
              /\ UNCHANGED <<task, cacheVars>>
           \/ /\ found # {}
              /\ run' = [run EXCEPT ![u].pc = "poll", ![u].histories = found]
              /\ task' = [task EXCEPT ![u] = [pc |-> "queued", rows |-> {}]]
              /\ UNCHANGED cacheVars
        /\ UNCHANGED <<adminVars, wizardVars, rowVars, remoteVars, now, faults>>

\* Fault for the mutation runs: the loop waits for COMPLETED only.
PollStatus_IgnoresError(u) ==
    /\ run[u].pc = "poll"
    /\ statusCache[u] \in {"NONE", "COMPLETED"}
    /\ run' = [run EXCEPT ![u].pc = IF statusCache[u] = "NONE" THEN "fill" ELSE "send"]
    /\ UNCHANGED <<task, cacheVars, adminVars, wizardVars, rowVars, remoteVars, now, faults>>

\* One look at the cache.  ERROR means start over, and a miss makes @Cacheable
\* call the method ...
PollStatus(u) ==
    LET seen == statusCache[u]
    IN  /\ run[u].pc = "poll"
        /\ \/ /\ seen \in {"CREATED", "IN_PROGRESS"}    \* sleep and look again
              /\ UNCHANGED <<run, task, cacheVars>>
           \/ /\ seen \in {"NONE", "COMPLETED"}
              /\ run' = [run EXCEPT ![u].pc = IF seen = "NONE" THEN "fill" ELSE "send"]
              /\ UNCHANGED <<task, cacheVars>>
           \/ /\ seen = "ERROR"
              \* sendEmailNotification(reason, null) dies of e.printStackTrace
              \* for every address, so no mail is queued
              /\ EndPass(u, "query")
        /\ UNCHANGED <<adminVars, wizardVars, rowVars, remoteVars, now, faults>>

\* ... and put its result, CREATED, over whatever the entry holds by then.
FillStatus(u) ==
    /\ run[u].pc = "fill"
    /\ statusCache' = [statusCache EXCEPT ![u] = "CREATED"]
    /\ run' = [run EXCEPT ![u].pc = "poll"]
    /\ UNCHANGED <<adminVars, wizardVars, rowVars, task, csvCache, remoteVars, now, faults>>

Copied(u) ==
    /\ sftp' = [sftp EXCEPT ![run[u].cfg] = @ \cup csvCache[u]]
    /\ copies' = [h \in HistoryId |-> IF h \in run[u].histories /\ copies[h] < 2
                                      THEN copies[h] + 1 ELSE copies[h]]

\* writeCsvToFtp with a CSV in the cache: the file reaches the partner.
WriteCsvToFtp(u) ==
    /\ run[u].pc = "send"
    /\ csvCache[u] # NoCsv
    /\ Copied(u)
    /\ run' = [run EXCEPT ![u].pc = "complete"]
    /\ UNCHANGED <<adminVars, wizardVars, status, created, task, cacheVars, alerts,
                   now, faults>>

\* Fault for the mutation runs: the answer of writeCsvToFtp is ignored.
NoCsvToWrite_Completes(u) ==
    /\ run[u].pc = "send"
    /\ csvCache[u] = NoCsv
    /\ run' = [run EXCEPT ![u].pc = "complete"]
    /\ UNCHANGED <<task, cacheVars, adminVars, wizardVars, rowVars, remoteVars, now, faults>>

\* No CSV in the cache: nothing is sent, nothing completed, the loop goes on.
NoCsvToWrite(u) ==
    /\ run[u].pc = "send"
    /\ csvCache[u] = NoCsv
    /\ EndPass(u, "query")
    /\ UNCHANGED <<adminVars, wizardVars, rowVars, remoteVars, now, faults>>

\* Faults for the mutation runs: the unused status DELETED; rows changed but not
\* saved; the PREPARED rows of the moment instead of those of the CSV.
MakeComplete_Deletes(u) ==
    /\ run[u].pc = "complete"
    /\ status' = [h \in HistoryId |-> IF h \in run[u].histories THEN "DELETED" ELSE status[h]]
    /\ EndPass(u, "query")
    /\ UNCHANGED <<adminVars, wizardVars, created, copies, remoteVars, now, faults>>
MakeComplete_NotSaved(u) ==
    /\ run[u].pc = "complete"
    /\ EndPass(u, "query")
    /\ UNCHANGED <<adminVars, wizardVars, rowVars, remoteVars, now, faults>>
MakeComplete_Requeries(u) ==
    /\ run[u].pc = "complete"
    /\ status' = [h \in HistoryId |-> IF h \in Prepared(run[u].cfg) THEN "EXPORTED"
                                      ELSE status[h]]
    /\ EndPass(u, "query")
    /\ UNCHANGED <<adminVars, wizardVars, created, copies, remoteVars, now, faults>>

\* One transaction writes the rows of the list as they were read.
MakeComplete(u) ==
    /\ run[u].pc = "complete"
    /\ status' = [h \in HistoryId |-> IF h \in run[u].histories THEN "EXPORTED"
                                      ELSE status[h]]
    /\ EndPass(u, "query")
    /\ UNCHANGED <<adminVars, wizardVars, created, copies, remoteVars, now, faults>>

\* An exception in the pass (query, interrupted sleep, cache, SFTP, commit) ends
\* it: a failure mail is queued and the run turns to the next configuration.
Abandon(u) ==
    /\ alerts' = alerts \cup {run[u].cfg}
    /\ EndPass(u, "next")
    /\ Fault
    /\ UNCHANGED <<adminVars, wizardVars, status, created, now>>

DeliveryFails(u) ==
    /\ run[u].pc \in {"query", "poll", "fill", "send", "complete"}
    /\ Abandon(u)
    /\ UNCHANGED <<sftp, copies>>

\* The exception comes after the file has reached the partner.
CopyUnacknowledged(u) ==
    /\ run[u].pc = "send"
    /\ csvCache[u] # NoCsv
    /\ Copied(u)
    /\ Abandon(u)

-----------------------------------------------------------------------------
(* AsyncDataExportPreparator.createDataTransferCsvFromWizard, a pool thread. *)

\* The preparation for job thread u writes its cache entries and nothing else.
TaskFrame == UNCHANGED <<adminVars, wizardVars, rowVars, run, remoteVars, now>>

StartPreparation(u) ==
    /\ task[u].pc = "queued"
    /\ statusCache' = [statusCache EXCEPT ![u] = "IN_PROGRESS"]
    /\ task' = [task EXCEPT ![u].pc = "find"]
    /\ TaskFrame /\ UNCHANGED <<csvCache, faults>>

\* Fault for the mutation runs: the transfer answer is not looked at.
FindResultsForHistories_All(u) ==
    /\ task[u].pc = "find"
    /\ statusCache' = [statusCache EXCEPT ![u] = "IN_PROGRESS"]
    /\ task' = [task EXCEPT ![u].pc = "store",
                            ![u].rows = {ResultOf(h) : h \in run[u].histories}]
    /\ TaskFrame /\ UNCHANGED <<csvCache, faults>>

\* findResultsForHistories loads the results and their current answers;
\* createCsv leaves out those that declined the transfer.
FindResultsForHistories(u) ==
    /\ task[u].pc = "find"
    /\ statusCache' = [statusCache EXCEPT ![u] = "IN_PROGRESS"]
    /\ task' = [task EXCEPT ![u].pc = "store",
                            ![u].rows = {r \in Results : /\ consent[r]
                                         /\ \E h \in run[u].histories : ResultOf(h) = r}]
    /\ TaskFrame /\ UNCHANGED <<csvCache, faults>>

\* Even a CSV without rows has its header line, so it is not empty.
CreateCsvData(u) ==
    /\ task[u].pc = "store"
    /\ csvCache' = [csvCache EXCEPT ![u] = task[u].rows]
    /\ task' = [task EXCEPT ![u].pc = "finish"]
    /\ TaskFrame /\ UNCHANGED <<statusCache, faults>>

FinishPreparation(u) ==
    /\ task[u].pc = "finish"
    /\ statusCache' = [statusCache EXCEPT ![u] = "COMPLETED"]
    /\ task' = [task EXCEPT ![u] = IdleTask]
    /\ TaskFrame /\ UNCHANGED <<csvCache, faults>>

PreparationFails(u) ==
    /\ \/ /\ task[u].pc \in {"find", "store", "finish"}
          /\ statusCache' = [statusCache EXCEPT ![u] = "ERROR"]
       \/ /\ task[u].pc = "queued"    \* outside the try block: no status at all
          /\ UNCHANGED statusCache
    /\ task' = [task EXCEPT ![u] = IdleTask]
    /\ Fault
    /\ TaskFrame /\ UNCHANGED csvCache

-----------------------------------------------------------------------------
(* The environment. *)

\* Redis loses an entry: expiry, eviction, restart, or a write that failed
\* while connection failures are ignored.
LoseCacheEntry(u) ==
    /\ \/ /\ statusCache[u] # "NONE"
          /\ statusCache' = [statusCache EXCEPT ![u] = "NONE"]
          /\ UNCHANGED csvCache
       \/ /\ csvCache[u] # NoCsv
          /\ csvCache' = [csvCache EXCEPT ![u] = NoCsv]
          /\ UNCHANGED statusCache
    /\ Fault
    /\ UNCHANGED <<adminVars, wizardVars, rowVars, run, task, remoteVars, now>>

\* The JVM stops: job threads, pool threads and requests are gone, and a
\* configuration whose histories were not made yet will never get them.
Restart ==
    /\ run' = [u \in Runs |-> IdleRun]
    /\ task' = [u \in Runs |-> IdleTask]
    /\ statusCache' = [u \in Runs |-> "NONE"]
    /\ csvCache' = [u \in Runs |-> NoCsv]
    /\ visiting' = [r \in Results |-> {}]
    /\ filling' = {}
    /\ Fault
    /\ UNCHANGED <<config, saved, resultDate, consent, answered, visits, rowVars,
                   remoteVars, now>>

-----------------------------------------------------------------------------
Wizard == \E r \in Results :
    \/ SaveNewResults(r) \/ ReviseAnswer(r) \/ BuildReferences(r)
    \/ \E c \in Configs : CreateExportHistory(r, c)

Admin == \E c \in Configs :
    \/ CreateConfiguration(c) \/ MakeHistoriesForNewConfig(c) \/ SaveConfiguration(c)
    \/ \E exportDate \in 0..(now - 1) : UpdateHistoriesForExport(c, exportDate)

Delivery(u) ==
    \/ NextConfiguration(u) \/ EndDelivery(u) \/ FindHistoriesForExport(u)
    \/ PollStatus(u) \/ FillStatus(u) \/ WriteCsvToFtp(u) \/ NoCsvToWrite(u)
    \/ MakeComplete(u)

Preparation(u) ==
    \/ StartPreparation(u) \/ FindResultsForHistories(u)
    \/ CreateCsvData(u) \/ FinishPreparation(u)

Faults ==
    \/ \E u \in Runs : \/ DeliveryFails(u) \/ CopyUnacknowledged(u)
                       \/ PreparationFails(u) \/ LoseCacheEntry(u)
    \/ Restart

Next ==
    \/ Wizard
    \/ Admin
    \/ \E u \in Runs : \/ \E s \in Schedules : StartDelivery(u, s)
                       \/ Delivery(u) \/ Preparation(u)
    \/ Faults

Spec == Init /\ [][Next]_vars

\* Quartz fires every trigger again and again, a started job goes on, the pool
\* runs every task.  Voters, administrators and faults owe nothing.
Fairness ==
    /\ \A u \in Runs : WF_vars(Delivery(u)) /\ WF_vars(Preparation(u))
    /\ \A u \in Runs, s \in Schedules : SF_vars(StartDelivery(u, s))

FairSpec == Spec /\ Fairness

-----------------------------------------------------------------------------
(* Properties. *)

\* A row is EXPORTED only if the result it stands for is in a file that reached
\* the partner of its configuration, or the voter declined the transfer at some
\* time (buildCsvValues skips such results, makeComplete does not).
ExportedWasDelivered ==
    \A h \in HistoryId :
        status[h] = "EXPORTED" => \/ ResultOf(h) \in sftp[ConfigOf(h)]
                                  \/ FALSE \in answered[ResultOf(h)]

\* No partner ever receives the data of a voter who never agreed to it, however
\* answers are revised while a CSV is being prepared.
OnlyConsentingDelivered ==
    \A c \in Configs : \A r \in sftp[c] : TRUE \in answered[r]

\* When runs do not overlap, a row leaves PREPARED only after a file with it was
\* copied since it last became PREPARED: makeComplete, working on the list read
\* at the start of the pass, never swallows an administrator's later request.
FreshExport ==
    [][\A h \in HistoryId : status[h] = "PREPARED" /\ status'[h] = "EXPORTED"
                              => copies[h] > 0]_vars

\* When runs do not overlap, a row travels twice for one request only if a fault
\* (a crash, an exception) fell between the copy and makeComplete.
DuplicateNeedsFault ==
    \A h \in HistoryId : copies[h] = 2 => faults > 0

Contract == INSTANCE ExportContract
    WITH ConfigFor <- [h \in HistoryId |-> ConfigOf(h)],
         ResultFor <- [h \in HistoryId |-> ResultOf(h)]

\* The jobs, the cache and the faults together implement the contract: rows do
\* not vanish, EXPORTED is only written over delivered or declined results, and
\* files hold agreed results only, at every single step.
ImplementsContract == Contract!Spec

Deliverable(c) == c \in saved /\ config[c].enabled /\ config[c].canSftp

\* A run polls for a preparation that has ended and whose outcome is gone: its
\* entry was lost, or the run itself put CREATED over it.
Hung == \E u \in Runs : /\ run[u].pc = "poll"
                        /\ statusCache[u] \in {"CREATED", "IN_PROGRESS"}
                        /\ task[u].pc = "idle"

\* A PREPARED row of a deliverable configuration is exported in the end, whatever
\* finitely many faults do, unless a run hangs polling the cache.
PreparedIsExported ==
    \A h \in HistoryId :
        status[h] = "PREPARED" ~> \/ status[h] = "EXPORTED"
                                  \/ ~Deliverable(ConfigOf(h))
                                  \/ Hung

=============================================================================
