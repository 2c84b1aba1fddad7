---------------------- MODULE RegistrationExportProofs ----------------------
(* Theorems about RegistrationExport, for every value of its constants.      *)
EXTENDS RegistrationExport, TLAPS

(* The inductive invariant, in named parts. *)

\* A saved result has its current answer among its answers; a result without
\* a row in the database has no answer, no visit under way and no history.
ResultsInv ==
    /\ \A r \in Results :
          /\ resultDate[r] # 0 => consent[r] \in answered[r]
          /\ resultDate[r] = 0 => ~consent[r] /\ answered[r] = {} /\ visiting[r] = {}
          /\ visiting[r] # {} => visits[r] # 0
    /\ \A h \in HistoryId : status[h] # "NONE" => resultDate[ResultOf(h)] # 0

\* Visit 0 of a configuration is unused until its histories have been made.
FillingInv ==
    /\ filling \subseteq saved
    /\ \A c \in Configs, r \in Results :
          c \notin saved \/ c \in filling => status[<<c, r, 0>>] = "NONE"

\* Every result the rows stand for is in the given set, or declined once.
Covers(rows, results) ==
    \A h \in rows : ResultOf(h) \in results \/ FALSE \in answered[ResultOf(h)]
Agreed(results) == \A r \in results : TRUE \in answered[r]

\* Outside a pass a job thread has no rows, no preparation and no cache entry;
\* inside it has rows of its own configuration.  The rows a preparation loaded,
\* the CSV in the cache and, before makeComplete, the files of the partner cover
\* the rows of the pass; the first two hold agreed results only.
PassInv(u) ==
    /\ run[u].pc \in {"idle", "next", "query"} =>
          run[u].histories = {} /\ task[u] = IdleTask /\ csvCache[u] = NoCsv
    /\ \A h \in run[u].histories : ConfigOf(h) = run[u].cfg /\ status[h] # "NONE"
    /\ task[u].pc \in {"store", "finish"} => Covers(run[u].histories, task[u].rows)
    /\ csvCache[u] # NoCsv => Covers(run[u].histories, csvCache[u]) /\ Agreed(csvCache[u])
    /\ Agreed(task[u].rows)
    /\ run[u].pc = "complete" => Covers(run[u].histories, sftp[run[u].cfg])

IInv == /\ TypeOK /\ ResultsInv /\ FillingInv
        /\ \A u \in Runs : PassInv(u)
        /\ ExportedWasDelivered /\ OnlyConsentingDelivered

-----------------------------------------------------------------------------
(* Types. *)

LEMMA RunAtType ==
  ASSUME NEW pc \in {"idle", "next", "query", "poll", "fill", "send", "complete"},
         NEW todo \in SUBSET Configs, NEW cfg \in Configs
  PROVE  RunAt(pc, todo, cfg) \in RunState
BY DEF RunAt, RunState

LEMMA IdleType == IdleRun \in RunState /\ IdleTask \in TaskState
<1>1. (CHOOSE c \in Configs : TRUE) \in Configs
  BY NonEmptyAssumption
<1>2. IdleRun \in RunState
  BY <1>1, RunAtType DEF IdleRun
<1>3. IdleTask \in TaskState
  BY DEF IdleTask, TaskState
<1>4. QED
  BY <1>2, <1>3

\* What the end of a pass leaves behind has the right types.
LEMMA EndPassType ==
  ASSUME TypeOK, NEW u \in Runs, NEW pc \in {"next", "query"}, EndPass(u, pc)
  PROVE  /\ run' \in [Runs -> RunState]
         /\ task' \in [Runs -> TaskState]
         /\ statusCache' \in [Runs -> PreparationStatus]
         /\ csvCache' \in [Runs -> (SUBSET Results) \cup {NoCsv}]
<1>1. run[u].todo \in SUBSET Configs /\ run[u].cfg \in Configs
  BY DEF TypeOK, RunState
<1>2. RunAt(pc, run[u].todo, run[u].cfg) \in RunState
  BY <1>1, RunAtType
<1>3. run' \in [Runs -> RunState] /\ task' \in [Runs -> TaskState]
  BY <1>2, IdleType DEF EndPass, TypeOK
<1>4. statusCache' \in [Runs -> PreparationStatus]
  BY DEF EndPass, TypeOK, PreparationStatus
<1>5. csvCache' \in [Runs -> (SUBSET Results) \cup {NoCsv}]
  BY DEF EndPass, TypeOK
<1>6. QED
  BY <1>3, <1>4, <1>5

\* A job thread that only moves its program counter keeps its type.
LEMMA MoveType ==
  ASSUME TypeOK, NEW u \in Runs,
         NEW pc \in {"idle", "next", "query", "poll", "fill", "send", "complete"},
         NEW H \in SUBSET HistoryId
  PROVE  /\ [run EXCEPT ![u].pc = pc] \in [Runs -> RunState]
         /\ [run EXCEPT ![u].pc = pc, ![u].histories = H] \in [Runs -> RunState]
<1>1. run[u] \in RunState
  BY DEF TypeOK
<1>2. [run[u] EXCEPT !.pc = pc] \in RunState
  BY <1>1 DEF RunState
<1>3. [run[u] EXCEPT !.pc = pc, !.histories = H] \in RunState
  BY <1>1 DEF RunState
<1>4. QED
  BY <1>2, <1>3 DEF TypeOK

\* The rows an administrator may save are configuration rows.
LEMMA AdminRowsType == AdminRows \subseteq ConfigRow
BY SettingsAssumption DEF AdminRows, ConfigRow

\* Copying a file adds results to one partner's set and counts up to 2.
LEMMA CopiedType ==
  ASSUME TypeOK, NEW u \in Runs, csvCache[u] # NoCsv, Copied(u)
  PROVE  /\ sftp' \in [Configs -> SUBSET Results]
         /\ copies' \in [HistoryId -> 0..2]
<1>1. csvCache[u] \in SUBSET Results /\ run[u].cfg \in Configs
  BY DEF TypeOK, RunState
<1>2. sftp' \in [Configs -> SUBSET Results]
  BY <1>1 DEF Copied, TypeOK
<1>3. copies' \in [HistoryId -> 0..2]
  <2>1. \A h \in HistoryId : copies[h] \in 0..2
    BY DEF TypeOK
  <2>2. \A h \in HistoryId :
           (IF h \in run[u].histories /\ copies[h] < 2 THEN copies[h] + 1 ELSE copies[h]) \in 0..2
    BY <2>1
  <2>3. QED
    BY <2>2 DEF Copied
<1>4. QED
  BY <1>2, <1>3

LEMMA InitType == Init => TypeOK
<1> SUFFICES ASSUME Init PROVE TypeOK
  OBVIOUS
<1>1. config \in [Configs -> ConfigRow]
  <2>1. (CHOOSE s \in Schedules : TRUE) \in Schedules
    BY NonEmptyAssumption
  <2>2. QED
    BY <2>1 DEF Init, ConfigRow
<1>2. run \in [Runs -> RunState] /\ task \in [Runs -> TaskState]
  BY IdleType DEF Init
<1>3. status \in [HistoryId -> HistoryStatus] /\ statusCache \in [Runs -> PreparationStatus]
  BY DEF Init, HistoryStatus, PreparationStatus
<1>4. visits \in [Results -> Visits] /\ faults \in 0..MaxFaults
  BY BoundsAssumption DEF Init, Visits
<1>5. QED
  BY <1>1, <1>2, <1>3, <1>4 DEF Init, TypeOK

LEMMA StepType == TypeOK /\ [Next]_vars => TypeOK'
<1> SUFFICES ASSUME TypeOK, [Next]_vars PROVE TypeOK'
  OBVIOUS
<1> USE DEF adminVars, wizardVars, rowVars, cacheVars, remoteVars
<1>1. ASSUME NEW r \in Results, SaveNewResults(r) PROVE TypeOK'
  BY <1>1 DEF TypeOK, SaveNewResults
<1>2. ASSUME NEW r \in Results, ReviseAnswer(r) PROVE TypeOK'
  BY <1>2 DEF TypeOK, ReviseAnswer
<1>3. ASSUME NEW r \in Results, BuildReferences(r) PROVE TypeOK'
  BY <1>3, BoundsAssumption DEF TypeOK, BuildReferences, Visits
<1>4. ASSUME NEW r \in Results, NEW c \in Configs, CreateExportHistory(r, c) PROVE TypeOK'
  BY <1>4 DEF TypeOK, CreateExportHistory, HistoryId, HistoryStatus
<1>5. ASSUME NEW c \in Configs, CreateConfiguration(c) PROVE TypeOK'
  BY <1>5, AdminRowsType DEF TypeOK, CreateConfiguration
<1>6. ASSUME NEW c \in Configs, MakeHistoriesForNewConfig(c) PROVE TypeOK'
  BY <1>6 DEF TypeOK, MakeHistoriesForNewConfig, HistoryId, HistoryStatus, ResultOf
<1>7. ASSUME NEW c \in Configs, SaveConfiguration(c) PROVE TypeOK'
  BY <1>7, AdminRowsType DEF TypeOK, SaveConfiguration
<1>8. ASSUME NEW c \in Configs, NEW d \in 0..(now - 1), UpdateHistoriesForExport(c, d) PROVE TypeOK'
  BY <1>8 DEF TypeOK, UpdateHistoriesForExport, HistoryStatus
<1>9. ASSUME NEW u \in Runs, NEW s \in Schedules, StartDelivery(u, s) PROVE TypeOK'
  <2>1. run[u] \in RunState /\ saved \in SUBSET Configs
    BY DEF TypeOK
  <2> DEFINE chosen == {c \in saved : /\ config[c].enabled
                                     /\ config[c].canSftp
                                     /\ config[c].schedule = s}
  <2>2. [run[u] EXCEPT !.pc = "next", !.todo = chosen] \in RunState
    BY <2>1 DEF RunState
  <2>3. run' \in [Runs -> RunState]
    BY <2>2, <1>9 DEF TypeOK, StartDelivery
  <2>4. QED
    BY <2>3, <1>9 DEF TypeOK, StartDelivery
<1>10. ASSUME NEW u \in Runs, NextConfiguration(u) PROVE TypeOK'
  <2>1. PICK c \in run[u].todo : run' = [run EXCEPT ![u] = RunAt("query", run[u].todo \ {c}, c)]
    BY <1>10 DEF NextConfiguration
  <2>2. run[u].todo \in SUBSET Configs
    BY DEF TypeOK, RunState
  <2>3. RunAt("query", run[u].todo \ {c}, c) \in RunState
    BY <2>1, <2>2, RunAtType
  <2>4. QED
    BY <2>1, <2>3, <1>10 DEF TypeOK, NextConfiguration
<1>11. ASSUME NEW u \in Runs, EndDelivery(u) PROVE TypeOK'
  BY <1>11, IdleType DEF TypeOK, EndDelivery
<1>12. ASSUME NEW u \in Runs, FindHistoriesForExport(u) PROVE TypeOK'
  <2>1. Prepared(run[u].cfg) \in SUBSET HistoryId
    BY DEF Prepared, RowsOf
  <2>2. [pc |-> "queued", rows |-> {}] \in TaskState
    BY DEF TaskState
  <2>3. run' \in [Runs -> RunState]
    <3>1. CASE run' = [run EXCEPT ![u].pc = "next"]
      BY <3>1, MoveType
    <3>2. CASE run' = [run EXCEPT ![u].pc = "poll", ![u].histories = Prepared(run[u].cfg)]
      BY <3>2, <2>1, MoveType
    <3>3. QED
      BY <3>1, <3>2, <1>12 DEF FindHistoriesForExport
  <2>4. task' \in [Runs -> TaskState]
    BY <2>2, <1>12 DEF FindHistoriesForExport, TypeOK
  <2>5. QED
    BY <2>3, <2>4, <1>12 DEF TypeOK, FindHistoriesForExport
<1>13. ASSUME NEW u \in Runs, PollStatus(u) PROVE TypeOK'
  <2>1. CASE EndPass(u, "query")
    BY <2>1, <1>13, EndPassType DEF TypeOK, PollStatus
  <2>2. CASE UNCHANGED <<run, task, cacheVars>>
    BY <2>2, <1>13 DEF TypeOK, PollStatus
  <2>3. ASSUME NEW pc \in {"fill", "send"}, run' = [run EXCEPT ![u].pc = pc],
               UNCHANGED <<task, cacheVars>>
        PROVE  TypeOK'
    BY <2>3, <1>13, MoveType DEF TypeOK, PollStatus
  <2>4. QED
    BY <2>1, <2>2, <2>3, <1>13 DEF PollStatus
<1>14. ASSUME NEW u \in Runs, FillStatus(u) PROVE TypeOK'
  BY <1>14, MoveType DEF TypeOK, FillStatus, PreparationStatus
<1>15. ASSUME NEW u \in Runs, WriteCsvToFtp(u) PROVE TypeOK'
  BY <1>15, MoveType, CopiedType DEF TypeOK, WriteCsvToFtp
<1>16. ASSUME NEW u \in Runs, NoCsvToWrite(u) PROVE TypeOK'
  BY <1>16, EndPassType DEF TypeOK, NoCsvToWrite
<1>17. ASSUME NEW u \in Runs, MakeComplete(u) PROVE TypeOK'
  BY <1>17, EndPassType DEF TypeOK, MakeComplete, HistoryStatus
<1>18. ASSUME NEW u \in Runs, DeliveryFails(u) PROVE TypeOK'
  <2>1. EndPass(u, "next") /\ alerts' = alerts \cup {run[u].cfg} /\ faults' \in 0..MaxFaults
    BY <1>18, BoundsAssumption DEF DeliveryFails, Abandon, Fault, TypeOK
  <2>2. alerts' \in SUBSET Configs
    BY <2>1 DEF TypeOK, RunState
  <2>3. QED
    BY <2>1, <2>2, <1>18, EndPassType DEF TypeOK, DeliveryFails, Abandon
<1>19. ASSUME NEW u \in Runs, CopyUnacknowledged(u) PROVE TypeOK'
  <2>1. EndPass(u, "next") /\ alerts' = alerts \cup {run[u].cfg} /\ faults' \in 0..MaxFaults
    BY <1>19, BoundsAssumption DEF CopyUnacknowledged, Abandon, Fault, TypeOK
  <2>2. alerts' \in SUBSET Configs
    BY <2>1 DEF TypeOK, RunState
  <2>3. QED
    BY <2>1, <2>2, <1>19, EndPassType, CopiedType DEF TypeOK, CopyUnacknowledged, Abandon
<1>20. ASSUME NEW u \in Runs, StartPreparation(u) PROVE TypeOK'
  <2>1. task[u] \in TaskState
    BY DEF TypeOK
  <2>2. [task[u] EXCEPT !.pc = "find"] \in TaskState
    BY <2>1 DEF TaskState
  <2>3. task' \in [Runs -> TaskState]
    BY <2>2, <1>20 DEF TypeOK, StartPreparation
  <2>4. QED
    BY <2>3, <1>20 DEF TypeOK, StartPreparation, TaskFrame, PreparationStatus
<1>21. ASSUME NEW u \in Runs, FindResultsForHistories(u) PROVE TypeOK'
  <2> DEFINE rows == {r \in Results : /\ consent[r]
                                     /\ \E h \in run[u].histories : ResultOf(h) = r}
  <2>1. task[u] \in TaskState
    BY DEF TypeOK
  <2>2. [task[u] EXCEPT !.pc = "store", !.rows = rows] \in TaskState
    BY <2>1 DEF TaskState
  <2>3. task' \in [Runs -> TaskState]
    BY <2>2, <1>21 DEF TypeOK, FindResultsForHistories
  <2>4. QED
    BY <2>3, <1>21 DEF TypeOK, FindResultsForHistories, TaskFrame, PreparationStatus
<1>22. ASSUME NEW u \in Runs, CreateCsvData(u) PROVE TypeOK'
  <2>1. task[u] \in TaskState
    BY DEF TypeOK
  <2>2. [task[u] EXCEPT !.pc = "finish"] \in TaskState /\ task[u].rows \in SUBSET Results
    BY <2>1 DEF TaskState
  <2>3. task' \in [Runs -> TaskState]
    BY <2>2, <1>22 DEF TypeOK, CreateCsvData
  <2>4. csvCache' \in [Runs -> (SUBSET Results) \cup {NoCsv}]
    BY <2>2, <1>22 DEF TypeOK, CreateCsvData
  <2>5. QED
    BY <2>3, <2>4, <1>22 DEF TypeOK, CreateCsvData, TaskFrame
<1>23. ASSUME NEW u \in Runs, FinishPreparation(u) PROVE TypeOK'
  <2>1. task' \in [Runs -> TaskState]
    BY <1>23, IdleType DEF TypeOK, FinishPreparation
  <2>2. QED
    BY <2>1, <1>23 DEF TypeOK, FinishPreparation, TaskFrame, PreparationStatus
<1>24. ASSUME NEW u \in Runs, PreparationFails(u) PROVE TypeOK'
  <2>1. task' \in [Runs -> TaskState] /\ faults' \in 0..MaxFaults
    BY <1>24, IdleType, BoundsAssumption DEF TypeOK, PreparationFails, Fault
  <2>2. QED
    BY <2>1, <1>24 DEF TypeOK, PreparationFails, TaskFrame, PreparationStatus
<1>25. ASSUME NEW u \in Runs, LoseCacheEntry(u) PROVE TypeOK'
  BY <1>25, BoundsAssumption DEF TypeOK, LoseCacheEntry, PreparationStatus, Fault
<1>26. CASE Restart
  BY <1>26, IdleType, BoundsAssumption DEF TypeOK, Restart, Fault, PreparationStatus
<1>27. CASE UNCHANGED vars
  BY <1>27 DEF TypeOK, vars
<1>28. QED
  BY <1>1, <1>2, <1>3, <1>4, <1>5, <1>6, <1>7, <1>8, <1>9, <1>10, <1>11, <1>12, <1>13, <1>14, <1>15, <1>16, <1>17, <1>18, <1>19, <1>20, <1>21, <1>22, <1>23, <1>24, <1>25, <1>26, <1>27 DEF Next, Wizard, Admin, Delivery, Preparation, Faults

\* Every variable keeps its type.
THEOREM TypeCorrect == Spec => []TypeOK
<1>1. Init => TypeOK
  BY InitType
<1>2. TypeOK /\ [Next]_vars => TypeOK'
  BY StepType
<1>3. QED
  BY <1>1, <1>2, PTL DEF Spec

-----------------------------------------------------------------------------
(* The inductive invariant is inductive. *)

\* Where the components of rows, runs and tasks lie.
LEMMA Fields ==
  ASSUME TypeOK
  PROVE  /\ \A h \in HistoryId : ConfigOf(h) \in Configs /\ ResultOf(h) \in Results
         /\ \A u \in Runs : /\ run[u].cfg \in Configs
                            /\ run[u].histories \in SUBSET HistoryId
                            /\ task[u].rows \in SUBSET Results
                            /\ csvCache[u] # NoCsv => csvCache[u] \in SUBSET Results
<1>1. \A h \in HistoryId : ConfigOf(h) \in Configs /\ ResultOf(h) \in Results
  BY DEF HistoryId, ConfigOf, ResultOf
<1>2. \A u \in Runs : run[u] \in RunState /\ task[u] \in TaskState
  BY DEF TypeOK
<1>3. \A u \in Runs : csvCache[u] \in (SUBSET Results) \cup {NoCsv}
  BY DEF TypeOK
<1>4. QED
  BY <1>1, <1>2, <1>3 DEF RunState, TaskState

\* Answers and delivered results are only ever added, rows never removed.
Grows ==
    /\ \A r \in Results : answered[r] \subseteq answered'[r]
    /\ \A c \in Configs : sftp[c] \subseteq sftp'[c]
    /\ \A h \in HistoryId : status[h] # "NONE" => status'[h] # "NONE"

\* A thread that does not move keeps its part of the invariant while others do.
LEMMA OthersKeepPassInv ==
  ASSUME TypeOK, Grows, NEW v \in Runs, PassInv(v),
         run'[v] = run[v], task'[v] = task[v], csvCache'[v] = csvCache[v]
  PROVE  PassInv(v)'
<1>1. /\ run[v].cfg \in Configs
      /\ run[v].histories \in SUBSET HistoryId
      /\ task[v].rows \in SUBSET Results
      /\ csvCache[v] # NoCsv => csvCache[v] \in SUBSET Results
      /\ \A h \in HistoryId : ResultOf(h) \in Results
  BY Fields
<1>2. QED
  BY <1>1 DEF PassInv, Grows, Covers, Agreed

\* The end of a pass leaves every thread in its part of the invariant.
LEMMA EndPassKeepsPassInv ==
  ASSUME TypeOK, Grows, \A v \in Runs : PassInv(v),
         NEW u \in Runs, NEW pc \in {"next", "query"}, EndPass(u, pc)
  PROVE  \A v \in Runs : PassInv(v)'
<1> SUFFICES ASSUME NEW v \in Runs PROVE PassInv(v)'
  OBVIOUS
<1>1. CASE v # u
  BY <1>1, OthersKeepPassInv DEF EndPass, TypeOK
<1>2. CASE v = u
  <2>1. run'[u] = RunAt(pc, run[u].todo, run[u].cfg) /\ task'[u] = IdleTask /\ csvCache'[u] = NoCsv
    BY DEF EndPass, TypeOK
  <2>2. run'[u].pc = pc /\ run'[u].histories = {} /\ task'[u].pc = "idle" /\ task'[u].rows = {}
    BY <2>1 DEF RunAt, IdleTask
  <2>3. PassInv(u)'
    BY <2>1, <2>2 DEF PassInv, Agreed
  <2>4. QED
    BY <2>3, <1>2
<1>3. QED
  BY <1>1, <1>2

\* What holds of delivered results goes on holding while no row is confirmed.
LEMMA GrowthKeepsDelivered ==
  ASSUME TypeOK, ExportedWasDelivered, Grows,
         \A h \in HistoryId : status'[h] = "EXPORTED" => status[h] = "EXPORTED"
  PROVE  ExportedWasDelivered'
<1>1. \A h \in HistoryId : ConfigOf(h) \in Configs /\ ResultOf(h) \in Results
  BY Fields
<1>2. QED
  BY <1>1 DEF ExportedWasDelivered, Grows

\* A copied CSV adds agreed results that cover the rows of the pass.
LEMMA CopiedKeepsConsent ==
  ASSUME IInv, NEW u \in Runs, csvCache[u] # NoCsv, Copied(u), UNCHANGED answered
  PROVE  /\ OnlyConsentingDelivered'
         /\ \A c \in Configs : sftp[c] \subseteq sftp'[c]
         /\ Covers(run[u].histories, sftp'[run[u].cfg])
<1>1. run[u].cfg \in Configs /\ PassInv(u) /\ sftp \in [Configs -> SUBSET Results]
  BY Fields DEF IInv, TypeOK
<1>2. sftp' = [sftp EXCEPT ![run[u].cfg] = sftp[run[u].cfg] \cup csvCache[u]]
  BY DEF Copied
<1>3. \A c \in Configs : sftp[c] \subseteq sftp'[c]
  BY <1>1, <1>2
<1>4. Covers(run[u].histories, sftp'[run[u].cfg])
  BY <1>1, <1>2 DEF PassInv, Covers
<1>5. Agreed(csvCache[u])
  BY <1>1 DEF PassInv
<1>6. OnlyConsentingDelivered'
  BY <1>1, <1>2, <1>5 DEF IInv, OnlyConsentingDelivered, Agreed
<1>7. QED
  BY <1>3, <1>4, <1>6

LEMMA InitInv == Init => IInv
<1> SUFFICES ASSUME Init PROVE IInv
  OBVIOUS
<1>1. TypeOK
  BY InitType
<1>2. ResultsInv
  BY <1>1, Fields DEF Init, ResultsInv
<1>3. \A c \in Configs, r \in Results : <<c, r, 0>> \in HistoryId
  BY BoundsAssumption DEF HistoryId, Visits
<1>4. FillingInv
  BY <1>3 DEF Init, FillingInv
<1>5. \A u \in Runs : PassInv(u)
  BY DEF Init, PassInv, IdleRun, RunAt, IdleTask, Covers, Agreed
<1>6. ExportedWasDelivered /\ OnlyConsentingDelivered
  BY DEF Init, ExportedWasDelivered, OnlyConsentingDelivered
<1>7. QED
  BY <1>1, <1>2, <1>4, <1>5, <1>6 DEF IInv

\* Parts of the invariant whose variables do not change.
LEMMA Frame ==
  ASSUME IInv
  PROVE  /\ UNCHANGED <<wizardVars, status>> => ResultsInv'
         /\ UNCHANGED <<saved, filling, status>> => FillingInv'
         /\ UNCHANGED <<status, sftp, answered>> => Grows /\ ExportedWasDelivered'
         /\ UNCHANGED <<sftp, answered>> => OnlyConsentingDelivered'
<1> USE DEF IInv, wizardVars
<1>1. UNCHANGED <<wizardVars, status>> => ResultsInv'
  BY DEF ResultsInv
<1>2. UNCHANGED <<saved, filling, status>> => FillingInv'
  BY DEF FillingInv
<1>3. UNCHANGED <<status, sftp, answered>> => Grows /\ ExportedWasDelivered'
  BY DEF Grows, ExportedWasDelivered
<1>4. UNCHANGED <<sftp, answered>> => OnlyConsentingDelivered'
  BY DEF OnlyConsentingDelivered
<1>5. QED
  BY <1>1, <1>2, <1>3, <1>4

\* A step outside the job and pool threads disturbs no pass.
LEMMA QuietStep ==
  ASSUME IInv, Grows, UNCHANGED <<run, task, csvCache>>
  PROVE  \A v \in Runs : PassInv(v)'
BY OthersKeepPassInv DEF IInv

\* A step of one job thread or of its preparation disturbs no other pass.
LEMMA ThreadStep ==
  ASSUME IInv, TypeOK', NEW u \in Runs, PassInv(u)',
         \A v \in Runs \ {u} : /\ run'[v] = run[v] /\ task'[v] = task[v]
                               /\ csvCache'[v] = csvCache[v],
         UNCHANGED <<adminVars, wizardVars, rowVars, sftp>>
  PROVE  IInv'
<1>1. ResultsInv' /\ FillingInv' /\ Grows /\ ExportedWasDelivered' /\ OnlyConsentingDelivered'
  BY Frame DEF adminVars, wizardVars, rowVars
<1>2. \A v \in Runs : PassInv(v)'
  BY <1>1, OthersKeepPassInv DEF IInv
<1>3. QED
  BY <1>1, <1>2 DEF IInv

\* The wizard keeps the invariant.
LEMMA WizardInv == ASSUME IInv, TypeOK', Wizard PROVE IInv'
<1> USE DEF adminVars, wizardVars, rowVars, cacheVars, remoteVars
<1>1. ASSUME NEW r \in Results, SaveNewResults(r) PROVE IInv'
  <2>1. ResultsInv'
    BY <1>1, Fields DEF IInv, TypeOK, ResultsInv, SaveNewResults
  <2>2. Grows
    BY <1>1 DEF IInv, TypeOK, ResultsInv, SaveNewResults, Grows
  <2>3. FillingInv'
    BY <1>1, Frame DEF SaveNewResults
  <2>4. ExportedWasDelivered'
    BY <1>1, <2>2, GrowthKeepsDelivered DEF IInv, SaveNewResults
  <2>5. OnlyConsentingDelivered'
    BY <1>1, <2>2 DEF IInv, TypeOK, OnlyConsentingDelivered, SaveNewResults, Grows
  <2>6. QED
    BY <1>1, <2>1, <2>2, <2>3, <2>4, <2>5, QuietStep DEF IInv, SaveNewResults
<1>2. ASSUME NEW r \in Results, ReviseAnswer(r) PROVE IInv'
  <2>1. ResultsInv'
    BY <1>2, Fields DEF IInv, TypeOK, ResultsInv, ReviseAnswer
  <2>2. Grows
    BY <1>2 DEF IInv, TypeOK, ReviseAnswer, Grows
  <2>3. FillingInv'
    BY <1>2, Frame DEF ReviseAnswer
  <2>4. ExportedWasDelivered'
    BY <1>2, <2>2, GrowthKeepsDelivered DEF IInv, ReviseAnswer
  <2>5. OnlyConsentingDelivered'
    BY <1>2, <2>2 DEF IInv, TypeOK, OnlyConsentingDelivered, ReviseAnswer, Grows
  <2>6. QED
    BY <1>2, <2>1, <2>2, <2>3, <2>4, <2>5, QuietStep DEF IInv, ReviseAnswer
<1>3. ASSUME NEW r \in Results, BuildReferences(r) PROVE IInv'
  <2>1. ResultsInv'
    BY <1>3, Fields, BoundsAssumption DEF IInv, TypeOK, ResultsInv, BuildReferences, Visits
  <2>2. FillingInv' /\ Grows /\ ExportedWasDelivered' /\ OnlyConsentingDelivered'
    BY <1>3, Frame DEF BuildReferences
  <2>3. QED
    BY <1>3, <2>1, <2>2, QuietStep DEF IInv, BuildReferences
<1>4. ASSUME NEW r \in Results, NEW c \in Configs, CreateExportHistory(r, c) PROVE IInv'
  <2> DEFINE h == <<c, r, visits[r]>>
  <2>1. h \in HistoryId /\ visiting[r] # {} /\ visits[r] # 0 /\ resultDate[r] # 0 /\ ResultOf(h) = r
    BY <1>4 DEF IInv, TypeOK, ResultsInv, CreateExportHistory, HistoryId, ResultOf
  <2>2. status' = [status EXCEPT ![h] = "PREPARED"] /\ visiting' = [visiting EXCEPT ![r] = @ \ {c}]
    BY <1>4 DEF CreateExportHistory
  <2>3. UNCHANGED <<saved, filling, sftp, answered, consent, resultDate, visits, run, task, csvCache>>
    BY <1>4 DEF CreateExportHistory
  <2>4. Grows
    BY <2>1, <2>2, <2>3 DEF IInv, TypeOK, Grows
  <2>5. ResultsInv'
    BY <2>1, <2>2, <2>3, Fields DEF IInv, TypeOK, ResultsInv
  <2>6. FillingInv'
    BY <2>1, <2>2, <2>3 DEF IInv, TypeOK, FillingInv
  <2>7. ExportedWasDelivered'
    BY <2>1, <2>2, <2>4, GrowthKeepsDelivered DEF IInv, TypeOK
  <2>8. QED
    BY <2>3, <2>4, <2>5, <2>6, <2>7, Frame, QuietStep DEF IInv
<1>5. QED
  BY <1>1, <1>2, <1>3, <1>4 DEF Wizard

\* The administrators keep the invariant.
LEMMA AdminInv == ASSUME IInv, TypeOK', Admin PROVE IInv'
<1> USE DEF adminVars, wizardVars, rowVars, cacheVars, remoteVars
<1>1. ASSUME NEW c \in Configs, CreateConfiguration(c) PROVE IInv'
  <2>1. FillingInv'
    BY <1>1 DEF IInv, FillingInv, CreateConfiguration
  <2>2. ResultsInv' /\ Grows /\ ExportedWasDelivered' /\ OnlyConsentingDelivered'
    BY <1>1, Frame DEF CreateConfiguration
  <2>3. QED
    BY <1>1, <2>1, <2>2, QuietStep DEF IInv, CreateConfiguration
<1>2. ASSUME NEW c \in Configs, MakeHistoriesForNewConfig(c) PROVE IInv'
  <2>1. PICK past \in SUBSET {r \in Results : resultDate[r] # 0} :
          status' = [h \in HistoryId |-> IF h \in {<<c, r, 0>> : r \in past} THEN "NEW" ELSE status[h]]
    BY <1>2 DEF MakeHistoriesForNewConfig
  <2>2. c \in filling /\ filling' = filling \ {c}
        /\ UNCHANGED <<saved, sftp, wizardVars, run, task, csvCache>>
    BY <1>2 DEF MakeHistoriesForNewConfig
  <2>3. \A h \in HistoryId : status'[h] # status[h] =>
            \E r \in past : h = <<c, r, 0>> /\ status'[h] = "NEW"
    BY <2>1
  <2>4. Grows
    BY <2>2, <2>3 DEF Grows
  <2>5. ResultsInv'
    <3>1. \A h \in HistoryId : status'[h] # status[h] => resultDate[ResultOf(h)] # 0
      BY <2>3 DEF ResultOf
    <3>2. QED
      BY <2>2, <3>1 DEF IInv, ResultsInv
  <2>6. FillingInv'
    <3>1. \A d \in Configs, r \in Results : d # c => status'[<<d, r, 0>>] = status[<<d, r, 0>>]
      <4> SUFFICES ASSUME NEW d \in Configs, NEW r \in Results, d # c
                   PROVE  status'[<<d, r, 0>>] = status[<<d, r, 0>>]
        OBVIOUS
      <4>1. <<d, r, 0>> \in HistoryId
        BY BoundsAssumption DEF HistoryId, Visits
      <4>2. QED
        BY <4>1, <2>3
    <3>2. QED
      BY <2>2, <3>1 DEF IInv, FillingInv
  <2>7. ExportedWasDelivered'
    BY <2>3, <2>4, GrowthKeepsDelivered DEF IInv
  <2>8. QED
    BY <2>2, <2>4, <2>5, <2>6, <2>7, Frame, QuietStep DEF IInv
<1>3. ASSUME NEW c \in Configs, SaveConfiguration(c) PROVE IInv'
  <2>1. ResultsInv' /\ FillingInv' /\ Grows /\ ExportedWasDelivered' /\ OnlyConsentingDelivered'
    BY <1>3, Frame DEF SaveConfiguration
  <2>2. QED
    BY <1>3, <2>1, QuietStep DEF IInv, SaveConfiguration
<1>4. ASSUME NEW c \in Configs, NEW d \in 0..(now - 1), UpdateHistoriesForExport(c, d) PROVE IInv'
  <2>1. \A h \in HistoryId : status'[h] # status[h] => status[h] # "NONE" /\ status'[h] = "PREPARED"
    BY <1>4 DEF UpdateHistoriesForExport, RowsOf
  <2>2. UNCHANGED <<saved, filling, sftp, wizardVars, run, task, csvCache>>
    BY <1>4 DEF UpdateHistoriesForExport
  <2>3. Grows
    BY <2>1, <2>2 DEF Grows
  <2>4. ResultsInv'
    BY <2>1, <2>2 DEF IInv, ResultsInv
  <2>5. FillingInv'
    <3>1. \A e \in Configs, r \in Results : <<e, r, 0>> \in HistoryId
      BY BoundsAssumption DEF HistoryId, Visits
    <3>2. QED
      BY <2>1, <2>2, <3>1 DEF IInv, FillingInv
  <2>6. ExportedWasDelivered'
    BY <2>1, <2>3, GrowthKeepsDelivered DEF IInv
  <2>7. QED
    BY <2>2, <2>3, <2>4, <2>5, <2>6, Frame, QuietStep DEF IInv
<1>5. QED
  BY <1>1, <1>2, <1>3, <1>4 DEF Admin

\* The job threads keep the invariant.
LEMMA DeliveryInv == ASSUME IInv, TypeOK', NEW u \in Runs,
                            Delivery(u) \/ \E s \in Schedules : StartDelivery(u, s)
                     PROVE  IInv'
<1> USE DEF adminVars, wizardVars, rowVars, cacheVars, remoteVars
<1>t. TypeOK /\ PassInv(u) /\ run[u] \in RunState
  BY DEF IInv, TypeOK
<1>1. ASSUME NEW s \in Schedules, StartDelivery(u, s) PROVE IInv'
  <2>1. run'[u].pc = "next" /\ run'[u].histories = run[u].histories /\ run[u].pc = "idle"
    BY <1>1, <1>t DEF TypeOK, StartDelivery, RunState
  <2>2. PassInv(u)'
    BY <1>1, <1>t, <2>1 DEF StartDelivery, PassInv, Covers, Agreed, IdleTask
  <2>3. QED
    BY <1>1, <2>2, <1>t, ThreadStep DEF StartDelivery, TypeOK
<1>2. CASE NextConfiguration(u)
  <2>1. run'[u].pc = "query" /\ run'[u].histories = {} /\ run[u].pc = "next"
    BY <1>2, <1>t DEF TypeOK, NextConfiguration, RunAt
  <2>2. PassInv(u)'
    BY <1>2, <1>t, <2>1 DEF NextConfiguration, PassInv, Covers, Agreed, IdleTask
  <2>3. QED
    BY <1>2, <2>2, <1>t, ThreadStep DEF NextConfiguration, TypeOK
<1>3. CASE EndDelivery(u)
  <2>1. run'[u].pc = "idle" /\ run'[u].histories = {} /\ run[u].pc = "next"
    BY <1>3, <1>t DEF TypeOK, EndDelivery, IdleRun, RunAt
  <2>2. PassInv(u)'
    BY <1>3, <1>t, <2>1 DEF EndDelivery, PassInv, Covers, Agreed, IdleTask
  <2>3. QED
    BY <1>3, <2>2, <1>t, ThreadStep DEF EndDelivery, TypeOK
<1>4. CASE FindHistoriesForExport(u)
  <2>1. CASE run' = [run EXCEPT ![u].pc = "next"] /\ UNCHANGED <<task, cacheVars>>
    <3>1. run'[u].pc = "next" /\ run'[u].histories = run[u].histories /\ run[u].pc = "query"
      BY <1>4, <2>1, <1>t DEF TypeOK, FindHistoriesForExport, RunState
    <3>2. PassInv(u)'
      BY <1>4, <1>t, <2>1, <3>1 DEF FindHistoriesForExport, PassInv, Covers, Agreed, IdleTask
    <3>3. QED
      BY <1>4, <2>1, <3>2, <1>t, ThreadStep DEF FindHistoriesForExport, TypeOK
  <2>2. CASE /\ run' = [run EXCEPT ![u].pc = "poll", ![u].histories = Prepared(run[u].cfg)]
             /\ task' = [task EXCEPT ![u] = [pc |-> "queued", rows |-> {}]]
             /\ UNCHANGED cacheVars
    <3>1. /\ run'[u].pc = "poll" /\ run'[u].histories = Prepared(run[u].cfg)
          /\ run'[u].cfg = run[u].cfg /\ run[u].pc = "query"
          /\ task'[u].pc = "queued" /\ task'[u].rows = {} /\ csvCache'[u] = NoCsv
      BY <1>4, <2>2, <1>t DEF TypeOK, FindHistoriesForExport, RunState, PassInv
    <3>2. \A h \in run'[u].histories : ConfigOf(h) = run'[u].cfg /\ status[h] # "NONE"
      BY <3>1 DEF Prepared, RowsOf
    <3>3. PassInv(u)'
      BY <1>4, <3>1, <3>2 DEF FindHistoriesForExport, PassInv, Covers, Agreed
    <3>4. QED
      BY <1>4, <2>2, <3>3, <1>t, ThreadStep DEF FindHistoriesForExport, TypeOK
  <2>3. QED
    BY <1>4, <2>1, <2>2 DEF FindHistoriesForExport
<1>5. CASE PollStatus(u)
  <2>1. CASE EndPass(u, "query")
    <3>1. ResultsInv' /\ FillingInv' /\ Grows /\ ExportedWasDelivered' /\ OnlyConsentingDelivered'
      BY <1>5, Frame DEF PollStatus
    <3>2. QED
      BY <2>1, <3>1, EndPassKeepsPassInv DEF IInv
  <2>2. CASE UNCHANGED <<run, task, cacheVars>>
    <3>1. ResultsInv' /\ FillingInv' /\ Grows /\ ExportedWasDelivered' /\ OnlyConsentingDelivered'
      BY <1>5, Frame DEF PollStatus
    <3>2. QED
      BY <2>2, <3>1, QuietStep DEF IInv
  <2>3. ASSUME NEW pc \in {"fill", "send"}, run' = [run EXCEPT ![u].pc = pc],
               UNCHANGED <<task, cacheVars>>
        PROVE  IInv'
    <3>1. /\ run'[u].pc = pc /\ run'[u].histories = run[u].histories
          /\ run'[u].cfg = run[u].cfg /\ run[u].pc = "poll"
      BY <1>5, <2>3, <1>t DEF TypeOK, PollStatus, RunState
    <3>2. PassInv(u)'
      BY <1>5, <1>t, <2>3, <3>1 DEF PollStatus, PassInv, Covers, Agreed
    <3>3. QED
      BY <1>5, <2>3, <3>2, <1>t, ThreadStep DEF PollStatus, TypeOK
  <2>4. QED
    BY <2>1, <2>2, <2>3, <1>5 DEF PollStatus
<1>6. CASE FillStatus(u)
  <2>1. /\ run'[u].pc = "poll" /\ run'[u].histories = run[u].histories
        /\ run'[u].cfg = run[u].cfg /\ run[u].pc = "fill"
    BY <1>6, <1>t DEF TypeOK, FillStatus, RunState
  <2>2. PassInv(u)'
    BY <1>6, <1>t, <2>1 DEF FillStatus, PassInv, Covers, Agreed
  <2>3. QED
    BY <1>6, <2>2, <1>t, ThreadStep DEF FillStatus, TypeOK
<1>7. CASE WriteCsvToFtp(u)
  <2>1. /\ run'[u].pc = "complete" /\ run'[u].histories = run[u].histories
        /\ run'[u].cfg = run[u].cfg /\ run[u].pc = "send"
    BY <1>7, <1>t DEF TypeOK, WriteCsvToFtp, RunState
  <2>2. csvCache[u] # NoCsv /\ Copied(u) /\ UNCHANGED <<answered, status, task, csvCache>>
    BY <1>7 DEF WriteCsvToFtp
  <2>3. OnlyConsentingDelivered' /\ Grows /\ Covers(run[u].histories, sftp'[run[u].cfg])
    BY <2>2, CopiedKeepsConsent DEF Grows
  <2>4. ResultsInv' /\ FillingInv' /\ ExportedWasDelivered'
    BY <1>7, <2>2, <2>3, <1>t, Frame, GrowthKeepsDelivered DEF WriteCsvToFtp, IInv
  <2>5. PassInv(u)'
    BY <1>t, <2>1, <2>2, <2>3 DEF PassInv, Covers, Agreed
  <2>6. \A v \in Runs \ {u} : PassInv(v)'
    BY <1>7, <1>t, <2>2, <2>3, OthersKeepPassInv DEF IInv, WriteCsvToFtp, TypeOK
  <2>7. QED
    BY <2>3, <2>4, <2>5, <2>6 DEF IInv
<1>8. CASE NoCsvToWrite(u)
  <2>1. ResultsInv' /\ FillingInv' /\ Grows /\ ExportedWasDelivered' /\ OnlyConsentingDelivered'
    BY <1>8, Frame DEF NoCsvToWrite
  <2>2. QED
    BY <1>8, <2>1, EndPassKeepsPassInv DEF IInv, NoCsvToWrite
<1>9. CASE MakeComplete(u)
  <2>1. \A h \in HistoryId : status'[h] # status[h] => h \in run[u].histories /\ status'[h] = "EXPORTED"
    BY <1>9 DEF MakeComplete
  <2>2. UNCHANGED <<saved, filling, wizardVars, sftp>> /\ EndPass(u, "query") /\ run[u].pc = "complete"
    BY <1>9 DEF MakeComplete
  <2>3. \A h \in run[u].histories : ConfigOf(h) = run[u].cfg /\ status[h] # "NONE"
    BY <1>t DEF PassInv
  <2>4. Grows
    BY <2>1, <2>2, <2>3 DEF Grows
  <2>5. ResultsInv'
    BY <2>1, <2>2, <2>3 DEF IInv, ResultsInv
  <2>6. FillingInv'
    <3>1. \A e \in Configs, r \in Results : <<e, r, 0>> \in HistoryId
      BY BoundsAssumption DEF HistoryId, Visits
    <3>2. QED
      BY <2>1, <2>2, <2>3, <3>1 DEF IInv, FillingInv
  <2>7. ExportedWasDelivered'
    <3>1. Covers(run[u].histories, sftp[run[u].cfg])
      BY <1>t, <2>2 DEF PassInv
    <3>2. QED
      BY <2>1, <2>2, <2>3, <3>1 DEF IInv, ExportedWasDelivered, Covers
  <2>8. OnlyConsentingDelivered' /\ \A v \in Runs : PassInv(v)'
    BY <2>2, <2>4, Frame, EndPassKeepsPassInv DEF IInv
  <2>9. QED
    BY <2>5, <2>6, <2>7, <2>8 DEF IInv
<1>10. QED
  BY <1>1, <1>2, <1>3, <1>4, <1>5, <1>6, <1>7, <1>8, <1>9 DEF Delivery

\* The pool threads keep the invariant.
LEMMA PreparationInv == ASSUME IInv, TypeOK', NEW u \in Runs, Preparation(u) PROVE IInv'
<1> USE DEF adminVars, wizardVars, rowVars, cacheVars, remoteVars, TaskFrame
<1>t. TypeOK /\ PassInv(u) /\ run[u] \in RunState /\ task[u] \in TaskState
  BY DEF IInv, TypeOK
<1>u. run[u].pc \in {"idle", "next", "query"} => task[u].pc = "idle"
  BY <1>t DEF PassInv, IdleTask
<1>v. run'[u] = run[u] /\ UNCHANGED <<status, sftp, answered>>
  BY DEF Preparation, StartPreparation, FindResultsForHistories, CreateCsvData, FinishPreparation
<1>1. CASE StartPreparation(u)
  <2>1. task'[u].pc = "find" /\ task'[u].rows = task[u].rows /\ task[u].pc = "queued"
    BY <1>1, <1>t DEF TypeOK, StartPreparation, TaskState
  <2>2. PassInv(u)'
    BY <1>1, <1>t, <1>u, <1>v, <2>1 DEF StartPreparation, PassInv, Covers, Agreed
  <2>3. QED
    BY <1>1, <2>2, <1>t, ThreadStep DEF StartPreparation, TypeOK
<1>2. CASE FindResultsForHistories(u)
  <2> DEFINE loaded == {r \in Results : /\ consent[r]
                                        /\ \E h \in run[u].histories : ResultOf(h) = r}
  <2>1. task'[u].pc = "store" /\ task'[u].rows = loaded /\ task[u].pc = "find"
    BY <1>2, <1>t DEF TypeOK, FindResultsForHistories, TaskState
  <2>2. ResultsInv /\ consent \in [Results -> BOOLEAN]
    BY DEF IInv, TypeOK
  <2>3. Agreed(loaded)
    BY <2>2 DEF ResultsInv, Agreed
  <2>4. \A h \in run[u].histories : h \in HistoryId /\ ResultOf(h) \in Results /\ status[h] # "NONE"
    BY <1>t, Fields DEF PassInv
  <2>5. Covers(run[u].histories, loaded)
    BY <2>2, <2>4 DEF ResultsInv, Covers
  <2>6. PassInv(u)'
    BY <1>2, <1>t, <1>u, <1>v, <2>1, <2>3, <2>5 DEF FindResultsForHistories, PassInv, Covers, Agreed
  <2>7. QED
    BY <1>2, <2>6, <1>t, ThreadStep DEF FindResultsForHistories, TypeOK
<1>3. CASE CreateCsvData(u)
  <2>1. /\ task'[u].pc = "finish" /\ task'[u].rows = task[u].rows /\ task[u].pc = "store"
        /\ csvCache'[u] = task[u].rows
    BY <1>3, <1>t DEF TypeOK, CreateCsvData, TaskState
  <2>2. PassInv(u)'
    BY <1>3, <1>t, <1>u, <1>v, <2>1 DEF CreateCsvData, PassInv, Covers, Agreed
  <2>3. QED
    BY <1>3, <2>2, <1>t, ThreadStep DEF CreateCsvData, TypeOK
<1>4. CASE FinishPreparation(u)
  <2>1. task'[u] = IdleTask /\ task'[u].pc = "idle" /\ task'[u].rows = {}
    BY <1>4, <1>t DEF TypeOK, FinishPreparation, IdleTask
  <2>2. PassInv(u)'
    BY <1>4, <1>t, <1>u, <1>v, <2>1 DEF FinishPreparation, PassInv, Covers, Agreed
  <2>3. QED
    BY <1>4, <2>2, <1>t, ThreadStep DEF FinishPreparation, TypeOK
<1>5. QED
  BY <1>1, <1>2, <1>3, <1>4 DEF Preparation

\* Crashes, exceptions and lost cache entries keep the invariant.
LEMMA FaultsInv == ASSUME IInv, TypeOK', Faults PROVE IInv'
<1> USE DEF adminVars, wizardVars, rowVars, cacheVars, remoteVars
<1>1. ASSUME NEW u \in Runs, DeliveryFails(u) PROVE IInv'
  <2>1. ResultsInv' /\ FillingInv' /\ Grows /\ ExportedWasDelivered' /\ OnlyConsentingDelivered'
    BY <1>1, Frame DEF DeliveryFails, Abandon
  <2>2. QED
    BY <1>1, <2>1, EndPassKeepsPassInv DEF IInv, DeliveryFails, Abandon
<1>2. ASSUME NEW u \in Runs, CopyUnacknowledged(u) PROVE IInv'
  <2>1. csvCache[u] # NoCsv /\ Copied(u) /\ EndPass(u, "next") /\ UNCHANGED <<answered, status>>
    BY <1>2 DEF CopyUnacknowledged, Abandon
  <2>2. OnlyConsentingDelivered' /\ Grows
    BY <2>1, CopiedKeepsConsent DEF Grows
  <2>3. ResultsInv' /\ FillingInv' /\ ExportedWasDelivered'
    BY <1>2, <2>1, <2>2, Frame, GrowthKeepsDelivered DEF CopyUnacknowledged, Abandon, IInv
  <2>4. \A v \in Runs : PassInv(v)'
    BY <2>1, <2>2, EndPassKeepsPassInv DEF IInv
  <2>5. QED
    BY <2>2, <2>3, <2>4 DEF IInv
<1>3. ASSUME NEW u \in Runs, PreparationFails(u) PROVE IInv'
  <2>1. TypeOK /\ PassInv(u)
    BY DEF IInv
  <2>2. /\ task'[u] = IdleTask /\ task'[u].pc = "idle" /\ task'[u].rows = {}
    BY <1>3, <2>1 DEF TypeOK, PreparationFails, IdleTask
  <2>3. PassInv(u)'
    BY <1>3, <2>1, <2>2 DEF PreparationFails, TaskFrame, PassInv, Covers, Agreed
  <2>4. QED
    BY <1>3, <2>1, <2>3, ThreadStep DEF PreparationFails, TaskFrame, TypeOK
<1>4. ASSUME NEW u \in Runs, LoseCacheEntry(u) PROVE IInv'
  <2>1. TypeOK /\ PassInv(u)
    BY DEF IInv
  <2>2. csvCache'[u] \in {csvCache[u], NoCsv} /\ UNCHANGED <<run, task>>
        /\ \A v \in Runs \ {u} : csvCache'[v] = csvCache[v]
    BY <1>4, <2>1 DEF TypeOK, LoseCacheEntry
  <2>3. PassInv(u)'
    BY <1>4, <2>1, <2>2 DEF LoseCacheEntry, PassInv, Covers, Agreed
  <2>4. QED
    BY <1>4, <2>1, <2>2, <2>3, ThreadStep DEF LoseCacheEntry
<1>5. CASE Restart
  <2>1. UNCHANGED <<status, sftp, answered, saved, resultDate, consent, visits>>
        /\ visiting' = [r \in Results |-> {}] /\ filling' = {}
    BY <1>5 DEF Restart
  <2>2. ResultsInv'
    BY <2>1 DEF IInv, ResultsInv
  <2>3. FillingInv'
    BY <2>1 DEF IInv, FillingInv
  <2>4. Grows /\ ExportedWasDelivered' /\ OnlyConsentingDelivered'
    BY <2>1, Frame
  <2>5. ASSUME NEW v \in Runs PROVE PassInv(v)'
    <3>1. run'[v] = IdleRun /\ task'[v] = IdleTask /\ csvCache'[v] = NoCsv
      BY <1>5 DEF Restart
    <3>2. run'[v].pc = "idle" /\ run'[v].histories = {} /\ task'[v].pc = "idle" /\ task'[v].rows = {}
      BY <3>1 DEF IdleRun, RunAt, IdleTask
    <3>3. QED
      BY <3>1, <3>2 DEF PassInv, Agreed
  <2>6. QED
    BY <2>2, <2>3, <2>4, <2>5 DEF IInv
<1>6. QED
  BY <1>1, <1>2, <1>3, <1>4, <1>5 DEF Faults

LEMMA StepInv == IInv /\ [Next]_vars => IInv'
<1> SUFFICES ASSUME IInv, [Next]_vars PROVE IInv'
  OBVIOUS
<1>1. TypeOK'
  BY StepType DEF IInv
<1>2. CASE Next
  BY <1>1, <1>2, WizardInv, AdminInv, DeliveryInv, PreparationInv, FaultsInv DEF Next
<1>3. CASE UNCHANGED vars
  <2>1. ResultsInv' /\ FillingInv' /\ Grows /\ ExportedWasDelivered' /\ OnlyConsentingDelivered'
    BY <1>3, Frame DEF vars, adminVars, wizardVars, rowVars, remoteVars
  <2>2. QED
    BY <1>1, <1>3, <2>1, QuietStep DEF IInv, vars, cacheVars
<1>4. QED
  BY <1>2, <1>3

LEMMA Invariance == Spec => []IInv
BY InitInv, StepInv, PTL DEF Spec

\* Whatever the number of results, configurations, job threads and faults, a row
\* is confirmed only when its result was delivered or once declined.
THEOREM ExportedDelivered == Spec => []ExportedWasDelivered
<1>1. IInv => ExportedWasDelivered
  BY DEF IInv
<1>2. QED
  BY <1>1, Invariance, PTL

\* Whatever those numbers are, partners only receive results of voters who agreed
\* to the transfer at some time.
THEOREM ConsentRespected == Spec => []OnlyConsentingDelivered
<1>1. IInv => OnlyConsentingDelivered
  BY DEF IInv
<1>2. QED
  BY <1>1, Invariance, PTL

-----------------------------------------------------------------------------
(* RegistrationExport implements ExportContract. *)

LEMMA ContractStep == IInv /\ [Next]_vars => [Contract!Next]_(Contract!vars)
<1> SUFFICES ASSUME IInv, [Next]_vars PROVE [Contract!Next]_(Contract!vars)
  OBVIOUS
<1> USE DEF adminVars, wizardVars, rowVars, cacheVars, remoteVars
<1>t. TypeOK
  BY DEF IInv
<1>s. ASSUME UNCHANGED <<status, sftp, answered>> PROVE [Contract!Next]_(Contract!vars)
  BY <1>s DEF Contract!vars
<1>1. ASSUME NEW r \in Results, NEW a \in BOOLEAN,
             answered' = [answered EXCEPT ![r] = @ \cup {a}], UNCHANGED <<status, sftp>>
      PROVE  [Contract!Next]_(Contract!vars)
  BY <1>1 DEF Contract!Answer, Contract!Next
<1>2. ASSUME NEW rows \in SUBSET HistoryId, NEW as \in {"NEW", "PREPARED"},
             as = "NEW" => \A h \in rows : status[h] = "NONE",
             status' = [h \in HistoryId |-> IF h \in rows THEN as ELSE status[h]],
             UNCHANGED <<sftp, answered>>
      PROVE  [Contract!Next]_(Contract!vars)
  BY <1>2 DEF Contract!Make, Contract!Next
<1>3. ASSUME NEW u \in Runs, csvCache[u] # NoCsv, Copied(u), UNCHANGED <<status, answered>>
      PROVE  [Contract!Next]_(Contract!vars)
  <2>1. run[u].cfg \in Configs /\ csvCache[u] \in SUBSET Results
    BY <1>3, <1>t, Fields
  <2>2. \A r \in csvCache[u] : TRUE \in answered[r]
    BY <1>3 DEF IInv, PassInv, Agreed
  <2>3. sftp' = [sftp EXCEPT ![run[u].cfg] = @ \cup csvCache[u]]
    BY <1>3 DEF Copied
  <2>4. Contract!Deliver(run[u].cfg, csvCache[u])
    BY <2>2, <2>3, <1>3 DEF Contract!Deliver
  <2>5. QED
    BY <2>1, <2>4 DEF Contract!Next
<1>4. ASSUME NEW r \in Results, SaveNewResults(r) PROVE [Contract!Next]_(Contract!vars)
  <2>1. answered[r] = {}
    BY <1>4 DEF IInv, ResultsInv, SaveNewResults
  <2>2. PICK a \in BOOLEAN : answered' = [answered EXCEPT ![r] = {a}]
    BY <1>4 DEF SaveNewResults
  <2>3. answered' = [answered EXCEPT ![r] = @ \cup {a}]
    BY <2>1, <2>2
  <2>4. QED
    BY <2>3, <1>1, <1>4 DEF SaveNewResults
<1>5. ASSUME NEW r \in Results, ReviseAnswer(r) PROVE [Contract!Next]_(Contract!vars)
  BY <1>5, <1>1 DEF ReviseAnswer
<1>6. ASSUME NEW r \in Results, NEW c \in Configs, CreateExportHistory(r, c)
      PROVE  [Contract!Next]_(Contract!vars)
  <2> DEFINE h == <<c, r, visits[r]>>
  <2>1. h \in HistoryId
    BY <1>t DEF TypeOK, HistoryId
  <2>2. status' = [g \in HistoryId |-> IF g \in {h} THEN "PREPARED" ELSE status[g]]
    BY <1>6, <1>t DEF TypeOK, CreateExportHistory
  <2>3. QED
    BY <2>1, <2>2, <1>2, <1>6 DEF CreateExportHistory
<1>7. ASSUME NEW c \in Configs, MakeHistoriesForNewConfig(c) PROVE [Contract!Next]_(Contract!vars)
  <2>1. PICK past \in SUBSET {r \in Results : resultDate[r] # 0} :
          status' = [h \in HistoryId |-> IF h \in {<<c, r, 0>> : r \in past} THEN "NEW" ELSE status[h]]
    BY <1>7 DEF MakeHistoriesForNewConfig
  <2> DEFINE made == {<<c, r, 0>> : r \in past}
  <2>2. made \in SUBSET HistoryId
    BY BoundsAssumption DEF HistoryId, Visits
  <2>3. \A h \in made : status[h] = "NONE"
    BY <1>7 DEF IInv, FillingInv, MakeHistoriesForNewConfig
  <2>4. QED
    BY <2>1, <2>2, <2>3, <1>2, <1>7 DEF MakeHistoriesForNewConfig
<1>8. ASSUME NEW c \in Configs, NEW d \in 0..(now - 1), UpdateHistoriesForExport(c, d)
      PROVE  [Contract!Next]_(Contract!vars)
  <2> DEFINE again == {h \in RowsOf(c) : status[h] # "PREPARED" /\ created[h] > d}
  <2>1. again \in SUBSET HistoryId
    BY DEF RowsOf
  <2>2. QED
    BY <2>1, <1>2, <1>8 DEF UpdateHistoriesForExport
<1>9. ASSUME NEW u \in Runs, MakeComplete(u) PROVE [Contract!Next]_(Contract!vars)
  <2>1. PassInv(u) /\ run[u].pc = "complete" /\ run[u].histories \in SUBSET HistoryId
    BY <1>9, <1>t, Fields DEF IInv, MakeComplete
  <2>2. \A h \in run[u].histories : /\ status[h] # "NONE"
                                    /\ \/ ResultOf(h) \in sftp[ConfigOf(h)]
                                       \/ FALSE \in answered[ResultOf(h)]
    BY <2>1 DEF PassInv, Covers
  <2>3. Contract!Confirm(run[u].histories)
    BY <2>1, <2>2, <1>9 DEF MakeComplete, Contract!Confirm
  <2>4. QED
    BY <2>1, <2>3 DEF Contract!Next
<1>10. ASSUME NEW u \in Runs, Delivery(u) PROVE [Contract!Next]_(Contract!vars)
  <2>1. CASE WriteCsvToFtp(u)
    BY <2>1, <1>3 DEF WriteCsvToFtp
  <2>2. CASE ~WriteCsvToFtp(u) /\ ~MakeComplete(u)
    BY <2>2, <1>10, <1>s DEF Delivery, NextConfiguration, EndDelivery, FindHistoriesForExport,
                             PollStatus, FillStatus, NoCsvToWrite
  <2>3. QED
    BY <2>1, <2>2, <1>9
<1>11. ASSUME NEW u \in Runs, CopyUnacknowledged(u) PROVE [Contract!Next]_(Contract!vars)
  BY <1>11, <1>3 DEF CopyUnacknowledged, Abandon
<1>12. CASE Wizard
  <2>1. ASSUME NEW r \in Results, BuildReferences(r) PROVE [Contract!Next]_(Contract!vars)
    BY <2>1, <1>s DEF BuildReferences
  <2>2. QED
    BY <2>1, <1>4, <1>5, <1>6, <1>12 DEF Wizard
<1>13. CASE Admin
  <2>1. ASSUME NEW c \in Configs, CreateConfiguration(c) \/ SaveConfiguration(c)
        PROVE  [Contract!Next]_(Contract!vars)
    BY <2>1, <1>s DEF CreateConfiguration, SaveConfiguration
  <2>2. QED
    BY <2>1, <1>7, <1>8, <1>13 DEF Admin
<1>14. ASSUME NEW u \in Runs, Preparation(u) \/ \E s \in Schedules : StartDelivery(u, s)
       PROVE  [Contract!Next]_(Contract!vars)
  BY <1>14, <1>s DEF Preparation, StartPreparation, FindResultsForHistories, CreateCsvData,
                     FinishPreparation, TaskFrame, StartDelivery
<1>15. CASE Faults
  <2>1. ASSUME NEW u \in Runs, DeliveryFails(u) \/ PreparationFails(u) \/ LoseCacheEntry(u)
        PROVE  [Contract!Next]_(Contract!vars)
    BY <2>1, <1>s DEF DeliveryFails, Abandon, PreparationFails, TaskFrame, LoseCacheEntry
  <2>2. CASE Restart
    BY <2>2, <1>s DEF Restart
  <2>3. QED
    BY <2>1, <2>2, <1>11, <1>15 DEF Faults
<1>16. CASE UNCHANGED vars
  BY <1>16, <1>s DEF vars
<1>17. QED
  BY <1>10, <1>12, <1>13, <1>14, <1>15, <1>16 DEF Next

\* The jobs with their caches, pools and faults implement the at-least-once
\* contract: rows never vanish, a confirmation follows a delivery or a refusal,
\* only agreed results are delivered.
THEOREM Implements == Spec => ImplementsContract
<1>1. Init => Contract!Init
  BY DEF Init, Contract!Init
<1>2. IInv /\ [Next]_vars => [Contract!Next]_(Contract!vars)
  BY ContractStep
<1>3. QED
  BY <1>1, <1>2, Invariance, PTL DEF Spec, ImplementsContract, Contract!Spec

-----------------------------------------------------------------------------
(* Runs that do not overlap: no request is swallowed, no row travels twice   *)
(* without a fault.                                                          *)

OneRun == \A u, v \in Runs : u = v

\* The row that a visit of the final page is still to write is not there yet.
VisitInv ==
    \A c \in Configs, r \in Results, v \in Visits \ {0} :
        v > visits[r] \/ (v = visits[r] /\ c \in visiting[r]) => status[<<c, r, v>>] = "NONE"

\* The rows of a pass stay PREPARED, and are copied before makeComplete.
FreshInv ==
    \A u \in Runs : \A h \in run[u].histories :
        status[h] = "PREPARED" /\ (run[u].pc = "complete" => copies[h] > 0)

\* Without a fault a row that was copied is EXPORTED, or about to be.
OnceInv ==
    faults = 0 =>
        \A h \in HistoryId :
            /\ copies[h] <= 1
            /\ copies[h] = 1 =>
                  \/ status[h] = "EXPORTED"
                  \/ \E u \in Runs : run[u].pc = "complete" /\ h \in run[u].histories

SingleInv == OneRun /\ IInv /\ VisitInv /\ FreshInv /\ OnceInv

LEMMA SingleInit == OneRun /\ Init => SingleInv
<1> SUFFICES ASSUME OneRun, Init PROVE SingleInv
  OBVIOUS
<1>1. IInv
  BY InitInv
<1>2. \A c \in Configs, r \in Results, v \in Visits : <<c, r, v>> \in HistoryId
  BY DEF HistoryId
<1>3. VisitInv
  BY <1>2 DEF Init, VisitInv
<1>4. FreshInv
  BY DEF Init, IdleRun, RunAt, FreshInv
<1>5. OnceInv
  BY DEF Init, OnceInv
<1>6. QED
  BY <1>1, <1>3, <1>4, <1>5 DEF SingleInv

\* Visits under way and rows not yet there.
LEMMA VisitFrame ==
  ASSUME VisitInv, UNCHANGED visits,
         \A r \in Results : visiting'[r] \subseteq visiting[r],
         \A h \in HistoryId : status[h] = "NONE" => status'[h] = "NONE"
  PROVE  VisitInv'
<1>1. \A c \in Configs, r \in Results, v \in Visits : <<c, r, v>> \in HistoryId
  BY DEF HistoryId
<1>2. QED
  BY <1>1 DEF VisitInv

\* A step that leaves rows and passes alone.
LEMMA StillStep ==
  ASSUME SingleInv, IInv', UNCHANGED <<run, status, copies, visits>>,
         \A r \in Results : visiting'[r] \subseteq visiting[r],
         faults' = 0 => faults = 0
  PROVE  SingleInv'
<1>1. VisitInv'
  BY VisitFrame DEF SingleInv
<1>2. FreshInv' /\ OnceInv'
  BY DEF SingleInv, FreshInv, OnceInv
<1>3. QED
  BY <1>1, <1>2 DEF SingleInv, OneRun

\* A step of the job thread that leaves the rows alone and holds no others.
LEMMA MoveStep ==
  ASSUME SingleInv, IInv', NEW u \in Runs, UNCHANGED <<status, copies, visits, visiting>>,
         run'[u].histories \subseteq run[u].histories, run'[u].pc # "complete",
         faults' = 0 => faults = 0 /\ run[u].pc # "complete"
  PROVE  SingleInv'
<1>0. \A v \in Runs : v = u
  BY DEF SingleInv, OneRun
<1>1. VisitInv'
  BY VisitFrame DEF SingleInv
<1>2. FreshInv'
  BY <1>0 DEF SingleInv, FreshInv
<1>3. OnceInv'
  <2> SUFFICES ASSUME faults' = 0, NEW h \in HistoryId
               PROVE  copies[h] <= 1 /\ (copies[h] = 1 => status[h] = "EXPORTED")
    BY DEF OnceInv
  <2>1. QED
    BY <1>0 DEF SingleInv, OnceInv
<1>4. QED
  BY <1>1, <1>2, <1>3 DEF SingleInv, OneRun

\* A step of the wizard or of an administrator makes rows NEW or PREPARED that
\* are not PREPARED, and so in no pass.
LEMMA RowStep ==
  ASSUME SingleInv, IInv', UNCHANGED <<run, faults>>, VisitInv',
         \A h \in HistoryId :
            \/ status'[h] = status[h] /\ copies'[h] = copies[h]
            \/ status[h] # "PREPARED" /\ copies'[h] = 0
            \/ status[h] = "NONE" /\ copies'[h] = copies[h]
  PROVE  SingleInv'
<1>1. TypeOK /\ \A u \in Runs : run[u].histories \subseteq HistoryId
  BY Fields DEF SingleInv, IInv
<1>2. FreshInv'
  <2> SUFFICES ASSUME NEW u \in Runs, NEW h \in run[u].histories
               PROVE  status'[h] = "PREPARED" /\ (run[u].pc = "complete" => copies'[h] > 0)
    BY DEF FreshInv
  <2>1. h \in HistoryId /\ status[h] = "PREPARED" /\ (run[u].pc = "complete" => copies[h] > 0)
    BY <1>1 DEF SingleInv, FreshInv
  <2>2. QED
    BY <2>1
<1>3. OnceInv'
  <2> SUFFICES ASSUME faults = 0, NEW h \in HistoryId
               PROVE  /\ copies'[h] <= 1
                      /\ copies'[h] = 1 =>
                            \/ status'[h] = "EXPORTED"
                            \/ \E u \in Runs : run[u].pc = "complete" /\ h \in run[u].histories
    BY DEF OnceInv
  <2>1. /\ copies[h] <= 1
        /\ copies[h] = 1 => \/ status[h] = "EXPORTED"
                            \/ \E u \in Runs : run[u].pc = "complete" /\ h \in run[u].histories
    BY DEF SingleInv, OnceInv
  <2>2. status[h] = "NONE" => copies[h] # 1
    BY <2>1 DEF SingleInv, FreshInv
  <2>3. QED
    BY <2>1, <2>2
<1>4. QED
  BY <1>2, <1>3 DEF SingleInv, OneRun

LEMMA SingleWizard == ASSUME SingleInv, IInv', Wizard PROVE SingleInv'
<1>0. TypeOK /\ ResultsInv
  BY DEF SingleInv, IInv
<1>1. ASSUME NEW r \in Results, SaveNewResults(r) \/ ReviseAnswer(r) PROVE SingleInv'
  <2>1. UNCHANGED <<run, status, copies, visits, visiting, faults>>
    BY <1>1 DEF SaveNewResults, ReviseAnswer, rowVars
  <2>2. QED
    BY <2>1, StillStep
<1>2. ASSUME NEW r \in Results, BuildReferences(r) PROVE SingleInv'
  <2>1. /\ UNCHANGED <<run, status, copies, faults>>
        /\ visiting[r] = {} /\ visits'[r] = visits[r] + 1
        /\ \A q \in Results : q # r => visits'[q] = visits[q] /\ visiting'[q] = visiting[q]
    BY <1>0, <1>2 DEF BuildReferences, rowVars, TypeOK
  <2>2. VisitInv'
    <3> SUFFICES ASSUME NEW c \in Configs, NEW q \in Results, NEW v \in Visits \ {0},
                        v > visits'[q] \/ (v = visits'[q] /\ c \in visiting'[q])
                 PROVE  status[<<c, q, v>>] = "NONE"
      BY <2>1 DEF VisitInv
    <3>1. v > visits[q] \/ (v = visits[q] /\ c \in visiting[q])
      <4>1. v \in Nat /\ visits[q] \in Nat /\ visits[r] \in Nat
        BY <1>0 DEF TypeOK, Visits
      <4>2. CASE q = r
        BY <2>1, <4>1, <4>2
      <4>3. CASE q # r
        BY <2>1, <4>3
      <4>4. QED
        BY <4>2, <4>3
    <3>2. QED
      BY <3>1 DEF SingleInv, VisitInv
  <2>3. QED
    BY <2>1, <2>2, RowStep
<1>3. ASSUME NEW r \in Results, NEW c \in Configs, CreateExportHistory(r, c) PROVE SingleInv'
  <2> DEFINE g == <<c, r, visits[r]>>
  <2>1. /\ UNCHANGED <<run, visits, faults>> /\ c \in visiting[r]
        /\ visiting' = [visiting EXCEPT ![r] = @ \ {c}]
        /\ status' = [status EXCEPT ![g] = "PREPARED"]
        /\ copies' = [copies EXCEPT ![g] = 0]
    BY <1>3 DEF CreateExportHistory
  <2>2. visits[r] \in Visits \ {0}
    BY <1>0, <2>1 DEF ResultsInv, TypeOK
  <2>3. g \in HistoryId /\ status[g] = "NONE"
    BY <2>1, <2>2 DEF HistoryId, SingleInv, VisitInv
  <2>4. VisitInv'
    <3> SUFFICES ASSUME NEW d \in Configs, NEW q \in Results, NEW v \in Visits \ {0},
                        v > visits[q] \/ (v = visits[q] /\ d \in visiting'[q])
                 PROVE  status'[<<d, q, v>>] = "NONE"
      BY <2>1 DEF VisitInv
    <3>1. visiting'[q] \subseteq visiting[q] /\ (q = r => c \notin visiting'[q])
      BY <1>0, <2>1 DEF TypeOK
    <3>2. status[<<d, q, v>>] = "NONE" /\ <<d, q, v>> \in HistoryId
      BY <3>1 DEF SingleInv, VisitInv, HistoryId
    <3>3. v \in Nat /\ visits[q] \in Nat
      BY <1>0 DEF TypeOK, Visits
    <3>4. <<d, q, v>> # g
      BY <3>1, <3>3
    <3> HIDE DEF g
    <3>5. QED
      BY <1>0, <2>1, <3>2, <3>4 DEF TypeOK
  <2> HIDE DEF g
  <2>5. \A h \in HistoryId : \/ status'[h] = status[h] /\ copies'[h] = copies[h]
                             \/ status[h] # "PREPARED" /\ copies'[h] = 0
    BY <1>0, <2>1, <2>3 DEF TypeOK
  <2>6. QED
    BY <2>1, <2>4, <2>5, RowStep
<1>4. QED
  BY <1>1, <1>2, <1>3 DEF Wizard

LEMMA SingleAdmin == ASSUME SingleInv, IInv', Admin PROVE SingleInv'
<1>0. TypeOK /\ FillingInv
  BY DEF SingleInv, IInv
<1>1. ASSUME NEW c \in Configs, CreateConfiguration(c) \/ SaveConfiguration(c) PROVE SingleInv'
  <2>1. UNCHANGED <<run, status, copies, visits, visiting, faults>>
    BY <1>1 DEF CreateConfiguration, SaveConfiguration, rowVars, wizardVars
  <2>2. QED
    BY <2>1, StillStep
<1>2. ASSUME NEW c \in Configs, MakeHistoriesForNewConfig(c) PROVE SingleInv'
  <2>1. PICK past \in SUBSET Results :
           status' = [h \in HistoryId |-> IF h \in {<<c, r, 0>> : r \in past} THEN "NEW" ELSE status[h]]
    BY <1>2 DEF MakeHistoriesForNewConfig
  <2>2. UNCHANGED <<run, copies, visits, visiting, faults>> /\ c \in filling
    BY <1>2 DEF MakeHistoriesForNewConfig, wizardVars
  <2>3. \A h \in HistoryId : \/ status'[h] = status[h]
                             \/ status[h] = "NONE" /\ \E r \in past : h = <<c, r, 0>>
    BY <1>0, <2>1, <2>2 DEF FillingInv
  <2>4. VisitInv'
    <3> SUFFICES ASSUME NEW d \in Configs, NEW q \in Results, NEW v \in Visits \ {0},
                        v > visits[q] \/ (v = visits[q] /\ d \in visiting[q])
                 PROVE  status'[<<d, q, v>>] = "NONE"
      BY <2>2 DEF VisitInv
    <3>1. status[<<d, q, v>>] = "NONE" /\ <<d, q, v>> \in HistoryId
      BY DEF SingleInv, VisitInv, HistoryId
    <3>2. \A r \in past : <<d, q, v>> # <<c, r, 0>>
      OBVIOUS
    <3>3. QED
      BY <2>3, <3>1, <3>2
  <2>5. QED
    BY <2>2, <2>3, <2>4, RowStep
<1>3. ASSUME NEW c \in Configs, NEW d \in 0..(now - 1), UpdateHistoriesForExport(c, d)
      PROVE  SingleInv'
  <2> DEFINE again == {h \in RowsOf(c) : status[h] # "PREPARED" /\ created[h] > d}
  <2>1. /\ UNCHANGED <<run, visits, visiting, faults>>
        /\ status' = [h \in HistoryId |-> IF h \in again THEN "PREPARED" ELSE status[h]]
        /\ copies' = [h \in HistoryId |-> IF h \in again THEN 0 ELSE copies[h]]
    BY <1>3 DEF UpdateHistoriesForExport, wizardVars
  <2>2. \A h \in again : status[h] \notin {"NONE", "PREPARED"}
    BY DEF RowsOf
  <2> HIDE DEF again
  <2>3. VisitInv'
    BY <2>1, <2>2, VisitFrame DEF SingleInv
  <2>4. \A h \in HistoryId : \/ status'[h] = status[h] /\ copies'[h] = copies[h]
                             \/ status[h] # "PREPARED" /\ copies'[h] = 0
    BY <2>1, <2>2
  <2>5. QED
    BY <2>1, <2>3, <2>4, RowStep
<1>4. QED
  BY <1>1, <1>2, <1>3 DEF Admin

\* The end of a pass without makeComplete.
LEMMA EndPassFields ==
  ASSUME TypeOK, NEW u \in Runs, NEW pc \in {"next", "query"}, EndPass(u, pc)
  PROVE  run'[u].histories = {} /\ run'[u].pc # "complete"
BY DEF EndPass, RunAt, TypeOK

LEMMA MoveFields ==
  ASSUME TypeOK, NEW u \in Runs, NEW pc, NEW H
  PROVE  /\ [run EXCEPT ![u].pc = pc][u].pc = pc
         /\ [run EXCEPT ![u].pc = pc][u].histories = run[u].histories
         /\ [run EXCEPT ![u].pc = pc, ![u].histories = H][u].pc = pc
         /\ [run EXCEPT ![u].pc = pc, ![u].histories = H][u].histories = H
<1>1. run[u] \in RunState
  BY DEF TypeOK
<1>2. /\ [run EXCEPT ![u].pc = pc][u] = [run[u] EXCEPT !.pc = pc]
      /\ [run EXCEPT ![u].pc = pc, ![u].histories = H][u]
            = [run[u] EXCEPT !.pc = pc, !.histories = H]
  BY DEF TypeOK
<1>3. QED
  BY <1>1, <1>2 DEF RunState

LEMMA SingleDelivery ==
  ASSUME SingleInv, IInv', NEW u \in Runs, Delivery(u) \/ \E s \in Schedules : StartDelivery(u, s)
  PROVE  SingleInv'
<1>0. /\ TypeOK /\ PassInv(u) /\ (\A v \in Runs : v = u)
      /\ UNCHANGED <<visits, visiting, faults>>
      /\ run[u].histories \subseteq HistoryId
  BY Fields DEF SingleInv, OneRun, IInv, Delivery, StartDelivery, NextConfiguration, EndDelivery,
     FindHistoriesForExport, PollStatus, FillStatus, WriteCsvToFtp, NoCsvToWrite, MakeComplete,
     wizardVars
<1>1. ASSUME NEW s \in Schedules, StartDelivery(u, s) PROVE SingleInv'
  <2>1. run[u].pc = "idle" /\ UNCHANGED <<status, copies>>
    BY <1>1 DEF StartDelivery, rowVars
  <2>2. run'[u].pc = "next" /\ run'[u].histories = run[u].histories
    <3> DEFINE chosen == {c \in saved : config[c].enabled /\ config[c].canSftp /\ config[c].schedule = s}
    <3>1. run[u] \in RunState
      BY <1>0 DEF TypeOK
    <3>2. run'[u] = [run[u] EXCEPT !.pc = "next", !.todo = chosen]
      BY <1>0, <1>1 DEF StartDelivery, TypeOK
    <3> HIDE DEF chosen
    <3>3. QED
      BY <3>1, <3>2 DEF RunState
  <2>3. QED
    BY <1>0, <2>1, <2>2, MoveStep
<1>2. CASE NextConfiguration(u) \/ EndDelivery(u)
  <2>1. run[u].pc = "next" /\ UNCHANGED <<status, copies>>
    BY <1>2 DEF NextConfiguration, EndDelivery, rowVars
  <2>2. run'[u].histories = {} /\ run'[u].pc # "complete"
    BY <1>0, <1>2 DEF NextConfiguration, EndDelivery, RunAt, IdleRun, TypeOK
  <2>3. QED
    BY <1>0, <2>1, <2>2, MoveStep
<1>3. CASE FindHistoriesForExport(u)
  <2> DEFINE found == Prepared(run[u].cfg)
  <2>1. run[u].pc = "query" /\ UNCHANGED <<status, copies>>
    BY <1>3 DEF FindHistoriesForExport, rowVars
  <2>2. CASE run' = [run EXCEPT ![u].pc = "next"]
    BY <1>0, <2>1, <2>2, MoveFields, MoveStep
  <2>3. CASE run' = [run EXCEPT ![u].pc = "poll", ![u].histories = found]
    <3>1. \A h \in found : status[h] = "PREPARED"
      BY DEF Prepared
    <3> HIDE DEF found
    <3>2. run'[u].pc = "poll" /\ run'[u].histories = found
      BY <1>0, <2>3, MoveFields
    <3>3. FreshInv'
      BY <1>0, <2>1, <3>1, <3>2 DEF FreshInv
    <3>4. OnceInv'
      BY <1>0, <2>1, <3>2 DEF SingleInv, OnceInv
    <3>5. VisitInv'
      BY <1>0, <2>1, VisitFrame DEF SingleInv
    <3>6. QED
      BY <3>3, <3>4, <3>5 DEF SingleInv, OneRun
  <2>4. QED
    BY <1>3, <2>2, <2>3 DEF FindHistoriesForExport
<1>4. CASE PollStatus(u)
  <2>1. run[u].pc = "poll" /\ UNCHANGED <<status, copies>>
    BY <1>4 DEF PollStatus, rowVars
  <2>2. CASE UNCHANGED run
    BY <1>0, <2>1, <2>2, StillStep
  <2>3. ASSUME NEW pc \in {"fill", "send"}, run' = [run EXCEPT ![u].pc = pc] PROVE SingleInv'
    BY <1>0, <2>1, <2>3, MoveFields, MoveStep
  <2>4. CASE EndPass(u, "query")
    BY <1>0, <2>1, <2>4, EndPassFields, MoveStep
  <2>5. QED
    BY <1>4, <2>2, <2>3, <2>4 DEF PollStatus
<1>5. CASE FillStatus(u)
  <2>1. /\ run[u].pc = "fill" /\ run' = [run EXCEPT ![u].pc = "poll"]
        /\ UNCHANGED <<status, copies>>
    BY <1>5 DEF FillStatus, rowVars
  <2>2. QED
    BY <1>0, <2>1, MoveFields, MoveStep
<1>6. CASE WriteCsvToFtp(u)
  <2>1. /\ run[u].pc = "send" /\ run' = [run EXCEPT ![u].pc = "complete"] /\ UNCHANGED status
        /\ copies' = [h \in HistoryId |-> IF h \in run[u].histories /\ copies[h] < 2
                                          THEN copies[h] + 1 ELSE copies[h]]
    BY <1>6 DEF WriteCsvToFtp, Copied
  <2>2. run'[u].pc = "complete" /\ run'[u].histories = run[u].histories
    BY <1>0, <2>1, MoveFields
  <2>3. \A h \in HistoryId : copies[h] \in 0..2
    BY <1>0 DEF TypeOK
  <2>4. FreshInv'
    <3>1. \A h \in run[u].histories : status[h] = "PREPARED" /\ copies'[h] > 0
      BY <1>0, <2>1, <2>3 DEF SingleInv, FreshInv
    <3>2. QED
      BY <1>0, <2>1, <2>2, <3>1 DEF FreshInv
  <2>5. OnceInv'
    <3> SUFFICES ASSUME faults = 0, NEW h \in HistoryId
                 PROVE  /\ copies'[h] <= 1
                        /\ copies'[h] = 1 => status[h] = "EXPORTED" \/ h \in run[u].histories
      BY <1>0, <2>1, <2>2 DEF OnceInv
    <3>1. copies[h] <= 1 /\ (copies[h] = 1 => status[h] = "EXPORTED")
      BY <1>0, <2>1 DEF SingleInv, OnceInv
    <3>2. CASE h \in run[u].histories
      <4>1. copies[h] = 0
        BY <2>3, <3>1, <3>2 DEF SingleInv, FreshInv
      <4>2. QED
        BY <2>1, <3>2, <4>1
    <3>3. CASE h \notin run[u].histories
      BY <2>1, <3>1, <3>3
    <3>4. QED
      BY <3>2, <3>3
  <2>6. VisitInv'
    BY <1>0, <2>1, VisitFrame DEF SingleInv
  <2>7. QED
    BY <2>4, <2>5, <2>6 DEF SingleInv, OneRun
<1>7. CASE NoCsvToWrite(u)
  <2>1. run[u].pc = "send" /\ EndPass(u, "query") /\ UNCHANGED <<status, copies>>
    BY <1>7 DEF NoCsvToWrite, rowVars
  <2>2. QED
    BY <1>0, <2>1, EndPassFields, MoveStep
<1>8. CASE MakeComplete(u)
  <2>1. /\ run[u].pc = "complete" /\ EndPass(u, "query") /\ UNCHANGED copies
        /\ status' = [h \in HistoryId |-> IF h \in run[u].histories THEN "EXPORTED" ELSE status[h]]
    BY <1>8 DEF MakeComplete
  <2>2. run'[u].histories = {} /\ run'[u].pc # "complete"
    BY <1>0, <2>1, EndPassFields
  <2>3. FreshInv'
    BY <1>0, <2>2 DEF FreshInv
  <2>4. OnceInv'
    BY <1>0, <2>1 DEF SingleInv, OnceInv
  <2>5. VisitInv'
    BY <1>0, <2>1, VisitFrame DEF SingleInv, PassInv
  <2>6. QED
    BY <2>3, <2>4, <2>5 DEF SingleInv, OneRun
<1>9. QED
  BY <1>1, <1>2, <1>3, <1>4, <1>5, <1>6, <1>7, <1>8 DEF Delivery

LEMMA FaultCounts == TypeOK /\ Fault => faults' # 0
BY DEF TypeOK, Fault

LEMMA SingleFaults == ASSUME SingleInv, IInv', Faults PROVE SingleInv'
<1>0. TypeOK /\ (\A u \in Runs : run[u].histories \subseteq HistoryId)
  BY Fields DEF SingleInv, IInv
<1>1. faults' # 0
  BY <1>0, FaultCounts DEF Faults, DeliveryFails, CopyUnacknowledged, Abandon, PreparationFails,
     LoseCacheEntry, Restart
<1>2. ASSUME NEW u \in Runs, DeliveryFails(u) \/ CopyUnacknowledged(u) PROVE SingleInv'
  <2>1. EndPass(u, "next") /\ UNCHANGED <<status, visits, visiting>>
    BY <1>2 DEF DeliveryFails, CopyUnacknowledged, Abandon, wizardVars
  <2>2. FreshInv'
    BY <1>0, <2>1, EndPassFields DEF SingleInv, OneRun, FreshInv
  <2>3. OnceInv'
    BY <1>1 DEF OnceInv
  <2>4. VisitInv'
    BY <2>1, VisitFrame DEF SingleInv
  <2>5. QED
    BY <2>2, <2>3, <2>4 DEF SingleInv, OneRun
<1>3. ASSUME NEW u \in Runs, PreparationFails(u) \/ LoseCacheEntry(u) PROVE SingleInv'
  <2>1. UNCHANGED <<run, status, copies, visits, visiting>>
    BY <1>3 DEF PreparationFails, LoseCacheEntry, TaskFrame, rowVars, wizardVars
  <2>2. QED
    BY <1>1, <2>1, StillStep
<1>4. CASE Restart
  <2>1. /\ \A u \in Runs : run'[u].histories = {}
        /\ \A r \in Results : visiting'[r] \subseteq visiting[r]
        /\ UNCHANGED <<status, visits>>
    BY <1>4 DEF Restart, rowVars, IdleRun, RunAt
  <2>2. FreshInv' /\ OnceInv'
    BY <1>1, <2>1 DEF FreshInv, OnceInv
  <2>3. VisitInv'
    BY <2>1, VisitFrame DEF SingleInv
  <2>4. QED
    BY <2>2, <2>3 DEF SingleInv, OneRun
<1>5. QED
  BY <1>2, <1>3, <1>4 DEF Faults

LEMMA SingleStep == SingleInv /\ [Next]_vars => SingleInv'
<1> SUFFICES ASSUME SingleInv, [Next]_vars PROVE SingleInv'
  OBVIOUS
<1>1. IInv'
  BY StepInv DEF SingleInv
<1>2. ASSUME NEW u \in Runs, Preparation(u) PROVE SingleInv'
  <2>1. UNCHANGED <<run, status, copies, visits, visiting, faults>>
    BY <1>2 DEF Preparation, StartPreparation, FindResultsForHistories, CreateCsvData,
       FinishPreparation, TaskFrame, rowVars, wizardVars
  <2>2. QED
    BY <1>1, <2>1, StillStep
<1>3. CASE UNCHANGED vars
  <2>1. UNCHANGED <<run, status, copies, visits, visiting, faults>>
    BY <1>3 DEF vars, rowVars, wizardVars
  <2>2. QED
    BY <1>1, <2>1, StillStep
<1>4. CASE Next
  BY <1>1, <1>2, <1>4, SingleWizard, SingleAdmin, SingleDelivery, SingleFaults DEF Next
<1>5. QED
  BY <1>3, <1>4

\* When runs do not overlap, a row travels twice for one request only after a
\* fault.
THEOREM TravelsOnce == OneRun /\ Spec => []DuplicateNeedsFault
<1>1. SingleInv => DuplicateNeedsFault
  BY DEF SingleInv, OnceInv, DuplicateNeedsFault, IInv, TypeOK
<1>2. QED
  BY <1>1, SingleInit, SingleStep, PTL DEF Spec

\* When runs do not overlap, makeComplete confirms no request that its file did
\* not answer.
THEOREM RequestsAreKept == OneRun /\ Spec => FreshExport
<1> DEFINE Kept == \A h \in HistoryId :
              status[h] = "PREPARED" /\ status'[h] = "EXPORTED" => copies[h] > 0
<1>1. SingleInv /\ [Next]_vars => [Kept]_vars
  <2> SUFFICES ASSUME SingleInv, Next, NEW h \in HistoryId,
                      status[h] = "PREPARED", status'[h] = "EXPORTED"
               PROVE  copies[h] > 0
    OBVIOUS
  <2>0. TypeOK
    BY DEF SingleInv, IInv
  <2> USE DEF rowVars
  <2>1. CASE Wizard
    BY <2>0, <2>1 DEF Wizard, SaveNewResults, ReviseAnswer, BuildReferences, CreateExportHistory,
       TypeOK
  <2>2. CASE Admin
    BY <2>0, <2>2 DEF Admin, CreateConfiguration, SaveConfiguration, MakeHistoriesForNewConfig,
       UpdateHistoriesForExport, TypeOK
  <2>3. ASSUME NEW u \in Runs, MakeComplete(u) PROVE copies[h] > 0
    <3>1. h \in run[u].histories /\ run[u].pc = "complete"
      BY <2>3 DEF MakeComplete
    <3>2. QED
      BY <3>1 DEF SingleInv, FreshInv
  <2>4. ASSUME NEW u \in Runs,
               Preparation(u) \/ (\E s \in Schedules : StartDelivery(u, s))
                  \/ (Delivery(u) /\ ~MakeComplete(u))
        PROVE  status' = status
    BY <2>4 DEF Preparation, StartPreparation, FindResultsForHistories, CreateCsvData,
       FinishPreparation, TaskFrame, StartDelivery, Delivery, NextConfiguration, EndDelivery,
       FindHistoriesForExport, PollStatus, FillStatus, WriteCsvToFtp, NoCsvToWrite
  <2>5. CASE Faults
    BY <2>5 DEF Faults, DeliveryFails, CopyUnacknowledged, Abandon, PreparationFails,
       LoseCacheEntry, TaskFrame, Restart
  <2>6. QED
    BY <2>1, <2>2, <2>3, <2>4, <2>5 DEF Next
<1>2. QED
  BY <1>1, SingleInit, SingleStep, PTL DEF Spec, FreshExport

=============================================================================
