# A verification of the overseas voter services application

The program is the web application of the Overseas Vote Foundation: voters fill
in a questionnaire (the wizard), get their registration form as a PDF, and the
application exports registrations to partners, sends mail, keeps mailing lists
and cleans up after itself. It is Java (Spring, Hibernate, MySQL, Quartz,
Redis); the Java code is under `src/src/main/java/com/bearcode/ovf` (`ovf/`
below), the wiring in `src/src/main/webapp/WEB-INF/overseas-servlet.xml` and
`applicationContext.xml`.

This directory holds TLA+ models of its concurrent parts, the TLC runs that
check them on small instances, and proofs of the main results, checked by TLAPS,
for every instance. `PROJECT.json` ties every definition to the lines it models,
every property to a fault in that code that breaks it, and every hazard to the
properties that watch it.

## The system

How the parts run, and why they interfere:

* **Transactions.** `applicationContext.xml:189-207`: service methods named
  `make*`, `save*`, `delete*`, `update*`, `queue` and `sendEmail` run in a new
  transaction of their own, `find*` read-only. What two such calls do together is
  therefore never atomic. Around every service call `DeadlockManager` repeats it, up
  to three times, when a lock could not be had (order 100, outermost).
* **Quartz jobs** fire in the same JVM as the web requests. `MethodInvoking` jobs
  (the deliveries) may overlap; `StatefulJob`s (the mail job) may not, in one JVM.
* **A pool of ten threads** runs `@Async` methods: CSV preparation and PDF
  generation.
* **Redis** is the cache behind `@Cacheable` and `@CachePut`; its entries live at
  most an hour and connection failures may be ignored.
* **Several servers.** One replica is deployed, but a release starts the new one
  before it stops the old one.

| Component | State | Operations | Interaction | What is hard |
|---|---|---|---|---|
| Registration export | `data_export_configs`, `data_export_history`, two Redis caches | final page, administration, four delivery jobs, CSV preparation | wizard writes rows; job, pool thread and cache hand over; failure mails go to the mail queue | overlap, stale lists, cache races, crash between copy and mark |
| Email queue | `email`, `email_logs`, objects in the job's memory | `queue`, sending job, deletion job | used by every part; SMTP; DeadlockManager | at-least-once, rollback of a sent mail, stale batch, starvation |
| PDF forms | `pdf_form_track`, the sandbox directory or S3, the session's context | final page, asynchronous generation, polling page, download, sandbox cleaner | thank-you mail, pending registrations, export | rows overwritten with old copies, live session object, cleaner against task and download, crash |
| Voter information page | the form in the browser and its list of voting regions; the session's user object; region and address of the `WizardResults` | page scripts, ajax lists, submission, redisplay | election API; final page, PDF and export read what it saved | answers out of order or lost, hidden fields that are sent, a session object that keeps rejected values |
| Encryption keys | table `encryption_key_statuses`, key files shared by the servers; on each server `knownKeys`, its lock, a calendar | acquire, make, load a pair; encrypt, decrypt | pending registrations: the form's task writes them, download and transfer read them | the row commits after the lock is free, two servers, a shared calendar, a crash between files |
| Pending voter registrations | rows with status, cached CSV | save, download, expire, transfer | same caches as the export | timeout against delivery |
| Mailing lists, SendGrid | `mailing_link` rows | subscribe, bounce, unsubscribe | wizard, SendGrid | status against remote state |
| Form tracking, reports | dates of the next mail | daily jobs | mail queue | repetition after a crash |

Further parts (VIP loading, users, officials, FedEx, mobile, migration, pages,
schema, charts) are sequential, pure input and output, or third-party; they are
listed in `PROJECT.json` with the reason they are not modelled. The newsletter
sender and the old registration transfer are not scheduled by any trigger.

What would make the modelled components correct:

* Export: no row is marked EXPORTED unless its data reached the partner (or the
  voter declined); nobody's data travels without an agreement; no later request of
  an administrator is lost; rows travel twice only for a reason; every row travels
  in the end.
* Mail: SENT means accepted by a server; ERROR means that the attempts are used up;
  duplicates only by faults; attempts bounded; SENT is final; every mail resolved.
* Forms: GENERATED means that a form was stored; one form and one pending registration
  of a track; a pending registration stays only with a form; a stored form is not
  overwritten; a page whose requests are answered learns how its form ended; unchanged answers use the form again; the
  download shows the answers.
* Voter information page: the browser sends one type of address and only parts that belong
  to it; the region saved is in the state saved, unless the list was not up to date;
  its name is that of the region; no submission without a region is accepted.
* Keys: whatever is stored can be read back; the halves of a pair belong together; what goes
  wrong with the pair of one month harms no other.

## Modules

| Module | Models | Used by |
|---|---|---|
| `RegistrationExport` | the export, in detail | `MCRegistrationExport`, `RegistrationExportProofs` |
| `ExportContract` | what the export promises: three states of a row and what partners hold | instantiated by `RegistrationExport` |
| `EmailQueue` | the mail queue | `MCEmailQueue`, `EmailQueueProofs` |
| `MailContract` | what the queue promises its callers: a mail's attempts and its recorded outcome | instantiated by `EmailQueue` |
| `PdfForms` | the forms: page, task, download, sandbox cleaner | `MCPdfForms`, `PdfFormsProofs` |
| `FormContract` | the life of a form as users see it: stored, offered, swept away | instantiated by `PdfForms` |
| `VoterInformation` | the voting address and region: page scripts, lists, submission | `MCVoterInformation`, `VoterInformationProofs` |
| `EncryptionKeys` | the key pairs of pending registrations | `MCEncryptionKeys`, `EncryptionKeysProofs` |
| `KeyContract` | what the pairs promise: one per month, for good, unless an accident breaks that month | instantiated by `EncryptionKeys` |
| `*Proofs` | theorems and their inductive invariants | |
| `MC*` | constants for TLC, symmetry | the `.cfg` files |

Definitions ending in `_Something` (`MakeComplete_NotSaved`) are faults a
programmer might have made in the definition before the underscore. They are used
only to show that a property notices them, and occur in no specification.

### RegistrationExport

One action per call that leaves a thread or commits a transaction.

* `SaveNewResults`, `ReviseAnswer`, `BuildReferences`, `CreateExportHistory`: the
  wizard (`SurveyWizard`, `SurveyFinalAction`). A final page reads the enabled
  configurations once and saves a row for each in separate transactions; every
  reload does it again (`visits`).
* `CreateConfiguration`, `MakeHistoriesForNewConfig`, `SaveConfiguration`,
  `UpdateHistoriesForExport`: administration. Creation and back-fill are two
  transactions (`filling` holds the configurations in between).
* `StartDelivery`, `NextConfiguration`, `FindHistoriesForExport`, `PollStatus`,
  `FillStatus`, `WriteCsvToFtp` or `NoCsvToWrite`, `MakeComplete`, `EndDelivery`:
  `AutomatedDataExporter.doDelivery`. `PollStatus` and `FillStatus` are the two
  halves of a `@Cacheable` read: look, and on a miss store the fresh CREATED.
* `StartPreparation`, `FindResultsForHistories`, `CreateCsvData`,
  `FinishPreparation`, `PreparationFails`: the pool thread,
  `AsyncDataExportPreparator`.
* Faults: `DeliveryFails`, `CopyUnacknowledged`, `PreparationFails`,
  `LoseCacheEntry`, `Restart`.

A history row is named `<<configuration, result, visit>>`; visit 0 is the row that
`makeHistoriesForNewConfig` makes. The cache id of a pass is fresh, so the entries
under it are a field of the job thread, forgotten when the pass ends. A CSV is the
set of results with a row in it. Every creation date handed out ticks the clock
`now`; the dates of distinct rows are therefore distinct. `answered`, `copies` and
`sftp` record history for the properties.

Simplifications: the face of a configuration and the flow type are left out (every
result is of the face and flow the configuration wants), and so are the export
date and the fields of a row. That a past result was downloaded and is reportable
is a choice of `MakeHistoriesForNewConfig`. The clock has no ties. The temporary
file and its part number are not modelled.

`ExportContract` has three variables (status of a row, what each partner holds,
which answers were given) and says: a row is not lost once it is there, becomes EXPORTED
only over delivered or declined results, and partners get agreed results only.
`ImplementsContract` is its specification under the mapping from history
rows.

### EmailQueue

`Queue`; then per server `FindUnsentEmails` (a batch by priority, with the detached
objects' attempt numbers in `inMemory`), `NextEmail`, the conversation (`Accepted`
or `Rejected`), `Commit`, `EndBatch`; `Delete*` for the daily deletion;
`RetryTimeComes` and `GrowOld` for the passing of time; `Switch` for the tumbler
property. Faults: `Unacknowledged` (the connection breaks after the mail was
taken), `CommitFailsOnLock` (DeadlockManager sends again), `SendingFails`,
`Crash`.

`Commit` writes the object over the row whatever the row holds by then: no
version column exists. A row deleted meanwhile makes the log entry violate its
foreign key and the transaction is rolled back. `NewAges`: the time of the update that
ages are counted from is a column of the object too. With one server a mail is new again after a
commit; a late commit of another server may also leave, or write, an older time.

`MailContract` knows the row's status, what the SMTP servers did with the mail, and
whether a fault has struck (`faults > 0`); `Alone` says that there is one server. `Queue` and the
deletions map to its actions of that name, `Accepted` to `Arrive`, `Rejected` to `Fail`,
`Unacknowledged` to `ArriveUnnoticed`, `Commit` to `Record` (to a stutter if the row has been deleted), the
other faults to `Strike` and everything else (batches, waiting, the tumbler) to stutters.
It says of any number of servers that an outcome is recorded only if it is true of what happened and
that a deleted mail never comes back; of one server that it records an outcome once.

Simplifications: the text of a mail, the rate limiter's delays and log rows are left out;
delays are "waiting" or "over"; EmailSynchroManager has no effect within one JVM
because the job is its only caller, and none across JVMs.

### PdfForms

A load of the download page (`Loads`) is a request and the task it starts. Its `pc`
follows the request (`FindTrack`, `SaveTrack`: `getFormTrack`), then the task on its
pool thread (`Begin`, `Claim`, `CachePending`, `CreateFormFile`, `FillForm`, on S3 faces
`UploadForm` and `MailLink`, or `TaskFails` and `CleanUp`, then `Finish`:
`createPdfFormFile`); `copy` is the detached `PdfFormTrack` it will save. The browser is
`Poll`, `PollFails`, `CreatePdf`, `SendThankYou`, `Expire`; the user who goes back and answers anew is
`Edit`; the job is `FindOldTracks`, `DeleteForm`, `RemoveTrack`, `Sweep`. `Tick` lets time
pass, `Crash` ends sessions and tasks.

A page asks again two seconds after an answer, and only then (`DownloadLinkPage.jsp:130-132`); its
handler of a failed request is empty (`:140-141`). So one request without an answer (`PollFails`), or
a server that is down when a page asks (any subset of the waiting pages in `Crash`), leaves that page
`stuck` for good, whatever becomes of its track.

What makes it hard is kept: a row is found by the hash of the answers only if it is the only
one; it is saved whole, `created` included, from an object read earlier; `context` is the
session's live object, which the task reads long after the hash was taken; a file of the
track's name must not exist, which is the only lock between two tasks; the job acts on a
list read before, and sweeps the directory by file age only if it deleted a form.

A track is named after the load that creates it, so that at most one track per load exists.
`written` (tasks that stored their form) and `cleaned` (tracks whose file the job deleted)
record history for the properties.

`FormContract` has three variables under the mapping `StoredForm` (the content of a complete file),
`cleaned`, and `Offered` (tracks that a page links to). `FillForm` is its `Store`; `DeleteForm` and
the directory's `Sweep` are its `Sweep`; a `Poll` that finds GENERATED is its `Offer`; rows, copies,
half-written files and the rest of the task are stutters. A link that leads nowhere is therefore only ever the
cleaning job's doing: it deletes the form before the row, and in `Sweep` also old files whose rows a
reload has made young again.

Simplifications: a form is the answers and the pending id in it, and the hash tells all
answers apart; one server with its own sandbox; the pool's ten threads do not limit the few
tasks of an instance; one run of the job at a time; the user check of a download and
the rows of `wizard_results` are left out. A saved pending registration is known by the task
that made it; what becomes of it later belongs to another component. Ages are ticks, told
apart up to `MaxAge`.

### VoterInformation

The page of one anonymous voter (`GetVoterInformation`, `bc-lib.js`, `load-regions.js`,
`MvaFormHeader.jsp`), in a domestic or an overseas flow.

* Browser: `Click` (a box "Use Rural Route" or "Use Address Description", with all of
  `showAddressDescription`), `TypeIn`, `ChangeState`, `PickRegion`; `WindowLoad` and
  `LoadRegions` for domestic pages, `OpenRegions` for the Select2 box of overseas pages.
* Network: `Answer`, in any order; `IncompleteAnswer` (the election API failed and the server
  answers with what it has), `RequestFails`. Both are counted as faults.
* Server: `HandleGetVoterInformation` (with or without `vrState`), `Accept`, `Reject`: the
  data binder writes into the session's `user` (`Bound`), the validator looks at that object
  and not at the form (`Valid`), and the page is made again from it (`Rendered`).

`form` holds the two boxes, the hidden input of the same name, which fields are filled and
visible, and the list with its selection. `None` is the option "0", `Unset` a list without a
selected option, which browsers do not send. `shown` and `asked` number the requests of a page.

Simplifications: scripts, answers and submissions are atomic; the text of a field is whether it
is filled; other fields only decide, by choice, that a page is rejected. Rural route and
description share one field. The voter of a behaviour uses the controls in `controls`, one of
the sets `Voters`; a page sends at most `MaxRequests` requests.

### EncryptionKeys

`EncryptionService`, as `PendingVoterRegistrationUtil` and the cipher call it. A tag (month,
state and region) is a month here: the model follows one state and region.

* `Encrypt`, `Decrypt`: a call for the first part of a registration, or for one part of a
  stored one, begins. `encryptAll` and `decryptAll` make a call for every part, each with its own
  transaction: `NextPart` goes on to another (`made` keeps the keys of those before). `SetTime`, `GetDate`: the two halves of `extractDate`
  on the calendar all threads share; `Readable` is what a thread may get from it.
* `EnterLock`: the synchronized block, left at once if the pair is known. `FindRow`, then
  `LoadPublic` and `LoadPrivate`; or `FindNothing`, then `SavePrivate` and `SavePublic`. The
  last step of either puts the pair into `knownKeys` and frees the lock.
* `Commit`, `DuplicateRow`, `CommitFails`: the transaction around `makeEncryption` or
  `makeDecryption` ends, after the lock is free. `Save`: all parts are stored.
* `SaveFails`, `LoadFails`: exceptions. `Restart` of a server. `MonthPasses`.

`accidents` notes what the code does not prevent: two servers that make one tag's pair at once
(`overlap`), two dates that meet in the calendar (`calendar`), an insert that fails after the pair
is in `knownKeys` (`commit`), a server that stops while others could already use a pair
without a row (`crash`). Each is noted with the month whose pair, or whose new registration, it concerns. What
the four are, and when they strike, is in the actions; the properties say what they may not do: a
month without an accident of its own (`Unharmed`) loses nothing, even while calls of other months, or calls
that use its pair by a wrong date, go wrong; and failed writes, other crashes and
interleavings lose nothing anywhere. A call that decrypts with a wrong date fails or yields nothing
useful, but it changes nothing that is stored, so it is no accident.

What the source suggests and the model does not have: Hibernate inserts the row when the
transaction commits, together with its later update, so that a row with `status = false`
is never seen by another transaction, and the loop of `acquireEncryptionKeyStatus` that waits for one
(comments at `EncryptionService.java:277` and `:281`) ends in its first round; the exception it
catches there is thrown at the commit. A registration without a voting region violates
`NOT NULL` of the migration V64 at that commit, which is a `commit` accident every time.

In `KeyContract` a month's pair is the public half in the files once the tag is `Sealed` (its row is
committed, or about to be by the call that wrote both files): the step that writes the second file is
`Settle`, `Save` is `Store`. Once an accident has broken a month, its steps are `Suffer`, which may do
anything to that month but lose what is stored, and nothing to the others.

Simplifications: reading and writing one file are atomic; RSA is the identity of a key, so that
data can be read with the private half of the pair that made them. The database's exclusion of equal
rows is the guard of `Commit` against `DuplicateRow`.

## Runs

| Run | Instance | Shows |
|---|---|---|
| `export_one_run` | 1 result saved on 2 visits, 1 configuration switched on and off by administrators, 1 job thread, 1 fault | `TypeOK`; `FreshExport`: `makeComplete` never swallows a later request; `DuplicateNeedsFault`; `PreparedIsExported` under `FairSpec` |
| `export_overlap` | 1 result, 1 configuration, 2 job threads, revised answers, 1 fault | `ImplementsContract`, `ExportedWasDelivered`, `OnlyConsentingDelivered` |
| `email_one_server` | 2 mails, one of them urgent, batches of 1, 1 server, 2 faults | `TypeOK`, `DuplicateNeedsFault`, `AttemptsAreBounded`, `SentIsFinal`, `ImplementsContract` with `Alone` true; `QueuedIsResolved` under `FairSpec` |
| `email_release` | 2 mails, 2 servers, 1 fault | `SentWasAccepted`, `GivesUpOnlyWhenDue`, `ImplementsContract` with `Alone` false |
| `email_javadoc` | 1 mail | violated: `OnlySentIsDeleted`, see Findings |
| `pdf_double_load` | 2 loads on a sandbox face, 1 session, 2 answers, every track counts as old, tasks and mails fail anywhere | `TypeOK`, `GeneratedMeansWritten`, `OneRegistrationPerTrack`, `PendingHasForm`, `FormIsNeverReplaced`, `ImplementsContract` |
| `pdf_liveness` | 2 loads on an S3 face, ages to 1, 1 crash or failed request | `PageIsAnswered` under `FairSpec`: a page whose requests are answered is told the end, also if tasks hang or a crash ended them |
| `pdf_reuse` | 2 loads | violated: `FormsAreReused`, see Findings |
| `pdf_back` | 2 loads, 2 answers | violated: `DownloadShowsAnswers`, see Findings |
| `voter_pages` | both flows; one voter fills in the address, another changes states and regions; 2 states with a region each, 2 requests on a page, 1 fault | `TypeOK`, `OneTypeIsSent`, `PartsFitType`, `MismatchNeedsRace`, `NameNeedsFault` |
| `voter_region` | overseas flow | violated: `MissingRegionIsRejected`, see Findings |
| `keys` | 2 threads on one server, 1 on another, 2 months, 3 parts encrypted or decrypted, 2 faults | `TypeOK`, `StoredIsReadable`, `ReadsBack`, `HalvesMatch`, `ImplementsContract`: damage stays in its month |

**What does not hold.** With overlapping delivery runs `FreshExport` and
`DuplicateNeedsFault` (export) are false: both runs read the same rows, send them twice, and
the second `makeComplete` writes over a newer request. The runs check them for one job
thread, and the contract, which holds in any case, for two. With two servers
`SentIsFinal` and `DuplicateNeedsFault` (mail) are false in the same way: a stale batch
writes RETRY over SENT. These are consequences of the code's design
(no row lock, no version), not contradicted by any document. In a month of one of the four accidents of
`EncryptionKeys`, stored registrations may be unreadable, and after an `overlap` the halves of its pair may differ:
nothing in the code prevents that. A download page whose request fails shows "Preparing your File" for
ever, also when the form is ready: no property says otherwise, and `PageIsAnswered` excepts it by name (`stuck`).
So are the results that `PreparedIsExported` excepts (`Hung`).
`PartsFitType` is false for domestic flows: their pages do not show the description again
when a rejected page with a ticked box is redisplayed, so that it is sent but cannot be seen
(compare the comment "Pass values on page reload for error checking", `bc-lib.js:1193`).

**Bounds.** `MaxVisits`, `MaxFaults`, `Fickle` and the sizes of the sets bound the
instances. Every property is about a pair: a row and the pass that carries it, a mail
and the batch that holds it, two threads over one row, two mails in one queue. One or two
of each let every such pair interfere. `MaxFaults = 1` puts a fault at every point of
every behaviour; the safety results are proved for any number. `MaxAttempts = 2`
lets a mail fail, wait, fail again and be given up; `MaxRetries = 2` lets
DeadlockManager both repeat and give up. Two loads are a page and its reload, or two sessions
with the same answers: every race of `PdfForms` is between two of request, task, job and
browser. `StoreTicks = 0` (`pdf_double_load`) makes every track old as soon as it exists: the job
may remove it at any moment, which is more than the real one may do, so an invariant that holds
there holds for any storing time. With `StoreTicks = 1` (`pdf_liveness`) a track is young, then
old, and can be refreshed in between; longer times only put more ticks between the same steps. `FaultKinds` says what may
fail in an instance. `Rava = FALSE` (`pdf_liveness`) is one of the flows that cache no pending
registration, which no guard of a waiting page depends on. Crashes and S3 faces are in the proofs of
the safety properties and in `pdf_liveness`.

A voter who uses all controls of the page at once adds no interference, because address and
region share no variable but the submission; hence the two voters of `voter_pages`. A second
request is what an answer can be late for, and `MismatchNeedsRace` is proved for any number.
Three parts are one that makes a pair, one that interferes (of another registration, or the
next of the same) and one that reads back; `MaxPairs`
is never reached with them. A second month is needed for the calendar, and as the one an accident must
not reach; a second server for the overlap. The proofs have no such bound. That a row reaches the partner of its own configuration matters with two
configurations, which no run has: `ExportedWasDelivered` is proved for any number.
Deadlock is not disabled in any run.

**Symmetry** is used for results, job threads, loads, answers, sessions and the threads of one
server (`keys`), which no definition tells apart, and only in runs of safety properties; not for
configurations, one of which an idle run chooses.

**Fairness.** Export: a started job thread and a pool thread go on (weak fairness of
`Delivery(u)` and `Preparation(u)`: the JVM schedules its threads); every trigger fires
again and again and finds the job thread free infinitely often (strong fairness of
`StartDelivery`, for the cron triggers of `overseas-servlet.xml:497-515`). Nothing is
assumed of voters, administrators or faults. Mail: the job goes on (weak), its
trigger fires every thirty seconds (strong fairness of `FindUnsentEmails`, which a
switched-off service may disable), and retry times come (weak). `PreparedIsExported`
excepts a run that hangs: the poller waits without limit for a status nobody will write
any more, after a lost entry or after it overwrote COMPLETED itself.
`QueuedIsResolved` assumes that the service stays switched on from some time on.
Forms: a page whose last request was answered asks again after two seconds (`Poll(l)`,
enabled only while it waits; `DownloadLinkPage.jsp:130-132`), the clock runs, and the job
goes on and is started every five minutes (`Clean`, `overseas-servlet.xml:465-475`).
Nothing is assumed of users and of the executor: a task may wait or hang, and a page need
not be reloaded. Where no task ends, it is the job that answers the pages still asking, by
removing the row. A pending registration counts as `DISCARDED` once its task has tried to
delete it, since no property tells a failed deletion, which is only logged, from one that worked.
Voter page and keys: none. Nothing makes a voter submit a page or call for a key.

## Proofs

All theorems hold for every value of the constants that satisfies the `ASSUME`s of the
modules: bounds are natural numbers, `Configs` and `Schedules` are not empty,
`Settings` are pairs of Booleans, `MaxRetries` is positive, `NoEmail` is no mail,
`StoreTicks` and `LinkTicks` are at most `MaxAge`, `None` is no load, session, answer or form (in
`VoterInformation` no state or region, and `Unset` neither), `Home` gives every region a state,
`ServerOf` every thread a server.

`RegistrationExportProofs`: `TypeCorrect`, `ExportedDelivered`, `ConsentRespected`,
`Implements`, and for job runs that do not overlap (`OneRun`) `TravelsOnce` and
`RequestsAreKept`. The properties alone are not inductive: EXPORTED is written by a step that looks
at nothing but the list of rows read long before. The inductive invariant `IInv` therefore
follows the data along its way (`PassInv`): the rows a pass holds exist and are of its
configuration; the results the preparation loaded, then the CSV in the cache,
then the partner's files cover those rows, each result being there or declined once;
and what is loaded or cached is agreed. `ResultsInv` says that a saved result's current answer is among
its answers, `FillingInv` that the numbers of back-filled rows are unused before.
Faults either keep these facts or end the pass. The refinement (`ContractStep`) maps
`MakeComplete` to the contract's export step, which `PassInv` enables, and
all steps of cache and pool to stuttering. With one run at a time the rows of a pass stay PREPARED
until makeComplete, and have been copied by then (`FreshInv`): the wizard writes only rows that are not
there yet (`VisitInv`), and an administrator asks again only for rows that are not PREPARED.
Without faults a copied row is EXPORTED or about to be (`OnceInv`).

`EmailQueueProofs`: `TypeCorrect`, `SentAccepted`, `GivenUpDue` for any number of
servers. `IInv` says that an outcome waiting to be committed is justified
(`OutcomeInv`) and that attempts, in the row and in every object ever read, never
exceed the failures (`AttemptInv`): so an old object, committed late, can still only
give up when it is due. For a single server (`OneServer`) `ArrivesOnce`, `SentStays` and
`AttemptsBounded`: the mails of the batch, and the one being sent, are still unsent or deleted until their
outcome is committed (`BatchInv`), and without faults a mail that arrived is in no batch (`Once`).
`Count` is the account behind `AttemptsBounded`: every conversation about a mail is paid for by an
attempt, in the row or in the batch's object, or by a fault, but for the one whose outcome is about to
be committed.
`Implements` (MailContract) rests on `QueueInv`: `IInv`, whose `OutcomeInv` covers all three outcomes;
`KnownInv` (no server works on a mail that was never queued, so that a commit is never the first
write of a row); and `CountInv` for a single server. Each is what one action of the contract asks for:
`CountInv` gives `MayTry` to every conversation (`SendingMayTry`), `OutcomeInv` justifies every
commit (`OutcomeMayBeRecorded`), the other steps touch none of the contract's variables.

`PdfFormsProofs`: `TypeCorrect`, `GeneratedIsWritten`, `PendingBelongsToForm`,
`OneFormPerTrack`, `FormsAreKept`, for any number of loads, sessions, ticks and faults, on
both kinds of face. `TypeInv` adds to the types that a load past its first step has
a session and a track (`Linked`), which it keeps (`Stays`). `GenInv` extends
`GeneratedMeansWritten` to every detached copy, since any of them may be saved at any time.
`PendingHasForm` is inductive with the types. (With crashes it is only proved;
the run that checks it has none.) `MakeInv` says that the file is a lock: a task
between creating the file and the end has a file that exists or was cleaned up, and two such
tasks of one track mean that it was cleaned up in between. `Closed` says that a
stored form is not open for writing, so that `FileStep`, what any step may do to a file,
never replaces it.
`Implements` (FormContract) needs more than `Closed`, which says nothing of who writes: `StoreInv` says that a
task filling in a form is the one that has the file of its track open, that the file of a task
further on is complete (either unless the job has cleaned it up), and that a page is past the
request. With `GenInv` it follows that the row a `Poll` reads as GENERATED has a stored form or one
that was swept away. `FilesKept` and `NoWriting` collect what all steps but `CreateFormFile` and `FillForm`
leave alone, so that `StoreInv` is shown for them at once (`StoreKept`).

`VoterInformationProofs`: `TypeCorrect`, `OneType`, `PartsFit`, `MismatchIsRace`,
`NameIsRegions`, for any states, regions, voters, requests and faults. `FormInv`: at most one box is ticked,
the hidden input is enabled exactly if none is and then says STREET; a redisplayed page starts in
it again (`RenderedForm`). `PartsInv`: in an overseas flow the fields that are filled or visible fit
the boxes, and what the session keeps fits its type. `ListInv`: in a domestic flow no
request is newer than the last, the last asks for the state of now, and a list that answers it has
only regions of that state: answers out of order can be told by their number.

`EncryptionKeysProofs`: `TypeCorrect`, `HalvesBelongTogether`,
`StoredStaysReadable`, `DecryptionReadsBack`, for any number of servers, threads, months, calls and
faults. `LockInv` says who holds a lock, that a pair looked for under it is not known, and that a
transaction about to insert a row has left the pair in `knownKeys`. For a month without an overlap
`SoleCreator` follows (it has one creator and no row meanwhile), from it `HalvesInv` (files under
a row, known pairs and pairs just made have matching halves, through the step between two
files). `SealStep` is the heart: a month that is `Sealed` (by its row or by the one transaction about
to insert it) stays sealed with its files in every step that leaves it without an accident, whatever
the step does to other months; and only the call that writes the public file seals one. `DataInv` rests
on it: every stored part, known pair, pair in use and pair of an earlier part (`CallFits`)
of an unharmed month is the one in the files, and the month is sealed. Each action then only has to
show that its own call fits; `DataFrame` keeps the rest.
`Implements` (KeyContract) adds `OwnInv`: two calls that are making pairs hold different ones, and
no file of another month has the pair that a call is making; hence a pair that is settled is new to every
month. All steps but settling and storing in an unharmed month are `Suffer` (`ContractStep`), which is
what `SealStep` and `StoredGrows` allow them.

Only model-checked: liveness (`PreparedIsExported`, `QueuedIsResolved`, `PageIsAnswered`; TLAPS has
no `ENABLED`). Every safety property that a passing run checks is also proved.

## Findings

* `EmailService.java:262`, the javadoc of `deleteOldErrorEmails`, says it deletes
  mails that "were successfully SENT". It deletes every row older than twice
  `maxDaysToKeepLogs`, mails never sent included (`RawEmailDAO.java:59-73`). Run
  `email_javadoc` shows a mail that is INITIAL being deleted.
* `CreatePdfExecutor.java:82`, the javadoc of `getFormTrack`: forms are not generated again
  "if user did not changed anything in the context since last from generation". A reload that
  reads the track before its form is ready and saves it afterwards turns GENERATED back
  into CREATED (line 103 saves the whole row); the next task then fails on the existing file and
  the ready form ends in ERROR. Run `pdf_reuse`.
* `DownloadLinkPage.jsp:88` (basic): "use the Back button to make changes ... and then repeat
  the download". The task fills in the form from the live context: answers changed while it waits
  are stored under the old hash, and who goes back to the old answers is offered
  that form. Run `pdf_back`.
* `OverseasUserValidator.java:286` says "Missing Voting Jurisdiction" of a form without a
  voting region. It looks at the session's user object: a form that sends no region (Select2 after
  another state was chosen) is accepted with the region of an earlier, rejected submission, in
  another state, although `VotingRegionsList.java:66` wants to "make sure the voting region is in this
  state". Run `voter_region`.

## Not modelled

The repository's JavaScript, by far most of its lines, is jQuery, flot, Bootstrap, YUI and copies of the
same scripts under several faces; the program's own logic is Java and a few page scripts. Of the scripts
only those of the voter information page keep state that interacts with the server; they
are modelled once, from the `usvote` face and the pages that include them.

Left out, with the reason:

* Of the voter page: logged-in voters (their saved addresses replace the session's), the current
  and forwarding addresses (the same scripts without a region), the sections of the Select2 list, clicks
  before DOM ready, the cache of the API's answers that keeps a short list.
* Other scripts that replace a list of regions by ajax (`ovf-fedex.js:25`, `default/js/ovf.js:385`):
  the same race as `load-regions.js` has, on pages of services that are no longer the main ones.
* Of the export and of forms: saving a configuration while a submission makes rows for it, and a
  final page interrupted between two configurations, are in the model
  (`filling`, `BuildReferences` then `CreateExportHistory`), but no promise about them is in
  any document. Of the link's fifteen minutes on the page against the job's ten, `FormContract` says what can be
  promised (a link that leads nowhere was swept); the url, kept per session while rows are
  shared by hash, is modelled without a property.
* Pending registrations after they are saved (download, expiry, transfer), mailing lists, form
  tracking: not done, see below.
* Users, officials, VIP loading, mobile, migration, reports, pages, schema, deployment:
  sequential, bulk input and output, or generated.

## What is left

1. `PendingRegistrations`: download and expiry against the transfer, composed with the
   registrations `PdfForms` leaves and the keys of `EncryptionKeys`.
2. `MailingLinks`: a subscription's life against SendGrid's.
3. Pure algorithms: retry times, the CSV header merge.
4. Composition of the failure and thank-you mails with the mail queue, through `MailContract`; an
   abstract specification of a submission for `VoterInformation`.
