------------------------------ MODULE PdfForms ------------------------------
(***************************************************************************)
(* The PDF form of a finished wizard.  A load of the download page         *)
(* (SurveyFinalAction) finds or creates a PdfFormTrack row by the hash of  *)
(* the answers and hands the session's WizardContext to an asynchronous    *)
(* task, which caches a pending voter registration, fills in the PDF and   *)
(* writes it to the sandbox directory (or to S3).  The page polls the      *)
(* track and offers a link.  A job (ClearFormSandboxJob) removes old       *)
(* tracks and files.                                                       *)
(*                                                                         *)
(* Rows are saved whole, from detached objects, with no version column.    *)
(* The context is the live object of the session: while a task waits or    *)
(* runs, the user may go back and change the answers in it.                *)
(***************************************************************************)
EXTENDS Integers, FiniteSets

CONSTANTS
    Sessions,
    Answers,      \* contents of a wizard; the hash tells them apart
    Loads,        \* loads of the download page; each may create one track
    None,         \* a model value
    UseS3,        \* isS3StorageRequired: what kind of face this is
    Rava,         \* the flow type is RAVA: registrations are cached
    StoreTicks,   \* storeMinutes of the cleaning job
    LinkTicks,    \* downloadExpiration of the page
    MaxAge,       \* bound: ages are told apart up to this one
    FaultKinds,   \* what may fail: "crash", "poll"
    MaxFaults     \* bound: how often

ASSUME TimesAssumption ==
    /\ StoreTicks \in Nat /\ LinkTicks \in Nat /\ MaxAge \in Nat
    /\ StoreTicks <= MaxAge /\ LinkTicks <= MaxAge
ASSUME MaxFaultsAssumption == MaxFaults \in Nat
ASSUME KindAssumption == UseS3 \in BOOLEAN /\ Rava \in BOOLEAN

Ages == 0..MaxAge

\* A filled-in PDF: the answers and the id of a pending registration in it.
Forms == [answers : Answers, pendingId : Loads \cup {None}]

ASSUME NoneAssumption == None \notin Loads \cup Sessions \cup Answers \cup Forms

\* PdfFormTrack; "NONE" before the row exists, "REMOVED" after it is gone.  A
\* track is named after the page load that creates it.
TrackStatus == {"CREATED", "IN_PROCESS", "GENERATED", "ERROR"}
Tracks == [status : TrackStatus \cup {"NONE", "REMOVED"},
           age : Ages,           \* since created
           named : BOOLEAN,      \* formFileName is set
           hash : Answers \cup {None}]

\* WizardContext and its WizardResults.
Contexts == [live : BOOLEAN, answers : Answers, pendingId : Loads \cup {None},
             url : Forms \cup {None}, emailSent : BOOLEAN, downloaded : BOOLEAN]

\* A file of the sandbox; the author has it open for writing.
Files == [state : {"absent", "empty", "written"}, age : Ages,
          author : Loads \cup {None}, form : Forms \cup {None}]

\* A page load and its task: "found" before the track is saved, "queued" in the
\* executor, then the steps of createPdfFormFile.
Pcs == {"idle", "found", "queued", "claim", "pending", "file", "fill", "upload", "mail",
        "cleanup", "finish", "done", "failed", "crashed"}
LoadStates == [pc : Pcs,
               session : Sessions \cup {None},
               track : Loads \cup {None},
               copy : Tracks]      \* the detached object

\* The page of a load; "stuck" if it shows the progress bar and asks no more.
Pages == [state : {"none", "polling", "link", "error", "gone", "expired", "stuck"},
          age : Ages,
          thanking : BOOLEAN]      \* a download is about to send the mail

\* The cleaning job: the rows it has read and not yet treated, those of them with
\* a form, the one whose form it has just deleted; it knows the directory.
Cleaners == [todo : SUBSET Loads, named : SUBSET Loads, current : Loads \cup {None},
             foundDir : BOOLEAN]

VARIABLES
    context,  \* sessions
    track,    \* database: rows by the page load that created them
    pending,  \* database: the pending registration a task made
    file,     \* sandbox directory, by track
    load, page,
    cleaner,
    written,  \* bookkeeping: the tasks that filled in their form and stored it, if
              \* only in a file that the cleaning job had deleted under them
    cleaned,  \* bookkeeping: the tracks whose file the cleaning job deleted
    faults

vars == <<context, track, pending, file, load, page, cleaner, written, cleaned, faults>>

\* "DISCARDED" once a deletion was tried, whether or not it worked (it is only
\* logged if not).
PendingStates == {"NONE", "SAVED", "DISCARDED"}

TypeOK ==
    /\ context \in [Sessions -> Contexts]
    /\ track \in [Loads -> Tracks]
    /\ pending \in [Loads -> PendingStates]
    /\ file \in [Loads -> Files]
    /\ load \in [Loads -> LoadStates]
    /\ page \in [Loads -> Pages]
    /\ cleaner \in Cleaners
    /\ written \subseteq Loads
    /\ cleaned \subseteq Loads
    /\ faults \in 0..MaxFaults

NoTrack == [status |-> "NONE", age |-> 0, named |-> FALSE, hash |-> None]
NoFile == [state |-> "absent", age |-> 0, author |-> None, form |-> None]
IdleCleaner == [todo |-> {}, named |-> {}, current |-> None, foundDir |-> FALSE]
NewContext(a) == [live |-> TRUE, answers |-> a, pendingId |-> None, url |-> None,
                  emailSent |-> FALSE, downloaded |-> FALSE]

Init ==
    /\ \E a \in [Sessions -> Answers] : context = [s \in Sessions |-> NewContext(a[s])]
    /\ track = [l \in Loads |-> NoTrack]
    /\ pending = [l \in Loads |-> "NONE"]
    /\ file = [l \in Loads |-> NoFile]
    /\ load = [l \in Loads |-> [pc |-> "idle", session |-> None, track |-> None,
                                copy |-> NoTrack]]
    /\ page = [l \in Loads |-> [state |-> "none", age |-> 0, thanking |-> FALSE]]
    /\ cleaner = IdleCleaner
    /\ written = {} /\ cleaned = {}
    /\ faults = 0

Present(t) == track[t].status \in TrackStatus
Fault(kind) == kind \in FaultKinds /\ faults < MaxFaults /\ faults' = faults + 1
Put(l, pc, copy) == load' = [load EXCEPT ![l].pc = pc, ![l].copy = copy]
GoTo(l, pc) == Put(l, pc, load[l].copy)

\* The copy is dropped (its hash is kept for the page).
NoCopy(l) == [NoTrack EXCEPT !.hash = load[l].copy.hash]

-----------------------------------------------------------------------------
(* The user, time, the server. *)

\* The user goes back and changes the answers.
Edit(s) ==
    /\ context[s].live
    /\ \E a \in Answers \ {context[s].answers} :
          context' = [context EXCEPT ![s].answers = a]
    /\ UNCHANGED <<track, pending, file, load, page, cleaner, written, cleaned, faults>>

Older(age) == IF age < MaxAge THEN age + 1 ELSE age

Tick ==
    /\ track' = [t \in Loads |-> [track[t] EXCEPT !.age = IF Present(t) THEN Older(@) ELSE @]]
    /\ file' = [t \in Loads |->
                  [file[t] EXCEPT !.age = IF file[t].state # "absent" THEN Older(@) ELSE @]]
    /\ load' = [l \in Loads |->
                  [load[l] EXCEPT !.copy.age = IF load[l].copy.status # "NONE" THEN Older(@) ELSE @]]
    /\ page' = [l \in Loads |->
                  [page[l] EXCEPT !.age = IF page[l].state = "link" THEN Older(@) ELSE @]]
    /\ UNCHANGED <<context, pending, cleaner, written, cleaned, faults>>

Waiting == {l \in Loads : page[l].state = "polling"}

\* Sessions and tasks live in memory and are lost.  The pages that ask while no
\* server answers ask no more; the others (all of them, if a new server has taken
\* over before) do not notice.
Crash ==
    /\ context' = [s \in Sessions |-> [NewContext(context[s].answers) EXCEPT !.live = FALSE]]
    /\ load' = [l \in Loads |-> IF load[l].pc \in {"idle", "done", "failed"}
                                THEN load[l]
                                ELSE [load[l] EXCEPT !.pc = "crashed", !.copy = NoCopy(l)]]
    /\ \E unanswered \in SUBSET Waiting :
          page' = [l \in Loads |-> [page[l] EXCEPT
                      !.state = IF l \in unanswered THEN "stuck" ELSE @, !.thanking = FALSE]]
    /\ cleaner' = IdleCleaner
    /\ Fault("crash")
    /\ UNCHANGED <<track, pending, file, written, cleaned>>

-----------------------------------------------------------------------------
(* The download page: SurveyFinalAction.buildReferences, getFormTrack. *)

\* findFormTrackByHash finds nothing where two rows have the hash.
FindTrack(l, s) ==
    LET hash == context[s].answers
        same == {t \in Loads : Present(t) /\ track[t].hash = hash}
    IN  /\ load[l].pc = "idle"
        /\ context[s].live
        /\ \/ \E t \in same :
                 /\ same = {t}
                 /\ load' = [load EXCEPT ![l] = [pc |-> "found", session |-> s, track |-> t,
                                                 copy |-> [track[t] EXCEPT !.age = 0]]]
           \/ /\ ~ \E t \in same : same = {t}
              /\ load' = [load EXCEPT ![l] =
                            [pc |-> "found", session |-> s, track |-> l,
                             copy |-> [status |-> "CREATED", age |-> 0, named |-> FALSE,
                                       hash |-> hash]]]
        /\ UNCHANGED <<context, track, pending, file, page, cleaner, written, cleaned, faults>>

\* saveFormTrack: all columns are written.
WriteCopy(l, copy) == track' = [track EXCEPT ![load[l].track] = copy]

\* The end of a load.
Leave(l, pc) == Put(l, pc, NoCopy(l))

\* Updating a row that is gone fails, and the page with it; else the page is
\* shown and the task handed to the executor (ten threads, an unbounded queue).
SaveTrack(l) ==
    /\ load[l].pc = "found"
    /\ IF load[l].track = l \/ Present(load[l].track)
       THEN /\ WriteCopy(l, load[l].copy)
            /\ GoTo(l, "queued")
            /\ page' = [page EXCEPT ![l].state = "polling"]
       ELSE /\ Leave(l, "failed")
            /\ UNCHANGED <<track, page>>
    /\ UNCHANGED <<context, pending, file, cleaner, written, cleaned, faults>>

\* checkTrackStatus, asked again two seconds after the answer that the form is
\* being prepared.
Poll(l) ==
    LET t == load[l].track
    IN  /\ l \in Waiting
        /\ track[t].status \notin {"CREATED", "IN_PROCESS"}
        /\ page' = [page EXCEPT ![l].state =
                      IF track[t].status = "GENERATED" THEN "link"
                      ELSE IF track[t].status = "ERROR" THEN "error" ELSE "gone"]
        /\ UNCHANGED <<context, track, pending, file, load, cleaner, written, cleaned, faults>>

\* A request without an answer: the page does nothing about it, and the timer for
\* the next one is only set where an answer came.
PollFails(l) ==
    /\ l \in Waiting
    /\ page' = [page EXCEPT ![l].state = "stuck"]
    /\ Fault("poll")
    /\ UNCHANGED <<context, track, pending, file, load, cleaner, written, cleaned>>

\* The page posts after downloadExpiration: the session's context is deleted.
Expire(l) ==
    /\ page[l].state = "link"
    /\ page[l].age >= LinkTicks
    /\ page' = [page EXCEPT ![l].state = "expired", ![l].age = 0]
    /\ context' = [context EXCEPT ![load[l].session].live = FALSE]
    /\ UNCHANGED <<track, pending, file, load, cleaner, written, cleaned, faults>>

-----------------------------------------------------------------------------
(* createPdfFormFile, on a thread of the executor. *)

\* The task reads its track and goes on if it is CREATED.
Begin(l) ==
    LET t == load[l].track
    IN  /\ load[l].pc = "queued"
        /\ IF track[t].status = "CREATED"
           THEN Put(l, "claim", [track[t] EXCEPT !.status = "IN_PROCESS"])
           ELSE Leave(l, "done")
        /\ UNCHANGED <<context, track, pending, file, page, cleaner, written, cleaned, faults>>

Claim(l) ==
    /\ load[l].pc = "claim"
    /\ IF Present(load[l].track)
       THEN WriteCopy(l, load[l].copy) /\ GoTo(l, "pending")
       ELSE Leave(l, "done") /\ UNCHANGED track
    /\ UNCHANGED <<context, pending, file, page, cleaner, written, cleaned, faults>>

\* cachePendingVoterRegistration: none is wanted; or it is saved and its id put
\* into the context; or something fails and it is discarded again.
CachePending(l) ==
    /\ load[l].pc = "pending"
    /\ \/ UNCHANGED <<context, pending>>
       \/ /\ Rava
          /\ pending' = [pending EXCEPT ![l] = "SAVED"]
          /\ context' = [context EXCEPT ![load[l].session].pendingId = l]
       \/ /\ Rava
          /\ pending' = [pending EXCEPT ![l] = "DISCARDED"]
          /\ UNCHANGED context
    /\ GoTo(l, "file")
    /\ UNCHANGED <<track, file, page, cleaner, written, cleaned, faults>>

\* Fault for the mutation runs: an existing file is opened for writing.
CreateFormFile_Overwrites(l) ==
    /\ load[l].pc = "file"
    /\ file' = [file EXCEPT ![load[l].track] = [state |-> "empty", age |-> 0, author |-> l,
                                                form |-> None]]
    /\ GoTo(l, "fill")
    /\ UNCHANGED <<context, track, pending, page, cleaner, written, cleaned, faults>>

\* createFormFile: a file of the track's name must not exist yet.
CreateFormFile(l) ==
    LET t == load[l].track
    IN  /\ load[l].pc = "file"
        /\ IF file[t].state = "absent"
           THEN /\ file' = [file EXCEPT ![t] = [state |-> "empty", age |-> 0, author |-> l,
                                                form |-> None]]
                /\ GoTo(l, "fill")
           ELSE GoTo(l, "cleanup") /\ UNCHANGED file
        /\ UNCHANGED <<context, track, pending, page, cleaner, written, cleaned, faults>>

\* The form is on its way to the user: the object is GENERATED and has a file name.
Generated(l) ==
    /\ Put(l, "finish", [load[l].copy EXCEPT !.status = "GENERATED", !.named = TRUE])
    /\ written' = written \cup {l}

\* The PDF is filled in from what the context holds now.  If the file has been
\* deleted meanwhile, the bytes go nowhere.
FillForm(l) ==
    LET t == load[l].track
        c == context[load[l].session]
        form == [answers |-> c.answers, pendingId |-> c.pendingId]
    IN  /\ load[l].pc = "fill"
        /\ file' = [file EXCEPT ![t] = IF @.author = l
                                       THEN [state |-> "written", age |-> 0, author |-> None,
                                             form |-> form]
                                       ELSE @]
        /\ IF UseS3 THEN GoTo(l, "upload") /\ UNCHANGED written ELSE Generated(l)
        /\ UNCHANGED <<context, track, pending, page, cleaner, cleaned, faults>>

\* S3 faces only: the file, whatever is in it, is uploaded and its key put into
\* the context.
UploadForm(l) ==
    LET f == file[load[l].track]
    IN  /\ load[l].pc = "upload"
        /\ f.state # "absent"
        /\ context' = [context EXCEPT ![load[l].session].url = f.form]
        /\ GoTo(l, "mail")
        /\ UNCHANGED <<track, pending, file, page, cleaner, written, cleaned, faults>>

\* S3 faces only: the mail with the link is queued, then saveWizardResults.
MailLink(l) ==
    /\ load[l].pc = "mail"
    /\ context' = [context EXCEPT ![load[l].session].emailSent = TRUE]
    /\ Generated(l) \/ (GoTo(l, "cleanup") /\ UNCHANGED written)
    /\ UNCHANGED <<track, pending, file, page, cleaner, cleaned, faults>>

\* An exception anywhere in between.
TaskFails(l) ==
    /\ load[l].pc \in {"pending", "file", "fill", "upload", "mail"}
    /\ GoTo(l, "cleanup")
    /\ UNCHANGED <<context, track, pending, file, page, cleaner, written, cleaned, faults>>

\* Faults for the mutation runs: the pending registration stays; the status is
\* the one of the success path, or one of the poll's answers.
EndCleanUp(l, status) ==
    /\ load[l].pc = "cleanup"
    /\ Put(l, "finish", [load[l].copy EXCEPT !.status = status])
    /\ UNCHANGED <<context, track, file, page, cleaner, written, cleaned, faults>>
CleanUp_KeepsPending(l) == EndCleanUp(l, "ERROR") /\ UNCHANGED pending
CleanUp_Generated(l) == EndCleanUp(l, "GENERATED") /\ UNCHANGED pending
CleanUp_NotFound(l) == EndCleanUp(l, "TRACK_NOT_FOUND") /\ UNCHANGED pending

\* The catch block: ERROR, and the pending registration is discarded.
CleanUp(l) ==
    /\ load[l].pc = "cleanup"
    /\ pending' = [pending EXCEPT ![l] = IF @ = "NONE" THEN @ ELSE "DISCARDED"]
    /\ Put(l, "finish", [load[l].copy EXCEPT !.status = "ERROR"])
    /\ UNCHANGED <<context, track, file, page, cleaner, written, cleaned, faults>>

\* The last saveFormTrack; it fails if the row has been removed.
Finish(l) ==
    /\ load[l].pc = "finish"
    /\ IF Present(load[l].track) THEN WriteCopy(l, load[l].copy) ELSE UNCHANGED track
    /\ Leave(l, "done")
    /\ UNCHANGED <<context, pending, file, page, cleaner, written, cleaned, faults>>

-----------------------------------------------------------------------------
(* newCreatePdf: the link on the page. *)

\* The form a request for the link gets, None for 404.
Download(l) ==
    LET t == load[l].track
    IN  IF UseS3 THEN context[load[l].session].url
        ELSE IF Present(t) /\ track[t].named /\ file[t].state = "written"
             THEN file[t].form ELSE None

CreatePdf(l) ==
    LET s == load[l].session
    IN  /\ page[l].state = "link"
        /\ ~page[l].thanking
        /\ context[s].live
        /\ context' = [context EXCEPT ![s].downloaded = Download(l) # None]
        /\ page' = [page EXCEPT ![l].thanking = Download(l) # None /\ ~context[s].emailSent]
        /\ UNCHANGED <<track, pending, file, load, cleaner, written, cleaned, faults>>

\* The thank-you mail of the same request; it may fail.
SendThankYou(l) ==
    LET s == load[l].session
    IN  /\ page[l].thanking
        /\ \E sent \in BOOLEAN : context' = [context EXCEPT ![s].emailSent = sent]
        /\ page' = [page EXCEPT ![l].thanking = FALSE]
        /\ UNCHANGED <<track, pending, file, load, cleaner, written, cleaned, faults>>

-----------------------------------------------------------------------------
(* ClearFormSandboxJob.clearSandbox. *)

\* Fault for the mutation runs: only tracks with a form are looked for.
FindOldTracks_WithForm ==
    LET old == {t \in Loads : track[t].status = "GENERATED" /\ track[t].age >= StoreTicks}
    IN  /\ cleaner = IdleCleaner
        /\ old # {}
        /\ cleaner' = [IdleCleaner EXCEPT !.todo = old, !.named = old]
        /\ UNCHANGED <<context, track, pending, file, load, page, written, cleaned, faults>>

\* The rows created at least storeMinutes ago.
FindOldTracks ==
    LET old == {t \in Loads : Present(t) /\ track[t].age >= StoreTicks}
    IN  /\ cleaner = IdleCleaner
        /\ old # {}
        /\ cleaner' = [IdleCleaner EXCEPT !.todo = old,
                                          !.named = {t \in old : track[t].named}]
        /\ UNCHANGED <<context, track, pending, file, load, page, written, cleaned, faults>>

\* The file first, as the row read earlier names it ...
DeleteForm(t) ==
    LET exists == t \in cleaner.named /\ file[t].state # "absent"
    IN  /\ cleaner.current = None
        /\ t \in cleaner.todo
        /\ file' = [file EXCEPT ![t] = IF exists THEN NoFile ELSE @]
        /\ cleaned' = IF exists THEN cleaned \cup {t} ELSE cleaned
        /\ cleaner' = [cleaner EXCEPT !.todo = @ \ {t}, !.current = t,
                                      !.foundDir = @ \/ exists]
        /\ UNCHANGED <<context, track, pending, load, page, written, faults>>

\* ... then the row, however young it is by now.
RemoveTrack ==
    /\ cleaner.current # None
    /\ track' = [track EXCEPT ![cleaner.current] = [NoTrack EXCEPT !.status = "REMOVED"]]
    /\ cleaner' = [cleaner EXCEPT !.current = None, !.named = @ \ {cleaner.current}]
    /\ UNCHANGED <<context, pending, file, load, page, written, cleaned, faults>>

\* Once a deleted form has told the job its directory: every old file there.
Sweep ==
    LET old == {t \in Loads : file[t].state # "absent" /\ file[t].age >= StoreTicks}
    IN  /\ cleaner.todo = {} /\ cleaner.current = None
        /\ cleaner.foundDir
        /\ file' = [t \in Loads |-> IF t \in old THEN NoFile ELSE file[t]]
        /\ cleaned' = cleaned \cup old
        /\ cleaner' = IdleCleaner
        /\ UNCHANGED <<context, track, pending, load, page, written, faults>>

-----------------------------------------------------------------------------
Task(l) ==
    \/ Begin(l) \/ Claim(l) \/ CachePending(l) \/ CreateFormFile(l) \/ FillForm(l)
    \/ UploadForm(l) \/ MailLink(l) \/ TaskFails(l) \/ CleanUp(l) \/ Finish(l)

Clean == FindOldTracks \/ (\E t \in Loads : DeleteForm(t)) \/ RemoveTrack \/ Sweep

Next ==
    \/ \E s \in Sessions : Edit(s)
    \/ Tick \/ Crash \/ Clean
    \/ \E l \in Loads :
          \/ \E s \in Sessions : FindTrack(l, s)
          \/ SaveTrack(l) \/ Task(l)
          \/ Poll(l) \/ PollFails(l) \/ Expire(l) \/ CreatePdf(l) \/ SendThankYou(l)

Spec == Init /\ [][Next]_vars

\* An open page whose last request was answered asks again, time passes and the
\* cleaning job is started every five minutes.  Nothing is asked of the executor:
\* a task may wait or hang.
Fairness == WF_vars(Tick) /\ WF_vars(Clean) /\ \A l \in Loads : WF_vars(Poll(l))

FairSpec == Spec /\ Fairness

-----------------------------------------------------------------------------
(* Properties. *)

\* Pages show the link only for a form some task has filled in and written to the
\* end, even though rows are overwritten with old copies (whether the file is still
\* there is FormContract's business).
GeneratedMeansWritten ==
    \A t \in Loads : track[t].status = "GENERATED" => \E l \in written : load[l].track = t

\* A pending registration is kept only if its task wrote a form: double loads,
\* removed tracks and failures leave none behind, a crash or a failed deletion
\* may.
PendingHasForm ==
    \A l \in Loads : pending[l] = "SAVED" =>
        l \in written \/ load[l].pc \in {"file", "fill", "upload", "mail", "cleanup", "crashed"}

\* However many loads share a track, officials get one pending registration of
\* it, unless the cleaning job has deleted its file under a slow task.
OneRegistrationPerTrack ==
    \A k, l \in written :
        load[k].track = load[l].track /\ k # l => load[k].track \in cleaned

\* A stored form is never overwritten: it stays or is deleted.
FormIsNeverReplaced ==
    [][\A t \in Loads : file[t].state = "written" =>
          file'[t].form = file[t].form \/ file'[t].state = "absent"]_vars

\* A page that waits is told in the end that the form is ready, or failed, or that
\* its track is gone, unless one of its own requests fails: two tasks, old copies,
\* removed rows, tasks that hang and crashes do not keep it asking for ever: in the
\* end the cleaning job removes the row.
PageIsAnswered ==
    \A l \in Loads :
        page[l].state = "polling" ~> page[l].state \in {"link", "error", "gone", "stuck"}

\* The javadoc of getFormTrack: no new generation where the answers have not
\* changed since the last one.
FormsAreReused ==
    [][\A l \in Loads : load[l].pc = "queued" /\ load'[l].pc = "claim" =>
          ~ \E t \in Loads : /\ Present(t) /\ track[t].hash = load[l].copy.hash
                             /\ file[t].state = "written"]_vars

\* What the download page says of changed answers: going back, making changes
\* and repeating the download gives a form with the present answers.
DownloadShowsAnswers ==
    \A l \in Loads :
        LET c == context[load[l].session]
        IN  /\ page[l].state = "link" /\ c.live /\ c.answers = load[l].copy.hash
            /\ load[l].track # l       \* a repeated download of the same answers
            /\ Download(l) # None
            => Download(l).answers = c.answers

\* What users see: the stored forms, and the tracks whose form a page has offered.
StoredForm == [t \in Loads |-> IF file[t].state = "written" THEN file[t].form ELSE None]
Linking == {l \in Loads : page[l].state \in {"link", "expired"}}
Offered == {load[l].track : l \in Linking}

Contract == INSTANCE FormContract WITH
    form <- StoredForm, swept <- cleaned, offered <- Offered

\* Seen from outside, a form is stored in one step, once, and pages offer it only
\* then: two tasks of one track, rows that are overwritten with old copies or
\* removed under a task, failures and crashes never show a second form or a link
\* to one that was not stored.  A link that leads nowhere is the cleaning job's
\* doing, which deletes forms before rows, and old files of rows that a page load
\* has made young again.
ImplementsContract == Contract!Spec

=============================================================================
