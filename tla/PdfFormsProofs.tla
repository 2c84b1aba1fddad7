--------------------------- MODULE PdfFormsProofs ---------------------------
(* Theorems about PdfForms, for every value of its constants.               *)
EXTENDS PdfForms, TLAPS

-----------------------------------------------------------------------------
(* Types, and what each kind of step makes of the loads. *)

\* A load that has begun belongs to a session and has a track.
Linked == \A l \in Loads :
    load[l].pc # "idle" => load[l].session \in Sessions /\ load[l].track \in Loads

TypeInv == TypeOK /\ Linked

\* What stays of the loads: one that has begun keeps its session and its track.
Stays == \A k \in Loads :
    load[k].pc # "idle" => /\ load'[k].pc # "idle"
                           /\ load'[k].session = load[k].session
                           /\ load'[k].track = load[k].track

LEMMA StaysLinked ==
  ASSUME Linked, Stays,
         \A k \in Loads : load[k].pc = "idle" => load'[k] = load[k]
  PROVE  Linked'
BY DEF Linked, Stays

LEMMA NoTrackType == NoTrack \in Tracks
BY TimesAssumption DEF NoTrack, Tracks, Ages

LEMMA DroppedType ==
  ASSUME NEW c \in Tracks
  PROVE  /\ [NoTrack EXCEPT !.hash = c.hash] \in Tracks
         /\ [NoTrack EXCEPT !.hash = c.hash].status = "NONE"
BY NoTrackType DEF NoTrack, Tracks

LEMMA RowType ==
  ASSUME NEW c \in Tracks, NEW status \in TrackStatus
  PROVE  /\ [c EXCEPT !.status = status] \in Tracks
         /\ [c EXCEPT !.status = status].status = status
         /\ [c EXCEPT !.status = status, !.named = TRUE] \in Tracks
BY DEF Tracks

\* A step of a load's own: pc and copy.
LEMMA PutFields ==
  ASSUME TypeOK, NEW l \in Loads, NEW pc \in Pcs, NEW c \in Tracks, Put(l, pc, c)
  PROVE  /\ load' \in [Loads -> LoadStates]
         /\ load'[l].pc = pc /\ load'[l].copy = c
         /\ load'[l].session = load[l].session /\ load'[l].track = load[l].track
         /\ \A k \in Loads : k # l => load'[k] = load[k]
<1>1. load[l] \in LoadStates
  BY DEF TypeOK
<1>2. load'[l] = [load[l] EXCEPT !.pc = pc, !.copy = c]
  BY DEF Put, TypeOK
<1>3. /\ load'[l] \in LoadStates
      /\ load'[l].pc = pc /\ load'[l].copy = c
      /\ load'[l].session = load[l].session /\ load'[l].track = load[l].track
  BY <1>1, <1>2 DEF LoadStates
<1>4. \A k \in Loads : k # l => load'[k] = load[k]
  BY DEF Put, TypeOK
<1>5. load' \in [Loads -> LoadStates]
  BY <1>3, <1>4 DEF Put, TypeOK
<1>6. QED
  BY <1>3, <1>4, <1>5

LEMMA PutStays ==
  ASSUME TypeInv, NEW l \in Loads, load[l].pc # "idle", NEW pc \in Pcs \ {"idle"},
         NEW c \in Tracks, Put(l, pc, c)
  PROVE  Stays /\ Linked'
<1>1. Stays
  BY PutFields DEF Stays, TypeInv
<1>2. QED
  BY <1>1, PutFields, StaysLinked DEF TypeInv

LEMMA CopyType ==
  ASSUME TypeOK, NEW l \in Loads
  PROVE  load[l].copy \in Tracks /\ track[l] \in Tracks
BY DEF TypeOK, LoadStates

LEMMA GoToFields ==
  ASSUME TypeOK, NEW l \in Loads, NEW pc \in Pcs, GoTo(l, pc)
  PROVE  /\ load' \in [Loads -> LoadStates]
         /\ load'[l].pc = pc /\ load'[l].copy = load[l].copy
         /\ load'[l].session = load[l].session /\ load'[l].track = load[l].track
         /\ \A k \in Loads : k # l => load'[k] = load[k]
BY CopyType, PutFields DEF GoTo

LEMMA LeaveFields ==
  ASSUME TypeOK, NEW l \in Loads, NEW pc \in Pcs, Leave(l, pc)
  PROVE  /\ load' \in [Loads -> LoadStates]
         /\ load'[l].pc = pc /\ load'[l].copy.status = "NONE"
         /\ load'[l].session = load[l].session /\ load'[l].track = load[l].track
         /\ \A k \in Loads : k # l => load'[k] = load[k]
<1>1. NoCopy(l) \in Tracks /\ NoCopy(l).status = "NONE"
  BY CopyType, DroppedType DEF NoCopy
<1>2. Put(l, pc, NoCopy(l))
  BY DEF Leave
<1>3. QED
  BY <1>1, <1>2, PutFields

\* A step of an own pc that keeps what is linked.
LEMMA OwnStep ==
  ASSUME TypeInv, NEW l \in Loads, load[l].pc # "idle", load'[l].pc # "idle",
         load'[l].session = load[l].session, load'[l].track = load[l].track,
         \A k \in Loads : k # l => load'[k] = load[k]
  PROVE  Stays /\ Linked'
<1>1. Stays
  BY DEF Stays
<1>2. QED
  BY <1>1, StaysLinked DEF TypeInv

LEMMA FindFields ==
  ASSUME TypeOK, NEW l \in Loads, NEW s \in Sessions, FindTrack(l, s)
  PROVE  /\ load' \in [Loads -> LoadStates]
         /\ load[l].pc = "idle" /\ load'[l].pc = "found"
         /\ load'[l].session = s /\ load'[l].track \in Loads
         /\ \/ load'[l].copy.status = "CREATED"
            \/ load'[l].copy.status = track[load'[l].track].status
         /\ \A k \in Loads : k # l => load'[k] = load[k]
<1> DEFINE hash == context[s].answers
           same == {t \in Loads : Present(t) /\ track[t].hash = hash}
           found(t, c) == [pc |-> "found", session |-> s, track |-> t, copy |-> c]
           new == [status |-> "CREATED", age |-> 0, named |-> FALSE, hash |-> hash]
<1>1. new \in Tracks /\ new.status = "CREATED"
  BY TimesAssumption DEF TypeOK, Contexts, Tracks, TrackStatus, Ages
<1>2. \A t \in Loads : /\ [track[t] EXCEPT !.age = 0] \in Tracks
                       /\ [track[t] EXCEPT !.age = 0].status = track[t].status
  <2>1. 0 \in Ages
    BY TimesAssumption DEF Ages
  <2>2. \A t \in Loads : track[t] \in Tracks
    BY DEF TypeOK
  <2>3. QED
    BY <2>1, <2>2 DEF Tracks
<1>3. PICK t \in Loads, c \in Tracks :
        /\ load' = [load EXCEPT ![l] = found(t, c)]
        /\ c.status = "CREATED" \/ c.status = track[t].status
  <2>1. CASE \E t \in same : load' = [load EXCEPT ![l] = found(t, [track[t] EXCEPT !.age = 0])]
    BY <1>2, <2>1
  <2>2. CASE load' = [load EXCEPT ![l] = found(l, new)]
    BY <1>1, <2>2
  <2>3. QED
    BY <2>1, <2>2 DEF FindTrack
<1>4. found(t, c) \in LoadStates
  BY DEF LoadStates, Pcs
<1>5. load'[l] = found(t, c) /\ \A k \in Loads : k # l => load'[k] = load[k]
  BY <1>3 DEF TypeOK
<1>6. load' \in [Loads -> LoadStates]
  BY <1>3, <1>4 DEF TypeOK
<1>7. QED
  BY <1>3, <1>5, <1>6 DEF FindTrack

LEMMA SameLoads ==
  ASSUME TypeInv, load' = load
  PROVE  Stays /\ Linked'
BY DEF TypeInv, Linked, Stays

LEMMA NoFileType == NoFile \in Files
BY TimesAssumption DEF NoFile, Files, Ages

LEMMA IdleCleanerType == IdleCleaner \in Cleaners
BY DEF IdleCleaner, Cleaners

LEMMA WriteType ==
  ASSUME TypeOK, NEW l \in Loads, NEW c \in Tracks, WriteCopy(l, c)
  PROVE  /\ track' \in [Loads -> Tracks]
         /\ load[l].track \in Loads => track'[load[l].track] = c
         /\ \A t \in Loads : t # load[l].track => track'[t] = track[t]
BY DEF WriteCopy, TypeOK

LEMMA FaultType ==
  ASSUME TypeOK, NEW kind, Fault(kind)
  PROVE  faults' \in 0..MaxFaults
BY MaxFaultsAssumption DEF Fault, TypeOK

LEMMA InitType == Init => TypeInv
<1> SUFFICES ASSUME Init PROVE TypeInv
  OBVIOUS
<1>1. context \in [Sessions -> Contexts]
  <2>1. PICK a \in [Sessions -> Answers] : context = [s \in Sessions |-> NewContext(a[s])]
    BY DEF Init
  <2>2. \A s \in Sessions : NewContext(a[s]) \in Contexts
    BY DEF NewContext, Contexts
  <2>3. QED
    BY <2>1, <2>2
<1>2. /\ track \in [Loads -> Tracks] /\ file \in [Loads -> Files]
      /\ cleaner \in Cleaners /\ pending \in [Loads -> PendingStates]
  BY NoTrackType, NoFileType, IdleCleanerType DEF Init, PendingStates
<1>3. load \in [Loads -> LoadStates]
  <2>1. [pc |-> "idle", session |-> None, track |-> None, copy |-> NoTrack] \in LoadStates
    BY NoTrackType DEF LoadStates, Pcs
  <2>2. QED
    BY <2>1 DEF Init
<1>4. page \in [Loads -> Pages] /\ faults \in 0..MaxFaults
  BY TimesAssumption, MaxFaultsAssumption DEF Init, Pages, Ages
<1>5. TypeOK
  BY <1>1, <1>2, <1>3, <1>4 DEF Init, TypeOK
<1>6. Linked
  BY DEF Init, Linked
<1>7. QED
  BY <1>5, <1>6 DEF TypeInv

-----------------------------------------------------------------------------
(* Every kind of step keeps the types. *)

LEMMA EditType ==
  ASSUME TypeInv, NEW s \in Sessions, Edit(s)
  PROVE  TypeInv' /\ Stays
<1>1. PICK a \in Answers : context' = [context EXCEPT ![s].answers = a]
  BY DEF Edit
<1>2. context[s] \in Contexts
  BY DEF TypeInv, TypeOK
<1>3. [context[s] EXCEPT !.answers = a] \in Contexts
  BY <1>2 DEF Contexts
<1>4. context' \in [Sessions -> Contexts]
  BY <1>1, <1>3 DEF TypeInv, TypeOK
<1>5. load' = load
  BY DEF Edit
<1>6. QED
  BY <1>4, <1>5, SameLoads DEF Edit, TypeInv, TypeOK

\* A tick leaves everything of a load but the age of its copy.
LEMMA TickLoads ==
  ASSUME TypeOK, Tick
  PROVE  /\ load' \in [Loads -> LoadStates]
         /\ \A l \in Loads : /\ load'[l].pc = load[l].pc
                             /\ load'[l].session = load[l].session
                             /\ load'[l].track = load[l].track
                             /\ load'[l].copy.status = load[l].copy.status
<1> DEFINE age(l) == IF load[l].copy.status # "NONE"
                     THEN Older(load[l].copy.age) ELSE load[l].copy.age
<1>1. ASSUME NEW l \in Loads
      PROVE  /\ load[l] \in LoadStates /\ load[l].copy \in Tracks /\ age(l) \in Ages
    <2>1. load[l] \in LoadStates
      BY DEF TypeOK
    <2>2. load[l].copy \in Tracks
      BY <2>1 DEF LoadStates
    <2>3. load[l].copy.age \in Ages
      BY <2>2 DEF Tracks
    <2>4. Older(load[l].copy.age) \in Ages
      BY <2>3, TimesAssumption DEF Ages, Older
    <2>5. QED
      BY <2>1, <2>2, <2>3, <2>4
<1>2. \A l \in Loads : load'[l] = [load[l] EXCEPT !.copy.age = age(l)]
  BY DEF Tick
<1> HIDE DEF age
<1>3. ASSUME NEW l \in Loads
      PROVE  /\ load'[l] \in LoadStates
             /\ load'[l].pc = load[l].pc
             /\ load'[l].session = load[l].session
             /\ load'[l].track = load[l].track
             /\ load'[l].copy.status = load[l].copy.status
  <2>1. PICK c : c = [load[l].copy EXCEPT !.age = age(l)]
    OBVIOUS
  <2>2. c \in Tracks /\ c.status = load[l].copy.status
    BY <1>1, <2>1 DEF Tracks
  <2>3. load'[l] = [load[l] EXCEPT !.copy = c]
    BY <1>1, <1>2, <2>1 DEF LoadStates
  <2>4. QED
    BY <1>1, <2>2, <2>3 DEF LoadStates
<1>4. QED
  BY <1>3 DEF Tick

LEMMA TickType ==
  ASSUME TypeInv, Tick
  PROVE  TypeInv' /\ Stays
<1>1. \A a \in Ages : Older(a) \in Ages
  BY TimesAssumption DEF Ages, Older
<1>2. track' \in [Loads -> Tracks]
  <2>1. \A t \in Loads : /\ track[t] \in Tracks
                         /\ \A a \in Ages : [track[t] EXCEPT !.age = a] \in Tracks
                         /\ track[t].age \in Ages
    BY DEF TypeInv, TypeOK, Tracks
  <2>2. QED
    BY <1>1, <2>1 DEF Tick
<1>3. file' \in [Loads -> Files]
  <2>1. \A t \in Loads : /\ file[t] \in Files
                         /\ \A a \in Ages : [file[t] EXCEPT !.age = a] \in Files
                         /\ file[t].age \in Ages
    BY DEF TypeInv, TypeOK, Files
  <2>2. QED
    BY <1>1, <2>1 DEF Tick
<1>4. page' \in [Loads -> Pages]
  <2>1. \A l \in Loads : /\ page[l] \in Pages
                         /\ \A a \in Ages : [page[l] EXCEPT !.age = a] \in Pages
                         /\ page[l].age \in Ages
    BY DEF TypeInv, TypeOK, Pages
  <2>2. QED
    BY <1>1, <2>1 DEF Tick
<1>5. load' \in [Loads -> LoadStates]
  BY TickLoads DEF TypeInv
<1>6. TypeOK'
  BY <1>2, <1>3, <1>4, <1>5 DEF Tick, TypeInv, TypeOK
<1>7. Stays /\ Linked'
  BY TickLoads DEF TypeInv, Linked, Stays
<1>8. QED
  BY <1>6, <1>7 DEF TypeInv

\* A crash ends loads and drops their copies.
LEMMA CrashLoads ==
  ASSUME TypeOK, Crash
  PROVE  /\ load' \in [Loads -> LoadStates]
         /\ \A l \in Loads :
               /\ load'[l].pc = load[l].pc \/ load'[l].pc = "crashed"
               /\ load[l].pc = "idle" <=> load'[l].pc = "idle"
               /\ load'[l].session = load[l].session
               /\ load'[l].track = load[l].track
               /\ load'[l].copy = load[l].copy \/ load'[l].copy.status = "NONE"
<1> DEFINE ended(l) == [load[l] EXCEPT !.pc = "crashed", !.copy = NoCopy(l)]
<1>1. ASSUME NEW l \in Loads
      PROVE  /\ load[l] \in LoadStates
             /\ \/ load'[l] = load[l] /\ load[l].pc \in {"idle", "done", "failed"}
                \/ load'[l] = ended(l) /\ load[l].pc # "idle"
  BY DEF TypeOK, Crash
<1>2. ASSUME NEW l \in Loads
      PROVE  /\ ended(l) \in LoadStates
             /\ ended(l).pc = "crashed" /\ ended(l).copy.status = "NONE"
             /\ ended(l).session = load[l].session
             /\ ended(l).track = load[l].track
  <2>1. NoCopy(l) \in Tracks /\ NoCopy(l).status = "NONE"
    BY CopyType, DroppedType DEF NoCopy
  <2>2. QED
    BY <1>1, <2>1 DEF LoadStates, Pcs
<1>3. load' = [l \in Loads |-> IF load[l].pc \in {"idle", "done", "failed"}
                              THEN load[l] ELSE ended(l)]
  BY DEF Crash
<1> HIDE DEF ended
<1>4. QED
  BY <1>1, <1>2, <1>3

\* Pages stay, but those that ask while no server answers get stuck.
LEMMA CrashPages ==
  ASSUME TypeOK, Crash
  PROVE  /\ page' \in [Loads -> Pages]
         /\ \A l \in Loads :
               \/ page'[l].state = page[l].state
               \/ page[l].state = "polling" /\ page'[l].state = "stuck"
<1>1. PICK unanswered \in SUBSET Waiting :
        page' = [l \in Loads |-> [page[l] EXCEPT
                   !.state = IF l \in unanswered THEN "stuck" ELSE @, !.thanking = FALSE]]
  BY DEF Crash
<1>2. ASSUME NEW l \in Loads, NEW state \in {"stuck", page[l].state}
      PROVE  /\ [page[l] EXCEPT !.state = state, !.thanking = FALSE] \in Pages
             /\ [page[l] EXCEPT !.state = state, !.thanking = FALSE].state = state
  BY DEF TypeOK, Pages
<1>3. ASSUME NEW l \in Loads
      PROVE  /\ page'[l] \in Pages
             /\ \/ page'[l].state = page[l].state
                \/ page[l].state = "polling" /\ page'[l].state = "stuck"
  <2>1. CASE l \in unanswered
    BY <1>1, <1>2, <2>1 DEF Waiting
  <2>2. CASE l \notin unanswered
    BY <1>1, <1>2, <2>2
  <2>3. QED
    BY <2>1, <2>2
<1>4. page' \in [Loads -> Pages]
  <2> DEFINE shown(l) == [page[l] EXCEPT
               !.state = IF l \in unanswered THEN "stuck" ELSE @, !.thanking = FALSE]
  <2>1. page' = [l \in Loads |-> shown(l)]
    BY <1>1
  <2>2. \A l \in Loads : shown(l) \in Pages
    BY <1>3, <2>1
  <2> HIDE DEF shown
  <2>3. QED
    BY <2>1, <2>2
<1>5. QED
  BY <1>3, <1>4

LEMMA CrashType ==
  ASSUME TypeInv, Crash
  PROVE  TypeInv' /\ Stays
<1>1. context' \in [Sessions -> Contexts]
  <2>1. \A s \in Sessions : [NewContext(context[s].answers) EXCEPT !.live = FALSE] \in Contexts
    BY DEF TypeInv, TypeOK, Contexts, NewContext
  <2>2. QED
    BY <2>1 DEF Crash
<1>2. page' \in [Loads -> Pages]
  BY CrashPages DEF TypeInv
<1>3. load' \in [Loads -> LoadStates] /\ cleaner' \in Cleaners
  BY CrashLoads, IdleCleanerType DEF Crash, TypeInv
<1>4. faults' \in 0..MaxFaults
  BY FaultType DEF Crash, TypeInv
<1>5. TypeOK'
  BY <1>1, <1>2, <1>3, <1>4 DEF Crash, TypeInv, TypeOK
<1>6. Stays /\ Linked'
  BY CrashLoads DEF TypeInv, Linked, Stays
<1>7. QED
  BY <1>5, <1>6 DEF TypeInv

LEMMA FindTrackType ==
  ASSUME TypeInv, NEW l \in Loads, NEW s \in Sessions, FindTrack(l, s)
  PROVE  TypeInv' /\ Stays
<1>1. TypeOK'
  BY FindFields DEF FindTrack, TypeInv, TypeOK
<1>2. Stays /\ Linked'
  BY FindFields DEF TypeInv, Linked, Stays
<1>3. QED
  BY <1>1, <1>2 DEF TypeInv

\* What saving the found track makes of the loads and rows.
LEMMA SaveFields ==
  ASSUME TypeOK, NEW l \in Loads, SaveTrack(l)
  PROVE  /\ load' \in [Loads -> LoadStates]
         /\ load[l].pc = "found" /\ load'[l].pc \in {"queued", "failed"}
         /\ load'[l].session = load[l].session /\ load'[l].track = load[l].track
         /\ load'[l].copy.status \in {"NONE", load[l].copy.status}
         /\ \A k \in Loads : k # l => load'[k] = load[k]
         /\ WriteCopy(l, load[l].copy) \/ track' = track
<1>1. CASE WriteCopy(l, load[l].copy) /\ GoTo(l, "queued")
  BY <1>1, GoToFields DEF SaveTrack, Pcs
<1>2. CASE Leave(l, "failed") /\ track' = track
  BY <1>2, LeaveFields DEF SaveTrack, Pcs
<1>3. QED
  BY <1>1, <1>2 DEF SaveTrack

LEMMA SaveTrackType ==
  ASSUME TypeInv, NEW l \in Loads, SaveTrack(l)
  PROVE  TypeInv' /\ Stays
<1>1. track' \in [Loads -> Tracks]
  BY SaveFields, CopyType, WriteType DEF TypeInv, TypeOK
<1>2. page' \in [Loads -> Pages]
  <2>1. [page[l] EXCEPT !.state = "polling"] \in Pages
    BY DEF TypeInv, TypeOK, Pages
  <2>2. QED
    BY <2>1 DEF SaveTrack, TypeInv, TypeOK
<1>3. TypeOK'
  BY <1>1, <1>2, SaveFields DEF SaveTrack, TypeInv, TypeOK
<1>4. Stays /\ Linked'
  BY SaveFields, OwnStep DEF TypeInv
<1>5. QED
  BY <1>3, <1>4 DEF TypeInv

LEMMA PollType ==
  ASSUME TypeInv, NEW l \in Loads, Poll(l)
  PROVE  TypeInv' /\ Stays
<1>1. page' \in [Loads -> Pages]
  <2>1. \A state \in {"link", "error", "gone"} : [page[l] EXCEPT !.state = state] \in Pages
    BY DEF TypeInv, TypeOK, Pages
  <2>2. QED
    <3> DEFINE state == IF track[load[l].track].status = "GENERATED" THEN "link"
                        ELSE IF track[load[l].track].status = "ERROR" THEN "error" ELSE "gone"
    <3>1. state \in {"link", "error", "gone"}
      OBVIOUS
    <3>2. page' = [page EXCEPT ![l].state = state]
      BY DEF Poll
    <3> HIDE DEF state
    <3>3. QED
      BY <2>1, <3>1, <3>2 DEF TypeInv, TypeOK
<1>2. QED
  BY <1>1, SameLoads DEF Poll, TypeInv, TypeOK

LEMMA PollFailsType ==
  ASSUME TypeInv, NEW l \in Loads, PollFails(l)
  PROVE  TypeInv' /\ Stays
<1>1. [page[l] EXCEPT !.state = "stuck"] \in Pages
  BY DEF TypeInv, TypeOK, Pages
<1>2. page' \in [Loads -> Pages]
  BY <1>1 DEF PollFails, TypeInv, TypeOK
<1>3. faults' \in 0..MaxFaults
  BY FaultType DEF PollFails, TypeInv
<1>4. QED
  BY <1>2, <1>3, SameLoads DEF PollFails, TypeInv, TypeOK

\* A change of one flag of a session's context.
LEMMA ContextType ==
  ASSUME TypeOK, NEW s, NEW b \in BOOLEAN
  PROVE  /\ [context EXCEPT ![s].live = b] \in [Sessions -> Contexts]
         /\ [context EXCEPT ![s].emailSent = b] \in [Sessions -> Contexts]
         /\ [context EXCEPT ![s].downloaded = b] \in [Sessions -> Contexts]
<1>1. context \in [Sessions -> Contexts]
  BY DEF TypeOK
<1>2. \A c \in Contexts : /\ [c EXCEPT !.live = b] \in Contexts
                         /\ [c EXCEPT !.emailSent = b] \in Contexts
                         /\ [c EXCEPT !.downloaded = b] \in Contexts
  BY DEF Contexts
<1>3. CASE s \in Sessions
  BY <1>1, <1>2, <1>3
<1>4. CASE s \notin Sessions
  BY <1>1, <1>4
<1>5. QED
  BY <1>3, <1>4

LEMMA ExpireType ==
  ASSUME TypeInv, NEW l \in Loads, Expire(l)
  PROVE  TypeInv' /\ Stays
<1>1. context' \in [Sessions -> Contexts]
  BY ContextType DEF Expire, TypeInv
<1>2. page' \in [Loads -> Pages]
  <2>1. [page[l] EXCEPT !.state = "expired", !.age = 0] \in Pages
    <3>1. 0 \in Ages
      BY TimesAssumption DEF Ages
    <3>2. QED
      BY <3>1 DEF TypeInv, TypeOK, Pages
  <2>2. QED
    BY <2>1 DEF Expire, TypeInv, TypeOK
<1>3. QED
  BY <1>1, <1>2, SameLoads DEF Expire, TypeInv, TypeOK

LEMMA CreatePdfType ==
  ASSUME TypeInv, NEW l \in Loads, CreatePdf(l)
  PROVE  TypeInv' /\ Stays
<1> DEFINE got == Download(l) # None
           mail == Download(l) # None /\ ~context[load[l].session].emailSent
<1>1. got \in BOOLEAN /\ mail \in BOOLEAN
  OBVIOUS
<1> HIDE DEF got, mail
<1>2. /\ context' = [context EXCEPT ![load[l].session].downloaded = got]
      /\ page' = [page EXCEPT ![l].thanking = mail]
  BY DEF CreatePdf, got, mail
<1>3. context' \in [Sessions -> Contexts]
  BY <1>1, <1>2, ContextType DEF TypeInv
<1>4. page' \in [Loads -> Pages]
  <2>1. \A b \in BOOLEAN : [page[l] EXCEPT !.thanking = b] \in Pages
    BY DEF TypeInv, TypeOK, Pages
  <2>2. QED
    BY <1>1, <1>2, <2>1 DEF TypeInv, TypeOK
<1>5. QED
  BY <1>3, <1>4, SameLoads DEF CreatePdf, TypeInv, TypeOK

LEMMA SendThankYouType ==
  ASSUME TypeInv, NEW l \in Loads, SendThankYou(l)
  PROVE  TypeInv' /\ Stays
<1>1. context' \in [Sessions -> Contexts]
  <2>1. PICK b \in BOOLEAN : context' = [context EXCEPT ![load[l].session].emailSent = b]
    BY DEF SendThankYou
  <2>2. QED
    BY <2>1, ContextType DEF TypeInv
<1>2. page' \in [Loads -> Pages]
  <2>1. [page[l] EXCEPT !.thanking = FALSE] \in Pages
    BY DEF TypeInv, TypeOK, Pages
  <2>2. QED
    BY <2>1 DEF SendThankYou, TypeInv, TypeOK
<1>3. faults' \in 0..MaxFaults
  BY FaultType DEF SendThankYou, TypeInv, TypeOK
<1>4. QED
  BY <1>1, <1>2, <1>3, SameLoads DEF SendThankYou, TypeInv, TypeOK

LEMMA BeginFields ==
  ASSUME TypeInv, NEW l \in Loads, Begin(l)
  PROVE  /\ load' \in [Loads -> LoadStates]
         /\ load[l].pc = "queued" /\ load'[l].pc \in {"claim", "done"}
         /\ load'[l].session = load[l].session /\ load'[l].track = load[l].track
         /\ load'[l].copy.status \in {"NONE", "IN_PROCESS"}
         /\ \A k \in Loads : k # l => load'[k] = load[k]
<1> DEFINE copy == [track[load[l].track] EXCEPT !.status = "IN_PROCESS"]
<1>1. CASE Put(l, "claim", copy)
  <2>1. load[l].pc = "queued" /\ track[load[l].track] \in Tracks
    BY DEF Begin, TypeInv, TypeOK, Linked
  <2>2. copy \in Tracks /\ copy.status = "IN_PROCESS"
    BY <2>1, RowType DEF TrackStatus
  <2> HIDE DEF copy
  <2>3. QED
    BY <1>1, <2>1, <2>2, PutFields DEF Pcs, TypeInv
<1>2. CASE Leave(l, "done")
  BY <1>2, LeaveFields DEF Begin, Pcs, TypeInv
<1>3. QED
  BY <1>1, <1>2 DEF Begin

LEMMA BeginType ==
  ASSUME TypeInv, NEW l \in Loads, Begin(l)
  PROVE  TypeInv' /\ Stays
BY BeginFields, OwnStep DEF Begin, TypeInv, TypeOK

LEMMA ClaimFields ==
  ASSUME TypeOK, NEW l \in Loads, Claim(l)
  PROVE  /\ load' \in [Loads -> LoadStates]
         /\ load[l].pc = "claim" /\ load'[l].pc \in {"pending", "done"}
         /\ load'[l].session = load[l].session /\ load'[l].track = load[l].track
         /\ load'[l].copy.status \in {"NONE", load[l].copy.status}
         /\ \A k \in Loads : k # l => load'[k] = load[k]
         /\ WriteCopy(l, load[l].copy) \/ track' = track
<1>1. CASE WriteCopy(l, load[l].copy) /\ GoTo(l, "pending")
  BY <1>1, GoToFields DEF Claim, Pcs
<1>2. CASE Leave(l, "done") /\ track' = track
  BY <1>2, LeaveFields DEF Claim, Pcs
<1>3. QED
  BY <1>1, <1>2 DEF Claim

LEMMA ClaimType ==
  ASSUME TypeInv, NEW l \in Loads, Claim(l)
  PROVE  TypeInv' /\ Stays
<1>1. track' \in [Loads -> Tracks]
  BY ClaimFields, CopyType, WriteType DEF TypeInv, TypeOK
<1>2. QED
  BY <1>1, ClaimFields, OwnStep DEF Claim, TypeInv, TypeOK

LEMMA FinishFields ==
  ASSUME TypeOK, NEW l \in Loads, Finish(l)
  PROVE  /\ load' \in [Loads -> LoadStates]
         /\ load[l].pc = "finish" /\ load'[l].pc = "done"
         /\ load'[l].session = load[l].session /\ load'[l].track = load[l].track
         /\ load'[l].copy.status = "NONE"
         /\ \A k \in Loads : k # l => load'[k] = load[k]
         /\ WriteCopy(l, load[l].copy) \/ track' = track
BY LeaveFields DEF Finish, Pcs

LEMMA FinishType ==
  ASSUME TypeInv, NEW l \in Loads, Finish(l)
  PROVE  TypeInv' /\ Stays
<1>1. track' \in [Loads -> Tracks]
  BY FinishFields, CopyType, WriteType DEF TypeInv, TypeOK
<1>2. QED
  BY <1>1, FinishFields, OwnStep DEF Finish, TypeInv, TypeOK

LEMMA PendingFields ==
  ASSUME TypeOK, NEW l \in Loads, CachePending(l)
  PROVE  /\ load' \in [Loads -> LoadStates]
         /\ load[l].pc = "pending" /\ load'[l].pc = "file"
         /\ load'[l].session = load[l].session /\ load'[l].track = load[l].track
         /\ load'[l].copy = load[l].copy
         /\ \A k \in Loads : k # l => load'[k] = load[k]
BY GoToFields DEF CachePending, Pcs

LEMMA CachePendingType ==
  ASSUME TypeInv, NEW l \in Loads, CachePending(l)
  PROVE  TypeInv' /\ Stays
<1>1. context' \in [Sessions -> Contexts]
  <2>1. context \in [Sessions -> Contexts] /\ load[l].session \in Sessions
    BY PendingFields DEF TypeInv, TypeOK, Linked
  <2>2. \A c \in Contexts : [c EXCEPT !.pendingId = l] \in Contexts
    BY DEF Contexts
  <2>3. CASE context' = context
    BY <2>1, <2>3
  <2>4. CASE context' = [context EXCEPT ![load[l].session].pendingId = l]
    BY <2>1, <2>2, <2>4
  <2>5. QED
    BY <2>3, <2>4 DEF CachePending
<1>2. pending' \in [Loads -> PendingStates]
  BY DEF CachePending, TypeInv, TypeOK, PendingStates
<1>3. faults' \in 0..MaxFaults
  BY FaultType DEF CachePending, TypeInv, TypeOK
<1>4. QED
  BY <1>1, <1>2, <1>3, PendingFields, OwnStep DEF CachePending, TypeInv, TypeOK

LEMMA FileFields ==
  ASSUME TypeOK, NEW l \in Loads, CreateFormFile(l)
  PROVE  /\ load' \in [Loads -> LoadStates]
         /\ load[l].pc = "file" /\ load'[l].pc \in {"fill", "cleanup"}
         /\ load'[l].session = load[l].session /\ load'[l].track = load[l].track
         /\ load'[l].copy = load[l].copy
         /\ \A k \in Loads : k # l => load'[k] = load[k]
<1>1. CASE GoTo(l, "fill")
  BY <1>1, GoToFields DEF CreateFormFile, Pcs
<1>2. CASE GoTo(l, "cleanup")
  BY <1>2, GoToFields DEF CreateFormFile, Pcs
<1>3. QED
  BY <1>1, <1>2 DEF CreateFormFile

LEMMA CreateFormFileType ==
  ASSUME TypeInv, NEW l \in Loads, CreateFormFile(l)
  PROVE  TypeInv' /\ Stays
<1>1. file' \in [Loads -> Files]
  <2>1. [state |-> "empty", age |-> 0, author |-> l, form |-> None] \in Files
    BY TimesAssumption DEF Files, Ages
  <2>2. QED
    BY <2>1 DEF CreateFormFile, TypeInv, TypeOK
<1>2. QED
  BY <1>1, FileFields, OwnStep DEF CreateFormFile, TypeInv, TypeOK

LEMMA GeneratedFields ==
  ASSUME TypeOK, NEW l \in Loads, Generated(l)
  PROVE  /\ load' \in [Loads -> LoadStates]
         /\ load'[l].pc = "finish"
         /\ load'[l].session = load[l].session /\ load'[l].track = load[l].track
         /\ \A k \in Loads : k # l => load'[k] = load[k]
         /\ written' = written \cup {l}
<1> DEFINE copy == [load[l].copy EXCEPT !.status = "GENERATED", !.named = TRUE]
<1>1. copy \in Tracks
  BY CopyType, RowType DEF TrackStatus
<1>2. Put(l, "finish", copy)
  BY DEF Generated
<1> HIDE DEF copy
<1>3. QED
  BY <1>1, <1>2, PutFields DEF Generated, Pcs

\* Filling in the form: the load is ready to save, or has to upload the form.
LEMMA FillFields ==
  ASSUME TypeOK, NEW l \in Loads, FillForm(l)
  PROVE  /\ load' \in [Loads -> LoadStates]
         /\ load[l].pc = "fill"
         /\ \/ /\ load'[l].pc = "finish" /\ written' = written \cup {l}
            \/ /\ load'[l].pc = "upload" /\ written' = written
               /\ load'[l].copy = load[l].copy
         /\ load'[l].session = load[l].session /\ load'[l].track = load[l].track
         /\ \A k \in Loads : k # l => load'[k] = load[k]
<1>1. CASE Generated(l)
  BY <1>1, GeneratedFields DEF FillForm
<1>2. CASE GoTo(l, "upload") /\ written' = written
  BY <1>2, GoToFields DEF FillForm, Pcs
<1>3. QED
  BY <1>1, <1>2 DEF FillForm

LEMMA FillFormType ==
  ASSUME TypeInv, NEW l \in Loads, FillForm(l)
  PROVE  TypeInv' /\ Stays
<1> DEFINE c == context[load[l].session]
           form == [answers |-> c.answers, pendingId |-> c.pendingId]
           full == [state |-> "written", age |-> 0, author |-> None, form |-> form]
<1>1. full \in Files
  <2>1. c \in Contexts
    BY FillFields DEF TypeInv, TypeOK, Linked
  <2>2. form \in Forms
    BY <2>1 DEF Contexts, Forms
  <2>3. QED
    BY <2>2, TimesAssumption DEF Files, Ages
<1>2. \E f \in {full, file[load[l].track]} : file' = [file EXCEPT ![load[l].track] = f]
  BY DEF FillForm
<1> HIDE DEF full
<1>3. file' \in [Loads -> Files]
  BY <1>1, <1>2, FillFields DEF TypeInv, TypeOK, Linked
<1>4. QED
  BY <1>3, FillFields, OwnStep DEF FillForm, TypeInv, TypeOK

LEMMA UploadFields ==
  ASSUME TypeOK, NEW l \in Loads, UploadForm(l)
  PROVE  /\ load' \in [Loads -> LoadStates]
         /\ load[l].pc = "upload" /\ load'[l].pc = "mail"
         /\ load'[l].session = load[l].session /\ load'[l].track = load[l].track
         /\ load'[l].copy = load[l].copy
         /\ \A k \in Loads : k # l => load'[k] = load[k]
BY GoToFields DEF UploadForm, Pcs

LEMMA UploadFormType ==
  ASSUME TypeInv, NEW l \in Loads, UploadForm(l)
  PROVE  TypeInv' /\ Stays
<1>1. file[load[l].track].form \in Forms \cup {None}
  BY UploadFields DEF TypeInv, TypeOK, Linked, Files
<1>2. PICK form \in Forms \cup {None} :
        context' = [context EXCEPT ![load[l].session].url = form]
  BY <1>1 DEF UploadForm
<1>3. context' \in [Sessions -> Contexts]
  <2>1. context \in [Sessions -> Contexts] /\ load[l].session \in Sessions
    BY UploadFields DEF TypeInv, TypeOK, Linked
  <2>2. \A c \in Contexts : [c EXCEPT !.url = form] \in Contexts
    BY DEF Contexts
  <2>3. QED
    BY <1>2, <2>1, <2>2
<1>4. QED
  BY <1>3, UploadFields, OwnStep DEF UploadForm, TypeInv, TypeOK

LEMMA MailFields ==
  ASSUME TypeOK, NEW l \in Loads, MailLink(l)
  PROVE  /\ load' \in [Loads -> LoadStates]
         /\ load[l].pc = "mail"
         /\ \/ load'[l].pc = "finish" /\ written' = written \cup {l}
            \/ /\ load'[l].pc = "cleanup" /\ written' = written
               /\ load'[l].copy = load[l].copy
         /\ load'[l].session = load[l].session /\ load'[l].track = load[l].track
         /\ \A k \in Loads : k # l => load'[k] = load[k]
<1>1. CASE Generated(l)
  BY <1>1, GeneratedFields DEF MailLink
<1>2. CASE GoTo(l, "cleanup") /\ written' = written
  BY <1>2, GoToFields DEF MailLink, Pcs
<1>3. QED
  BY <1>1, <1>2 DEF MailLink

LEMMA MailLinkType ==
  ASSUME TypeInv, NEW l \in Loads, MailLink(l)
  PROVE  TypeInv' /\ Stays
<1>1. PICK b \in BOOLEAN : context' = [context EXCEPT ![load[l].session].emailSent = b]
  BY DEF MailLink
<1>2. context' \in [Sessions -> Contexts]
  BY <1>1, ContextType DEF TypeInv
<1>3. QED
  BY <1>2, MailFields, OwnStep DEF MailLink, TypeInv, TypeOK

LEMMA FailFields ==
  ASSUME TypeOK, NEW l \in Loads, TaskFails(l)
  PROVE  /\ load' \in [Loads -> LoadStates]
         /\ load[l].pc \in {"pending", "file", "fill", "upload", "mail"}
         /\ load'[l].pc = "cleanup"
         /\ load'[l].session = load[l].session /\ load'[l].track = load[l].track
         /\ load'[l].copy = load[l].copy
         /\ \A k \in Loads : k # l => load'[k] = load[k]
BY GoToFields DEF TaskFails, Pcs

LEMMA TaskFailsType ==
  ASSUME TypeInv, NEW l \in Loads, TaskFails(l)
  PROVE  TypeInv' /\ Stays
BY FailFields, OwnStep DEF TaskFails, TypeInv, TypeOK

LEMMA CleanUpFields ==
  ASSUME TypeOK, NEW l \in Loads, CleanUp(l)
  PROVE  /\ load' \in [Loads -> LoadStates]
         /\ load[l].pc = "cleanup" /\ load'[l].pc = "finish"
         /\ load'[l].session = load[l].session /\ load'[l].track = load[l].track
         /\ load'[l].copy.status = "ERROR"
         /\ \A k \in Loads : k # l => load'[k] = load[k]
<1> DEFINE copy == [load[l].copy EXCEPT !.status = "ERROR"]
<1>1. copy \in Tracks /\ copy.status = "ERROR"
  BY CopyType, RowType DEF TrackStatus
<1>2. Put(l, "finish", copy)
  BY DEF CleanUp
<1> HIDE DEF copy
<1>3. QED
  BY <1>1, <1>2, PutFields DEF CleanUp, Pcs

LEMMA CleanUpType ==
  ASSUME TypeInv, NEW l \in Loads, CleanUp(l)
  PROVE  TypeInv' /\ Stays
<1>1. pending' \in [Loads -> PendingStates]
  BY DEF CleanUp, TypeInv, TypeOK, PendingStates
<1>2. faults' \in 0..MaxFaults
  BY FaultType DEF CleanUp, TypeInv, TypeOK
<1>3. QED
  BY <1>1, <1>2, CleanUpFields, OwnStep DEF CleanUp, TypeInv, TypeOK

LEMMA CleanType ==
  ASSUME TypeInv, Clean
  PROVE  TypeInv' /\ Stays
<1>0. cleaner \in Cleaners
  BY DEF TypeInv, TypeOK
<1>1. CASE FindOldTracks
  <2>1. cleaner' \in Cleaners
    <3> DEFINE old == {t \in Loads : Present(t) /\ track[t].age >= StoreTicks}
               named == {t \in old : track[t].named}
    <3>1. old \in SUBSET Loads /\ named \in SUBSET Loads
      OBVIOUS
    <3>2. cleaner' = [IdleCleaner EXCEPT !.todo = old, !.named = named]
      BY <1>1 DEF FindOldTracks
    <3> HIDE DEF old, named
    <3>3. QED
      BY <3>1, <3>2, IdleCleanerType DEF Cleaners
  <2>2. QED
    BY <1>1, <2>1, SameLoads DEF FindOldTracks, TypeInv, TypeOK
<1>2. ASSUME NEW t \in Loads, DeleteForm(t) PROVE TypeInv' /\ Stays
  <2> DEFINE exists == t \in cleaner.named /\ file[t].state # "absent"
  <2>1. file' \in [Loads -> Files] /\ cleaned' \subseteq Loads
    BY <1>2, NoFileType DEF DeleteForm, TypeInv, TypeOK
  <2>2. cleaner' = [cleaner EXCEPT !.todo = @ \ {t}, !.current = t,
                                   !.foundDir = cleaner.foundDir \/ exists]
    BY <1>2 DEF DeleteForm
  <2>3. exists \in BOOLEAN
    OBVIOUS
  <2> HIDE DEF exists
  <2>4. cleaner.foundDir \in BOOLEAN /\ (cleaner.foundDir \/ exists) \in BOOLEAN
    BY <1>0, <2>3 DEF Cleaners
  <2>5. \A b \in BOOLEAN :
          [cleaner EXCEPT !.todo = @ \ {t}, !.current = t, !.foundDir = b] \in Cleaners
    BY <1>0 DEF Cleaners
  <2>6. cleaner' \in Cleaners
    BY <2>2, <2>4, <2>5
  <2>7. QED
    BY <1>2, <2>1, <2>6, SameLoads DEF DeleteForm, TypeInv, TypeOK
<1>3. CASE RemoveTrack
  <2>1. [NoTrack EXCEPT !.status = "REMOVED"] \in Tracks
    BY NoTrackType DEF Tracks
  <2>2. track' \in [Loads -> Tracks]
    BY <1>3, <2>1 DEF RemoveTrack, TypeInv, TypeOK
  <2>3. cleaner' \in Cleaners
    BY <1>0, <1>3 DEF RemoveTrack, Cleaners
  <2>4. QED
    BY <1>3, <2>2, <2>3, SameLoads DEF RemoveTrack, TypeInv, TypeOK
<1>4. CASE Sweep
  <2>1. file' \in [Loads -> Files] /\ cleaned' \subseteq Loads
    BY <1>4, NoFileType DEF Sweep, TypeInv, TypeOK
  <2>2. QED
    BY <1>4, <2>1, IdleCleanerType, SameLoads DEF Sweep, TypeInv, TypeOK
<1>5. QED
  BY <1>1, <1>2, <1>3, <1>4 DEF Clean

LEMMA StepType ==
  ASSUME TypeInv, [Next]_vars
  PROVE  TypeInv' /\ Stays
<1>1. CASE UNCHANGED vars
  BY <1>1, SameLoads DEF vars, TypeInv, TypeOK
<1>2. ASSUME NEW s \in Sessions, Edit(s) PROVE TypeInv' /\ Stays
  BY <1>2, EditType
<1>3. CASE Tick \/ Crash \/ Clean
  BY <1>3, TickType, CrashType, CleanType
<1>4. ASSUME NEW l \in Loads, NEW s \in Sessions, FindTrack(l, s) PROVE TypeInv' /\ Stays
  BY <1>4, FindTrackType
<1>5. ASSUME NEW l \in Loads, Task(l) PROVE TypeInv' /\ Stays
  BY <1>5, BeginType, ClaimType, CachePendingType, CreateFormFileType, FillFormType,
     UploadFormType, MailLinkType, TaskFailsType, CleanUpType, FinishType DEF Task
<1>6. ASSUME NEW l \in Loads,
             \/ SaveTrack(l) \/ Poll(l) \/ PollFails(l)
             \/ Expire(l) \/ CreatePdf(l) \/ SendThankYou(l)
      PROVE  TypeInv' /\ Stays
  BY <1>6, SaveTrackType, PollType, PollFailsType, ExpireType, CreatePdfType, SendThankYouType
<1>7. QED
  BY <1>1, <1>2, <1>3, <1>4, <1>5, <1>6 DEF Next

\* Every variable keeps its type: in particular each load has a session and a
\* track from its first step on.
THEOREM TypeCorrect == Spec => []TypeOK
<1>1. Init => TypeInv
  BY InitType
<1>2. TypeInv /\ [Next]_vars => TypeInv'
  BY StepType
<1>3. TypeInv => TypeOK
  BY DEF TypeInv
<1>4. QED
  BY <1>1, <1>2, <1>3, PTL DEF Spec

-----------------------------------------------------------------------------
(* GENERATED means that some task has stored the form.  What is saved are    *)
(* copies, some of them old: they may say GENERATED only of such tracks too. *)

Wrote(t) == \E k \in written : load[k].track = t

GenInv ==
    /\ \A t \in Loads : track[t].status = "GENERATED" => Wrote(t)
    /\ \A l \in Loads : load[l].copy.status = "GENERATED" =>
                           load[l].pc # "idle" /\ Wrote(load[l].track)
    /\ \A k \in written : load[k].pc \in {"finish", "done", "crashed"}

LEMMA GenFrame ==
  ASSUME TypeInv, GenInv, TypeInv', Stays, written \subseteq written',
         \A t \in Loads : track'[t].status = "GENERATED" =>
            \/ track[t].status = "GENERATED"
            \/ \E l \in Loads : load[l].track = t /\ load[l].copy.status = "GENERATED",
         \A l \in Loads : load'[l].copy.status = "GENERATED" =>
            /\ load'[l].pc # "idle"
            /\ \/ l \in written'
               \/ load[l].copy.status = "GENERATED"
               \/ load'[l].track \in Loads /\ track[load'[l].track].status = "GENERATED",
         \A k \in written' : load'[k].pc \in {"finish", "done", "crashed"}
  PROVE  GenInv'
<1> DEFINE Wrote1(t) == \E k \in written' : load'[k].track = t
<1>1. ASSUME NEW t, Wrote(t) PROVE Wrote1(t)
  <2>1. PICK k \in written : load[k].track = t
    BY <1>1 DEF Wrote
  <2>2. k \in Loads /\ load[k].pc # "idle"
    BY DEF GenInv, TypeInv, TypeOK
  <2>3. k \in written' /\ load'[k].track = t
    BY <2>1, <2>2 DEF Stays
  <2>4. QED
    BY <2>3
<1>2. ASSUME NEW t \in Loads, track'[t].status = "GENERATED" PROVE Wrote1(t)
  BY <1>1, <1>2 DEF GenInv
<1>3. ASSUME NEW l \in Loads, load'[l].copy.status = "GENERATED"
      PROVE  load'[l].pc # "idle" /\ Wrote1(load'[l].track)
  <2>1. CASE l \in written'
    BY <1>3, <2>1
  <2>2. CASE load[l].copy.status = "GENERATED"
    <3>1. load[l].pc # "idle" /\ Wrote(load[l].track)
      BY <2>2 DEF GenInv
    <3>2. load'[l].track = load[l].track
      BY <3>1 DEF Stays
    <3>3. Wrote1(load[l].track)
      BY <3>1, <1>1
    <3>4. QED
      BY <1>3, <3>2, <3>3
  <2>3. CASE load'[l].track \in Loads /\ track[load'[l].track].status = "GENERATED"
    <3>1. Wrote(load'[l].track)
      BY <2>3 DEF GenInv
    <3>2. QED
      BY <1>3, <3>1, <1>1
  <2>4. QED
    BY <1>3, <2>1, <2>2, <2>3
<1>4. QED
  BY <1>2, <1>3 DEF GenInv, Wrote

\* A step of one load.
LEMMA GenOwn ==
  ASSUME TypeInv, GenInv, TypeInv', Stays, NEW l \in Loads,
         \A k \in Loads : k # l => load'[k] = load[k],
         load'[l].pc # "idle",
         load[l].pc \in {"finish", "done", "crashed"} => load'[l].pc \in {"finish", "done"},
         \/ written' = written
         \/ written' = written \cup {l} /\ load'[l].pc = "finish",
         load'[l].copy.status = "GENERATED" =>
            \/ l \in written'
            \/ load[l].copy.status = "GENERATED"
            \/ load'[l].track \in Loads /\ track[load'[l].track].status = "GENERATED",
         track' = track \/ WriteCopy(l, load[l].copy)
  PROVE  GenInv'
<1>1. ASSUME NEW t \in Loads, track'[t].status = "GENERATED"
      PROVE  \/ track[t].status = "GENERATED"
             \/ \E k \in Loads : load[k].track = t /\ load[k].copy.status = "GENERATED"
  BY <1>1, CopyType, WriteType DEF TypeInv
<1>2. written \subseteq written'
  OBVIOUS
<1>3. \A k \in written' : load'[k].pc \in {"finish", "done", "crashed"}
  BY DEF GenInv, TypeInv, TypeOK
<1>4. \A k \in Loads : load'[k].copy.status = "GENERATED" =>
            /\ load'[k].pc # "idle"
            /\ \/ k \in written'
               \/ load[k].copy.status = "GENERATED"
               \/ load'[k].track \in Loads /\ track[load'[k].track].status = "GENERATED"
  BY DEF GenInv
<1>5. QED
  BY <1>1, <1>2, <1>3, <1>4, GenFrame

\* A step that leaves the loads alone and makes no track GENERATED.
LEMMA GenSame ==
  ASSUME TypeInv, GenInv, TypeInv', Stays, load' = load, written' = written,
         \A t \in Loads : track'[t].status = "GENERATED" => track[t].status = "GENERATED"
  PROVE  GenInv'
BY DEF GenInv, Wrote

LEMMA GenTask ==
  ASSUME TypeInv, GenInv, TypeInv', Stays, NEW l \in Loads, Task(l)
  PROVE  GenInv'
<1>0. TypeOK
  BY DEF TypeInv
<1>1. CASE Begin(l)
  BY <1>1, BeginFields, GenOwn DEF Begin
<1>2. CASE Claim(l)
  BY <1>0, <1>2, ClaimFields, GenOwn DEF Claim
<1>3. CASE CachePending(l)
  BY <1>0, <1>3, PendingFields, GenOwn DEF CachePending
<1>4. CASE CreateFormFile(l)
  BY <1>0, <1>4, FileFields, GenOwn DEF CreateFormFile
<1>5. CASE FillForm(l)
  BY <1>0, <1>5, FillFields, GenOwn DEF FillForm
<1>6. CASE UploadForm(l)
  BY <1>0, <1>6, UploadFields, GenOwn DEF UploadForm
<1>7. CASE MailLink(l)
  BY <1>0, <1>7, MailFields, GenOwn DEF MailLink
<1>8. CASE TaskFails(l)
  BY <1>0, <1>8, FailFields, GenOwn DEF TaskFails
<1>9. CASE CleanUp(l)
  BY <1>0, <1>9, CleanUpFields, GenOwn DEF CleanUp
<1>10. CASE Finish(l)
  BY <1>0, <1>10, FinishFields, GenOwn DEF Finish
<1>11. QED
  BY <1>1, <1>2, <1>3, <1>4, <1>5, <1>6, <1>7, <1>8, <1>9, <1>10 DEF Task

LEMMA GenClean ==
  ASSUME TypeInv, GenInv, TypeInv', Stays, Clean
  PROVE  GenInv'
<1>1. CASE RemoveTrack
  <2>1. ASSUME NEW t \in Loads, track'[t].status = "GENERATED"
        PROVE  track[t].status = "GENERATED"
    <3>1. [NoTrack EXCEPT !.status = "REMOVED"].status = "REMOVED"
      BY DEF NoTrack
    <3>2. t # cleaner.current
      BY <1>1, <2>1, <3>1 DEF RemoveTrack, TypeInv, TypeOK
    <3>3. QED
      BY <1>1, <2>1, <3>2 DEF RemoveTrack, TypeInv, TypeOK
  <2>2. QED
    BY <1>1, <2>1, GenSame DEF RemoveTrack
<1>2. CASE track' = track /\ load' = load /\ written' = written
  BY <1>2, GenSame
<1>3. QED
  BY <1>1, <1>2 DEF Clean, FindOldTracks, DeleteForm, Sweep

LEMMA GenStep ==
  ASSUME TypeInv, GenInv, [Next]_vars
  PROVE  GenInv'
<1>0. TypeInv' /\ Stays /\ TypeOK
  BY StepType DEF TypeInv
<1>1. CASE UNCHANGED vars
  BY <1>0, <1>1, GenSame DEF vars
<1>2. ASSUME NEW s \in Sessions, Edit(s) PROVE GenInv'
  BY <1>0, <1>2, GenSame DEF Edit
<1>3. CASE Tick
  <2>1. \A t \in Loads : track'[t].status = track[t].status
    BY <1>3 DEF Tick, TypeInv, TypeOK, Tracks
  <2>2. written' = written
    BY <1>3 DEF Tick
  <2>3. \A l \in Loads : /\ load'[l].copy.status = load[l].copy.status
                         /\ load'[l].pc = load[l].pc
    BY <1>0, <1>3, TickLoads
  <2>4. QED
    BY <1>0, <2>1, <2>2, <2>3, GenFrame DEF GenInv, TypeOK
<1>4. CASE Crash
  <2>1. track' = track /\ written' = written
    BY <1>4 DEF Crash
  <2>2. \A l \in Loads :
           /\ load'[l].copy = load[l].copy \/ load'[l].copy.status # "GENERATED"
           /\ load'[l].pc = load[l].pc \/ load'[l].pc = "crashed"
           /\ load'[l].pc = "idle" <=> load[l].pc = "idle"
    BY <1>0, <1>4, CrashLoads
  <2>3. QED
    BY <1>0, <2>1, <2>2, GenFrame DEF GenInv, TypeOK
<1>5. CASE Clean
  BY <1>0, <1>5, GenClean
<1>6. ASSUME NEW l \in Loads, NEW s \in Sessions, FindTrack(l, s) PROVE GenInv'
  BY <1>0, <1>6, FindFields, GenOwn DEF FindTrack
<1>7. ASSUME NEW l \in Loads, SaveTrack(l) PROVE GenInv'
  BY <1>0, <1>7, SaveFields, GenOwn DEF SaveTrack
<1>8. ASSUME NEW l \in Loads, Task(l) PROVE GenInv'
  BY <1>0, <1>8, GenTask
<1>9. ASSUME NEW l \in Loads,
             Poll(l) \/ PollFails(l) \/ Expire(l) \/ CreatePdf(l) \/ SendThankYou(l)
      PROVE  GenInv'
  BY <1>0, <1>9, GenSame DEF Poll, PollFails, Expire, CreatePdf, SendThankYou
<1>10. QED
  BY <1>1, <1>2, <1>3, <1>4, <1>5, <1>6, <1>7, <1>8, <1>9 DEF Next

LEMMA GenInit == Init => GenInv
BY DEF Init, GenInv, NoTrack

\* A page shows the link only for a form some task has filled in and stored:
\* a row says GENERATED only then, although rows are overwritten with copies read
\* earlier by other page loads and tasks.
THEOREM GeneratedIsWritten == Spec => []GeneratedMeansWritten
<1>1. Init => TypeInv /\ GenInv
  BY InitType, GenInit
<1>2. TypeInv /\ GenInv /\ [Next]_vars => (TypeInv /\ GenInv)'
  BY StepType, GenStep
<1>3. TypeInv /\ GenInv => GeneratedMeansWritten
  BY DEF GenInv, Wrote, GeneratedMeansWritten
<1>4. QED
  BY <1>1, <1>2, <1>3, PTL DEF Spec

-----------------------------------------------------------------------------
(* A pending registration belongs to a form.                                 *)

Busy == {"file", "fill", "upload", "mail", "cleanup", "crashed"}

\* A step of one load that does not leave a saved registration behind.
LEMMA PendingOwn ==
  ASSUME PendingHasForm, NEW l \in Loads,
         \A k \in Loads : k # l => load'[k] = load[k] /\ pending'[k] = pending[k],
         written \subseteq written',
         \/ load'[l].pc \in Busy
         \/ l \in written'
         \/ pending'[l] # "SAVED"
         \/ pending'[l] = pending[l] /\ load[l].pc \notin Busy
  PROVE  PendingHasForm'
BY DEF PendingHasForm, Busy

LEMMA PendingTask ==
  ASSUME TypeInv, PendingHasForm, NEW l \in Loads, Task(l)
  PROVE  PendingHasForm'
<1>0. TypeOK
  BY DEF TypeInv
<1>1. CASE Begin(l)
  BY <1>1, BeginFields, PendingOwn DEF Begin, Busy
<1>2. CASE Claim(l)
  BY <1>0, <1>2, ClaimFields, PendingOwn DEF Claim, Busy
<1>3. CASE CachePending(l)
  <2>1. \A k \in Loads : k # l => pending'[k] = pending[k]
    BY <1>0, <1>3 DEF CachePending, TypeOK
  <2>2. QED
    BY <1>0, <1>3, <2>1, PendingFields, PendingOwn DEF CachePending, Busy
<1>4. CASE CreateFormFile(l)
  BY <1>0, <1>4, FileFields, PendingOwn DEF CreateFormFile, Busy
<1>5. CASE FillForm(l)
  <2>1. load'[l].pc \in Busy \/ l \in written'
    BY <1>0, <1>5, FillFields DEF Busy
  <2>2. written \subseteq written' /\ pending' = pending
    BY <1>0, <1>5, FillFields DEF FillForm
  <2>3. QED
    BY <1>0, <1>5, <2>1, <2>2, FillFields, PendingOwn
<1>6. CASE UploadForm(l)
  BY <1>0, <1>6, UploadFields, PendingOwn DEF UploadForm, Busy
<1>7. CASE MailLink(l)
  <2>1. load'[l].pc \in Busy \/ l \in written'
    BY <1>0, <1>7, MailFields DEF Busy
  <2>2. written \subseteq written' /\ pending' = pending
    BY <1>0, <1>7, MailFields DEF MailLink
  <2>3. QED
    BY <1>0, <1>7, <2>1, <2>2, MailFields, PendingOwn
<1>8. CASE TaskFails(l)
  BY <1>0, <1>8, FailFields, PendingOwn DEF TaskFails, Busy
<1>9. CASE CleanUp(l)
  <2>1. pending'[l] # "SAVED" /\ \A k \in Loads : k # l => pending'[k] = pending[k]
    BY <1>0, <1>9 DEF CleanUp, TypeOK
  <2>2. QED
    BY <1>0, <1>9, <2>1, CleanUpFields, PendingOwn DEF CleanUp
<1>10. CASE Finish(l)
  BY <1>0, <1>10, FinishFields, PendingOwn DEF Finish, Busy
<1>11. QED
  BY <1>1, <1>2, <1>3, <1>4, <1>5, <1>6, <1>7, <1>8, <1>9, <1>10 DEF Task

LEMMA PendingStep ==
  ASSUME TypeInv, PendingHasForm, [Next]_vars
  PROVE  PendingHasForm'
<1>0. TypeOK
  BY DEF TypeInv
<1>1. CASE pending' = pending /\ load' = load /\ written' = written
  BY <1>1 DEF PendingHasForm
<1>2. CASE Tick
  BY <1>0, <1>2, TickLoads DEF Tick, PendingHasForm
<1>3. CASE Crash
  BY <1>0, <1>3, CrashLoads DEF Crash, PendingHasForm
<1>4. ASSUME NEW l \in Loads, NEW s \in Sessions, FindTrack(l, s) PROVE PendingHasForm'
  BY <1>0, <1>4, FindFields, PendingOwn DEF FindTrack, Busy
<1>5. ASSUME NEW l \in Loads, SaveTrack(l) PROVE PendingHasForm'
  BY <1>0, <1>5, SaveFields, PendingOwn DEF SaveTrack, Busy
<1>6. ASSUME NEW l \in Loads, Task(l) PROVE PendingHasForm'
  BY <1>6, PendingTask
<1>7. CASE Clean
  BY <1>1, <1>7 DEF Clean, FindOldTracks, DeleteForm, RemoveTrack, Sweep
<1>8. ASSUME NEW l \in Loads,
             Poll(l) \/ PollFails(l) \/ Expire(l) \/ CreatePdf(l) \/ SendThankYou(l)
      PROVE  PendingHasForm'
  BY <1>1, <1>8 DEF Poll, PollFails, Expire, CreatePdf, SendThankYou
<1>9. ASSUME NEW s \in Sessions, Edit(s) PROVE PendingHasForm'
  BY <1>1, <1>9 DEF Edit
<1>10. QED
  BY <1>1, <1>2, <1>3, <1>4, <1>5, <1>6, <1>7, <1>8, <1>9 DEF Next, vars

\* Double loads, stale rows, failing tasks and removed tracks leave no pending
\* registration behind: one that is saved and not deleted again belongs to a task
\* that stored its form, is still at work, or was cut off by a crash.
THEOREM PendingBelongsToForm == Spec => []PendingHasForm
<1>1. Init => TypeInv /\ PendingHasForm
  BY InitType DEF Init, PendingHasForm
<1>2. TypeInv /\ PendingHasForm /\ [Next]_vars => (TypeInv /\ PendingHasForm)'
  BY StepType, PendingStep
<1>3. QED
  BY <1>1, <1>2, PTL DEF Spec

-----------------------------------------------------------------------------
(* The file of a track serves as a lock: createFormFile lets one task through *)
(* until the cleaning job deletes the file.                                   *)

Makes(l) == load[l].pc \in {"fill", "upload", "mail"} \/ l \in written

MakeInv ==
    /\ \A l \in Loads : Makes(l) =>
          /\ load[l].pc # "idle"
          /\ file[load[l].track].state # "absent" \/ load[l].track \in cleaned
    /\ \A k, l \in Loads :
          Makes(k) /\ Makes(l) /\ k # l /\ load[k].track = load[l].track =>
             load[l].track \in cleaned

\* A file that disappears has been cleaned up.
Kept == /\ cleaned \subseteq cleaned'
        /\ \A t \in Loads : file[t].state # "absent" =>
              file'[t].state # "absent" \/ t \in cleaned'

\* No task begins to make a form.
LEMMA MakeFrame ==
  ASSUME TypeInv, TypeInv', Stays, MakeInv, Kept,
         \A k \in Loads : Makes(k)' => Makes(k)
  PROVE  MakeInv'
<1>1. \A k \in Loads : Makes(k)' =>
         /\ load[k].pc # "idle" /\ load[k].track \in Loads /\ load'[k].track = load[k].track
         /\ load'[k].pc # "idle"
  BY DEF MakeInv, Stays, TypeInv, Linked
<1>2. \A k \in Loads : Makes(k)' =>
         /\ load'[k].pc # "idle"
         /\ file'[load'[k].track].state # "absent" \/ load'[k].track \in cleaned'
  BY <1>1 DEF MakeInv, Kept
<1>3. \A k, l \in Loads :
         Makes(k)' /\ Makes(l)' /\ k # l /\ load'[k].track = load'[l].track =>
            load'[l].track \in cleaned'
  BY <1>1 DEF MakeInv, Kept
<1>4. QED
  BY <1>2, <1>3 DEF MakeInv

\* A step of one load that does not begin to make a form.
LEMMA MakeOwn ==
  ASSUME TypeInv, TypeInv', Stays, MakeInv, Kept, NEW l \in Loads,
         \A k \in Loads : k # l => load'[k] = load[k],
         written' = written \/ (written' = written \cup {l} /\ Makes(l)),
         load'[l].pc \notin {"fill", "upload", "mail"} \/ Makes(l)
  PROVE  MakeInv'
<1>1. \A k \in Loads : Makes(k)' => Makes(k)
  BY DEF Makes
<1>2. QED
  BY <1>1, MakeFrame

\* The task that finds no file is the only one to make it.
LEMMA MakeFile ==
  ASSUME TypeInv, TypeInv', Stays, MakeInv, NEW l \in Loads, CreateFormFile(l)
  PROVE  MakeInv'
<1> DEFINE t == load[l].track
           empty == [state |-> "empty", age |-> 0, author |-> l, form |-> None]
<1>0. TypeOK /\ t \in Loads /\ load[l].pc = "file" /\ written' = written /\ cleaned' = cleaned
  BY FileFields DEF TypeInv, Linked, CreateFormFile
<1>1. CASE file' = file
  <2>1. file[t].state # "absent"
    BY <1>0, <1>1 DEF CreateFormFile, TypeOK, NoFile
  <2>2. GoTo(l, "cleanup")
    BY <2>1 DEF CreateFormFile
  <2>3. load'[l].pc = "cleanup"
    BY <1>0, <2>2, GoToFields DEF Pcs
  <2>4. QED
    BY <1>0, <1>1, <2>3, FileFields, MakeOwn DEF Kept
<1>2. CASE file[t].state = "absent" /\ file' = [file EXCEPT ![t] = empty]
  <2>1. empty.state = "empty"
    OBVIOUS
  <2> HIDE DEF empty
  <2>2. file'[t].state = "empty" /\ \A u \in Loads : u # t => file'[u] = file[u]
    BY <1>0, <1>2, <2>1 DEF TypeOK
  <2>3. Kept
    BY <1>0, <2>2 DEF Kept
  <2>4. \A k \in Loads : k # l => load'[k] = load[k]
    BY <1>0, FileFields
  <2>5. \A k \in Loads : k # l /\ Makes(k)' => Makes(k)
    BY <1>0, <2>4 DEF Makes
  <2>6. \A k \in Loads : Makes(k)' =>
          /\ load[k].pc # "idle" /\ load[k].track \in Loads /\ load'[k].track = load[k].track
          /\ load'[k].pc # "idle"
    BY <1>0, <2>5 DEF MakeInv, Stays, TypeInv, Linked
  <2>7. \A k \in Loads : Makes(k)' =>
          /\ load'[k].pc # "idle"
          /\ file'[load'[k].track].state # "absent" \/ load'[k].track \in cleaned'
    BY <2>2, <2>3, <2>5, <2>6 DEF MakeInv, Kept
  <2>8. \A k \in Loads : k # l /\ Makes(k)' /\ load[k].track = t => t \in cleaned
    BY <1>2, <2>5 DEF MakeInv
  <2>9. \A j, k \in Loads :
          Makes(j)' /\ Makes(k)' /\ j # k /\ load'[j].track = load'[k].track =>
             load'[k].track \in cleaned'
    BY <1>0, <2>5, <2>6, <2>8 DEF MakeInv
  <2>10. QED
    BY <2>7, <2>9 DEF MakeInv
<1>3. QED
  BY <1>1, <1>2 DEF CreateFormFile

LEMMA MakeTask ==
  ASSUME TypeInv, TypeInv', Stays, MakeInv, NEW l \in Loads, Task(l)
  PROVE  MakeInv'
<1>0. TypeOK
  BY DEF TypeInv
<1>1. ASSUME file' = file, cleaned' = cleaned PROVE Kept
  BY <1>1 DEF Kept
<1>2. CASE Begin(l)
  BY <1>1, <1>2, BeginFields, MakeOwn DEF Begin
<1>3. CASE Claim(l)
  BY <1>0, <1>1, <1>3, ClaimFields, MakeOwn DEF Claim
<1>4. CASE CachePending(l)
  BY <1>0, <1>1, <1>4, PendingFields, MakeOwn DEF CachePending
<1>5. CASE CreateFormFile(l)
  BY <1>5, MakeFile
<1>6. CASE FillForm(l)
  <2> DEFINE c == context[load[l].session]
             full == [state |-> "written", age |-> 0, author |-> None,
                      form |-> [answers |-> c.answers, pendingId |-> c.pendingId]]
  <2>1. full.state = "written"
    OBVIOUS
  <2>2. file' = [file EXCEPT ![load[l].track] = full] \/ file' = file
    BY <1>0, <1>6 DEF FillForm, TypeOK
  <2> HIDE DEF full
  <2>3. Kept
    BY <1>0, <1>6, <2>1, <2>2 DEF Kept, FillForm, TypeOK
  <2>4. Makes(l)
    BY <1>0, <1>6, FillFields DEF Makes
  <2>5. QED
    BY <1>0, <1>6, <2>3, <2>4, FillFields, MakeOwn
<1>7. CASE UploadForm(l)
  BY <1>0, <1>1, <1>7, UploadFields, MakeOwn DEF UploadForm, Makes
<1>8. CASE MailLink(l)
  <2>1. Makes(l) /\ Kept
    BY <1>0, <1>1, <1>8, MailFields DEF Makes, MailLink
  <2>2. QED
    BY <1>0, <1>8, <2>1, MailFields, MakeOwn
<1>9. CASE TaskFails(l)
  BY <1>0, <1>1, <1>9, FailFields, MakeOwn DEF TaskFails
<1>10. CASE CleanUp(l)
  BY <1>0, <1>1, <1>10, CleanUpFields, MakeOwn DEF CleanUp
<1>11. CASE Finish(l)
  BY <1>0, <1>1, <1>11, FinishFields, MakeOwn DEF Finish
<1>12. QED
  BY <1>2, <1>3, <1>4, <1>5, <1>6, <1>7, <1>8, <1>9, <1>10, <1>11 DEF Task

LEMMA MakeStep ==
  ASSUME TypeInv, MakeInv, [Next]_vars
  PROVE  MakeInv'
<1>0. TypeInv' /\ Stays /\ TypeOK
  BY StepType DEF TypeInv
<1>1. CASE load' = load /\ file' = file /\ written' = written /\ cleaned' = cleaned
  BY <1>1 DEF MakeInv, Makes
<1>2. CASE Tick
  <2>1. \A t \in Loads : file'[t].state = file[t].state
    BY <1>0, <1>2 DEF Tick, TypeOK, Files
  <2>2. Kept /\ \A k \in Loads : Makes(k)' => Makes(k)
    BY <1>0, <1>2, <2>1, TickLoads DEF Tick, Kept, Makes
  <2>3. QED
    BY <1>0, <2>2, MakeFrame
<1>3. CASE Crash
  <2>1. Kept /\ \A k \in Loads : Makes(k)' => Makes(k)
    BY <1>0, <1>3, CrashLoads DEF Crash, Kept, Makes
  <2>2. QED
    BY <1>0, <2>1, MakeFrame
<1>4. CASE Clean
  <2>1. CASE \E t \in Loads : DeleteForm(t)
    <3>1. Kept
      BY <1>0, <2>1 DEF DeleteForm, Kept, TypeOK
    <3>2. load' = load /\ written' = written
      BY <2>1 DEF DeleteForm
    <3>3. QED
      BY <1>0, <3>1, <3>2, MakeFrame DEF Makes
  <2>2. CASE Sweep
    <3>1. Kept /\ load' = load /\ written' = written
      BY <2>2 DEF Sweep, Kept
    <3>2. QED
      BY <1>0, <3>1, MakeFrame DEF Makes
  <2>3. CASE FindOldTracks \/ RemoveTrack
    BY <1>1, <2>3 DEF FindOldTracks, RemoveTrack
  <2>4. QED
    BY <1>4, <2>1, <2>2, <2>3 DEF Clean
<1>5. ASSUME NEW l \in Loads, NEW s \in Sessions, FindTrack(l, s) PROVE MakeInv'
  <2>1. Kept /\ written' = written
    BY <1>5 DEF FindTrack, Kept
  <2>2. QED
    BY <1>0, <1>5, <2>1, FindFields, MakeOwn
<1>6. ASSUME NEW l \in Loads, SaveTrack(l) PROVE MakeInv'
  <2>1. Kept /\ written' = written
    BY <1>6 DEF SaveTrack, Kept
  <2>2. QED
    BY <1>0, <1>6, <2>1, SaveFields, MakeOwn
<1>7. ASSUME NEW l \in Loads, Task(l) PROVE MakeInv'
  BY <1>0, <1>7, MakeTask
<1>8. ASSUME NEW l \in Loads,
             Poll(l) \/ PollFails(l) \/ Expire(l) \/ CreatePdf(l) \/ SendThankYou(l)
      PROVE  MakeInv'
  BY <1>1, <1>8 DEF Poll, PollFails, Expire, CreatePdf, SendThankYou
<1>9. ASSUME NEW s \in Sessions, Edit(s) PROVE MakeInv'
  BY <1>1, <1>9 DEF Edit
<1>10. QED
  BY <1>1, <1>2, <1>3, <1>4, <1>5, <1>6, <1>7, <1>8, <1>9 DEF Next, vars

\* However many loads and tasks share a track, at most one of them stores its form
\* and leaves a pending registration, as long as the cleaning job has not deleted
\* the form: the file in the sandbox is the lock.
THEOREM OneFormPerTrack == Spec => []OneRegistrationPerTrack
<1>1. Init => TypeInv /\ MakeInv
  BY InitType DEF Init, MakeInv, Makes
<1>2. TypeInv /\ MakeInv /\ [Next]_vars => (TypeInv /\ MakeInv)'
  BY StepType, MakeStep
<1>3. TypeInv /\ MakeInv => OneRegistrationPerTrack
  BY DEF TypeInv, TypeOK, MakeInv, Makes, OneRegistrationPerTrack
<1>4. QED
  BY <1>1, <1>2, <1>3, PTL DEF Spec

-----------------------------------------------------------------------------
(* A stored form is closed: no task has it open for writing.                 *)

Closed == \A t \in Loads : file[t].state = "written" => file[t].author = None

\* What a step may do to a file: it disappears, is created where there was none,
\* is written by a task that has it open, or keeps its form.
FileStep ==
    \A t \in Loads :
       \/ file'[t] = NoFile
       \/ file[t].state = "absent" /\ file'[t].state = "empty"
       \/ file[t].author # None /\ file'[t].author = None
       \/ /\ file'[t].state = file[t].state
          /\ file'[t].author = file[t].author
          /\ file'[t].form = file[t].form

LEMMA FileSteps ==
  ASSUME TypeInv, [Next]_vars
  PROVE  FileStep
<1>0. TypeOK /\ file \in [Loads -> Files]
  BY DEF TypeInv, TypeOK
<1>1. CASE file' = file
  BY <1>1 DEF FileStep
<1>2. CASE Tick
  BY <1>0, <1>2 DEF Tick, Files, FileStep
<1>3. ASSUME NEW l \in Loads, CreateFormFile(l) PROVE FileStep
  <2> DEFINE t == load[l].track
             empty == [state |-> "empty", age |-> 0, author |-> l, form |-> None]
  <2>1. CASE file[t].state = "absent" /\ file' = [file EXCEPT ![t] = empty]
    <3>1. empty.state = "empty"
      OBVIOUS
    <3> HIDE DEF empty
    <3>2. QED
      BY <1>0, <2>1, <3>1 DEF FileStep
  <2>2. QED
    BY <1>1, <1>3, <2>1 DEF CreateFormFile
<1>4. ASSUME NEW l \in Loads, FillForm(l) PROVE FileStep
  <2> DEFINE t == load[l].track
             c == context[load[l].session]
             full == [state |-> "written", age |-> 0, author |-> None,
                      form |-> [answers |-> c.answers, pendingId |-> c.pendingId]]
  <2>1. full.author = None
    OBVIOUS
  <2>2. \/ t \in Loads /\ file[t].author = l /\ file' = [file EXCEPT ![t] = full]
        \/ file' = file
    BY <1>0, <1>4 DEF FillForm
  <2> HIDE DEF full
  <2>3. QED
    BY <1>0, <1>1, <2>1, <2>2, NoneAssumption DEF FileStep
<1>5. ASSUME NEW t \in Loads, DeleteForm(t) PROVE FileStep
  BY <1>0, <1>5 DEF DeleteForm, FileStep
<1>6. CASE Sweep
  BY <1>0, <1>6 DEF Sweep, FileStep
<1>7. CASE FindOldTracks \/ RemoveTrack
  BY <1>1, <1>7 DEF FindOldTracks, RemoveTrack
<1>8. ASSUME NEW l \in Loads, Task(l) PROVE FileStep
  BY <1>1, <1>3, <1>4, <1>8 DEF Task, Begin, Claim, CachePending, UploadForm, MailLink,
     TaskFails, CleanUp, Finish
<1>9. CASE Crash \/ \E s \in Sessions : Edit(s)
  BY <1>1, <1>9 DEF Crash, Edit
<1>10. ASSUME NEW l \in Loads,
              \/ \E s \in Sessions : FindTrack(l, s)
              \/ SaveTrack(l) \/ Poll(l) \/ PollFails(l) \/ Expire(l) \/ CreatePdf(l) \/ SendThankYou(l)
       PROVE  FileStep
  BY <1>1, <1>10 DEF FindTrack, SaveTrack, Poll, PollFails, Expire, CreatePdf, SendThankYou
<1>11. QED
  BY <1>1, <1>2, <1>5, <1>6, <1>7, <1>8, <1>9, <1>10 DEF Next, vars, Clean

\* A form that has been stored is never overwritten by another task, whatever the
\* rows say: it stays as it is or is deleted.
THEOREM FormsAreKept == Spec => FormIsNeverReplaced
<1>1. NoFile.state = "absent" /\ NoFile.author = None
  BY DEF NoFile
<1>2. Init => TypeInv /\ Closed
  BY <1>1, InitType DEF Init, Closed
<1>3. TypeInv /\ Closed /\ [Next]_vars => (TypeInv /\ Closed)'
  BY <1>1, StepType, FileSteps DEF FileStep, Closed
<1>4. TypeInv /\ Closed /\ [Next]_vars =>
        [\A t \in Loads : file[t].state = "written" =>
            file'[t].form = file[t].form \/ file'[t].state = "absent"]_vars
  BY <1>1, FileSteps DEF FileStep, Closed
<1>5. QED
  BY <1>2, <1>3, <1>4, PTL DEF Spec, FormIsNeverReplaced

-----------------------------------------------------------------------------
(* The refinement of FormContract.  A task that fills in a form has the file *)
(* open, and the form of one that got further is there; only the cleaning    *)
(* job takes either away.                                                    *)

Keeps(l) == load[l].pc \in {"upload", "mail"} \/ l \in written
Gone(l) == load[l].track \in cleaned

StoreInv ==
    /\ \A t \in Loads : /\ file[t].state # "empty" => file[t].author = None
                        /\ file[t].state = "written" => file[t].form \in Forms
    /\ \A l \in Loads :
          /\ load[l].pc = "fill" => Gone(l) \/ file[load[l].track].author = l
          /\ Keeps(l) => /\ load[l].pc # "idle"
                         /\ Gone(l) \/ file[load[l].track].state = "written"
          /\ page[l].state # "none" => load[l].pc \notin {"idle", "found"}

FormInv == TypeInv /\ GenInv /\ StoreInv

\* Files stay, but for those that the cleaning job deletes.
FilesKept ==
    /\ cleaned \subseteq cleaned'
    /\ \A t \in Loads :
          \/ file'[t] = NoFile /\ t \in cleaned'
          \/ /\ file'[t].state = file[t].state
             /\ file'[t].author = file[t].author
             /\ file'[t].form = file[t].form

\* A step in which no task creates or writes a file.
NoWriting ==
    /\ FilesKept
    /\ \A l \in Loads :
          /\ load'[l].pc = "fill" => load[l].pc = "fill"
          /\ Keeps(l)' => Keeps(l)
          /\ load'[l].pc = "found" => load[l].pc \in {"idle", "found"}
          /\ \/ page'[l].state = "none"
             \/ page[l].state # "none"
             \/ load'[l].pc \notin {"idle", "found"}

LEMMA SameFiles == file' = file /\ cleaned' = cleaned => FilesKept
BY DEF FilesKept

\* A step of one load that leaves the files alone.
LEMMA NoWritingOwn ==
  ASSUME TypeOK, NEW l \in Loads, file' = file, cleaned' = cleaned,
         \A k \in Loads : k # l => load'[k] = load[k] /\ page'[k] = page[k],
         load'[l].pc \notin {"idle", "fill"},
         load'[l].pc = "found" => load[l].pc = "idle" /\ page' = page,
         load'[l].pc \in {"upload", "mail"} => Keeps(l),
         written' = written \/ (written' = written \cup {l} /\ Keeps(l))
  PROVE  NoWriting
BY SameFiles DEF NoWriting, Keeps

LEMMA NoWritingTask ==
  ASSUME TypeInv, NEW l \in Loads, Task(l), ~CreateFormFile(l), ~FillForm(l)
  PROVE  NoWriting
<1>0. TypeOK
  BY DEF TypeInv
<1>1. CASE Begin(l)
  BY <1>0, <1>1, BeginFields, NoWritingOwn DEF Begin
<1>2. CASE Claim(l)
  BY <1>0, <1>2, ClaimFields, NoWritingOwn DEF Claim
<1>3. CASE CachePending(l)
  BY <1>0, <1>3, PendingFields, NoWritingOwn DEF CachePending
<1>4. CASE UploadForm(l)
  BY <1>0, <1>4, UploadFields, NoWritingOwn DEF UploadForm, Keeps
<1>5. CASE MailLink(l)
  BY <1>0, <1>5, MailFields, NoWritingOwn DEF MailLink, Keeps
<1>6. CASE TaskFails(l)
  BY <1>0, <1>6, FailFields, NoWritingOwn DEF TaskFails
<1>7. CASE CleanUp(l)
  BY <1>0, <1>7, CleanUpFields, NoWritingOwn DEF CleanUp
<1>8. CASE Finish(l)
  BY <1>0, <1>8, FinishFields, NoWritingOwn DEF Finish
<1>9. QED
  BY <1>1, <1>2, <1>3, <1>4, <1>5, <1>6, <1>7, <1>8 DEF Task

\* What a step does to the pages that have a link, or may get one.
LEMMA PageFields ==
  ASSUME TypeOK, NEW l \in Loads, NEW p, page' = [page EXCEPT ![l] = p]
  PROVE  page'[l] = p /\ \A k \in Loads : k # l => page'[k] = page[k]
BY DEF TypeOK

LEMMA NoWritingRest ==
  ASSUME TypeInv, [Next]_vars, \A l \in Loads : ~Task(l)
  PROVE  NoWriting
<1>0. TypeOK
  BY DEF TypeInv
<1>1. CASE load' = load /\ page' = page /\ written' = written /\ FilesKept
  BY <1>1 DEF NoWriting, Keeps
<1>2. CASE Tick
  <2>1. FilesKept
    BY <1>0, <1>2 DEF Tick, TypeOK, Files, FilesKept
  <2>2. \A l \in Loads : page'[l].state = page[l].state
    BY <1>0, <1>2 DEF Tick, TypeOK, Pages
  <2>3. QED
    BY <1>0, <1>2, <2>1, <2>2, TickLoads DEF NoWriting, Keeps, Tick
<1>3. CASE Crash
  <2>1. FilesKept
    BY <1>3, SameFiles DEF Crash
  <2>2. \A l \in Loads : page'[l].state # "none" => page[l].state # "none"
    BY <1>0, <1>3, CrashPages
  <2>3. QED
    BY <1>0, <1>3, <2>1, <2>2, CrashLoads DEF NoWriting, Keeps, Crash
<1>4. CASE Clean
  <2>1. FilesKept
    <3>1. ASSUME NEW t \in Loads, DeleteForm(t) PROVE FilesKept
      BY <1>0, <3>1 DEF DeleteForm, FilesKept, TypeOK
    <3>2. CASE Sweep
      BY <3>2 DEF Sweep, FilesKept
    <3>3. CASE FindOldTracks \/ RemoveTrack
      BY <3>3, SameFiles DEF FindOldTracks, RemoveTrack
    <3>4. QED
      BY <1>4, <3>1, <3>2, <3>3 DEF Clean
  <2>2. load' = load /\ page' = page /\ written' = written
    BY <1>4 DEF Clean, FindOldTracks, DeleteForm, RemoveTrack, Sweep
  <2>3. QED
    BY <1>1, <2>1, <2>2
<1>5. ASSUME NEW l \in Loads, NEW s \in Sessions, FindTrack(l, s) PROVE NoWriting
  BY <1>0, <1>5, FindFields, NoWritingOwn DEF FindTrack
<1>6. ASSUME NEW l \in Loads, SaveTrack(l) PROVE NoWriting
  <2>1. \A k \in Loads : k # l => page'[k] = page[k]
    BY <1>0, <1>6 DEF SaveTrack, TypeOK
  <2>2. QED
    BY <1>0, <1>6, <2>1, SaveFields, NoWritingOwn DEF SaveTrack
<1>7. ASSUME NEW l \in Loads,
             Poll(l) \/ PollFails(l) \/ Expire(l) \/ CreatePdf(l) \/ SendThankYou(l)
      PROVE  NoWriting
  <2>1. load' = load /\ written' = written /\ FilesKept
    BY <1>7, SameFiles DEF Poll, PollFails, Expire, CreatePdf, SendThankYou
  <2>2. /\ \A k \in Loads : k # l => page'[k] = page[k]
        /\ page'[l].state # "none" => page[l].state # "none"
    BY <1>0, <1>7 DEF Poll, PollFails, Waiting, Expire, CreatePdf, SendThankYou, TypeOK, Pages
  <2>3. QED
    BY <2>1, <2>2 DEF NoWriting, Keeps
<1>8. CASE UNCHANGED vars \/ \E s \in Sessions : Edit(s)
  BY <1>1, <1>8, SameFiles DEF vars, Edit
<1>9. QED
  BY <1>2, <1>3, <1>4, <1>5, <1>6, <1>7, <1>8 DEF Next

LEMMA StoreKept ==
  ASSUME TypeInv, StoreInv, Stays, NoWriting
  PROVE  StoreInv'
<1>0. NoFile.state = "absent" /\ NoFile.author = None
  BY DEF NoFile
<1>1. \A t \in Loads : /\ file'[t].state # "empty" => file'[t].author = None
                       /\ file'[t].state = "written" => file'[t].form \in Forms
  BY <1>0 DEF NoWriting, FilesKept, StoreInv
<1>2. ASSUME NEW l \in Loads, load[l].pc # "idle"
      PROVE  /\ load[l].track \in Loads /\ load'[l].track = load[l].track
             /\ load'[l].pc # "idle" /\ (Gone(l) => Gone(l)')
  BY <1>2 DEF TypeInv, Linked, Stays, Gone, NoWriting, FilesKept
<1>3. ASSUME NEW l \in Loads, load'[l].pc = "fill"
      PROVE  Gone(l)' \/ file'[load'[l].track].author = l
  BY <1>2, <1>3 DEF NoWriting, FilesKept, StoreInv, Gone
<1>4. ASSUME NEW l \in Loads, Keeps(l)'
      PROVE  load'[l].pc # "idle" /\ (Gone(l)' \/ file'[load'[l].track].state = "written")
  BY <1>2, <1>4 DEF NoWriting, FilesKept, StoreInv, Gone
<1>5. ASSUME NEW l \in Loads, page'[l].state # "none"
      PROVE  load'[l].pc \notin {"idle", "found"}
  BY <1>2, <1>5 DEF NoWriting, StoreInv
<1>6. QED
  BY <1>1, <1>3, <1>4, <1>5 DEF StoreInv

\* A task that writes to a file, or creates it, is a task of that track; another
\* one of the track that is ahead of it has lost its file.
LEMMA StoreWrite ==
  ASSUME TypeInv, StoreInv, Stays, NEW l \in Loads, NEW f,
         load[l].pc \notin {"idle", "upload", "mail"}, load'[l].pc \notin {"idle", "found"},
         \A k \in Loads : k # l => load'[k] = load[k],
         UNCHANGED <<page, cleaned>>,
         written' = written \/ written' = written \cup {l},
         file' = [file EXCEPT ![load[l].track] = f],
         \/ file[load[l].track].state = "absent" /\ l \notin written
         \/ file[load[l].track].author = l /\ f.state = "written",
         f.state # "empty" => f.author = None,
         f.state = "written" => f.form \in Forms,
         load'[l].pc = "fill" => Gone(l) \/ f.author = l,
         Keeps(l)' => Gone(l) \/ f.state = "written"
  PROVE  StoreInv'
<1> DEFINE t == load[l].track
<1>0. TypeOK /\ t \in Loads /\ load'[l].track = t
  BY DEF TypeInv, Linked, Stays
<1>1. file'[t] = f /\ \A u \in Loads : u # t => file'[u] = file[u]
  BY <1>0 DEF TypeOK
<1>2. \A u \in Loads : /\ file'[u].state # "empty" => file'[u].author = None
                       /\ file'[u].state = "written" => file'[u].form \in Forms
  BY <1>1 DEF StoreInv
<1>3. /\ load'[l].pc = "fill" => Gone(l)' \/ file'[load'[l].track].author = l
      /\ Keeps(l)' => load'[l].pc # "idle" /\ (Gone(l)' \/ file'[load'[l].track].state = "written")
  BY <1>0, <1>1 DEF Gone
<1>4. ASSUME NEW k \in Loads, k # l
      PROVE  /\ load'[k].pc = "fill" => Gone(k)' \/ file'[load'[k].track].author = k
             /\ Keeps(k)' => /\ load'[k].pc # "idle"
                             /\ Gone(k)' \/ file'[load'[k].track].state = "written"
  <2>1. load'[k] = load[k] /\ (Keeps(k)' <=> Keeps(k)) /\ (Gone(k)' <=> Gone(k))
    BY <1>4 DEF Keeps, Gone
  <2>2. load[k].pc # "idle" => load[k].track \in Loads
    BY DEF TypeInv, Linked
  <2>3. CASE load[k].track = t
    <3>1. file[t].state = "absent" => file[t].author = None
      BY <1>0 DEF StoreInv
    <3>2. file[t].author # k
      BY <1>4, <3>1, NoneAssumption
    <3>3. load[k].pc = "fill" => Gone(k)
      BY <2>3, <3>2 DEF StoreInv
    <3>4. Keeps(k) => Gone(k) \/ f.state = "written"
      BY <2>3 DEF StoreInv
    <3>5. QED
      BY <1>1, <2>1, <2>3, <3>3, <3>4 DEF StoreInv
  <2>4. CASE load[k].track # t
    BY <1>1, <2>1, <2>2, <2>4 DEF StoreInv
  <2>5. QED
    BY <2>3, <2>4
<1>5. \A k \in Loads : page'[k].state # "none" => load'[k].pc \notin {"idle", "found"}
  BY DEF StoreInv
<1>6. QED
  BY <1>2, <1>3, <1>4, <1>5 DEF StoreInv

LEMMA FilledForm ==
  ASSUME TypeInv, NEW l \in Loads, FillForm(l)
  PROVE  \E form \in Forms :
            LET full == [state |-> "written", age |-> 0, author |-> None, form |-> form]
            IN  file' = [file EXCEPT ![load[l].track] =
                            IF file[load[l].track].author = l THEN full ELSE @]
<1> DEFINE c == context[load[l].session]
           form == [answers |-> c.answers, pendingId |-> c.pendingId]
<1>1. c \in Contexts
  BY FillFields DEF TypeInv, TypeOK, Linked
<1>2. form \in Forms
  BY <1>1 DEF Contexts, Forms
<1>3. file' = [file EXCEPT ![load[l].track] =
                 IF @.author = l
                 THEN [state |-> "written", age |-> 0, author |-> None, form |-> form]
                 ELSE @]
  BY DEF FillForm
<1> HIDE DEF form
<1>4. QED
  BY <1>2, <1>3

LEMMA StoreStep ==
  ASSUME FormInv, [Next]_vars
  PROVE  StoreInv'
<1>0. TypeInv /\ TypeOK /\ StoreInv /\ Stays /\ GenInv
  BY StepType DEF FormInv, TypeInv
<1>1. ASSUME NEW l \in Loads, CreateFormFile(l) PROVE StoreInv'
  <2> DEFINE t == load[l].track
             empty == [state |-> "empty", age |-> 0, author |-> l, form |-> None]
  <2>1. /\ load[l].pc = "file" /\ load'[l].pc \in {"fill", "cleanup"}
        /\ \A k \in Loads : k # l => load'[k] = load[k]
        /\ UNCHANGED <<page, cleaned, written>>
    BY <1>0, <1>1, FileFields DEF CreateFormFile
  <2>2. l \notin written
    BY <1>0, <2>1 DEF GenInv
  <2>3. CASE file[t].state = "absent" /\ file' = [file EXCEPT ![t] = empty]
    <3>1. empty.state = "empty" /\ empty.author = l
      OBVIOUS
    <3>2. ~Keeps(l)'
      BY <2>1, <2>2 DEF Keeps
    <3> HIDE DEF empty
    <3>3. QED
      BY <1>0, <2>1, <2>2, <2>3, <3>1, <3>2, StoreWrite
  <2>4. CASE GoTo(l, "cleanup") /\ file' = file
    <3>1. load'[l].pc = "cleanup"
      BY <1>0, <2>4, GoToFields DEF Pcs
    <3>2. NoWriting
      BY <1>0, <2>1, <2>4, <3>1, NoWritingOwn
    <3>3. QED
      BY <1>0, <3>2, StoreKept
  <2>5. QED
    BY <1>1, <2>3, <2>4 DEF CreateFormFile
<1>2. ASSUME NEW l \in Loads, FillForm(l) PROVE StoreInv'
  <2> DEFINE t == load[l].track
  <2>1. /\ load[l].pc = "fill" /\ load'[l].pc \in {"finish", "upload"}
        /\ written' = written \/ written' = written \cup {l}
        /\ \A k \in Loads : k # l => load'[k] = load[k]
        /\ UNCHANGED <<page, cleaned>>
    BY <1>0, <1>2, FillFields DEF FillForm
  <2>2. PICK form \in Forms : file' = [file EXCEPT ![t] =
          IF file[t].author = l
          THEN [state |-> "written", age |-> 0, author |-> None, form |-> form] ELSE @]
    BY <1>0, <1>2, FilledForm
  <2>3. PICK full : full = [state |-> "written", age |-> 0, author |-> None, form |-> form]
    OBVIOUS
  <2>4. full.state = "written" /\ full.author = None /\ full.form = form
    BY <2>3
  <2>5. t \in Loads
    BY <1>0, <2>1 DEF TypeInv, Linked
  <2>6. CASE file[t].author = l
    <3>1. file' = [file EXCEPT ![t] = full]
      BY <2>2, <2>3, <2>6
    <3>2. QED
      BY <1>0, <2>1, <2>4, <2>6, <3>1, StoreWrite
  <2>7. CASE file[t].author # l
    <3>1. file' = file
      BY <1>0, <2>2, <2>5, <2>7 DEF TypeOK
    <3>2. Gone(l)
      BY <2>1, <2>7 DEF StoreInv, FormInv
    <3>3. QED
      BY <1>0, <2>1, <3>1, <3>2 DEF StoreInv, Keeps, Gone, Stays
  <2>8. QED
    BY <2>6, <2>7
<1>3. CASE \A l \in Loads : ~CreateFormFile(l) /\ ~FillForm(l)
  <2>1. NoWriting
    BY <1>0, <1>3, NoWritingTask, NoWritingRest
  <2>2. QED
    BY <1>0, <2>1, StoreKept
<1>4. QED
  BY <1>1, <1>2, <1>3

LEMMA FormInit == Init => FormInv
<1> SUFFICES ASSUME Init PROVE FormInv
  OBVIOUS
<1>1. TypeInv /\ GenInv
  BY InitType, GenInit
<1>2. /\ \A t \in Loads : file[t].state = "absent" /\ file[t].author = None
      /\ \A l \in Loads : load[l].pc = "idle" /\ page[l].state = "none"
      /\ written = {}
  BY DEF Init, NoFile
<1>3. StoreInv
  BY <1>2 DEF StoreInv, Keeps
<1>4. QED
  BY <1>1, <1>3 DEF FormInv

LEMMA FormStep == FormInv /\ [Next]_vars => FormInv'
BY StepType, GenStep, StoreStep DEF FormInv

\* What users see of a step that stores no form, deletes none and shows no link.
LEMMA OfferedSame ==
  ASSUME FormInv, Stays,
         \A l \in Loads : (l \in Linking') <=> (l \in Linking)
  PROVE  Offered' = Offered
<1>1. Linking' = Linking
  BY DEF Linking
<1>2. \A l \in Linking : load'[l].track = load[l].track
  BY DEF Linking, FormInv, StoreInv, Stays
<1>3. QED
  BY <1>1, <1>2 DEF Offered

LEMMA StoredSame ==
  ASSUME \A t \in Loads : /\ file'[t].state = "written" <=> file[t].state = "written"
                          /\ file[t].state = "written" => file'[t].form = file[t].form
  PROVE  StoredForm' = StoredForm
BY DEF StoredForm

\* The steps of the cleaning job that delete files.
LEMMA SweepContract ==
  ASSUME FormInv, Stays, NEW old \in SUBSET Loads, UNCHANGED <<load, page>>,
         cleaned' = cleaned \cup old,
         file' = [t \in Loads |-> IF t \in old THEN NoFile ELSE file[t]]
  PROVE  Contract!Next
<1>1. StoredForm' = [t \in Loads |-> IF t \in old THEN None ELSE StoredForm[t]]
  BY DEF StoredForm, NoFile
<1>2. Offered' = Offered
  BY OfferedSame DEF Linking
<1>3. Contract!Sweep(old)
  BY <1>1, <1>2 DEF Contract!Sweep
<1>4. QED
  BY <1>3 DEF Contract!Next

LEMMA CleanContract ==
  ASSUME FormInv, Stays, Clean
  PROVE  [Contract!Next]_(Contract!vars)
<1>0. TypeOK /\ UNCHANGED <<load, page>>
  BY DEF FormInv, TypeInv, Clean, FindOldTracks, DeleteForm, RemoveTrack, Sweep
<1>1. ASSUME NEW t \in Loads, DeleteForm(t) PROVE [Contract!Next]_(Contract!vars)
  <2>1. PICK old \in SUBSET {t} : \A u \in {t} :
          u \in old <=> u \in cleaner.named /\ file[u].state # "absent"
    <3>1. {u \in {t} : u \in cleaner.named /\ file[u].state # "absent"} \in SUBSET {t}
      OBVIOUS
    <3>2. QED
      BY <3>1
  <2>2. cleaned' = cleaned \cup old
    BY <1>1, <2>1 DEF DeleteForm
  <2>3. file' = [u \in Loads |-> IF u \in old THEN NoFile ELSE file[u]]
    BY <1>0, <1>1, <2>1 DEF DeleteForm, TypeOK
  <2>4. QED
    BY <1>0, <2>2, <2>3, SweepContract
<1>2. CASE Sweep
  <2> DEFINE old == {t \in Loads : file[t].state # "absent" /\ file[t].age >= StoreTicks}
  <2>1. /\ cleaned' = cleaned \cup old
        /\ file' = [t \in Loads |-> IF t \in old THEN NoFile ELSE file[t]]
    BY <1>2 DEF Sweep
  <2>2. old \in SUBSET Loads
    OBVIOUS
  <2> HIDE DEF old
  <2>3. QED
    BY <1>0, <2>1, <2>2, SweepContract
<1>3. CASE FindOldTracks \/ RemoveTrack
  <2>1. UNCHANGED <<file, cleaned>>
    BY <1>3 DEF FindOldTracks, RemoveTrack
  <2>2. StoredForm' = StoredForm /\ Offered' = Offered
    BY <1>0, <2>1 DEF StoredForm, Offered, Linking
  <2>3. QED
    BY <2>1, <2>2 DEF Contract!vars
<1>4. QED
  BY <1>1, <1>2, <1>3 DEF Clean

\* A page shows the link.
LEMMA PollContract ==
  ASSUME FormInv, NEW l \in Loads, Poll(l)
  PROVE  [Contract!Next]_(Contract!vars)
<1> DEFINE t == load[l].track
<1>0. /\ TypeInv /\ TypeOK /\ GenInv /\ StoreInv /\ t \in Loads
      /\ UNCHANGED <<file, load, cleaned>>
  BY DEF FormInv, TypeInv, Linked, StoreInv, Poll, Waiting
<1>1. StoredForm' = StoredForm
  BY <1>0 DEF StoredForm
<1>2. \A k \in Loads : k # l => page'[k] = page[k]
  BY <1>0 DEF Poll, TypeOK
<1>3. page[l].state = "polling" /\ page[l] \in Pages
  BY <1>0 DEF Poll, Waiting, TypeOK
<1>4. CASE track[t].status = "GENERATED"
  <2>1. page'[l].state = "link"
    BY <1>0, <1>4 DEF Poll, TypeOK, Pages
  <2>2. Linking' = Linking \cup {l}
    BY <1>2, <2>1 DEF Linking
  <2>3. Offered' = Offered \cup {t}
    BY <1>0, <2>2 DEF Offered
  <2>4. StoredForm[t] # None \/ t \in cleaned
    <3>1. PICK k \in written : load[k].track = t
      BY <1>0, <1>4 DEF GenInv, Wrote
    <3>2. t \in cleaned \/ file[t].state = "written"
      BY <1>0, <3>1 DEF TypeOK, StoreInv, Keeps, Gone
    <3>3. file[t].state = "written" => StoredForm[t] = file[t].form /\ file[t].form # None
      BY <1>0, NoneAssumption DEF StoredForm, StoreInv
    <3>4. QED
      BY <3>2, <3>3
  <2>5. Contract!Offer(t)
    BY <1>0, <1>1, <2>3, <2>4 DEF Contract!Offer
  <2>6. QED
    BY <1>0, <2>5 DEF Contract!Next
<1>5. CASE track[t].status # "GENERATED"
  <2>1. page'[l].state \in {"error", "gone"}
    BY <1>0, <1>5 DEF Poll, TypeOK, Pages
  <2>2. \A k \in Loads : (k \in Linking') <=> (k \in Linking)
    BY <1>2, <1>3, <2>1 DEF Linking
  <2>3. Offered' = Offered
    BY <1>0, <2>2, SameLoads, OfferedSame
  <2>4. QED
    BY <1>0, <1>1, <2>3 DEF Contract!vars
<1>6. QED
  BY <1>4, <1>5

\* A form is stored.
LEMMA FillContract ==
  ASSUME FormInv, Stays, NEW l \in Loads, FillForm(l)
  PROVE  [Contract!Next]_(Contract!vars)
<1> DEFINE t == load[l].track
<1>0. TypeInv /\ TypeOK /\ StoreInv /\ UNCHANGED <<page, cleaned>>
  BY DEF FormInv, TypeInv, FillForm
<1>1. t \in Loads
  BY <1>0, FillFields DEF TypeInv, Linked
<1>2. Offered' = Offered
  BY <1>0, OfferedSame DEF Linking
<1>3. PICK form \in Forms : file' = [file EXCEPT ![t] =
        IF file[t].author = l
        THEN [state |-> "written", age |-> 0, author |-> None, form |-> form] ELSE @]
  BY <1>0, FilledForm
<1>4. PICK full : full = [state |-> "written", age |-> 0, author |-> None, form |-> form]
  OBVIOUS
<1>5. full.state = "written" /\ full.form = form
  BY <1>4
<1>6. CASE file[t].author = l
  <2>1. file' = [file EXCEPT ![t] = full]
    BY <1>3, <1>4, <1>6
  <2>2. file[t].state # "written"
    BY <1>0, <1>1, <1>6, NoneAssumption DEF StoreInv
  <2>3. StoredForm[t] = None
    BY <1>1, <2>2 DEF StoredForm
  <2>4. StoredForm' = [StoredForm EXCEPT ![t] = form]
    BY <1>0, <1>1, <1>5, <2>1 DEF StoredForm, TypeOK
  <2>5. Contract!Store(t, form)
    BY <1>0, <1>2, <2>3, <2>4 DEF Contract!Store
  <2>6. QED
    BY <1>1, <2>5 DEF Contract!Next
<1>7. CASE file[t].author # l
  <2>1. file' = file
    BY <1>0, <1>1, <1>3, <1>7 DEF TypeOK
  <2>2. StoredForm' = StoredForm
    BY <2>1 DEF StoredForm
  <2>3. QED
    BY <1>0, <1>2, <2>2 DEF Contract!vars
<1>8. QED
  BY <1>6, <1>7

\* The other steps of a task, a new load and time.
LEMMA QuietContract ==
  ASSUME FormInv, Stays, UNCHANGED cleaned,
         \A t \in Loads : /\ file'[t].state = "written" <=> file[t].state = "written"
                          /\ file[t].state = "written" => file'[t].form = file[t].form,
         \A l \in Loads : page'[l].state \in {"link", "expired"}
                             <=> page[l].state \in {"link", "expired"}
  PROVE  UNCHANGED Contract!vars
<1>1. Offered' = Offered
  BY OfferedSame DEF Linking
<1>2. QED
  BY <1>1, StoredSame DEF Contract!vars

LEMMA RestContract ==
  ASSUME FormInv, Stays, [Next]_vars, ~Clean, \A l \in Loads : ~Poll(l) /\ ~FillForm(l)
  PROVE  UNCHANGED Contract!vars
<1>0. TypeOK
  BY DEF FormInv, TypeInv
<1>1. CASE file' = file /\ page' = page /\ cleaned' = cleaned
  BY <1>1, QuietContract
<1>2. CASE Tick
  <2>1. \A t \in Loads : file'[t].state = file[t].state /\ file'[t].form = file[t].form
    BY <1>0, <1>2 DEF Tick, TypeOK, Files
  <2>2. \A l \in Loads : page'[l].state = page[l].state
    BY <1>0, <1>2 DEF Tick, TypeOK, Pages
  <2>3. QED
    BY <1>2, <2>1, <2>2, QuietContract DEF Tick
<1>3. CASE Crash
  <2>1. \A l \in Loads : page'[l].state \in {"link", "expired"}
                             <=> page[l].state \in {"link", "expired"}
    BY <1>0, <1>3, CrashPages
  <2>2. QED
    BY <1>3, <2>1, QuietContract DEF Crash
<1>4. ASSUME NEW l \in Loads,
             SaveTrack(l) \/ PollFails(l) \/ Expire(l) \/ CreatePdf(l) \/ SendThankYou(l)
      PROVE  UNCHANGED Contract!vars
  <2>1. UNCHANGED <<file, cleaned>> /\ page[l] \in Pages
    BY <1>0, <1>4 DEF SaveTrack, PollFails, Expire, CreatePdf, SendThankYou, TypeOK
  <2>2. \A k \in Loads : k # l => page'[k] = page[k]
    BY <1>0, <1>4 DEF SaveTrack, PollFails, Expire, CreatePdf, SendThankYou, TypeOK
  <2>3. page'[l].state \in {"link", "expired"} <=> page[l].state \in {"link", "expired"}
    <3>1. CASE SaveTrack(l)
      <4>1. page[l].state = "none"
        BY <3>1 DEF SaveTrack, FormInv, StoreInv
      <4>2. page'[l].state \in {"none", "polling"}
        BY <1>0, <2>1, <3>1, <4>1 DEF SaveTrack, TypeOK, Pages
      <4>3. QED
        BY <4>1, <4>2
    <3>2. CASE Expire(l)
      BY <1>0, <2>1, <3>2 DEF Expire, TypeOK, Pages
    <3>3. CASE CreatePdf(l) \/ SendThankYou(l)
      BY <1>0, <2>1, <3>3 DEF CreatePdf, SendThankYou, TypeOK, Pages
    <3>4. CASE PollFails(l)
      BY <1>0, <2>1, <3>4 DEF PollFails, Waiting, TypeOK, Pages
    <3>5. QED
      BY <1>4, <3>1, <3>2, <3>3, <3>4
  <2>4. QED
    BY <2>1, <2>2, <2>3, QuietContract
<1>5. ASSUME NEW l \in Loads, CreateFormFile(l) PROVE UNCHANGED Contract!vars
  <2> DEFINE empty == [state |-> "empty", age |-> 0, author |-> l, form |-> None]
  <2>1. empty.state = "empty"
    OBVIOUS
  <2>2. load[l].track \in Loads
    BY <1>0, <1>5, FileFields DEF FormInv, TypeInv, Linked
  <2>3. \/ file' = file
        \/ file[load[l].track].state = "absent" /\ file' = [file EXCEPT ![load[l].track] = empty]
    BY <1>5 DEF CreateFormFile
  <2> HIDE DEF empty
  <2>4. \A t \in Loads : /\ file'[t].state = "written" <=> file[t].state = "written"
                         /\ file[t].state = "written" => file'[t].form = file[t].form
    BY <1>0, <2>1, <2>2, <2>3 DEF TypeOK
  <2>5. QED
    BY <1>5, <2>4, QuietContract DEF CreateFormFile
<1>6. QED
  BY <1>1, <1>2, <1>3, <1>4, <1>5 DEF Next, Edit, FindTrack, Task, Begin, Claim, CachePending,
     UploadForm, MailLink, TaskFails, CleanUp, Finish, vars

\* Every behaviour of the forms is one of FormContract: whatever two tasks of a
\* track, old copies of rows, failures and crashes do, a form is stored once, is
\* never replaced, disappears only by the cleaning job's hand, and no page offers
\* one that was not stored.
THEOREM Implements == Spec => ImplementsContract
<1>1. Init => Contract!Init
  <2> SUFFICES ASSUME Init PROVE Contract!Init
    OBVIOUS
  <2>1. StoredForm = [t \in Loads |-> None]
    BY DEF Init, StoredForm, NoFile
  <2>2. Offered = {}
    BY DEF Init, Offered, Linking
  <2>3. cleaned = {}
    BY DEF Init
  <2>4. QED
    BY <2>1, <2>2, <2>3 DEF Contract!Init
<1>2. FormInv /\ [Next]_vars => [Contract!Next]_(Contract!vars)
  <2> SUFFICES ASSUME FormInv, [Next]_vars PROVE [Contract!Next]_(Contract!vars)
    OBVIOUS
  <2>1. Stays
    BY StepType DEF FormInv
  <2>2. CASE Clean
    BY <2>1, <2>2, CleanContract
  <2>3. ASSUME NEW l \in Loads, Poll(l) PROVE [Contract!Next]_(Contract!vars)
    BY <2>3, PollContract
  <2>4. ASSUME NEW l \in Loads, FillForm(l) PROVE [Contract!Next]_(Contract!vars)
    BY <2>1, <2>4, FillContract
  <2>5. CASE ~Clean /\ \A l \in Loads : ~Poll(l) /\ ~FillForm(l)
    BY <2>1, <2>5, RestContract
  <2>6. QED
    BY <2>2, <2>3, <2>4, <2>5
<1>3. QED
  BY <1>1, <1>2, FormInit, FormStep, PTL DEF Spec, ImplementsContract, Contract!Spec

=============================================================================
