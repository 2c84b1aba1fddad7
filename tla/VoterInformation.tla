-------------------------- MODULE VoterInformation --------------------------
(***************************************************************************)
(* The voter information page of the wizard, as seen by one anonymous      *)
(* voter: what the scripts of the page (bc-lib.js, load-regions.js) do to  *)
(* the voting address and to the list of voting regions, what the browser  *)
(* then sends, and what the controller GetVoterInformation makes of it.    *)
(*                                                                         *)
(* Pages of domestic flows load the regions of a state with loadRegions:   *)
(* every change of the state sends a request, every answer replaces the    *)
(* list, in whatever order answers come.  Pages of overseas flows use a    *)
(* Select2 box (getJsonRegions2) and have the current address too.         *)
(*                                                                         *)
(* Scripts, submissions and answers are atomic; the controller's user      *)
(* object lives in the session and keeps what was bound before.            *)
(***************************************************************************)
EXTENDS Integers, FiniteSets

CONSTANTS
    Flows,       \* the flows the voter may be in: "domestic", "overseas"
    States,      \* states with elections
    Regions,     \* voting regions
    Home,        \* the state of every region
    None,        \* a model value: no state chosen, option "0" of the region list
    Unset,       \* a model value: a list without a selected option, not sent
    Voters,      \* bound: the controls that a voter uses, for each voter considered
    MaxRequests, \* bound: requests of one page for the list
    MaxFaults    \* bound: failed requests and failed calls of the election API

ASSUME FlowsAssumption == Flows \subseteq {"domestic", "overseas"} /\ Flows # {}
ASSUME HomeAssumption == Home \in [Regions -> States]
ASSUME NoneAssumption ==
    None \notin States \cup Regions /\ Unset \notin Regions \cup {None}
ASSUME BoundsAssumption == MaxRequests \in Nat /\ MaxFaults \in Nat

Boxes == {"RURAL_ROUTE", "DESCRIBED"}
AddressType == {"STREET", "RURAL_ROUTE", "DESCRIBED"}
Fields == {"street1", "street2", "description"}
Choice == Regions \cup {None, Unset}

RegionsOf(s) == {r \in Regions : Home[r] = s}

Form == [
    ticked : SUBSET Boxes,  \* the two boxes,
    regular : AddressType, enabled : BOOLEAN,      \* the hidden regularAddress input,
    filled : SUBSET Fields, visible : SUBSET Fields,
    state : States \cup {None},
    offered : SUBSET Regions, chosen : Choice]     \* the list and what is selected

Request == [id : 1..MaxRequests, state : States \cup {None}, region : Choice]
UserState == [type : AddressType, filled : SUBSET Fields, state : States \cup {None},
              region : Regions \cup {None}]
ResultState == [region : Regions \cup {None}, name : Regions \cup {None},
                regionState : States \cup {None}]

VARIABLES
    flow,
    controls,    \* what the voter of this behaviour clicks, types in and selects
    \* browser
    stage,       \* "away" from the page, "ready" at DOM ready, "loaded" at window load
    form,
    open,        \* the Select2 list is open
    requests,    \* requests for a list that are not answered yet
    asked,       \* requests of this page so far
    shown,       \* the request whose answer the list shows, 0 before the first
    \* server
    user,        \* the session's user object, as far as the page binds it
    results,     \* the region, region name and region state of the WizardResults
    \* bookkeeping
    accepted,    \* whether a submission was accepted; for the last one
    sent,        \* the region it carried
    settled,     \* whether its list was the answer to the page's latest request
    faults

pageVars == <<stage, form, open, requests, asked, shown>>
serverVars == <<user, results, accepted, sent, settled>>
vars == <<flow, controls, pageVars, serverVars, faults>>

TypeOK ==
    /\ flow \in Flows
    /\ controls \in Voters
    /\ stage \in {"away", "ready", "loaded"}
    /\ form \in Form
    /\ open \in BOOLEAN
    /\ requests \in SUBSET Request
    /\ asked \in 0..MaxRequests
    /\ shown \in 0..MaxRequests
    /\ user \in UserState
    /\ results \in ResultState
    /\ accepted \in BOOLEAN
    /\ sent \in Choice
    /\ settled \in BOOLEAN
    /\ faults \in 0..MaxFaults

NoForm == [ticked |-> {}, regular |-> "STREET", enabled |-> TRUE, filled |-> {},
           visible |-> {}, state |-> None, offered |-> {}, chosen |-> None]
NewUser == [type |-> "STREET", filled |-> {}, state |-> None, region |-> None]

Init ==
    /\ flow \in Flows
    /\ controls \in Voters
    /\ stage = "away"
    /\ form = NoForm
    /\ open = FALSE /\ requests = {} /\ asked = 0 /\ shown = 0
    /\ user = NewUser
    /\ results = [region |-> None, name |-> None, regionState |-> None]
    /\ accepted = FALSE /\ sent = None /\ settled = FALSE
    /\ faults = 0

Fault == faults < MaxFaults /\ faults' = faults + 1

-----------------------------------------------------------------------------
(* The boxes "Use Rural Route" and "Use Address Description". *)

ShowAddressDescription_KeepsRegular(f, box) ==
    LET cleared == IF box = "DESCRIBED" THEN {"street1", "street2"} ELSE {"street2"}
    IN  IF box \in f.ticked
        THEN [f EXCEPT !.enabled = FALSE,
                       !.visible = Fields \ cleared,
                       !.filled = @ \ cleared]
        ELSE [f EXCEPT !.enabled = TRUE,
                       !.visible = IF box = "DESCRIBED" THEN {"street1", "street2"}
                                   ELSE (@ \ {"description"}) \cup {"street2"},
                       !.filled = @ \ {"description"}]
ShowAddressDescription_KeepsDescription(f, box) ==
    LET cleared == IF box = "DESCRIBED" THEN {"street1", "street2"} ELSE {"street2"}
    IN  IF box \in f.ticked
        THEN [f EXCEPT !.enabled = FALSE,
                       !.visible = Fields \ cleared,
                       !.filled = @ \ cleared]
        ELSE [f EXCEPT !.enabled = TRUE,
                       !.regular = "STREET",
                       !.visible = IF box = "DESCRIBED" THEN {"street1", "street2"}
                                   ELSE (@ \ {"description"}) \cup {"street2"}]

\* showAddressDescription(box): what a box, as it is now, does to the fields.
ShowAddressDescription(f, box) ==
    LET cleared == IF box = "DESCRIBED" THEN {"street1", "street2"} ELSE {"street2"}
    IN  IF box \in f.ticked
        THEN [f EXCEPT !.enabled = FALSE,
                       !.visible = Fields \ cleared,
                       !.filled = @ \ cleared]
        ELSE [f EXCEPT !.enabled = TRUE,
                       !.regular = "STREET",
                       !.visible = IF box = "DESCRIBED" THEN {"street1", "street2"}
                                   ELSE (@ \ {"description"}) \cup {"street2"},
                       !.filled = @ \ {"description"}]

\* A click on a box unticks the other one, notes the type in the hidden input
\* and shows the fields.
Click(box) ==
    /\ stage # "away"
    /\ form' = ShowAddressDescription(
                   [form EXCEPT !.ticked = IF box \in @ THEN {} ELSE {box},
                                !.regular = box], box)
    /\ open' = FALSE
    /\ UNCHANGED <<flow, controls, stage, requests, asked, shown, serverVars, faults>>

\* The voter fills in or empties a field that can be seen.
TypeIn(f) ==
    /\ stage # "away"
    /\ f \in form.visible
    /\ form' = [form EXCEPT !.filled = IF f \in @ THEN @ \ {f} ELSE @ \cup {f}]
    /\ open' = FALSE
    /\ UNCHANGED <<flow, controls, stage, requests, asked, shown, serverVars, faults>>

-----------------------------------------------------------------------------
(* The list of voting regions. *)

LoadRegions_SwapsParameters(f) ==
    /\ asked < MaxRequests
    /\ asked' = asked + 1
    /\ requests' = requests \cup {[id |-> asked + 1, state |-> f.chosen, region |-> f.state]}

\* loadRegions: one more request, with the state and the region of now.
LoadRegions(f) ==
    /\ asked < MaxRequests
    /\ asked' = asked + 1
    /\ requests' = requests \cup {[id |-> asked + 1, state |-> f.state, region |-> f.chosen]}

\* window.load on a domestic page.
WindowLoad ==
    /\ stage = "ready" /\ flow = "domestic"
    /\ stage' = "loaded"
    /\ LoadRegions(form)
    /\ UNCHANGED <<flow, controls, form, open, shown, serverVars, faults>>

\* The voter selects another state, and the old list stays until an answer comes:
\* a domestic page asks for the new one ...
DomesticChange(s) ==
    /\ flow = "domestic"
    /\ form' = [form EXCEPT !.state = s]
    /\ LoadRegions(form')

\* ... and an overseas page clears the selection.
OverseasChange(s) ==
    /\ flow = "overseas"
    /\ form' = [form EXCEPT !.state = s, !.chosen = Unset]
    /\ UNCHANGED <<asked, requests>>

ChangeState(s) ==
    /\ stage # "away"
    /\ s # form.state
    /\ open' = FALSE
    /\ DomesticChange(s) \/ OverseasChange(s)
    /\ UNCHANGED <<flow, controls, stage, shown, serverVars, faults>>

\* Opening a Select2 box asks for the regions of the state, and gives up on the
\* question before.
OpenRegions ==
    /\ stage # "away" /\ flow = "overseas"
    /\ ~open
    /\ asked < MaxRequests
    /\ open' = TRUE
    /\ asked' = asked + 1
    /\ requests' = {[id |-> asked + 1, state |-> form.state, region |-> form.chosen]}
    /\ UNCHANGED <<flow, controls, stage, form, shown, serverVars, faults>>

Replace_KeepsRegion(q, offered) ==
    /\ form' = [form EXCEPT !.offered = offered,
                            !.chosen = IF flow = "overseas" THEN @ ELSE q.region]
    /\ shown' = q.id
    /\ requests' = requests \ {q}

\* The list is replaced.  A domestic page selects the region the request
\* carried if it is among the new ones; Select2 leaves the selection alone.
Replace(q, offered) ==
    /\ form' = [form EXCEPT !.offered = offered,
                            !.chosen = IF flow = "overseas" THEN @
                                       ELSE IF q.region \in offered THEN q.region ELSE None]
    /\ shown' = q.id
    /\ requests' = requests \ {q}

Answer(q) ==
    /\ q \in requests
    /\ Replace(q, RegionsOf(q.state))
    /\ UNCHANGED <<flow, controls, stage, open, asked, serverVars, faults>>

\* The election API fails: the server answers with the regions it has so far.
IncompleteAnswer(q) ==
    /\ q \in requests
    /\ \E some \in SUBSET RegionsOf(q.state) : Replace(q, some)
    /\ Fault
    /\ UNCHANGED <<flow, controls, stage, open, asked, serverVars>>

\* The request itself fails, which is only logged.
RequestFails(q) ==
    /\ q \in requests
    /\ requests' = requests \ {q}
    /\ Fault
    /\ UNCHANGED <<flow, controls, stage, form, open, asked, shown, serverVars>>

\* A domestic list always has its option "0"; a Select2 box can be cleared.
PickRegion(r) ==
    /\ stage # "away"
    /\ \/ flow = "domestic" /\ r \in form.offered \cup {None}
       \/ flow = "overseas" /\ open /\ r \in form.offered
       \/ flow = "overseas" /\ r = Unset
    /\ form' = [form EXCEPT !.chosen = r]
    /\ open' = FALSE
    /\ UNCHANGED <<flow, controls, stage, requests, asked, shown, serverVars, faults>>

-----------------------------------------------------------------------------
(* GetVoterInformation. *)

\* The HTML of the page, from the session's user and the region found for it,
\* as DOM ready leaves it.  Only pages with a current address show the fields
\* of a box that is ticked already.
Rendered(u, region) ==
    LET boxes == {u.type} \ {"STREET"}
        f == [ticked |-> boxes, regular |-> "STREET", enabled |-> u.type = "STREET",
              filled |-> u.filled, visible |-> {"street1", "street2"}, state |-> u.state,
              offered |-> {region} \ {None}, chosen |-> region]
    IN  IF flow = "overseas" /\ boxes # {} THEN ShowAddressDescription(f, u.type) ELSE f

\* The page is sent to the browser; what the old page was doing is forgotten.
\* The region is that of the results, else that of the user, unless the API
\* cannot be asked.
ShowPage(u, res, failing) ==
    LET id == IF res.region # None THEN res.region ELSE u.region
    IN  /\ form' = Rendered(u, IF failing THEN None ELSE id)
        /\ stage' = "ready"
        /\ open' = FALSE /\ requests' = {} /\ asked' = 0 /\ shown' = 0

\* GET, perhaps with a state in the query.
HandleGetVoterInformation(s, failing) ==
    /\ user' = [user EXCEPT !.state = IF s = None THEN @ ELSE s]
    /\ ShowPage(user', results, failing)
    /\ IF failing THEN Fault ELSE UNCHANGED faults
    /\ UNCHANGED <<flow, controls, results, accepted, sent, settled>>

\* What the browser sends as the type of the address.
TypesSent(f) == f.ticked \cup (IF f.enabled THEN {f.regular} ELSE {})

\* The data binder: a field that is not sent keeps its value, and so does the
\* type if two are sent, which is an error.
Bound(u, f) ==
    [type |-> IF \E t \in AddressType : TypesSent(f) = {t}
              THEN CHOOSE t \in AddressType : TypesSent(f) = {t} ELSE u.type,
     filled |-> f.filled, state |-> f.state,
     region |-> IF f.chosen = Unset THEN u.region ELSE f.chosen]

\* OverseasUserValidator, as far as the voting address and region go.
Valid(u) ==
    /\ u.type # "DESCRIBED" => "street1" \in u.filled
    /\ u.type # "STREET" => "description" \in u.filled
    /\ u.state # None
    /\ u.region # None

\* The list on a domestic page is the answer to its latest request.
Settled == stage = "loaded" /\ shown = asked

Accept_KeepsName(failing) ==
    LET bound == Bound(user, form)
    IN  /\ stage # "away"
        /\ \E t \in AddressType : TypesSent(form) \subseteq {t}
        /\ Valid(bound)
        /\ user' = bound
        /\ results' = [region |-> bound.region,
                       name |-> IF failing \/ results.name # None THEN results.name ELSE bound.region,
                       regionState |-> bound.state]
        /\ accepted' = TRUE /\ sent' = form.chosen /\ settled' = Settled
        /\ IF failing THEN Fault ELSE UNCHANGED faults
        /\ stage' = "away" /\ form' = NoForm
        /\ open' = FALSE /\ requests' = {} /\ asked' = 0 /\ shown' = 0
        /\ UNCHANGED <<flow, controls>>

\* An accepted submission: the name of the region is taken from the API if it
\* answers, and the voter goes on to another page.
Accept(failing) ==
    LET bound == Bound(user, form)
    IN  /\ stage # "away"
        /\ \E t \in AddressType : TypesSent(form) \subseteq {t}
        /\ Valid(bound)
        /\ user' = bound
        /\ results' = [region |-> bound.region,
                       name |-> IF failing THEN results.name ELSE bound.region,
                       regionState |-> bound.state]
        /\ accepted' = TRUE /\ sent' = form.chosen /\ settled' = Settled
        /\ IF failing THEN Fault ELSE UNCHANGED faults
        /\ stage' = "away" /\ form' = NoForm
        /\ open' = FALSE /\ requests' = {} /\ asked' = 0 /\ shown' = 0
        /\ UNCHANGED <<flow, controls>>

\* A rejected one, for these or for other fields: the page is shown again.
Reject(failing) ==
    /\ stage # "away"
    /\ user' = Bound(user, form)
    /\ ShowPage(user', results, failing)
    /\ IF failing THEN Fault ELSE UNCHANGED faults
    /\ UNCHANGED <<flow, controls, results, accepted, sent, settled>>

-----------------------------------------------------------------------------
Voter ==
    \/ \E box \in Boxes \cap controls : Click(box)
    \/ \E f \in Fields \cap controls : TypeIn(f)
    \/ \E s \in (States \cap controls) \cup {None} : ChangeState(s)
    \/ OpenRegions
    \/ \E r \in (Regions \cap controls) \cup {None, Unset} : PickRegion(r)

Network == \E q \in requests : Answer(q) \/ IncompleteAnswer(q) \/ RequestFails(q)

Server == \E failing \in BOOLEAN :
    \/ \E s \in (States \cap controls) \cup {None} : HandleGetVoterInformation(s, failing)
    \/ Accept(failing)
    \/ Reject(failing)

Next == Voter \/ WindowLoad \/ Network \/ Server

Spec == Init /\ [][Next]_vars
-----------------------------------------------------------------------------
(* Properties. *)

\* The browser always sends exactly one type of address, the one the boxes
\* show, whatever was clicked, sent and shown again before: two would be no
\* type at all for the server, and none would leave the old one.
OneTypeIsSent ==
    stage # "away" =>
        TypesSent(form) = IF form.ticked = {} THEN {"STREET"} ELSE form.ticked

Parts(type) ==
    CASE type = "STREET" -> {"street1", "street2"}
      [] type = "RURAL_ROUTE" -> {"street1", "description"}
      [] type = "DESCRIBED" -> {"description"}

\* In an overseas flow the address of the voter has only parts that belong to
\* its type and that the voter could see when it was sent.
PartsFitType == flow = "overseas" => user.filled \subseteq Parts(user.type)

\* In a domestic flow, a region outside the state that was saved with it was
\* sent while the list was not the answer to the latest request: before it
\* came, after it failed, or after an older answer came later.
MismatchNeedsRace ==
    flow = "domestic" /\ accepted /\ Home[results.region] # results.regionState => ~settled

\* The saved name is that of the saved region unless the API failed.
NameNeedsFault == results.name # results.region => faults > 0

\* The validator's "Missing Voting Jurisdiction": a submission without a region
\* is not accepted.
MissingRegionIsRejected == accepted => sent \in Regions

=============================================================================
