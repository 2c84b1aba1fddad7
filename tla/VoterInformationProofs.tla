----------------------- MODULE VoterInformationProofs -----------------------
(* Theorems about VoterInformation, for every value of its constants.        *)
EXTENDS VoterInformation, TLAPS

-----------------------------------------------------------------------------
(* Types. *)

LEMMA ShowType ==
  ASSUME NEW f \in Form, NEW box \in Boxes
  PROVE  ShowAddressDescription(f, box) \in Form
<1> DEFINE cleared == IF box = "DESCRIBED" THEN {"street1", "street2"} ELSE {"street2"}
           seen == IF box = "DESCRIBED" THEN {"street1", "street2"}
                   ELSE (f.visible \ {"description"}) \cup {"street2"}
<1>1. f.filled \subseteq Fields /\ f.visible \subseteq Fields
  BY DEF Form
<1>2. /\ Fields \ cleared \subseteq Fields /\ f.filled \ cleared \subseteq Fields
      /\ f.filled \ {"description"} \subseteq Fields
  BY <1>1
<1>3. seen \subseteq Fields
  BY <1>1 DEF Fields
<1>4. CASE box \in f.ticked
  <2>1. [f EXCEPT !.enabled = FALSE, !.visible = Fields \ cleared, !.filled = @ \ cleared]
           \in Form
    BY <1>2 DEF Form
  <2>2. QED
    BY <1>4, <2>1 DEF ShowAddressDescription
<1>5. CASE box \notin f.ticked
  <2>1. [f EXCEPT !.enabled = TRUE, !.regular = "STREET", !.visible = seen,
                  !.filled = @ \ {"description"}] \in Form
    BY <1>2, <1>3 DEF Form, AddressType
  <2>2. QED
    BY <1>5, <2>1 DEF ShowAddressDescription
<1>6. QED
  BY <1>4, <1>5

LEMMA RenderedType ==
  ASSUME NEW u \in UserState, NEW region \in Regions \cup {None}
  PROVE  Rendered(u, region) \in Form
<1> DEFINE boxes == {u.type} \ {"STREET"}
           f == [ticked |-> boxes, regular |-> "STREET", enabled |-> u.type = "STREET",
                 filled |-> u.filled, visible |-> {"street1", "street2"}, state |-> u.state,
                 offered |-> {region} \ {None}, chosen |-> region]
<1>1. u.type \in AddressType /\ u.filled \subseteq Fields /\ u.state \in States \cup {None}
  BY DEF UserState
<1>2. boxes \in SUBSET Boxes
  BY <1>1 DEF AddressType, Boxes
<1>3. {region} \ {None} \in SUBSET Regions /\ region \in Choice
  BY DEF Choice
<1>4. {"street1", "street2"} \in SUBSET Fields /\ "STREET" \in AddressType
      /\ (u.type = "STREET") \in BOOLEAN
  BY DEF Fields, AddressType
<1>5. f \in Form
  BY <1>1, <1>2, <1>3, <1>4 DEF Form
<1>6. boxes # {} => u.type \in Boxes
  BY <1>2
<1> HIDE DEF f
<1>7. boxes # {} => ShowAddressDescription(f, u.type) \in Form
  BY <1>5, <1>6, ShowType
<1>8. QED
  BY <1>5, <1>7 DEF Rendered, f

LEMMA BoundType ==
  ASSUME NEW u \in UserState, NEW f \in Form
  PROVE  Bound(u, f) \in UserState
<1> DEFINE one == \E t \in AddressType : TypesSent(f) = {t}
           type == IF one THEN CHOOSE t \in AddressType : TypesSent(f) = {t} ELSE u.type
           region == IF f.chosen = Unset THEN u.region ELSE f.chosen
<1>1. type \in AddressType
  BY DEF UserState
<1>2. region \in Regions \cup {None}
  BY DEF UserState, Form, Choice
<1>3. f.filled \in SUBSET Fields /\ f.state \in States \cup {None}
  BY DEF Form
<1> HIDE DEF type, region
<1>4. [type |-> type, filled |-> f.filled, state |-> f.state, region |-> region] \in UserState
  BY <1>1, <1>2, <1>3 DEF UserState
<1>5. QED
  BY <1>4 DEF Bound, type, region

LEMMA NoFormType == NoForm \in Form
BY DEF NoForm, Form, AddressType, Choice

LEMMA FreshType ==
  /\ {} \in SUBSET Request /\ 0 \in 0..MaxRequests /\ 0 \in 0..MaxFaults
  /\ "away" \in {"away", "ready", "loaded"} /\ "ready" \in {"away", "ready", "loaded"}
BY BoundsAssumption

LEMMA ShowPageType ==
  ASSUME TypeOK, NEW u \in UserState, NEW failing \in BOOLEAN, ShowPage(u, results, failing)
  PROVE  /\ form' \in Form /\ stage' \in {"away", "ready", "loaded"} /\ open' \in BOOLEAN
         /\ requests' \in SUBSET Request /\ asked' \in 0..MaxRequests /\ shown' \in 0..MaxRequests
<1> DEFINE id == IF results.region # None THEN results.region ELSE u.region
           region == IF failing THEN None ELSE id
<1>1. id \in Regions \cup {None}
  BY DEF TypeOK, ResultState, UserState
<1>2. region \in Regions \cup {None}
  BY <1>1
<1>3. form' = Rendered(u, region)
  BY DEF ShowPage
<1> HIDE DEF region
<1>4. form' \in Form
  BY <1>2, <1>3, RenderedType
<1>5. requests' = {} /\ asked' = 0 /\ shown' = 0 /\ stage' = "ready" /\ open' = FALSE
  BY DEF ShowPage
<1>6. QED
  BY <1>4, <1>5, FreshType

LEMMA FaultType ==
  ASSUME TypeOK, NEW failing \in BOOLEAN, IF failing THEN Fault ELSE UNCHANGED faults
  PROVE  faults' \in 0..MaxFaults /\ (failing => faults' > 0)
BY BoundsAssumption DEF TypeOK, Fault

LEMMA LoadType ==
  ASSUME TypeOK, NEW f \in Form, LoadRegions(f)
  PROVE  requests' \in SUBSET Request /\ asked' \in 0..MaxRequests
<1>1. asked + 1 \in 1..MaxRequests
  BY BoundsAssumption DEF TypeOK, LoadRegions
<1>2. f.state \in States \cup {None} /\ f.chosen \in Choice
  BY DEF Form
<1>3. [id |-> asked + 1, state |-> f.state, region |-> f.chosen] \in Request
  BY <1>1, <1>2 DEF Request
<1>4. QED
  BY <1>1, <1>3 DEF LoadRegions, TypeOK

LEMMA ReplaceType ==
  ASSUME TypeOK, NEW q \in requests, NEW offered \in SUBSET Regions, Replace(q, offered)
  PROVE  form' \in Form /\ shown' \in 0..MaxRequests /\ requests' \in SUBSET Request
<1> DEFINE chosen == IF flow = "overseas" THEN form.chosen
                     ELSE IF q.region \in offered THEN q.region ELSE None
<1>1. q \in Request
  BY DEF TypeOK
<1>2. chosen \in Choice
  BY DEF TypeOK, Form, Choice
<1>3. [form EXCEPT !.offered = offered, !.chosen = chosen] \in Form
  BY <1>2 DEF TypeOK, Form
<1>4. form' \in Form
  BY <1>3 DEF Replace
<1>5. q.id \in 0..MaxRequests
  BY <1>1, BoundsAssumption DEF Request
<1>6. QED
  BY <1>4, <1>5 DEF Replace, TypeOK

LEMMA InitType == Init => TypeOK
<1> SUFFICES ASSUME Init PROVE TypeOK
  OBVIOUS
<1>1. user \in UserState /\ results \in ResultState
  BY DEF Init, NewUser, UserState, ResultState, AddressType
<1>2. form \in Form /\ sent \in Choice
  BY NoFormType DEF Init, Choice
<1>3. QED
  BY <1>1, <1>2, FreshType DEF Init, TypeOK

LEMMA TypeStep == TypeOK /\ [Next]_vars => TypeOK'
<1> SUFFICES ASSUME TypeOK, [Next]_vars PROVE TypeOK'
  OBVIOUS
<1>1. ASSUME NEW box \in Boxes, Click(box) PROVE TypeOK'
  <2> DEFINE f == [form EXCEPT !.ticked = IF box \in @ THEN {} ELSE {box}, !.regular = box]
  <2>1. f \in Form
    BY DEF TypeOK, Form, Boxes, AddressType
  <2>2. form' = ShowAddressDescription(f, box)
    BY <1>1 DEF Click
  <2> HIDE DEF f
  <2>3. form' \in Form
    BY <2>1, <2>2, ShowType
  <2>4. QED
    BY <1>1, <2>3 DEF Click, TypeOK, serverVars
<1>2. ASSUME NEW f \in Fields, TypeIn(f) PROVE TypeOK'
  <2>1. (IF f \in form.filled THEN form.filled \ {f} ELSE form.filled \cup {f}) \in SUBSET Fields
    BY DEF TypeOK, Form
  <2>2. form' \in Form
    BY <1>2, <2>1 DEF TypeIn, TypeOK, Form
  <2>3. QED
    BY <1>2, <2>2 DEF TypeIn, TypeOK, serverVars
<1>3. CASE WindowLoad
  <2>1. requests' \in SUBSET Request /\ asked' \in 0..MaxRequests
    BY <1>3, LoadType DEF WindowLoad, TypeOK
  <2>2. QED
    BY <1>3, <2>1 DEF WindowLoad, TypeOK, serverVars
<1>4. ASSUME NEW s \in States \cup {None}, ChangeState(s) PROVE TypeOK'
  <2> DEFINE f == [form EXCEPT !.state = s]
             g == [form EXCEPT !.state = s, !.chosen = Unset]
  <2>1. f \in Form /\ g \in Form
    BY DEF TypeOK, Form, Choice
  <2> HIDE DEF f, g
  <2>2. CASE flow = "domestic" /\ form' = f /\ LoadRegions(f)
    <3>1. requests' \in SUBSET Request /\ asked' \in 0..MaxRequests
      BY <2>1, <2>2, LoadType
    <3>2. QED
      BY <1>4, <2>1, <2>2, <3>1 DEF ChangeState, DomesticChange, OverseasChange, TypeOK, serverVars
  <2>3. CASE form' = g /\ UNCHANGED <<asked, requests>>
    BY <1>4, <2>1, <2>3 DEF ChangeState, DomesticChange, OverseasChange, TypeOK, serverVars
  <2>4. QED
    BY <1>4, <2>2, <2>3 DEF ChangeState, DomesticChange, OverseasChange, LoadRegions, f, g
<1>5. CASE OpenRegions
  <2>1. asked + 1 \in 1..MaxRequests
    BY <1>5, BoundsAssumption DEF OpenRegions, TypeOK
  <2>2. form.state \in States \cup {None} /\ form.chosen \in Choice
    BY DEF TypeOK, Form
  <2>3. {[id |-> asked + 1, state |-> form.state, region |-> form.chosen]} \in SUBSET Request
    BY <2>1, <2>2 DEF Request
  <2>4. QED
    BY <1>5, <2>1, <2>3, BoundsAssumption DEF OpenRegions, TypeOK, serverVars
<1>6. ASSUME NEW r \in Choice, PickRegion(r) PROVE TypeOK'
  <2>1. form' \in Form
    BY <1>6 DEF PickRegion, TypeOK, Form
  <2>2. QED
    BY <1>6, <2>1 DEF PickRegion, TypeOK, serverVars
<1>7. ASSUME NEW q \in requests, Answer(q) PROVE TypeOK'
  <2>1. form' \in Form /\ shown' \in 0..MaxRequests /\ requests' \in SUBSET Request
    BY <1>7, ReplaceType DEF Answer, RegionsOf
  <2>2. QED
    BY <1>7, <2>1 DEF Answer, TypeOK, serverVars
<1>8. ASSUME NEW q \in requests, IncompleteAnswer(q) PROVE TypeOK'
  <2>1. PICK some \in SUBSET RegionsOf(q.state) : Replace(q, some)
    BY <1>8 DEF IncompleteAnswer
  <2>2. form' \in Form /\ shown' \in 0..MaxRequests /\ requests' \in SUBSET Request
    BY <2>1, ReplaceType DEF RegionsOf
  <2>3. faults' \in 0..MaxFaults
    BY <1>8, BoundsAssumption DEF IncompleteAnswer, Fault, TypeOK
  <2>4. QED
    BY <1>8, <2>2, <2>3 DEF IncompleteAnswer, TypeOK, serverVars
<1>9. ASSUME NEW q \in requests, RequestFails(q) PROVE TypeOK'
  <2>1. faults' \in 0..MaxFaults
    BY <1>9, BoundsAssumption DEF RequestFails, Fault, TypeOK
  <2>2. QED
    BY <1>9, <2>1 DEF RequestFails, TypeOK, serverVars
<1>10. ASSUME NEW s \in States \cup {None}, NEW failing \in BOOLEAN,
              HandleGetVoterInformation(s, failing)
       PROVE  TypeOK'
  <2> DEFINE u == [user EXCEPT !.state = IF s = None THEN @ ELSE s]
  <2>1. u \in UserState
    BY DEF TypeOK, UserState
  <2>2. user' = u /\ ShowPage(u, results, failing)
    BY <1>10 DEF HandleGetVoterInformation, ShowPage
  <2> HIDE DEF u
  <2>3. faults' \in 0..MaxFaults
    BY <1>10, FaultType DEF HandleGetVoterInformation
  <2>4. QED
    BY <1>10, <2>1, <2>2, <2>3, ShowPageType DEF HandleGetVoterInformation, TypeOK
<1>11. ASSUME NEW failing \in BOOLEAN, Accept(failing) PROVE TypeOK'
  <2> DEFINE b == Bound(user, form)
             res == [region |-> b.region, name |-> IF failing THEN results.name ELSE b.region,
                     regionState |-> b.state]
  <2>1. b \in UserState
    BY BoundType DEF TypeOK
  <2>2. res \in ResultState
    BY <2>1 DEF TypeOK, UserState, ResultState
  <2>3. user' = b /\ results' = res
    BY <1>11 DEF Accept
  <2>4. faults' \in 0..MaxFaults
    BY <1>11, FaultType DEF Accept
  <2>5. /\ form' \in Form /\ stage' = "away" /\ open' = FALSE /\ requests' = {}
        /\ asked' = 0 /\ shown' = 0 /\ accepted' = TRUE
    BY <1>11, NoFormType DEF Accept
  <2>6. sent' \in Choice /\ settled' \in BOOLEAN
    BY <1>11 DEF Accept, Settled, TypeOK, Form
  <2>7. flow' = flow /\ controls' = controls
    BY <1>11 DEF Accept
  <2> HIDE DEF b, res
  <2>8. QED
    BY <2>1, <2>2, <2>3, <2>4, <2>5, <2>6, <2>7, FreshType DEF TypeOK
<1>12. ASSUME NEW failing \in BOOLEAN, Reject(failing) PROVE TypeOK'
  <2> DEFINE b == Bound(user, form)
  <2>1. b \in UserState
    BY BoundType DEF TypeOK
  <2>2. user' = b /\ ShowPage(b, results, failing)
    BY <1>12 DEF Reject, ShowPage
  <2> HIDE DEF b
  <2>3. faults' \in 0..MaxFaults
    BY <1>12, FaultType DEF Reject
  <2>4. QED
    BY <1>12, <2>1, <2>2, <2>3, ShowPageType DEF Reject, TypeOK
<1>13. CASE UNCHANGED vars
  BY <1>13 DEF vars, pageVars, serverVars, TypeOK
<1>14. QED
  BY <1>1, <1>2, <1>3, <1>4, <1>5, <1>6, <1>7, <1>8, <1>9, <1>10, <1>11, <1>12, <1>13
  DEF Next, Voter, Network, Server, Choice

\* Every variable keeps its type: pages, requests and the session's user.
THEOREM TypeCorrect == Spec => []TypeOK
<1>1. QED
  BY InitType, TypeStep, PTL DEF Spec

-----------------------------------------------------------------------------
(* The boxes and the hidden input. *)

\* At most one box is ticked; the hidden input is on exactly if none is, and
\* then says STREET.
FormInv ==
    /\ form.ticked = {} \/ \E box \in Boxes : form.ticked = {box}
    /\ form.enabled = (form.ticked = {})
    /\ form.enabled => form.regular = "STREET"

\* What showAddressDescription makes of a page where no other box is ticked.
LEMMA ShowFields ==
  ASSUME NEW f \in Form, NEW box \in Boxes, f.ticked \in {{}, {box}}
  PROVE  LET g == ShowAddressDescription(f, box)
         IN  /\ g.ticked = f.ticked
             /\ g.enabled = (g.ticked = {})
             /\ g.enabled => g.regular = "STREET"
             /\ g.state = f.state /\ g.chosen = f.chosen /\ g.offered = f.offered
BY DEF ShowAddressDescription, Form

LEMMA RenderedForm ==
  ASSUME NEW u \in UserState, NEW region \in Regions \cup {None}
  PROVE  LET g == Rendered(u, region)
         IN  /\ g.ticked = {u.type} \ {"STREET"}
             /\ g.enabled = (g.ticked = {})
             /\ g.enabled => g.regular = "STREET"
             /\ g.state = u.state /\ g.chosen = region
<1> DEFINE boxes == {u.type} \ {"STREET"}
           f == [ticked |-> boxes, regular |-> "STREET", enabled |-> u.type = "STREET",
                 filled |-> u.filled, visible |-> {"street1", "street2"}, state |-> u.state,
                 offered |-> {region} \ {None}, chosen |-> region]
<1>1. u.type \in AddressType /\ u.filled \in SUBSET Fields /\ u.state \in States \cup {None}
  BY DEF UserState
<1>2. f \in Form
  <2>1. boxes \in SUBSET Boxes
    BY <1>1 DEF AddressType, Boxes
  <2>2. {region} \ {None} \in SUBSET Regions /\ region \in Choice
    BY DEF Choice
  <2>3. {"street1", "street2"} \in SUBSET Fields /\ "STREET" \in AddressType
        /\ (u.type = "STREET") \in BOOLEAN
    BY DEF Fields, AddressType
  <2>4. QED
    BY <1>1, <2>1, <2>2, <2>3 DEF Form
<1>3. /\ f.ticked = boxes /\ f.enabled = (boxes = {}) /\ f.regular = "STREET"
      /\ f.state = u.state /\ f.chosen = region
  OBVIOUS
<1> HIDE DEF f
<1>4. CASE flow = "overseas" /\ boxes # {}
  <2>1. u.type \in Boxes /\ f.ticked = {u.type}
    BY <1>1, <1>3, <1>4 DEF AddressType, Boxes
  <2>2. Rendered(u, region) = ShowAddressDescription(f, u.type)
    BY <1>4 DEF Rendered, f
  <2>3. QED
    BY <1>2, <1>3, <2>1, <2>2, ShowFields
<1>5. CASE ~(flow = "overseas" /\ boxes # {})
  <2>1. Rendered(u, region) = f
    BY <1>5 DEF Rendered, f
  <2>2. QED
    BY <1>3, <2>1
<1>6. QED
  BY <1>4, <1>5

\* A page shown from a user and a region.
LEMMA ShowPageForm ==
  ASSUME TypeOK, NEW u \in UserState, NEW failing \in BOOLEAN, ShowPage(u, results, failing)
  PROVE  /\ \E region \in Regions \cup {None} : form' = Rendered(u, region)
         /\ stage' = "ready" /\ requests' = {} /\ asked' = 0 /\ shown' = 0
<1> DEFINE id == IF results.region # None THEN results.region ELSE u.region
           region == IF failing THEN None ELSE id
<1>1. region \in Regions \cup {None}
  BY DEF TypeOK, ResultState, UserState
<1>2. form' = Rendered(u, region)
  BY DEF ShowPage
<1> HIDE DEF region
<1>3. QED
  BY <1>1, <1>2 DEF ShowPage

\* The two steps that show the page.
LEMMA PageShown ==
  ASSUME TypeOK, NEW failing \in BOOLEAN,
         \/ \E s \in States \cup {None} : HandleGetVoterInformation(s, failing)
         \/ Reject(failing)
  PROVE  /\ user' \in UserState
         /\ \E region \in Regions \cup {None} : form' = Rendered(user', region)
         /\ stage' = "ready" /\ requests' = {} /\ asked' = 0 /\ shown' = 0
         /\ UNCHANGED <<flow, results, accepted, sent, settled>>
<1>1. CASE \E s \in States \cup {None} : HandleGetVoterInformation(s, failing)
  <2>1. PICK s \in States \cup {None} : HandleGetVoterInformation(s, failing)
    BY <1>1
  <2> DEFINE u == [user EXCEPT !.state = IF s = None THEN @ ELSE s]
  <2>2. u \in UserState
    BY DEF TypeOK, UserState
  <2>3. user' = u /\ ShowPage(u, results, failing)
    BY <2>1 DEF HandleGetVoterInformation, ShowPage
  <2> HIDE DEF u
  <2>4. /\ \E region \in Regions \cup {None} : form' = Rendered(u, region)
        /\ stage' = "ready" /\ requests' = {} /\ asked' = 0 /\ shown' = 0
    BY <2>2, <2>3, ShowPageForm
  <2>5. QED
    BY <2>1, <2>2, <2>3, <2>4 DEF HandleGetVoterInformation
<1>2. CASE Reject(failing)
  <2> DEFINE b == Bound(user, form)
  <2>1. b \in UserState
    BY BoundType DEF TypeOK
  <2>2. user' = b /\ ShowPage(b, results, failing)
    BY <1>2 DEF Reject, ShowPage
  <2> HIDE DEF b
  <2>3. /\ \E region \in Regions \cup {None} : form' = Rendered(b, region)
        /\ stage' = "ready" /\ requests' = {} /\ asked' = 0 /\ shown' = 0
    BY <2>1, <2>2, ShowPageForm
  <2>4. QED
    BY <1>2, <2>1, <2>2, <2>3 DEF Reject
<1>3. QED
  BY <1>1, <1>2

\* What a click makes of the page.
LEMMA ClickFields ==
  ASSUME TypeOK, FormInv, NEW box \in Boxes, Click(box)
  PROVE  /\ form'.ticked = IF box \in form.ticked THEN {} ELSE {box}
         /\ form'.enabled = (form'.ticked = {})
         /\ form'.enabled => form'.regular = "STREET"
         /\ form'.state = form.state /\ form'.chosen = form.chosen
         /\ form'.offered = form.offered
<1> DEFINE f == [form EXCEPT !.ticked = IF box \in @ THEN {} ELSE {box}, !.regular = box]
<1>1. f \in Form
  BY DEF TypeOK, Form, Boxes, AddressType
<1>2. f.ticked \in {{}, {box}}
  BY DEF TypeOK, Form
<1>3. /\ f.state = form.state /\ f.chosen = form.chosen /\ f.offered = form.offered
      /\ f.ticked = IF box \in form.ticked THEN {} ELSE {box}
  BY DEF TypeOK, Form
<1>4. form' = ShowAddressDescription(f, box)
  BY DEF Click
<1> HIDE DEF f
<1>5. QED
  BY <1>1, <1>2, <1>3, <1>4, ShowFields

\* Steps that leave the boxes and the hidden input alone.
LEMMA BoxesKept ==
  ASSUME TypeOK,
         \/ \E f \in Fields : TypeIn(f)
         \/ \E s \in States \cup {None} : ChangeState(s)
         \/ WindowLoad \/ OpenRegions
         \/ \E r \in Choice : PickRegion(r)
         \/ Network
         \/ UNCHANGED vars
  PROVE  /\ form'.ticked = form.ticked /\ form'.enabled = form.enabled
         /\ form'.regular = form.regular
BY DEF TypeOK, Form, TypeIn, ChangeState, DomesticChange, OverseasChange,
  WindowLoad, OpenRegions, PickRegion, Network, Answer,
       IncompleteAnswer, RequestFails, Replace, vars, pageVars

LEMMA InitForm == Init => FormInv
<1>1. NoForm.ticked = {} /\ NoForm.enabled = TRUE /\ NoForm.regular = "STREET"
  BY DEF NoForm
<1>2. QED
  BY <1>1 DEF Init, FormInv

LEMMA FormStep == TypeOK /\ FormInv /\ [Next]_vars => FormInv'
<1> SUFFICES ASSUME TypeOK, FormInv, [Next]_vars PROVE FormInv'
  OBVIOUS
<1>1. ASSUME NEW box \in Boxes, Click(box) PROVE FormInv'
  BY <1>1, ClickFields DEF FormInv
<1>2. ASSUME NEW failing \in BOOLEAN,
             \/ \E s \in States \cup {None} : HandleGetVoterInformation(s, failing)
             \/ Reject(failing)
      PROVE  FormInv'
  <2>1. user' \in UserState
    BY <1>2, PageShown
  <2>2. PICK region \in Regions \cup {None} : form' = Rendered(user', region)
    BY <1>2, PageShown
  <2>3. /\ form'.ticked = {user'.type} \ {"STREET"}
        /\ form'.enabled = (form'.ticked = {})
        /\ form'.enabled => form'.regular = "STREET"
    BY <2>1, <2>2, RenderedForm
  <2>4. user'.type \in AddressType
    BY <2>1 DEF UserState
  <2>5. QED
    BY <2>3, <2>4 DEF FormInv, AddressType, Boxes
<1>3. ASSUME NEW failing \in BOOLEAN, Accept(failing) PROVE FormInv'
  BY <1>3 DEF Accept, NoForm, FormInv
<1>4. CASE \/ \E f \in Fields : TypeIn(f)
           \/ \E s \in States \cup {None} : ChangeState(s)
           \/ WindowLoad \/ OpenRegions
           \/ \E r \in Choice : PickRegion(r)
           \/ Network
           \/ UNCHANGED vars
  BY <1>4, BoxesKept DEF FormInv
<1>5. QED
  BY <1>1, <1>2, <1>3, <1>4 DEF Next, Voter, Server, Choice

\* Exactly one type of address is sent, the one the boxes show, after any
\* sequence of clicks, rejections and visits.
THEOREM OneType == Spec => []OneTypeIsSent
<1>1. FormInv => OneTypeIsSent
  BY DEF FormInv, OneTypeIsSent, TypesSent
<1>2. QED
  BY <1>1, InitType, TypeStep, InitForm, FormStep, PTL DEF Spec

-----------------------------------------------------------------------------
(* The parts of an address in an overseas flow. *)

\* The fields of a page, and those the session keeps, fit the type shown.
PartsInv ==
    /\ PartsFitType
    /\ flow = "overseas" =>
         \A t \in AddressType : form.ticked = {t} \ {"STREET"} =>
            form.filled \subseteq Parts(t) /\ form.visible \subseteq Parts(t)

LEMMA ShowParts ==
  ASSUME NEW f \in Form, NEW box \in Boxes, f.ticked \in {{}, {box}}, NEW t \in AddressType,
         f.ticked = {t} \ {"STREET"}
  PROVE  LET g == ShowAddressDescription(f, box)
         IN  g.filled \subseteq Parts(t) /\ g.visible \subseteq Parts(t)
<1> DEFINE g == ShowAddressDescription(f, box)
<1>1. f.filled \subseteq Fields /\ f.visible \subseteq Fields
  BY DEF Form
<1>2. CASE box \in f.ticked
  <2>1. t = box
    BY <1>2
  <2>2. /\ g.visible = Fields \ (IF box = "DESCRIBED" THEN {"street1", "street2"} ELSE {"street2"})
        /\ g.filled = f.filled \ (IF box = "DESCRIBED" THEN {"street1", "street2"} ELSE {"street2"})
    BY <1>2 DEF ShowAddressDescription, Form
  <2>3. CASE box = "DESCRIBED"
    <3>1. Parts(t) = {"description"}
      BY <2>1, <2>3 DEF Parts
    <3>2. QED
      BY <1>1, <2>2, <2>3, <3>1 DEF Fields
  <2>4. CASE box = "RURAL_ROUTE"
    <3>1. Parts(t) = {"street1", "description"}
      BY <2>1, <2>4 DEF Parts
    <3>2. QED
      BY <1>1, <2>2, <2>4, <3>1 DEF Fields
  <2>5. QED
    BY <2>3, <2>4 DEF Boxes
<1>3. CASE box \notin f.ticked
  <2>1. t = "STREET"
    BY <1>3
  <2>2. Parts(t) = {"street1", "street2"}
    BY <2>1 DEF Parts
  <2>3. /\ g.filled = f.filled \ {"description"}
        /\ g.visible = IF box = "DESCRIBED" THEN {"street1", "street2"}
                       ELSE (f.visible \ {"description"}) \cup {"street2"}
    BY <1>3 DEF ShowAddressDescription, Form
  <2>4. QED
    BY <1>1, <2>2, <2>3 DEF Fields
<1>4. QED
  BY <1>2, <1>3

LEMMA RenderedParts ==
  ASSUME flow = "overseas", NEW u \in UserState, NEW region \in Regions \cup {None},
         u.filled \subseteq Parts(u.type), NEW t \in AddressType,
         Rendered(u, region).ticked = {t} \ {"STREET"}
  PROVE  /\ Rendered(u, region).filled \subseteq Parts(t)
         /\ Rendered(u, region).visible \subseteq Parts(t)
<1> DEFINE boxes == {u.type} \ {"STREET"}
           f == [ticked |-> boxes, regular |-> "STREET", enabled |-> u.type = "STREET",
                 filled |-> u.filled, visible |-> {"street1", "street2"}, state |-> u.state,
                 offered |-> {region} \ {None}, chosen |-> region]
<1>1. u.type \in AddressType /\ u.filled \in SUBSET Fields /\ u.state \in States \cup {None}
  BY DEF UserState
<1>2. f \in Form
  <2>1. boxes \in SUBSET Boxes
    BY <1>1 DEF AddressType, Boxes
  <2>2. {region} \ {None} \in SUBSET Regions /\ region \in Choice
    BY DEF Choice
  <2>3. {"street1", "street2"} \in SUBSET Fields /\ "STREET" \in AddressType
        /\ (u.type = "STREET") \in BOOLEAN
    BY DEF Fields, AddressType
  <2>4. QED
    BY <1>1, <2>1, <2>2, <2>3 DEF Form
<1>3. f.ticked = boxes /\ f.filled = u.filled /\ f.visible = {"street1", "street2"}
  OBVIOUS
<1>4. t = u.type
  BY <1>1, RenderedForm DEF AddressType
<1> HIDE DEF f
<1>5. CASE boxes # {}
  <2>1. u.type \in Boxes /\ f.ticked = {u.type} /\ f.ticked = {t} \ {"STREET"}
    BY <1>1, <1>3, <1>4, <1>5 DEF AddressType, Boxes
  <2>2. Rendered(u, region) = ShowAddressDescription(f, u.type)
    BY <1>5 DEF Rendered, f
  <2>3. QED
    BY <1>2, <2>1, <2>2, ShowParts
<1>6. CASE boxes = {}
  <2>1. Rendered(u, region) = f
    BY <1>6 DEF Rendered, f
  <2>2. Parts(t) = {"street1", "street2"}
    BY <1>4, <1>6 DEF Parts
  <2>3. QED
    BY <1>3, <1>4, <2>1, <2>2
<1>7. QED
  BY <1>5, <1>6

\* The session's user gets the type that the boxes show.
LEMMA BoundParts ==
  ASSUME TypeOK, FormInv, PartsInv, flow = "overseas"
  PROVE  LET b == Bound(user, form) IN b.filled \subseteq Parts(b.type)
<1>1. PICK t \in AddressType : form.ticked = {t} \ {"STREET"} /\ TypesSent(form) = {t}
  BY DEF FormInv, TypesSent, AddressType, Boxes
<1>2. Bound(user, form).type = t /\ Bound(user, form).filled = form.filled
  BY <1>1 DEF Bound
<1>3. QED
  BY <1>1, <1>2 DEF PartsInv

LEMMA InitParts == Init => PartsInv
<1> SUFFICES ASSUME Init PROVE PartsInv
  OBVIOUS
<1>1. user.filled = {} /\ form.filled = {} /\ form.visible = {}
  BY DEF Init, NewUser, NoForm
<1>2. QED
  BY <1>1 DEF PartsInv, PartsFitType

LEMMA PartsStep == TypeOK /\ FormInv /\ PartsInv /\ [Next]_vars => PartsInv'
<1> SUFFICES ASSUME TypeOK, FormInv, PartsInv, [Next]_vars, flow' = "overseas"
             PROVE  /\ user'.filled \subseteq Parts(user'.type)
                    /\ \A t \in AddressType : form'.ticked = {t} \ {"STREET"} =>
                         form'.filled \subseteq Parts(t) /\ form'.visible \subseteq Parts(t)
  BY DEF PartsInv, PartsFitType
<1>1. flow = "overseas"
  BY DEF Next, Voter, Network, Server, Click, TypeIn, ChangeState, DomesticChange, OverseasChange,
    WindowLoad, OpenRegions,
         PickRegion, Answer, IncompleteAnswer, RequestFails, HandleGetVoterInformation, Accept,
         Reject, vars
<1>2. user.filled \subseteq Parts(user.type)
  BY <1>1 DEF PartsInv, PartsFitType
<1>3. ASSUME NEW box \in Boxes, Click(box)
      PROVE  /\ user' = user
             /\ \A t \in AddressType : form'.ticked = {t} \ {"STREET"} =>
                  form'.filled \subseteq Parts(t) /\ form'.visible \subseteq Parts(t)
  <2> DEFINE f == [form EXCEPT !.ticked = IF box \in @ THEN {} ELSE {box}, !.regular = box]
  <2>1. f \in Form
    BY DEF TypeOK, Form, Boxes, AddressType
  <2>2. f.ticked \in {{}, {box}}
    BY DEF TypeOK, Form
  <2>3. form' = ShowAddressDescription(f, box)
    BY <1>3 DEF Click
  <2> HIDE DEF f
  <2>4. form'.ticked = f.ticked
    BY <2>1, <2>2, <2>3, ShowFields
  <2>5. \A t \in AddressType : form'.ticked = {t} \ {"STREET"} =>
           form'.filled \subseteq Parts(t) /\ form'.visible \subseteq Parts(t)
    BY <2>1, <2>2, <2>3, <2>4, ShowParts
  <2>6. QED
    BY <1>3, <2>5 DEF Click, serverVars
<1>4. ASSUME NEW f \in Fields, TypeIn(f)
      PROVE  /\ user' = user
             /\ \A t \in AddressType : form'.ticked = {t} \ {"STREET"} =>
                  form'.filled \subseteq Parts(t) /\ form'.visible \subseteq Parts(t)
  <2>1. /\ form'.ticked = form.ticked /\ form'.visible = form.visible
        /\ form'.filled \subseteq form.filled \cup {f}
        /\ f \in form.visible
    BY <1>4 DEF TypeIn, TypeOK, Form
  <2>2. QED
    BY <1>1, <1>4, <2>1 DEF PartsInv, TypeIn, serverVars
<1>5. ASSUME NEW failing \in BOOLEAN,
             \/ \E s \in States \cup {None} : HandleGetVoterInformation(s, failing)
             \/ Reject(failing)
      PROVE  /\ user'.filled \subseteq Parts(user'.type)
             /\ \A t \in AddressType : form'.ticked = {t} \ {"STREET"} =>
                  form'.filled \subseteq Parts(t) /\ form'.visible \subseteq Parts(t)
  <2>1. user' \in UserState
    BY <1>5, PageShown
  <2>2. PICK region \in Regions \cup {None} : form' = Rendered(user', region)
    BY <1>5, PageShown
  <2>3. user'.filled \subseteq Parts(user'.type)
    <3>1. ASSUME NEW s \in States \cup {None}, HandleGetVoterInformation(s, failing)
          PROVE  user'.filled = user.filled /\ user'.type = user.type
      BY <3>1 DEF HandleGetVoterInformation, TypeOK, UserState
    <3>2. Reject(failing) => user' = Bound(user, form)
      BY DEF Reject
    <3>3. QED
      BY <1>1, <1>2, <1>5, <3>1, <3>2, BoundParts
  <2>4. ASSUME NEW t \in AddressType, form'.ticked = {t} \ {"STREET"}
        PROVE  form'.filled \subseteq Parts(t) /\ form'.visible \subseteq Parts(t)
    BY <1>1, <2>1, <2>2, <2>3, <2>4, RenderedParts
  <2>5. QED
    BY <2>3, <2>4
<1>6. ASSUME NEW failing \in BOOLEAN, Accept(failing)
      PROVE  user'.filled \subseteq Parts(user'.type) /\ form'.filled = {} /\ form'.visible = {}
  <2>1. user' = Bound(user, form) /\ form' = NoForm
    BY <1>6 DEF Accept
  <2>2. NoForm.filled = {} /\ NoForm.visible = {}
    BY DEF NoForm
  <2>3. QED
    BY <1>1, <2>1, <2>2, BoundParts
<1>7. CASE \/ \E s \in States \cup {None} : ChangeState(s)
           \/ WindowLoad \/ OpenRegions
           \/ \E r \in Choice : PickRegion(r)
           \/ Network
           \/ UNCHANGED vars
  <2>1. /\ form'.ticked = form.ticked /\ form'.filled = form.filled
        /\ form'.visible = form.visible /\ user' = user
    BY <1>7 DEF TypeOK, Form, ChangeState, DomesticChange, OverseasChange,
      WindowLoad, OpenRegions, PickRegion, Network, Answer,
       IncompleteAnswer, RequestFails, Replace, vars, pageVars, serverVars
  <2>2. QED
    BY <1>1, <1>2, <2>1 DEF PartsInv
<1>8. QED
  BY <1>2, <1>3, <1>4, <1>5, <1>6, <1>7 DEF Next, Voter, Server, Choice

\* In an overseas flow the session never holds a part of an address that does
\* not belong to its type.
THEOREM PartsFit == Spec => []PartsFitType
<1>1. PartsInv => PartsFitType
  BY DEF PartsInv
<1>2. QED
  BY <1>1, InitType, TypeStep, InitForm, FormStep, InitParts, PartsStep, PTL DEF Spec

-----------------------------------------------------------------------------
(* The list of regions on a domestic page. *)

\* No request is newer than the latest one, which asks for the state of now;
\* a list that answers it has regions of that state only.
ListInv == flow = "domestic" =>
    /\ form.chosen # Unset
    /\ shown <= asked
    /\ \A q \in requests : q.id <= asked /\ (q.id = asked => q.state = form.state)
    /\ Settled => /\ form.chosen \in RegionsOf(form.state) \cup {None}
                  /\ form.offered \subseteq RegionsOf(form.state)

LEMMA InitList == Init => ListInv
<1>1. NoForm.chosen = None
  BY DEF NoForm
<1>2. QED
  BY <1>1, NoneAssumption DEF Init, ListInv, Settled

\* Where no request is answered or asked, and the state and the list stay.
LEMMA ListKept ==
  ASSUME TypeOK, ListInv, UNCHANGED <<flow, stage, requests, asked, shown>>,
         form'.state = form.state, form'.offered = form.offered,
         form'.chosen \in {form.chosen, None} \cup form.offered
  PROVE  ListInv'
<1>1. Unset # None /\ Unset \notin form.offered
  BY NoneAssumption DEF TypeOK, Form
<1>2. QED
  BY <1>1 DEF ListInv, Settled, RegionsOf

\* A request for the state of now leaves the list unsettled.
LEMMA AskedAnew ==
  ASSUME TypeOK, ListInv, flow = "domestic", LoadRegions(form'),
         form'.chosen = form.chosen, UNCHANGED <<flow, shown>>
  PROVE  ListInv'
<1> DEFINE q0 == [id |-> asked + 1, state |-> form'.state, region |-> form'.chosen]
<1>1. asked \in Nat /\ shown \in Nat
  BY BoundsAssumption DEF TypeOK
<1>2. asked' = asked + 1 /\ requests' = requests \cup {q0}
  BY DEF LoadRegions
<1>3. shown <= asked /\ form.chosen # Unset
  BY DEF ListInv
<1>4. ~Settled'
  BY <1>1, <1>2, <1>3 DEF Settled
<1>5. ASSUME NEW q \in requests'
      PROVE  q.id <= asked' /\ (q.id = asked' => q.state = form'.state)
  <2>1. CASE q = q0
    BY <1>1, <1>2, <2>1
  <2>2. CASE q \in requests
    <3>1. q.id \in Nat /\ q.id <= asked
      BY <2>2 DEF TypeOK, Request, ListInv
    <3>2. QED
      BY <1>1, <1>2, <3>1
  <2>3. QED
    BY <1>2, <2>1, <2>2
<1>6. QED
  BY <1>1, <1>2, <1>3, <1>4, <1>5 DEF ListInv

\* An answer settles the list only if it is the one to the latest request.
LEMMA Replaced ==
  ASSUME TypeOK, ListInv, flow = "domestic", NEW q \in requests,
         NEW offered \in SUBSET RegionsOf(q.state), Replace(q, offered),
         UNCHANGED <<flow, stage, asked>>
  PROVE  ListInv'
<1>1. /\ form'.state = form.state /\ form'.offered = offered /\ shown' = q.id
      /\ form'.chosen = IF q.region \in offered THEN q.region ELSE None
      /\ requests' = requests \ {q}
  BY DEF Replace, TypeOK, Form
<1>2. offered \subseteq Regions
  BY DEF RegionsOf
<1>3. form'.chosen # Unset /\ form'.chosen \in offered \cup {None}
  BY <1>1, <1>2, NoneAssumption
<1>4. q.id <= asked /\ (q.id = asked => q.state = form.state)
  BY DEF ListInv
<1>5. Settled' => q.state = form.state
  BY <1>1, <1>4 DEF Settled
<1>6. \A p \in requests' : p.id <= asked' /\ (p.id = asked' => p.state = form'.state)
  BY <1>1 DEF ListInv
<1>7. QED
  BY <1>1, <1>3, <1>4, <1>5, <1>6 DEF ListInv

LEMMA ListStep == TypeOK /\ FormInv /\ ListInv /\ [Next]_vars => ListInv'
<1> SUFFICES ASSUME TypeOK, FormInv, ListInv, [Next]_vars, flow' = "domestic" PROVE ListInv'
  BY DEF ListInv
<1>1. flow = "domestic"
  BY DEF Next, Voter, Network, Server, Click, TypeIn, ChangeState, DomesticChange, OverseasChange,
    WindowLoad, OpenRegions,
         PickRegion, Answer, IncompleteAnswer, RequestFails, HandleGetVoterInformation, Accept,
         Reject, vars
<1>2. ASSUME NEW box \in Boxes, Click(box) PROVE ListInv'
  <2>1. form'.state = form.state /\ form'.chosen = form.chosen /\ form'.offered = form.offered
    BY <1>2, ClickFields
  <2>2. QED
    BY <1>2, <2>1, ListKept DEF Click
<1>3. ASSUME NEW f \in Fields, TypeIn(f) PROVE ListInv'
  <2>1. form'.state = form.state /\ form'.chosen = form.chosen /\ form'.offered = form.offered
    BY <1>3 DEF TypeIn, TypeOK, Form
  <2>2. QED
    BY <1>3, <2>1, ListKept DEF TypeIn
<1>4. CASE WindowLoad
  BY <1>1, <1>4, AskedAnew DEF WindowLoad, LoadRegions
<1>5. ASSUME NEW s \in States \cup {None}, ChangeState(s) PROVE ListInv'
  <2>1. form' = [form EXCEPT !.state = s] /\ LoadRegions(form')
    BY <1>1, <1>5 DEF ChangeState, DomesticChange, OverseasChange
  <2>2. form'.chosen = form.chosen
    BY <2>1 DEF TypeOK, Form
  <2>3. QED
    BY <1>1, <1>5, <2>1, <2>2, AskedAnew DEF ChangeState, DomesticChange, OverseasChange
<1>6. ASSUME NEW r \in Choice, PickRegion(r) PROVE ListInv'
  <2>1. /\ form'.state = form.state /\ form'.offered = form.offered /\ form'.chosen = r
        /\ r \in form.offered \cup {None}
    BY <1>1, <1>6 DEF PickRegion, TypeOK, Form
  <2>2. QED
    BY <1>6, <2>1, ListKept DEF PickRegion
<1>7. ASSUME NEW q \in requests, Answer(q) PROVE ListInv'
  BY <1>1, <1>7, Replaced DEF Answer
<1>8. ASSUME NEW q \in requests, IncompleteAnswer(q) PROVE ListInv'
  BY <1>1, <1>8, Replaced DEF IncompleteAnswer
<1>9. ASSUME NEW q \in requests, RequestFails(q) PROVE ListInv'
  BY <1>9 DEF RequestFails, ListInv, Settled
<1>10. ASSUME NEW failing \in BOOLEAN,
              \/ \E s \in States \cup {None} : HandleGetVoterInformation(s, failing)
              \/ Reject(failing)
       PROVE  ListInv'
  <2>1. user' \in UserState /\ stage' = "ready" /\ requests' = {} /\ asked' = 0 /\ shown' = 0
    BY <1>10, PageShown
  <2>2. PICK region \in Regions \cup {None} : form' = Rendered(user', region)
    BY <1>10, PageShown
  <2>3. form'.chosen = region
    BY <2>1, <2>2, RenderedForm
  <2>4. QED
    BY <2>1, <2>3, NoneAssumption DEF ListInv, Settled
<1>11. ASSUME NEW failing \in BOOLEAN, Accept(failing) PROVE ListInv'
  <2>1. NoForm.chosen = None
    BY DEF NoForm
  <2>2. QED
    BY <1>11, <2>1, NoneAssumption DEF Accept, ListInv, Settled
<1>12. CASE UNCHANGED vars
  BY <1>12, ListKept DEF vars, pageVars
<1>13. QED
  BY <1>1, <1>2, <1>3, <1>4, <1>5, <1>6, <1>7, <1>8, <1>9, <1>10, <1>11, <1>12
  DEF Next, Voter, Network, Server, Choice, OpenRegions

\* What a settled list lets through has the region in the state.
LEMMA SettledFits ==
  ASSUME TypeOK, ListInv, flow = "domestic", Settled, Valid(Bound(user, form))
  PROVE  Home[Bound(user, form).region] = Bound(user, form).state
<1>1. Bound(user, form).region = form.chosen /\ Bound(user, form).state = form.state
  BY DEF Bound, ListInv
<1>2. form.chosen # None /\ form.chosen \in RegionsOf(form.state)
  BY <1>1 DEF Valid, ListInv
<1>3. QED
  BY <1>1, <1>2 DEF RegionsOf

LEMMA MismatchStep ==
  TypeOK /\ ListInv /\ MismatchNeedsRace /\ [Next]_vars => MismatchNeedsRace'
<1> SUFFICES ASSUME TypeOK, ListInv, MismatchNeedsRace, [Next]_vars PROVE MismatchNeedsRace'
  OBVIOUS
<1>1. ASSUME NEW failing \in BOOLEAN, Accept(failing) PROVE MismatchNeedsRace'
  <2>1. /\ results'.region = Bound(user, form).region
        /\ results'.regionState = Bound(user, form).state
        /\ settled' = Settled /\ Valid(Bound(user, form)) /\ flow' = flow
    BY <1>1 DEF Accept
  <2>2. QED
    BY <2>1, SettledFits DEF MismatchNeedsRace
<1>2. CASE UNCHANGED <<flow, results, accepted, settled>>
  BY <1>2 DEF MismatchNeedsRace
<1>3. QED
  BY <1>1, <1>2
  DEF Next, Voter, Network, Server, Click, TypeIn, ChangeState, DomesticChange, OverseasChange,
    WindowLoad, OpenRegions,
      PickRegion, Answer, IncompleteAnswer, RequestFails, HandleGetVoterInformation, Reject,
      vars, serverVars

\* A region outside its state comes from an unsettled list only, however many
\* requests are under way, fail, or are answered out of order.
THEOREM MismatchIsRace == Spec => []MismatchNeedsRace
<1>1. Init => MismatchNeedsRace
  BY DEF Init, MismatchNeedsRace
<1>2. QED
  BY <1>1, InitType, TypeStep, InitForm, FormStep, InitList, ListStep, MismatchStep, PTL DEF Spec

LEMMA NameStep == TypeOK /\ NameNeedsFault /\ [Next]_vars => NameNeedsFault'
<1> SUFFICES ASSUME TypeOK, NameNeedsFault, [Next]_vars PROVE NameNeedsFault'
  OBVIOUS
<1>1. faults \in Nat
  BY BoundsAssumption DEF TypeOK
<1>2. ASSUME NEW failing \in BOOLEAN, Accept(failing) PROVE NameNeedsFault'
  <2>1. CASE failing
    BY <1>1, <1>2, <2>1 DEF Accept, Fault, NameNeedsFault
  <2>2. CASE ~failing
    BY <1>2, <2>2 DEF Accept, NameNeedsFault
  <2>3. QED
    BY <2>1, <2>2
<1>3. CASE results' = results /\ faults' \in {faults, faults + 1}
  BY <1>1, <1>3 DEF NameNeedsFault
<1>4. QED
  BY <1>2, <1>3
  DEF Next, Voter, Network, Server, Fault, Click, TypeIn, ChangeState, DomesticChange, OverseasChange,
    WindowLoad, OpenRegions,
      PickRegion, Answer, IncompleteAnswer, RequestFails, HandleGetVoterInformation, Reject,
      vars, serverVars

\* The name saved is another region's only after the API failed once.
THEOREM NameIsRegions == Spec => []NameNeedsFault
<1>1. Init => NameNeedsFault
  BY DEF Init, NameNeedsFault
<1>2. QED
  BY <1>1, InitType, TypeStep, NameStep, PTL DEF Spec
=============================================================================
