------------------------ MODULE EncryptionKeysProofs ------------------------
(* Theorems about EncryptionKeys, for every value of its constants.          *)
EXTENDS EncryptionKeys, TLAPS

-----------------------------------------------------------------------------
(* Types.  What is saved must be a key: a pair in use has a public key. *)

PairInv ==
    /\ \A s \in Servers, m \in Months : known[s][m] # NoPair => known[s][m].public # None
    /\ \A t \in Threads :
          call[t].pc \in {"load_private", "save_private", "save_public", "commit", "save"} =>
              call[t].pair.public # None

LEMMA Zero == 0 \in Months /\ NoPair \in Pair /\ Idle \in Call
<1>1. 0 \in Months
  BY BoundsAssumption DEF Months
<1>2. NoPair \in Pair
  BY DEF NoPair, Pair
<1>3. QED
  BY <1>1, <1>2 DEF Idle, Call

LEMMA AccidentType ==
  ASSUME NEW kind \in {"overlap", "calendar", "commit", "crash"}, NEW m \in Months
  PROVE  Accident(kind, m) \in Accidents /\ Accident(kind, m).month = m
BY DEF Accident, Accidents

LEMMA InitType == Init => TypeOK /\ PairInv
<1> SUFFICES ASSUME Init PROVE TypeOK /\ PairInv
  OBVIOUS
<1>1. /\ \A t \in Threads : call[t] = Idle
      /\ \A s \in Servers, m \in Months : known[s][m] = NoPair
  BY DEF Init
<1>2. Idle.pc = "idle"
  BY DEF Idle
<1>3. PairInv
  BY <1>1, <1>2 DEF PairInv
<1>4. stored \subseteq [month : Months, key : Keys] /\ accidents \subseteq Accidents
  BY DEF Init
<1>5. 0 \in 0..MaxCalls /\ 0 \in 0..MaxPairs /\ 0 \in 0..MaxFaults
  BY BoundsAssumption
<1>6. QED
  BY <1>3, <1>4, <1>5, Zero DEF TypeOK, Init, NoPair

-----------------------------------------------------------------------------
(* What each step makes of its own call; all other calls stay as they are. *)

Others(t) == \A u \in Threads \ {t} : call'[u] = call[u]

LEMMA EncryptFields ==
  ASSUME TypeOK, NEW t \in Threads, Encrypt(t)
  PROVE  /\ call' \in [Threads -> Call] /\ Others(t)
         /\ call'[t].pc = "time" /\ call'[t].data = None /\ ~call'[t].creates
         /\ call'[t].made = {}
BY Zero DEF Encrypt, TypeOK, Call, Others, At, Idle, Pair, NoPair

LEMMA DecryptFields ==
  ASSUME TypeOK, NEW t \in Threads, NEW r \in stored, Decrypt(t, r)
  PROVE  /\ call' \in [Threads -> Call] /\ Others(t)
         /\ call'[t].pc = "time" /\ call'[t].month = r.month /\ call'[t].data = r.key
         /\ ~call'[t].creates /\ call'[t].made = {}
BY Zero DEF Decrypt, TypeOK, Call, Others, At, Idle, Pair, NoPair

LEMMA SetTimeFields ==
  ASSUME TypeOK, NEW t \in Threads, SetTime(t)
  PROVE  /\ call' \in [Threads -> Call] /\ Others(t)
         /\ call'[t].pc = "get"
         /\ call'[t].month = call[t].month /\ call'[t].data = call[t].data
         /\ call'[t].creates = call[t].creates /\ call'[t].made = call[t].made
BY DEF SetTime, TypeOK, Call, Others, At

LEMMA GetDateFields ==
  ASSUME TypeOK, NEW t \in Threads, GetDate(t)
  PROVE  /\ call' \in [Threads -> Call] /\ Others(t)
         /\ call'[t].pc = "enter"
         /\ call'[t].month = call[t].month /\ call'[t].data = call[t].data
         /\ call'[t].creates = call[t].creates /\ call'[t].made = call[t].made
         /\ \/ call'[t].tag = call[t].month \/ call[t].data # None
            \/ Accident("calendar", call[t].month) \in accidents'
         /\ accidents \subseteq accidents'
         /\ accidents' \subseteq accidents \cup {Accident("calendar", call[t].month)}
<1>1. PICK m \in Months :
         /\ call' = [call EXCEPT ![t].tag = m, ![t].pc = "enter"]
         /\ accidents' = IF m = call[t].month \/ call[t].data # None
                         THEN accidents
                         ELSE accidents \cup {Accident("calendar", call[t].month)}
  BY ServerOfAssumption DEF GetDate, Readable, TypeOK
<1>2. /\ call' \in [Threads -> Call] /\ Others(t)
      /\ call'[t].pc = "enter" /\ call'[t].tag = m
      /\ call'[t].month = call[t].month /\ call'[t].data = call[t].data
      /\ call'[t].creates = call[t].creates /\ call'[t].made = call[t].made
  BY <1>1 DEF TypeOK, Call, Others
<1>3. QED
  BY <1>1, <1>2

LEMMA EnterLockFields ==
  ASSUME TypeOK, NEW t \in Threads, EnterLock(t)
  PROVE  /\ call' \in [Threads -> Call] /\ Others(t)
         /\ call'[t].pc \in {"commit", "find"}
         /\ call'[t].month = call[t].month /\ call'[t].tag = call[t].tag
         /\ call'[t].data = call[t].data /\ call'[t].creates = call[t].creates
         /\ call'[t].made = call[t].made
         /\ call'[t].pc = "commit" => KnownTo(t) # NoPair
               /\ call'[t].pair = KnownTo(t) /\ locked' = locked
         /\ call'[t].pc = "find" => KnownTo(t) = NoPair
               /\ locked' = [locked EXCEPT ![ServerOf[t]] = TRUE]
<1>1. KnownTo(t) \in Pair /\ call[t] \in Call
  BY ServerOfAssumption DEF TypeOK, KnownTo, Call
<1>2. CASE KnownTo(t) # NoPair
  <2> DEFINE k == KnownTo(t)
  <2>1. call' = [call EXCEPT ![t].pair = k, ![t].pc = "commit"] /\ locked' = locked
    BY <1>2 DEF EnterLock
  <2> HIDE DEF k
  <2>2. k \in Pair
    BY <1>1 DEF k
  <2>3. /\ call' \in [Threads -> Call] /\ Others(t)
        /\ call'[t].pc = "commit" /\ call'[t].pair = k
        /\ call'[t].month = call[t].month /\ call'[t].tag = call[t].tag
        /\ call'[t].data = call[t].data /\ call'[t].creates = call[t].creates
        /\ call'[t].made = call[t].made
    BY <2>1, <2>2 DEF TypeOK, Call, Others
  <2>4. QED
    BY <1>2, <2>1, <2>3 DEF k
<1>3. CASE KnownTo(t) = NoPair
  <2>1. /\ call' = [call EXCEPT ![t].pc = "find"]
        /\ locked' = [locked EXCEPT ![ServerOf[t]] = TRUE]
    BY <1>3 DEF EnterLock
  <2>2. QED
    BY <1>3, <2>1 DEF TypeOK, Call, Others
<1>4. QED
  BY <1>2, <1>3

LEMMA FindRowFields ==
  ASSUME TypeOK, NEW t \in Threads, FindRow(t)
  PROVE  /\ call' \in [Threads -> Call] /\ Others(t)
         /\ call'[t].pc = "load_public"
         /\ call'[t].month = call[t].month /\ call'[t].tag = call[t].tag
         /\ call'[t].data = call[t].data /\ call'[t].creates = call[t].creates
         /\ call'[t].made = call[t].made
BY DEF FindRow, TypeOK, Call, Others, At

LEMMA FindNothingFields ==
  ASSUME TypeOK, NEW t \in Threads, FindNothing(t)
  PROVE  /\ call' \in [Threads -> Call] /\ Others(t)
         /\ call'[t].pc = "save_private" /\ call'[t].creates
         /\ call'[t].month = call[t].month /\ call'[t].tag = call[t].tag
         /\ call'[t].data = call[t].data /\ call'[t].made = call[t].made
         /\ call'[t].pair.public = call'[t].pair.private /\ call'[t].pair.public # None
<1> DEFINE p == [public |-> pairs + 1, private |-> pairs + 1]
<1>1. pairs + 1 \in Keys /\ pairs + 1 # None
  BY BoundsAssumption DEF FindNothing, TypeOK, Keys, None
<1>2. p \in Pair /\ p.public = p.private /\ p.public # None
  BY <1>1 DEF Pair
<1>3. call' = [call EXCEPT ![t].pair = p, ![t].creates = TRUE, ![t].pc = "save_private"]
  BY DEF FindNothing
<1> HIDE DEF p
<1>4. QED
  BY <1>2, <1>3 DEF TypeOK, Call, Others

LEMMA SavePrivateFields ==
  ASSUME TypeOK, NEW t \in Threads, SavePrivate(t)
  PROVE  /\ call' \in [Threads -> Call] /\ Others(t)
         /\ call'[t].pc = "save_public"
         /\ call'[t].month = call[t].month /\ call'[t].tag = call[t].tag
         /\ call'[t].data = call[t].data /\ call'[t].pair = call[t].pair
         /\ call'[t].creates = call[t].creates /\ call'[t].made = call[t].made
BY DEF SavePrivate, TypeOK, Call, Others, At

LEMMA SavePublicFields ==
  ASSUME TypeOK, NEW t \in Threads, SavePublic(t)
  PROVE  /\ call' \in [Threads -> Call] /\ Others(t)
         /\ call'[t].pc = "commit"
         /\ call'[t].month = call[t].month /\ call'[t].tag = call[t].tag
         /\ call'[t].data = call[t].data /\ call'[t].pair = call[t].pair
         /\ call'[t].creates = call[t].creates /\ call'[t].made = call[t].made
BY DEF SavePublic, TypeOK, Call, Others, At

LEMMA LoadPublicFields ==
  ASSUME TypeOK, NEW t \in Threads, LoadPublic(t)
  PROVE  /\ call' \in [Threads -> Call] /\ Others(t)
         /\ call'[t].pc = "load_private"
         /\ call'[t].month = call[t].month /\ call'[t].tag = call[t].tag
         /\ call'[t].data = call[t].data /\ call'[t].creates = call[t].creates
         /\ call'[t].made = call[t].made
         /\ call'[t].pair.public = files[call[t].tag].public
BY DEF LoadPublic, TypeOK, Call, Others, At, Pair

LEMMA LoadPrivateFields ==
  ASSUME TypeOK, NEW t \in Threads, LoadPrivate(t)
  PROVE  /\ call' \in [Threads -> Call] /\ Others(t)
         /\ call'[t].pc = "commit"
         /\ call'[t].month = call[t].month /\ call'[t].tag = call[t].tag
         /\ call'[t].data = call[t].data /\ call'[t].creates = call[t].creates
         /\ call'[t].made = call[t].made
         /\ call'[t].pair = [public |-> call[t].pair.public, private |-> files[call[t].tag].private]
         /\ call'[t].pair.public = call[t].pair.public
         /\ call'[t].pair.private = files[call[t].tag].private
BY DEF LoadPrivate, TypeOK, Call, Others, At, Pair

LEMMA SaveFailsFields ==
  ASSUME TypeOK, NEW t \in Threads, SaveFails(t)
  PROVE  /\ call' \in [Threads -> Call] /\ Others(t)
         /\ call'[t] = Idle
BY Zero DEF SaveFails, TypeOK, Call, Others, At

LEMMA LoadFailsFields ==
  ASSUME TypeOK, NEW t \in Threads, LoadFails(t)
  PROVE  /\ call' \in [Threads -> Call] /\ Others(t)
         /\ call'[t] = Idle
BY Zero DEF LoadFails, TypeOK, Call, Others, At

LEMMA DuplicateRowFields ==
  ASSUME TypeOK, NEW t \in Threads, DuplicateRow(t)
  PROVE  /\ call' \in [Threads -> Call] /\ Others(t)
         /\ call'[t] = Idle
BY Zero DEF DuplicateRow, TypeOK, Call, Others, At

LEMMA NextPartFields ==
  ASSUME TypeOK, PairInv, NEW t \in Threads, NextPart(t)
  PROVE  /\ call' \in [Threads -> Call] /\ Others(t)
         /\ call'[t].pc = "time" /\ call'[t].data = None /\ ~call'[t].creates
         /\ call'[t].month = call[t].month
         /\ call'[t].made = call[t].made \cup {call[t].pair.public}
<1> DEFINE made == call[t].made \cup {call[t].pair.public}
           c == [Idle EXCEPT !.pc = "time", !.month = call[t].month, !.made = made]
<1>1. call[t].pair.public \in Keys /\ call[t].made \subseteq Keys /\ call[t].month \in Months
  BY DEF NextPart, At, TypeOK, PairInv, Call, Pair
<1>2. made \in SUBSET Keys
  BY <1>1
<1>3. call' = [call EXCEPT ![t] = c]
  BY DEF NextPart
<1> HIDE DEF made
<1>4. /\ c \in Call /\ c.pc = "time" /\ c.data = None /\ ~c.creates
      /\ c.month = call[t].month /\ c.made = made
  BY <1>1, <1>2, Zero DEF Call, Idle
<1> HIDE DEF c
<1>5. /\ call' \in [Threads -> Call] /\ Others(t) /\ call'[t] = c
  BY <1>3, <1>4 DEF TypeOK, Others
<1>6. QED
  BY <1>4, <1>5 DEF made

LEMMA SaveFields ==
  ASSUME TypeOK, NEW t \in Threads, Save(t)
  PROVE  /\ call' \in [Threads -> Call] /\ Others(t)
         /\ call'[t] = Idle
BY Zero DEF Save, TypeOK, Call, Others, At

LEMMA CommitFields ==
  ASSUME TypeOK, NEW t \in Threads, Commit(t)
  PROVE  /\ call' \in [Threads -> Call] /\ Others(t)
         /\ call[t].data # None => call'[t] = Idle
         /\ call[t].data = None => /\ call'[t].pc = "save" /\ ~call'[t].creates
                               /\ call'[t].month = call[t].month
                               /\ call'[t].tag = call[t].tag
                               /\ call'[t].data = call[t].data
                               /\ call'[t].pair = call[t].pair
                               /\ call'[t].made = call[t].made
BY Zero DEF Commit, TypeOK, Call, Others, At

LEMMA CommitFailsFields ==
  ASSUME TypeOK, NEW t \in Threads, CommitFails(t)
  PROVE  /\ call' \in [Threads -> Call] /\ Others(t)
         /\ call'[t] = Idle \/ (/\ call'[t].pc = "time" /\ ~call'[t].creates
                               /\ call'[t].month = call[t].month
                               /\ call'[t].data = call[t].data
                               /\ call'[t].made = call[t].made)
<1>1. CASE call' = [call EXCEPT ![t] = Idle]
  BY <1>1, Zero DEF TypeOK, Others
<1>2. CASE call' # [call EXCEPT ![t] = Idle]
  <2> DEFINE c == [Idle EXCEPT !.pc = "time", !.month = call[t].month,
                            !.data = call[t].data, !.made = call[t].made]
  <2>1. /\ c \in Call /\ c.pc = "time" /\ ~c.creates
        /\ c.month = call[t].month /\ c.data = call[t].data /\ c.made = call[t].made
    BY Zero DEF TypeOK, Call, Idle
  <2>2. call' = [call EXCEPT ![t] = c]
    BY <1>2 DEF CommitFails
  <2> HIDE DEF c
  <2>3. QED
    BY <2>1, <2>2 DEF TypeOK, Others
<1>3. QED
  BY <1>1, <1>2

LEMMA IdleFields ==
  Idle.pc = "idle" /\ Idle.data = None /\ ~Idle.creates /\ Idle.made = {}
BY DEF Idle

\* What Know makes of knownKeys and the lock.
LEMMA KnowFields ==
  ASSUME TypeOK, NEW t \in Threads, NEW pair \in Pair, Know(t, pair)
  PROVE  /\ known' \in [Servers -> [Months -> Pair]] /\ locked' \in [Servers -> BOOLEAN]
         /\ known'[ServerOf[t]][call[t].tag] = pair
         /\ \A s \in Servers, m \in Months :
               s # ServerOf[t] \/ m # call[t].tag => known'[s][m] = known[s][m]
         /\ ~locked'[ServerOf[t]]
         /\ \A s \in Servers \ {ServerOf[t]} : locked'[s] = locked[s]
<1>1. call[t].tag \in Months /\ ServerOf[t] \in Servers
  BY ServerOfAssumption DEF TypeOK, Call
<1>2. QED
  BY <1>1 DEF Know, TypeOK

LEMMA SavePublicKnows ==
  ASSUME TypeOK, NEW t \in Threads, SavePublic(t)
  PROVE  call[t].pair \in Pair /\ Know(t, call[t].pair)
BY DEF SavePublic, TypeOK, Call

LEMMA LoadPrivateKnows ==
  ASSUME TypeOK, NEW t \in Threads, LoadPrivate(t)
  PROVE  call'[t].pair \in Pair /\ Know(t, call'[t].pair)
<1>1. call'[t].pair \in Pair
  BY LoadPrivateFields DEF Call
<1>2. QED
  BY <1>1, LoadPrivateFields DEF LoadPrivate

\* The database, the files and the counters keep their types.
LEMMA FilesType ==
  ASSUME TypeOK, NEW t \in Threads, SavePrivate(t) \/ SavePublic(t) \/ SaveFails(t)
  PROVE  files' \in [Months -> Pair]
<1>1. call[t].tag \in Months /\ call[t].pair \in Pair
  BY DEF TypeOK, Call
<1>2. CASE SavePrivate(t)
  BY <1>1, <1>2 DEF SavePrivate, TypeOK, Pair
<1>3. CASE SavePublic(t)
  BY <1>1, <1>3 DEF SavePublic, TypeOK, Pair
<1>4. CASE SaveFails(t)
  BY <1>1, <1>4, Zero DEF SaveFails, TypeOK
<1>5. QED
  BY <1>2, <1>3, <1>4

LEMMA StoredType ==
  ASSUME TypeOK, PairInv, NEW t \in Threads, Save(t)
  PROVE  stored' \subseteq [month : Months, key : Keys]
<1>1. call[t].month \in Months /\ call[t].pair.public \in Keys /\ call[t].made \subseteq Keys
  BY DEF Save, At, TypeOK, PairInv, Call, Pair
<1>2. QED
  BY <1>1 DEF Save, TypeOK

\* A step that leaves knownKeys alone and whose own call has a public key.
LEMMA PairFrame ==
  ASSUME TypeOK, PairInv, NEW t \in Threads, Others(t), known' = known,
         call'[t].pc \in {"load_private", "save_private", "save_public", "commit", "save"}
           => call'[t].pair.public # None
  PROVE  PairInv'
BY DEF PairInv, Others

LEMMA PairFrameKnow ==
  ASSUME TypeOK, PairInv, NEW t \in Threads, Others(t), Know(t, call'[t].pair),
         call'[t].pair \in Pair, call'[t].pair.public # None
  PROVE  PairInv'
<1>1. \A s \in Servers, m \in Months : known'[s][m] # NoPair => known'[s][m].public # None
  BY KnowFields DEF PairInv
<1>2. QED
  BY <1>1 DEF PairInv, Others

LEMMA RestartFields ==
  ASSUME TypeOK, NEW s \in Servers, Restart(s)
  PROVE  /\ call' \in [Threads -> Call]
         /\ \A t \in Threads : call'[t] = IF ServerOf[t] = s THEN Idle ELSE call[t]
         /\ known' \in [Servers -> [Months -> Pair]]
         /\ \A m \in Months : known'[s][m] = NoPair
         /\ \A r \in Servers \ {s} : known'[r] = known[r]
         /\ locked' \in [Servers -> BOOLEAN] /\ ~locked'[s]
         /\ \A r \in Servers \ {s} : locked'[r] = locked[r]
         /\ calendar' \in [Servers -> Months]
         /\ accidents \subseteq accidents'
         /\ accidents' \subseteq accidents \cup {Accident("crash", m) : m \in Months}
         /\ \A m \in Months :
               known[s][m] # NoPair => row[m] \/ Accident("crash", m) \in accidents'
BY Zero DEF Restart, TypeOK

LEMMA TypeStep == TypeOK /\ PairInv /\ [Next]_vars => TypeOK' /\ PairInv'
<1> SUFFICES ASSUME TypeOK, PairInv, [Next]_vars PROVE TypeOK' /\ PairInv'
  OBVIOUS
<1>1. CASE MonthPasses
  <2>1. now' \in Months
    BY <1>1, BoundsAssumption DEF MonthPasses, TypeOK, Months
  <2>2. QED
    BY <1>1, <2>1 DEF MonthPasses, TypeOK, PairInv
<1>2. ASSUME NEW t \in Threads, Proceed(t) PROVE TypeOK' /\ PairInv'
  <2>1. CASE Encrypt(t)
    <3>1. calls' \in 0..MaxCalls
      BY <2>1, BoundsAssumption DEF Encrypt, TypeOK
    <3>2. PairInv'
      BY <2>1, EncryptFields, PairFrame DEF Encrypt
    <3>3. QED
      BY <2>1, <3>1, <3>2, EncryptFields DEF Encrypt, TypeOK
  <2>2. ASSUME NEW r \in stored, Decrypt(t, r) PROVE TypeOK' /\ PairInv'
    <3>1. calls' \in 0..MaxCalls
      BY <2>2, BoundsAssumption DEF Decrypt, TypeOK
    <3>2. PairInv'
      BY <2>2, DecryptFields, PairFrame DEF Decrypt
    <3>3. QED
      BY <2>2, <3>1, <3>2, DecryptFields DEF Decrypt, TypeOK
  <2>3. CASE SetTime(t)
    <3>1. PairInv'
      BY <2>3, SetTimeFields, PairFrame DEF SetTime
    <3>2. calendar' \in [Servers -> Months]
      BY <2>3, ServerOfAssumption DEF SetTime, TypeOK, Call
    <3>3. QED
      BY <2>3, <3>1, <3>2, SetTimeFields DEF SetTime, TypeOK
  <2>4. CASE GetDate(t)
    <3>1. PairInv'
      BY <2>4, GetDateFields, PairFrame DEF GetDate
    <3>2. accidents' \subseteq Accidents
      BY <2>4, GetDateFields, AccidentType DEF TypeOK, Call
    <3>3. QED
      BY <2>4, <3>1, <3>2, GetDateFields DEF GetDate, TypeOK
  <2>5. CASE EnterLock(t)
    <3>1. KnownTo(t) # NoPair => KnownTo(t).public # None
      BY ServerOfAssumption DEF KnownTo, PairInv, TypeOK, Call
    <3>2. PairInv'
      BY <2>5, <3>1, EnterLockFields, PairFrame DEF EnterLock
    <3>3. locked' \in [Servers -> BOOLEAN]
      BY <2>5, EnterLockFields DEF TypeOK
    <3>4. QED
      BY <2>5, <3>2, <3>3, EnterLockFields DEF EnterLock, TypeOK
  <2>6. CASE FindRow(t)
    <3>1. PairInv'
      BY <2>6, FindRowFields, PairFrame DEF FindRow
    <3>2. QED
      BY <2>6, <3>1, FindRowFields DEF FindRow, TypeOK
  <2>7. CASE FindNothing(t)
    <3>1. PairInv'
      BY <2>7, FindNothingFields, PairFrame DEF FindNothing
    <3>2. pairs' \in 0..MaxPairs
      BY <2>7, BoundsAssumption DEF FindNothing, TypeOK
    <3>3. accidents' \subseteq Accidents
      BY <2>7, AccidentType DEF FindNothing, TypeOK, Call
    <3>4. QED
      BY <2>7, <3>1, <3>2, <3>3, FindNothingFields DEF FindNothing, TypeOK
  <2>8. CASE SavePrivate(t)
    <3>1. PairInv'
      BY <2>8, SavePrivateFields, PairFrame DEF SavePrivate, At, PairInv
    <3>2. QED
      BY <2>8, <3>1, SavePrivateFields, FilesType DEF SavePrivate, TypeOK
  <2>9. CASE SavePublic(t)
    <3>1. call[t].pair \in Pair /\ Know(t, call[t].pair) /\ call[t].pair.public # None
      BY <2>9, SavePublicKnows DEF SavePublic, At, PairInv
    <3>2. PairInv'
      BY <2>9, <3>1, SavePublicFields, PairFrameKnow
    <3>3. QED
      BY <2>9, <3>1, <3>2, SavePublicFields, FilesType, KnowFields DEF SavePublic, TypeOK
  <2>10. CASE SaveFails(t)
    <3>1. PairInv'
      BY <2>10, SaveFailsFields, IdleFields, PairFrame DEF SaveFails
    <3>2. faults' \in 0..MaxFaults
      BY <2>10, BoundsAssumption DEF SaveFails, TypeOK
    <3>3. locked' \in [Servers -> BOOLEAN]
      BY <2>10 DEF SaveFails, TypeOK
    <3>4. QED
      BY <2>10, <3>1, <3>2, <3>3, SaveFailsFields, FilesType DEF SaveFails, TypeOK
  <2>11. CASE LoadPublic(t)
    <3>1. PairInv'
      BY <2>11, LoadPublicFields, PairFrame DEF LoadPublic
    <3>2. QED
      BY <2>11, <3>1, LoadPublicFields DEF LoadPublic, TypeOK
  <2>12. CASE LoadPrivate(t)
    <3>1. call'[t].pair \in Pair /\ Know(t, call'[t].pair)
      BY <2>12, LoadPrivateKnows
    <3>2. call[t].pair.public # None
      BY <2>12 DEF LoadPrivate, At, PairInv
    <3>3. call'[t].pair.public = call[t].pair.public
      BY <2>12, LoadPrivateFields
    <3>4. PairInv'
      BY <2>12, <3>1, <3>2, <3>3, LoadPrivateFields, PairFrameKnow
    <3>5. QED
      BY <2>12, <3>1, <3>4, LoadPrivateFields, KnowFields DEF LoadPrivate, TypeOK
  <2>13. CASE LoadFails(t)
    <3>1. PairInv'
      BY <2>13, LoadFailsFields, IdleFields, PairFrame DEF LoadFails
    <3>2. locked' \in [Servers -> BOOLEAN]
      BY <2>13 DEF LoadFails, TypeOK
    <3>3. QED
      BY <2>13, <3>1, <3>2, LoadFailsFields DEF LoadFails, TypeOK
  <2>14. CASE Commit(t)
    <3>1. call[t].pair.public # None
      BY <2>14 DEF Commit, At, PairInv
    <3>2. PairInv'
      BY <2>14, <3>1, CommitFields, IdleFields, PairFrame DEF Commit
    <3>3. row' \in [Months -> BOOLEAN]
      BY <2>14 DEF Commit, TypeOK
    <3>4. QED
      BY <2>14, <3>2, <3>3, CommitFields DEF Commit, TypeOK
  <2>15. CASE DuplicateRow(t)
    <3>1. PairInv'
      BY <2>15, DuplicateRowFields, IdleFields, PairFrame DEF DuplicateRow
    <3>2. QED
      BY <2>15, <3>1, DuplicateRowFields DEF DuplicateRow, TypeOK
  <2>16. CASE CommitFails(t)
    <3>1. PairInv'
      BY <2>16, CommitFailsFields, IdleFields, PairFrame DEF CommitFails
    <3>2. faults' \in 0..MaxFaults /\ accidents' \subseteq Accidents
      BY <2>16, BoundsAssumption, AccidentType DEF CommitFails, TypeOK, Call
    <3>3. QED
      BY <2>16, <3>1, <3>2, CommitFailsFields DEF CommitFails, TypeOK
  <2>17. CASE Save(t)
    <3>1. PairInv'
      BY <2>17, SaveFields, IdleFields, PairFrame DEF Save
    <3>2. QED
      BY <2>17, <3>1, SaveFields, StoredType DEF Save, TypeOK
  <2>18. CASE NextPart(t)
    <3>1. calls' \in 0..MaxCalls
      BY <2>18, BoundsAssumption DEF NextPart, TypeOK
    <3>2. PairInv'
      BY <2>18, NextPartFields, PairFrame DEF NextPart
    <3>3. QED
      BY <2>18, <3>1, <3>2, NextPartFields DEF NextPart, TypeOK
  <2>19. QED
    BY <1>2, <2>1, <2>2, <2>3, <2>4, <2>5, <2>6, <2>7, <2>8, <2>9, <2>10, <2>11, <2>12, <2>13,
       <2>14, <2>15, <2>16, <2>17, <2>18 DEF Proceed
<1>3. ASSUME NEW s \in Servers, Restart(s) PROVE TypeOK' /\ PairInv'
  <2>1. PairInv'
    <3>1. \A r \in Servers, m \in Months : known'[r][m] = NoPair \/ known'[r] = known[r]
      BY <1>3, RestartFields
    <3>2. \A t \in Threads : call'[t] = call[t] \/ call'[t].pc = "idle"
      BY <1>3, RestartFields, IdleFields
    <3>3. QED
      BY <3>1, <3>2 DEF PairInv
  <2>2. faults' \in 0..MaxFaults
    BY <1>3, BoundsAssumption DEF Restart, TypeOK
  <2>3. accidents' \subseteq Accidents
    BY <1>3, RestartFields, AccidentType DEF TypeOK
  <2>4. QED
    BY <1>3, <2>1, <2>2, <2>3, RestartFields DEF Restart, TypeOK
<1>4. CASE UNCHANGED vars
  BY <1>4 DEF vars, TypeOK, PairInv
<1>5. QED
  BY <1>1, <1>2, <1>3, <1>4 DEF Next

\* Every variable keeps its type; in particular, no registration is ever saved
\* that was encrypted without a key.
THEOREM TypeCorrect == Spec => []TypeOK
<1>1. QED
  BY InitType, TypeStep, PTL DEF Spec
-----------------------------------------------------------------------------
(* The lock. *)

InLock(t) ==
    call[t].pc \in {"find", "load_public", "load_private", "save_private", "save_public"}

\* The two records of the lock, in its variable and in the calls, agree.
LockIsHeld ==
    /\ \A s \in Servers : locked[s] <=> \E t \in Threads : ServerOf[t] = s /\ InLock(t)
    /\ \A t, u \in Threads : InLock(t) /\ InLock(u) /\ t # u => ServerOf[t] # ServerOf[u]

\* Who creates, who is in the lock, and what knownKeys says of their tags: a
\* pair looked for under the lock is not known yet, one whose insert is waiting
\* for its commit is.
LockInv ==
    /\ LockIsHeld
    /\ \A t \in Threads :
          /\ Creating(t) => call[t].pc \in {"save_private", "save_public", "commit"}
          /\ call[t].pc \in {"save_private", "save_public"} => Creating(t)
          /\ InLock(t) => KnownTo(t) = NoPair
          /\ Creating(t) /\ At(t, "commit") => KnownTo(t) # NoPair

LEMMA InitLock == Init => LockInv
<1> SUFFICES ASSUME Init PROVE LockInv
  OBVIOUS
<1>1. \A t \in Threads : call[t].pc = "idle" /\ ~call[t].creates
  BY IdleFields DEF Init
<1>2. \A s \in Servers : ~locked[s]
  BY DEF Init
<1>3. QED
  BY <1>1, <1>2 DEF LockInv, LockIsHeld, InLock, Creating, At

\* A step that neither takes nor gives back the lock.
LEMMA LockFrame ==
  ASSUME TypeOK, LockInv, NEW t \in Threads, Others(t), known' = known, locked' = locked,
         InLock(t)' <=> InLock(t),
         InLock(t) => call'[t].tag = call[t].tag,
         call'[t].creates => call'[t].pc \in {"save_private", "save_public"},
         call'[t].pc \in {"save_private", "save_public"} => call'[t].creates
  PROVE  LockInv'
BY DEF LockInv, LockIsHeld, InLock, Creating, At, KnownTo, Others

\* A failure under the lock gives it back.
LEMMA LockLeft ==
  ASSUME TypeOK, LockInv, NEW t \in Threads, Others(t), known' = known, InLock(t),
         locked' = [locked EXCEPT ![ServerOf[t]] = FALSE],
         call'[t].pc = "idle", ~call'[t].creates
  PROVE  LockInv'
<1>1. /\ ~locked'[ServerOf[t]]
      /\ \A s \in Servers \ {ServerOf[t]} : locked'[s] = locked[s]
  BY ServerOfAssumption DEF TypeOK
<1>2. \A u \in Threads \ {t} : InLock(u)' => ServerOf[u] # ServerOf[t]
  BY DEF LockInv, LockIsHeld, InLock, Others
<1>3. LockIsHeld'
  BY <1>1, <1>2, ServerOfAssumption DEF LockInv, LockIsHeld, InLock, Others
<1>4. QED
  BY <1>3 DEF LockInv, InLock, Creating, At, KnownTo, Others

\* So does a success, which makes the pair known first.
LEMMA LockKnown ==
  ASSUME TypeOK, LockInv, NEW t \in Threads, Others(t), InLock(t),
         NEW pair \in Pair, Know(t, pair), pair # NoPair,
         call'[t].pc = "commit", call'[t].tag = call[t].tag
  PROVE  LockInv'
<1>1. \A u \in Threads \ {t} : InLock(u)' => ServerOf[u] # ServerOf[t]
  BY DEF LockInv, LockIsHeld, InLock, Others
<1>2. /\ ~locked'[ServerOf[t]]
      /\ \A s \in Servers \ {ServerOf[t]} : locked'[s] = locked[s]
  BY KnowFields
<1>3. ~InLock(t)'
  BY DEF InLock
<1>4. \A s \in Servers : locked'[s] <=> \E u \in Threads : ServerOf[u] = s /\ InLock(u)'
  BY <1>1, <1>2, <1>3, ServerOfAssumption DEF LockInv, LockIsHeld, InLock, Others
<1>5. LockIsHeld'
  BY <1>1, <1>3, <1>4 DEF LockInv, LockIsHeld, InLock, Others
<1>6. \A u \in Threads \ {t} :
         /\ InLock(u)' => KnownTo(u)' = NoPair
         /\ Creating(u)' /\ At(u, "commit")' => KnownTo(u)' # NoPair
  <2> TAKE u \in Threads \ {t}
  <2>1. call'[u] = call[u] /\ call[u].tag \in Months /\ ServerOf[u] \in Servers
    BY ServerOfAssumption DEF TypeOK, Call, Others
  <2>2. CASE ServerOf[u] = ServerOf[t] /\ call[u].tag = call[t].tag
    <3>1. KnownTo(u)' = pair
      BY <2>1, <2>2, KnowFields DEF KnownTo
    <3>2. ~InLock(u)'
      BY <1>1, <2>2
    <3>3. QED
      BY <3>1, <3>2
  <2>3. CASE ~(ServerOf[u] = ServerOf[t] /\ call[u].tag = call[t].tag)
    <3>1. KnownTo(u)' = KnownTo(u)
      BY <2>1, <2>3, KnowFields DEF KnownTo
    <3>2. QED
      BY <2>1, <3>1 DEF LockInv, InLock, Creating, At
  <2>4. QED
    BY <2>2, <2>3
<1>7. KnownTo(t)' # NoPair
  BY KnowFields DEF KnownTo
<1>8. QED
  BY <1>5, <1>6, <1>7 DEF LockInv, InLock, Creating, At, Others

LEMMA LockStep == TypeOK /\ PairInv /\ LockInv /\ [Next]_vars => LockInv'
<1> SUFFICES ASSUME TypeOK, PairInv, LockInv, [Next]_vars PROVE LockInv'
  OBVIOUS
<1>1. ASSUME NEW t \in Threads, Proceed(t) PROVE LockInv'
  <2>1. CASE Encrypt(t)
    <3>1. known' = known /\ locked' = locked /\ ~InLock(t)
      BY <2>1 DEF Encrypt, At, InLock
    <3>2. ~InLock(t)'
      BY <2>1, EncryptFields DEF InLock
    <3>3. QED
      BY <2>1, <3>1, <3>2, EncryptFields, LockFrame
  <2>2. ASSUME NEW r \in stored, Decrypt(t, r) PROVE LockInv'
    <3>1. known' = known /\ locked' = locked /\ ~InLock(t)
      BY <2>2 DEF Decrypt, At, InLock
    <3>2. ~InLock(t)'
      BY <2>2, DecryptFields DEF InLock
    <3>3. QED
      BY <2>2, <3>1, <3>2, DecryptFields, LockFrame
  <2>3. CASE SetTime(t)
    <3>1. known' = known /\ locked' = locked /\ ~InLock(t) /\ ~Creating(t)
      BY <2>3 DEF SetTime, At, InLock, LockInv
    <3>2. ~InLock(t)' /\ ~call'[t].creates
      BY <2>3, <3>1, SetTimeFields DEF InLock, Creating
    <3>3. QED
      BY <2>3, <3>1, <3>2, SetTimeFields, LockFrame
  <2>4. CASE GetDate(t)
    <3>1. /\ known' = known /\ locked' = locked /\ ~InLock(t) /\ ~InLock(t)'
          /\ ~call'[t].creates /\ call'[t].pc = "enter"
      BY <2>4, GetDateFields DEF GetDate, At, InLock, LockInv, Creating
    <3>2. QED
      BY <2>4, <3>1, GetDateFields, LockFrame
  <2>5. CASE EnterLock(t)
    <3>1. ~Creating(t) /\ ~InLock(t) /\ ServerOf[t] \in Servers /\ ~locked[ServerOf[t]]
      BY <2>5, ServerOfAssumption DEF EnterLock, At, InLock, LockInv, Creating
    <3>2. known' = known
      BY <2>5 DEF EnterLock
    <3>3. CASE call'[t].pc = "commit"
      BY <2>5, <3>1, <3>2, <3>3, EnterLockFields DEF LockInv, LockIsHeld, InLock, Creating, At,
         KnownTo, Others
    <3>4. CASE call'[t].pc = "find"
      <4>1. /\ KnownTo(t) = NoPair /\ call'[t].tag = call[t].tag /\ ~call'[t].creates
            /\ locked' = [locked EXCEPT ![ServerOf[t]] = TRUE] /\ Others(t)
        BY <2>5, <3>1, <3>4, EnterLockFields DEF Creating
      <4>2. /\ locked'[ServerOf[t]]
            /\ \A s \in Servers \ {ServerOf[t]} : locked'[s] = locked[s]
        BY <3>1, <4>1 DEF TypeOK
      <4>3. \A u \in Threads : InLock(u) => ServerOf[u] # ServerOf[t]
        BY <3>1 DEF LockInv, LockIsHeld
      <4>4. LockIsHeld'
        BY <3>4, <4>1, <4>2, <4>3, ServerOfAssumption DEF LockInv, LockIsHeld, InLock, Others
      <4>5. QED
        BY <3>2, <3>4, <4>1, <4>4 DEF LockInv, InLock, Creating, At, KnownTo, Others
    <3>5. QED
      BY <2>5, <3>3, <3>4, EnterLockFields
  <2>6. CASE FindRow(t)
    <3>1. known' = known /\ locked' = locked /\ InLock(t) /\ ~Creating(t)
      BY <2>6 DEF FindRow, At, InLock, LockInv
    <3>2. InLock(t)' /\ ~call'[t].creates
      BY <2>6, <3>1, FindRowFields DEF InLock, Creating
    <3>3. QED
      BY <2>6, <3>1, <3>2, FindRowFields, LockFrame
  <2>7. CASE FindNothing(t)
    <3>1. known' = known /\ locked' = locked /\ InLock(t)
      BY <2>7 DEF FindNothing, At, InLock
    <3>2. InLock(t)'
      BY <2>7, FindNothingFields DEF InLock
    <3>3. QED
      BY <2>7, <3>1, <3>2, FindNothingFields, LockFrame
  <2>8. CASE SavePrivate(t)
    <3>1. known' = known /\ locked' = locked /\ InLock(t) /\ Creating(t)
      BY <2>8 DEF SavePrivate, At, InLock, LockInv
    <3>2. InLock(t)' /\ call'[t].creates
      BY <2>8, <3>1, SavePrivateFields DEF InLock, Creating
    <3>3. QED
      BY <2>8, <3>1, <3>2, SavePrivateFields, LockFrame
  <2>9. CASE SavePublic(t)
    <3>1. InLock(t) /\ call[t].pair # NoPair
      BY <2>9 DEF SavePublic, At, InLock, PairInv, NoPair
    <3>2. QED
      BY <2>9, <3>1, SavePublicKnows, SavePublicFields, LockKnown
  <2>10. CASE SaveFails(t)
    BY <2>10, SaveFailsFields, IdleFields, LockLeft DEF SaveFails, InLock
  <2>11. CASE LoadPublic(t)
    <3>1. known' = known /\ locked' = locked /\ InLock(t) /\ ~Creating(t)
      BY <2>11 DEF LoadPublic, At, InLock, LockInv, Creating
    <3>2. InLock(t)' /\ ~call'[t].creates
      BY <2>11, <3>1, LoadPublicFields DEF InLock, Creating
    <3>3. QED
      BY <2>11, <3>1, <3>2, LoadPublicFields, LockFrame
  <2>12. CASE LoadPrivate(t)
    <3>1. InLock(t) /\ call[t].pair.public # None
      BY <2>12 DEF LoadPrivate, At, InLock, PairInv
    <3>2. call'[t].pair # NoPair
      <4>1. call'[t].pair.public = call[t].pair.public
        BY <2>12, LoadPrivateFields
      <4>2. QED
        BY <3>1, <4>1 DEF NoPair
    <3>3. QED
      BY <2>12, <3>1, <3>2, LoadPrivateKnows, LoadPrivateFields, LockKnown
  <2>13. CASE LoadFails(t)
    BY <2>13, LoadFailsFields, IdleFields, LockLeft DEF LoadFails, At, InLock
  <2>14. CASE Commit(t)
    <3>1. known' = known /\ locked' = locked /\ ~InLock(t)
      BY <2>14 DEF Commit, At, InLock
    <3>2. ~InLock(t)'
      BY <2>14, CommitFields, IdleFields DEF InLock
    <3>3. QED
      BY <2>14, <3>1, <3>2, CommitFields, IdleFields, LockFrame
  <2>15. CASE DuplicateRow(t)
    <3>1. known' = known /\ locked' = locked /\ ~InLock(t)
      BY <2>15 DEF DuplicateRow, At, InLock
    <3>2. ~InLock(t)'
      BY <2>15, DuplicateRowFields, IdleFields DEF InLock
    <3>3. QED
      BY <2>15, <3>1, <3>2, DuplicateRowFields, IdleFields, LockFrame
  <2>16. CASE CommitFails(t)
    <3>1. known' = known /\ locked' = locked /\ ~InLock(t)
      BY <2>16 DEF CommitFails, At, InLock
    <3>2. ~InLock(t)'
      BY <2>16, CommitFailsFields, IdleFields DEF InLock
    <3>3. QED
      BY <2>16, <3>1, <3>2, CommitFailsFields, IdleFields, LockFrame
  <2>17. CASE Save(t)
    <3>1. known' = known /\ locked' = locked /\ ~InLock(t)
      BY <2>17 DEF Save, At, InLock
    <3>2. ~InLock(t)'
      BY <2>17, SaveFields, IdleFields DEF InLock
    <3>3. QED
      BY <2>17, <3>1, <3>2, SaveFields, IdleFields, LockFrame
  <2>18. CASE NextPart(t)
    <3>1. known' = known /\ locked' = locked /\ ~InLock(t)
      BY <2>18 DEF NextPart, At, InLock
    <3>2. ~InLock(t)'
      BY <2>18, NextPartFields DEF InLock
    <3>3. QED
      BY <2>18, <3>1, <3>2, NextPartFields, LockFrame
  <2>19. QED
    BY <1>1, <2>1, <2>2, <2>3, <2>4, <2>5, <2>6, <2>7, <2>8, <2>9, <2>10, <2>11, <2>12, <2>13,
       <2>14, <2>15, <2>16, <2>17, <2>18 DEF Proceed
<1>2. ASSUME NEW s \in Servers, Restart(s) PROVE LockInv'
  <2>1. \A t \in Threads : ServerOf[t] = s => call'[t].pc = "idle" /\ ~call'[t].creates
    BY <1>2, RestartFields, IdleFields
  <2>2. \A t \in Threads : ServerOf[t] # s =>
           call'[t] = call[t] /\ known'[ServerOf[t]] = known[ServerOf[t]]
    BY <1>2, RestartFields, ServerOfAssumption
  <2>3. LockIsHeld'
    <3>1. ~locked'[s] /\ \A r \in Servers \ {s} : locked'[r] = locked[r]
      BY <1>2, RestartFields
    <3>2. \A t \in Threads : InLock(t)' <=> ServerOf[t] # s /\ InLock(t)
      BY <2>1, <2>2 DEF InLock
    <3>3. QED
      BY <3>1, <3>2 DEF LockInv, LockIsHeld
  <2>4. QED
    BY <2>1, <2>2, <2>3 DEF LockInv, InLock, Creating, At, KnownTo
<1>3. CASE MonthPasses \/ UNCHANGED vars
  <2>1. call' = call /\ known' = known /\ locked' = locked
    BY <1>3 DEF MonthPasses, vars
  <2>2. QED
    BY <2>1 DEF LockInv, LockIsHeld, InLock, Creating, At, KnownTo
<1>4. QED
  BY <1>1, <1>2, <1>3 DEF Next
-----------------------------------------------------------------------------
(* Without an overlap, the row of a tag has one creator at most, and none *)
(* once it is there.                                                      *)

NoOverlap(m) == Accident("overlap", m) \notin accidents

SoleCreator ==
    /\ \A t \in Threads : Creating(t) /\ NoOverlap(call[t].tag) => ~row[call[t].tag]
    /\ \A t, u \in Threads :
          /\ Creating(t) /\ Creating(u)
          /\ call[t].tag = call[u].tag /\ NoOverlap(call[t].tag)
          => t = u

\* Accidents are never forgotten.
LEMMA AccidentsGrow == TypeOK /\ [Next]_vars => accidents \subseteq accidents'
<1> SUFFICES ASSUME TypeOK, [Next]_vars PROVE accidents \subseteq accidents'
  OBVIOUS
<1>1. ASSUME NEW t \in Threads, Proceed(t) PROVE accidents \subseteq accidents'
  BY <1>1, GetDateFields DEF Proceed, Encrypt, Decrypt, SetTime, EnterLock, FindRow, FindNothing,
     SavePrivate, SavePublic, SaveFails, LoadPublic, LoadPrivate, LoadFails, Commit,
     DuplicateRow, CommitFails, NextPart, Save
<1>2. ASSUME NEW s \in Servers, Restart(s) PROVE accidents \subseteq accidents'
  BY <1>2, RestartFields
<1>3. CASE MonthPasses \/ UNCHANGED vars
  BY <1>3 DEF MonthPasses, vars
<1>4. QED
  BY <1>1, <1>2, <1>3 DEF Next

LEMMA InitSole == Init => SoleCreator
BY IdleFields DEF Init, SoleCreator, Creating

\* A step that creates nothing and commits no row.
LEMMA SoleFrame ==
  ASSUME SoleCreator, NEW t \in Threads, Others(t), row' = row, accidents \subseteq accidents',
         call'[t].creates => call[t].creates /\ call'[t].tag = call[t].tag
  PROVE  SoleCreator'
BY DEF SoleCreator, NoOverlap, Creating, Others

LEMMA SoleStep ==
  TypeOK /\ PairInv /\ LockInv /\ SoleCreator /\ [Next]_vars => SoleCreator'
<1> SUFFICES ASSUME TypeOK, PairInv, LockInv, SoleCreator, [Next]_vars PROVE SoleCreator'
  OBVIOUS
<1>1. accidents \subseteq accidents'
  BY AccidentsGrow
<1>2. ASSUME NEW t \in Threads, Proceed(t) PROVE SoleCreator'
  <2>1. CASE Encrypt(t)
    <3>1. row' = row
      BY <2>1 DEF Encrypt
    <3>2. QED
      BY <1>1, <2>1, <3>1, EncryptFields, SoleFrame
  <2>2. ASSUME NEW r \in stored, Decrypt(t, r) PROVE SoleCreator'
    <3>1. row' = row
      BY <2>2 DEF Decrypt
    <3>2. QED
      BY <1>1, <2>2, <3>1, DecryptFields, SoleFrame
  <2>3. CASE SetTime(t)
    <3>1. row' = row /\ ~Creating(t)
      BY <2>3 DEF SetTime, At, LockInv
    <3>2. QED
      BY <1>1, <2>3, <3>1, SetTimeFields, SoleFrame DEF Creating
  <2>4. CASE GetDate(t)
    <3>1. row' = row /\ ~call'[t].creates
      BY <2>4, GetDateFields DEF GetDate, At, LockInv, Creating
    <3>2. QED
      BY <1>1, <2>4, <3>1, GetDateFields, SoleFrame
  <2>5. CASE EnterLock(t)
    <3>1. row' = row
      BY <2>5 DEF EnterLock
    <3>2. QED
      BY <1>1, <2>5, <3>1, EnterLockFields, SoleFrame
  <2>6. CASE FindRow(t)
    <3>1. row' = row
      BY <2>6 DEF FindRow
    <3>2. QED
      BY <1>1, <2>6, <3>1, FindRowFields, SoleFrame
  <2>7. CASE FindNothing(t)
    <3>1. row' = row /\ ~row[call[t].tag] /\ call'[t].tag = call[t].tag /\ Others(t)
      BY <2>7, FindNothingFields DEF FindNothing
    <3>2. ASSUME NEW u \in Threads \ {t}, Creating(u), call[u].tag = call[t].tag,
                 NoOverlap(call[t].tag)'
          PROVE  FALSE
      <4>1. ServerOf[u] = ServerOf[t]
        BY <2>7, <3>1, <3>2 DEF FindNothing, NoOverlap
      <4>2. InLock(t) /\ KnownTo(t) = NoPair
        BY <2>7 DEF FindNothing, At, InLock, LockInv
      <4>3. CASE At(u, "commit")
        BY <3>2, <4>1, <4>2, <4>3 DEF LockInv, KnownTo
      <4>4. CASE ~At(u, "commit")
        BY <3>2, <4>1, <4>2, <4>4 DEF LockInv, LockIsHeld, InLock, At
      <4>5. QED
        BY <4>3, <4>4
    <3>3. \A u \in Threads \ {t} : call'[u] = call[u]
      BY <3>1 DEF Others
    <3>4. \A m : NoOverlap(m)' => NoOverlap(m)
      BY <1>1 DEF NoOverlap
    <3>5. \A u \in Threads : Creating(u)' /\ NoOverlap(call[u].tag)' => ~row'[call'[u].tag]
      BY <3>1, <3>3, <3>4 DEF SoleCreator, Creating
    <3>6. \A u, v \in Threads :
             /\ Creating(u)' /\ Creating(v)'
             /\ call[u].tag = call[v].tag /\ NoOverlap(call[u].tag)'
             => u = v
      BY <3>1, <3>2, <3>3, <3>4 DEF SoleCreator, Creating
    <3>7. \A u \in Threads : call'[u].tag = call[u].tag
      BY <3>1, <3>3
    <3>8. QED
      BY <3>5, <3>6, <3>7 DEF SoleCreator, NoOverlap
  <2>8. CASE SavePrivate(t)
    <3>1. row' = row
      BY <2>8 DEF SavePrivate
    <3>2. QED
      BY <1>1, <2>8, <3>1, SavePrivateFields, SoleFrame
  <2>9. CASE SavePublic(t)
    <3>1. row' = row
      BY <2>9 DEF SavePublic
    <3>2. QED
      BY <1>1, <2>9, <3>1, SavePublicFields, SoleFrame
  <2>10. CASE SaveFails(t)
    <3>1. row' = row
      BY <2>10 DEF SaveFails
    <3>2. QED
      BY <1>1, <2>10, <3>1, SaveFailsFields, IdleFields, SoleFrame
  <2>11. CASE LoadPublic(t)
    <3>1. row' = row
      BY <2>11 DEF LoadPublic
    <3>2. QED
      BY <1>1, <2>11, <3>1, LoadPublicFields, SoleFrame
  <2>12. CASE LoadPrivate(t)
    <3>1. row' = row
      BY <2>12 DEF LoadPrivate
    <3>2. QED
      BY <1>1, <2>12, <3>1, LoadPrivateFields, SoleFrame
  <2>13. CASE LoadFails(t)
    <3>1. row' = row
      BY <2>13 DEF LoadFails
    <3>2. QED
      BY <1>1, <2>13, <3>1, LoadFailsFields, IdleFields, SoleFrame
  <2>14. CASE Commit(t)
    <3>1. ~call'[t].creates /\ Others(t)
      BY <2>14, CommitFields, IdleFields
    <3>2. row' = row \/ (Creating(t) /\ row' = [row EXCEPT ![call[t].tag] = TRUE])
      BY <2>14 DEF Commit
    <3>3. CASE row' = row
      BY <1>1, <3>1, <3>3, SoleFrame
    <3>4. CASE Creating(t) /\ row' = [row EXCEPT ![call[t].tag] = TRUE]
      <4>1. \A u \in Threads \ {t} : call'[u] = call[u] /\ call[u].tag \in Months
        BY <3>1 DEF Others, TypeOK, Call
      <4>2. \A m \in Months \ {call[t].tag} : row'[m] = row[m]
        BY <3>4 DEF TypeOK
      <4>3. QED
        BY <1>1, <3>1, <3>4, <4>1, <4>2 DEF SoleCreator, NoOverlap, Creating
    <3>5. QED
      BY <3>2, <3>3, <3>4
  <2>15. CASE DuplicateRow(t)
    <3>1. row' = row
      BY <2>15 DEF DuplicateRow
    <3>2. QED
      BY <1>1, <2>15, <3>1, DuplicateRowFields, IdleFields, SoleFrame
  <2>16. CASE CommitFails(t)
    <3>1. row' = row
      BY <2>16 DEF CommitFails
    <3>2. QED
      BY <1>1, <2>16, <3>1, CommitFailsFields, IdleFields, SoleFrame
  <2>17. CASE Save(t)
    <3>1. row' = row
      BY <2>17 DEF Save
    <3>2. QED
      BY <1>1, <2>17, <3>1, SaveFields, IdleFields, SoleFrame
  <2>18. CASE NextPart(t)
    <3>1. row' = row
      BY <2>18 DEF NextPart
    <3>2. QED
      BY <1>1, <2>18, <3>1, NextPartFields, SoleFrame
  <2>19. QED
    BY <1>2, <2>1, <2>2, <2>3, <2>4, <2>5, <2>6, <2>7, <2>8, <2>9, <2>10, <2>11, <2>12, <2>13,
       <2>14, <2>15, <2>16, <2>17, <2>18 DEF Proceed
<1>3. ASSUME NEW s \in Servers, Restart(s) PROVE SoleCreator'
  <2>1. \A t \in Threads : call'[t] = call[t] \/ ~call'[t].creates
    BY <1>3, RestartFields, IdleFields
  <2>2. row' = row
    BY <1>3 DEF Restart
  <2>3. QED
    BY <1>1, <2>1, <2>2 DEF SoleCreator, NoOverlap, Creating
<1>4. CASE MonthPasses \/ UNCHANGED vars
  <2>1. call' = call /\ row' = row
    BY <1>4 DEF MonthPasses, vars
  <2>2. QED
    BY <1>1, <2>1 DEF SoleCreator, NoOverlap, Creating
<1>5. QED
  BY <1>2, <1>3, <1>4 DEF Next
-----------------------------------------------------------------------------
(* The halves of a pair. *)

Halves(pair) == pair.public = pair.private

\* Without an overlap, files with a row hold a whole pair and do not change any
\* more, those of a creator hold what it has written so far.
HalvesInv ==
    /\ \A m \in Months : NoOverlap(m) /\ row[m] => Halves(files[m])
    /\ \A s \in Servers, m \in Months : NoOverlap(m) => Halves(known[s][m])
    /\ \A t \in Threads : NoOverlap(call[t].tag) =>
          /\ call[t].pc \in {"load_public", "load_private"} => row[call[t].tag]
          /\ At(t, "load_private") => call[t].pair.public = files[call[t].tag].public
          /\ Creating(t) => Halves(call[t].pair)
          /\ At(t, "save_public") => files[call[t].tag].private = call[t].pair.private
          /\ Creating(t) /\ At(t, "commit") => Halves(files[call[t].tag])

LEMMA InitHalves == Init => HalvesInv
<1> SUFFICES ASSUME Init PROVE HalvesInv
  OBVIOUS
<1>1. \A t \in Threads : call[t].pc = "idle" /\ ~call[t].creates
  BY IdleFields DEF Init
<1>2. \A m \in Months : ~row[m]
  BY DEF Init
<1>3. \A s \in Servers, m \in Months : Halves(known[s][m])
  BY DEF Init, Halves, NoPair
<1>4. QED
  BY <1>1, <1>2, <1>3 DEF HalvesInv, Creating, At

\* A step that leaves the row, the files and knownKeys alone.
LEMMA HalvesFrame ==
  ASSUME HalvesInv, NEW t \in Threads, Others(t), row' = row, files' = files, known' = known,
         accidents \subseteq accidents',
         NoOverlap(call'[t].tag) =>
            /\ call'[t].pc \in {"load_public", "load_private"} => row[call'[t].tag]
            /\ call'[t].pc = "load_private" =>
                  call'[t].pair.public = files[call'[t].tag].public
            /\ call'[t].creates => Halves(call'[t].pair)
            /\ call'[t].pc # "save_public"
            /\ ~(call'[t].creates /\ call'[t].pc = "commit")
  PROVE  HalvesInv'
BY DEF HalvesInv, NoOverlap, Halves, Creating, At, Others

\* The only creator of a tag writes its files: nobody else looks at them.
LEMMA FilesElse ==
  ASSUME TypeOK, NEW t \in Threads, SavePrivate(t) \/ SavePublic(t) \/ SaveFails(t)
  PROVE  \A m \in Months \ {call[t].tag} : files'[m] = files[m]
BY DEF SavePrivate, SavePublic, SaveFails, TypeOK

LEMMA HalvesWrite ==
  ASSUME TypeOK, LockInv, SoleCreator, HalvesInv, NEW t \in Threads, Others(t), row' = row,
         accidents' = accidents, call'[t].tag = call[t].tag \/ call'[t] = Idle,
         SavePrivate(t) \/ SavePublic(t) \/ SaveFails(t),
         \A s \in Servers, m \in Months : NoOverlap(m) => Halves(known'[s][m]),
         NoOverlap(call[t].tag) =>
            /\ call'[t].pc \notin {"load_public", "load_private"}
            /\ call'[t].creates => Halves(call'[t].pair)
            /\ call'[t].pc = "save_public" =>
                  files'[call[t].tag].private = call'[t].pair.private
            /\ call'[t].creates /\ call'[t].pc = "commit" => Halves(files'[call[t].tag])
  PROVE  HalvesInv'
<1>1. Creating(t)
  BY DEF SavePrivate, SavePublic, SaveFails, At, LockInv
<1>2. NoOverlap(call[t].tag) => ~row[call[t].tag]
  BY <1>1 DEF SoleCreator
<1>3. \A m \in Months : NoOverlap(m) /\ row'[m] => Halves(files'[m])
  BY <1>2, FilesElse DEF HalvesInv, Halves
<1>4. ASSUME NEW u \in Threads \ {t}, NoOverlap(call[u].tag)
      PROVE  /\ call'[u] = call[u]
             /\ call'[u].pc \in {"load_public", "load_private"} => row'[call'[u].tag]
             /\ call'[u].pc = "load_private" =>
                   call'[u].pair.public = files'[call'[u].tag].public
             /\ call'[u].creates => Halves(call'[u].pair)
             /\ call'[u].pc = "save_public" =>
                   files'[call'[u].tag].private = call'[u].pair.private
             /\ call'[u].creates /\ call'[u].pc = "commit" => Halves(files'[call'[u].tag])
  <2>1. call'[u] = call[u] /\ call[u].tag \in Months
    BY DEF Others, TypeOK, Call
  <2>2. CASE call[u].tag # call[t].tag
    <3>1. files'[call[u].tag] = files[call[u].tag]
      BY <2>1, <2>2, FilesElse
    <3>2. QED
      BY <1>4, <2>1, <3>1 DEF HalvesInv, Halves, Creating, At
  <2>3. CASE call[u].tag = call[t].tag
    <3>1. ~Creating(u)
      BY <1>1, <1>4, <2>3 DEF SoleCreator
    <3>2. call[u].pc \notin {"load_public", "load_private", "save_public"}
      BY <1>2, <1>4, <2>3, <3>1 DEF HalvesInv, LockInv
    <3>3. QED
      BY <2>1, <3>1, <3>2 DEF Creating
  <2>4. QED
    BY <2>2, <2>3
<1>5. \A u \in Threads \ {t} : call'[u] = call[u]
  BY DEF Others
<1>6. ASSUME NEW u \in Threads, NoOverlap(call'[u].tag)
      PROVE  /\ call'[u].pc \in {"load_public", "load_private"} => row'[call'[u].tag]
             /\ call'[u].pc = "load_private" =>
                   call'[u].pair.public = files'[call'[u].tag].public
             /\ call'[u].creates => Halves(call'[u].pair)
             /\ call'[u].pc = "save_public" =>
                   files'[call'[u].tag].private = call'[u].pair.private
             /\ call'[u].creates /\ call'[u].pc = "commit" => Halves(files'[call'[u].tag])
  <2>1. CASE u # t
    BY <1>4, <1>5, <1>6, <2>1
  <2>2. CASE u = t /\ call'[t] = Idle
    BY <2>2, IdleFields
  <2>3. CASE u = t /\ call'[t].tag = call[t].tag
    BY <1>6, <2>3
  <2>4. QED
    BY <2>1, <2>2, <2>3
<1>7. QED
  BY <1>3, <1>6 DEF HalvesInv, NoOverlap, Creating, At

LEMMA KnownHalves ==
  ASSUME TypeOK, HalvesInv, NEW t \in Threads, NEW pair \in Pair,
         Know(t, pair), NoOverlap(call[t].tag) => Halves(pair)
  PROVE  \A s \in Servers, m \in Months : NoOverlap(m) => Halves(known'[s][m])
<1> TAKE s \in Servers, m \in Months
<1>1. (known'[s][m] = pair /\ m = call[t].tag) \/ known'[s][m] = known[s][m]
  BY KnowFields
<1>2. QED
  BY <1>1 DEF HalvesInv, Halves

\* What a call that loads finds.
LEMMA LoadedHalves ==
  ASSUME TypeOK, HalvesInv, NEW t \in Threads, NoOverlap(call[t].tag), LoadPrivate(t)
  PROVE  /\ Halves(call'[t].pair) /\ row[call[t].tag]
         /\ call'[t].pair.public = files[call[t].tag].public
         /\ call'[t].pair.private = files[call[t].tag].private
<1>1. /\ row[call[t].tag] /\ call[t].tag \in Months
      /\ call[t].pair.public = files[call[t].tag].public
  BY DEF LoadPrivate, At, HalvesInv, TypeOK, Call
<1>2. /\ call'[t].pair.public = call[t].pair.public
      /\ call'[t].pair.private = files[call[t].tag].private
  BY LoadPrivateFields
<1>3. Halves(files[call[t].tag])
  BY <1>1 DEF HalvesInv
<1>4. QED
  BY <1>1, <1>2, <1>3 DEF Halves

LEMMA HalvesStep ==
  TypeOK /\ PairInv /\ LockInv /\ SoleCreator /\ HalvesInv /\ [Next]_vars => HalvesInv'
<1> SUFFICES ASSUME TypeOK, PairInv, LockInv, SoleCreator, HalvesInv, [Next]_vars
             PROVE  HalvesInv'
  OBVIOUS
<1>1. accidents \subseteq accidents'
  BY AccidentsGrow
<1>2. ASSUME NEW t \in Threads, Proceed(t) PROVE HalvesInv'
  <2>1. CASE Encrypt(t)
    <3>1. row' = row /\ files' = files /\ known' = known
      BY <2>1 DEF Encrypt
    <3>2. QED
      BY <1>1, <2>1, <3>1, EncryptFields, HalvesFrame
  <2>2. ASSUME NEW r \in stored, Decrypt(t, r) PROVE HalvesInv'
    <3>1. row' = row /\ files' = files /\ known' = known
      BY <2>2 DEF Decrypt
    <3>2. QED
      BY <1>1, <2>2, <3>1, DecryptFields, HalvesFrame
  <2>3. CASE SetTime(t)
    <3>1. row' = row /\ files' = files /\ known' = known /\ ~Creating(t)
      BY <2>3 DEF SetTime, At, LockInv
    <3>2. QED
      BY <1>1, <2>3, <3>1, SetTimeFields, HalvesFrame DEF Creating
  <2>4. CASE GetDate(t)
    <3>1. row' = row /\ files' = files /\ known' = known /\ ~call'[t].creates
      BY <2>4, GetDateFields DEF GetDate, At, LockInv, Creating
    <3>2. QED
      BY <1>1, <2>4, <3>1, GetDateFields, HalvesFrame
  <2>5. CASE EnterLock(t)
    <3>1. row' = row /\ files' = files /\ known' = known /\ ~call'[t].creates
      BY <2>5, EnterLockFields DEF EnterLock, At, LockInv, Creating
    <3>2. QED
      BY <1>1, <2>5, <3>1, EnterLockFields, HalvesFrame
  <2>6. CASE FindRow(t)
    <3>1. /\ row' = row /\ files' = files /\ known' = known
          /\ ~Creating(t) /\ row[call[t].tag]
      BY <2>6 DEF FindRow, At, LockInv
    <3>2. call'[t].pc = "load_public" /\ ~call'[t].creates /\ row[call'[t].tag]
      BY <2>6, <3>1, FindRowFields DEF Creating
    <3>3. QED
      BY <1>1, <2>6, <3>1, <3>2, FindRowFields, HalvesFrame
  <2>7. CASE FindNothing(t)
    <3>1. row' = row /\ files' = files /\ known' = known
      BY <2>7 DEF FindNothing
    <3>2. QED
      BY <1>1, <2>7, <3>1, FindNothingFields, HalvesFrame DEF Halves
  <2>8. CASE SavePrivate(t)
    <3>1. call[t].tag \in Months /\ call[t].pair \in Pair
      BY DEF TypeOK, Call
    <3>2. files'[call[t].tag].private = call[t].pair.private
      BY <2>8, <3>1 DEF SavePrivate, TypeOK, Pair
    <3>3. row' = row /\ known' = known /\ accidents' = accidents
      BY <2>8 DEF SavePrivate
    <3>4. NoOverlap(call[t].tag) => Halves(call'[t].pair) \/ ~call'[t].creates
      BY <2>8, SavePrivateFields DEF HalvesInv, Creating
    <3>5. \A s \in Servers, m \in Months : NoOverlap(m) => Halves(known'[s][m])
      BY <3>3 DEF HalvesInv
    <3>6. QED
      BY <1>1, <2>8, <3>2, <3>3, <3>4, <3>5, SavePrivateFields, HalvesWrite
  <2>9. CASE SavePublic(t)
    <3>1. call[t].tag \in Months /\ call[t].pair \in Pair /\ Creating(t)
      BY <2>9 DEF TypeOK, Call, SavePublic, At, LockInv
    <3>2. /\ files'[call[t].tag].public = call[t].pair.public
          /\ files'[call[t].tag].private = files[call[t].tag].private
      BY <2>9, <3>1 DEF SavePublic, TypeOK, Pair
    <3>3. row' = row /\ accidents' = accidents
      BY <2>9 DEF SavePublic
    <3>4. NoOverlap(call[t].tag) => Halves(call[t].pair) /\ Halves(files'[call[t].tag])
      BY <2>9, <3>1, <3>2 DEF HalvesInv, Halves, SavePublic, At
    <3>5. \A s \in Servers, m \in Months : NoOverlap(m) => Halves(known'[s][m])
      BY <2>9, <3>4, SavePublicKnows, KnownHalves
    <3>6. QED
      BY <1>1, <2>9, <3>3, <3>4, <3>5, SavePublicFields, HalvesWrite
  <2>10. CASE SaveFails(t)
    <3>1. row' = row /\ known' = known /\ accidents' = accidents
      BY <2>10 DEF SaveFails
    <3>2. \A s \in Servers, m \in Months : NoOverlap(m) => Halves(known'[s][m])
      BY <3>1 DEF HalvesInv
    <3>3. QED
      BY <1>1, <2>10, <3>1, <3>2, SaveFailsFields, IdleFields, HalvesWrite
  <2>11. CASE LoadPublic(t)
    <3>1. row' = row /\ files' = files /\ known' = known /\ ~Creating(t)
      BY <2>11 DEF LoadPublic, At, LockInv
    <3>2. NoOverlap(call[t].tag) => row[call[t].tag]
      BY <2>11 DEF LoadPublic, At, HalvesInv
    <3>3. QED
      BY <1>1, <2>11, <3>1, <3>2, LoadPublicFields, HalvesFrame DEF Creating
  <2>12. CASE LoadPrivate(t)
    <3>1. row' = row /\ files' = files /\ ~Creating(t)
      BY <2>12 DEF LoadPrivate, At, LockInv
    <3>2. \A s \in Servers, m \in Months : NoOverlap(m) => Halves(known'[s][m])
      BY <2>12, LoadPrivateKnows, LoadedHalves, KnownHalves
    <3>3. call'[t].pc = "commit" /\ ~call'[t].creates /\ Others(t)
      BY <2>12, <3>1, LoadPrivateFields DEF Creating
    <3>4. QED
      BY <1>1, <3>1, <3>2, <3>3 DEF HalvesInv, NoOverlap, Halves, Creating, At, Others
  <2>13. CASE LoadFails(t)
    <3>1. row' = row /\ files' = files /\ known' = known
      BY <2>13 DEF LoadFails
    <3>2. QED
      BY <1>1, <2>13, <3>1, LoadFailsFields, IdleFields, HalvesFrame
  <2>14. CASE Commit(t)
    <3>1. /\ Others(t) /\ ~call'[t].creates
          /\ call'[t].pc \notin {"load_public", "load_private", "save_public", "commit"}
      BY <2>14, CommitFields, IdleFields
    <3>2. files' = files /\ known' = known
      BY <2>14 DEF Commit
    <3>3. CASE row' = row
      BY <1>1, <3>1, <3>2, <3>3, HalvesFrame
    <3>4. CASE row' # row
      <4>1. Creating(t) /\ row' = [row EXCEPT ![call[t].tag] = TRUE] /\ At(t, "commit")
        BY <2>14, <3>4 DEF Commit
      <4>2. /\ \A m \in Months : row'[m] => row[m] \/ m = call[t].tag
            /\ \A m \in Months : row[m] => row'[m]
        BY <4>1 DEF TypeOK
      <4>3. NoOverlap(call[t].tag) => Halves(files[call[t].tag])
        BY <4>1 DEF HalvesInv
      <4>4. \A u \in Threads : call[u].tag \in Months
        BY DEF TypeOK, Call
      <4>5. QED
        BY <1>1, <3>1, <3>2, <4>2, <4>3, <4>4 DEF HalvesInv, NoOverlap, Halves, Creating, At, Others
    <3>5. QED
      BY <3>3, <3>4
  <2>15. CASE DuplicateRow(t)
    <3>1. row' = row /\ files' = files /\ known' = known
      BY <2>15 DEF DuplicateRow
    <3>2. QED
      BY <1>1, <2>15, <3>1, DuplicateRowFields, IdleFields, HalvesFrame
  <2>16. CASE CommitFails(t)
    <3>1. row' = row /\ files' = files /\ known' = known
      BY <2>16 DEF CommitFails
    <3>2. QED
      BY <1>1, <2>16, <3>1, CommitFailsFields, IdleFields, HalvesFrame
  <2>17. CASE Save(t)
    <3>1. row' = row /\ files' = files /\ known' = known
      BY <2>17 DEF Save
    <3>2. QED
      BY <1>1, <2>17, <3>1, SaveFields, IdleFields, HalvesFrame
  <2>18. CASE NextPart(t)
    <3>1. row' = row /\ files' = files /\ known' = known
      BY <2>18 DEF NextPart
    <3>2. QED
      BY <1>1, <2>18, <3>1, NextPartFields, HalvesFrame
  <2>19. QED
    BY <1>2, <2>1, <2>2, <2>3, <2>4, <2>5, <2>6, <2>7, <2>8, <2>9, <2>10, <2>11, <2>12, <2>13,
       <2>14, <2>15, <2>16, <2>17, <2>18 DEF Proceed
<1>3. ASSUME NEW s \in Servers, Restart(s) PROVE HalvesInv'
  <2>1. \A t \in Threads : call'[t] = call[t] \/ (call'[t].pc = "idle" /\ ~call'[t].creates)
    BY <1>3, RestartFields, IdleFields
  <2>2. row' = row /\ files' = files
    BY <1>3 DEF Restart
  <2>3. \A r \in Servers, m \in Months : known'[r][m] = NoPair \/ known'[r][m] = known[r][m]
    BY <1>3, RestartFields
  <2>4. Halves(NoPair)
    BY DEF Halves, NoPair
  <2>5. QED
    BY <1>1, <2>1, <2>2, <2>3, <2>4 DEF HalvesInv, NoOverlap, Creating, At
<1>4. CASE MonthPasses \/ UNCHANGED vars
  <2>1. call' = call /\ row' = row /\ files' = files /\ known' = known
    BY <1>4 DEF MonthPasses, vars
  <2>2. QED
    BY <1>1, <2>1 DEF HalvesInv, NoOverlap, Halves, Creating, At
<1>5. QED
  BY <1>2, <1>3, <1>4 DEF Next

\* The halves of every pair in use belong together, whatever else fails, unless
\* two servers made a pair of that month at once.
THEOREM HalvesBelongTogether == Spec => []HalvesMatch
<1>1. HalvesInv => HalvesMatch
  BY DEF HalvesInv, HalvesMatch, NoOverlap, Halves
<1>2. QED
  BY <1>1, InitType, TypeStep, InitLock, LockStep, InitSole, SoleStep, InitHalves, HalvesStep,
     PTL DEF Spec
-----------------------------------------------------------------------------
(* What an accident leaves alone. *)

LEMMA UnharmedMonth ==
  ASSUME NEW m \in Months, Unharmed(m)
  PROVE  NoOverlap(m)
BY AccidentType DEF Unharmed, NoOverlap

LEMMA UnharmedBefore ==
  ASSUME TypeOK, [Next]_vars, NEW m \in Months, Unharmed(m)'
  PROVE  Unharmed(m)
BY AccidentsGrow DEF Unharmed

\* A call that will insert the row of a month, having written its files.
Seals(t, m) == Creating(t) /\ At(t, "commit") /\ call[t].tag = m

LEMMA SealSame ==
  ASSUME NEW t \in Threads, Others(t), NEW m \in Months, row'[m] = row[m],
         ~Seals(t, m), ~Seals(t, m)'
  PROVE  Sealed(m)' <=> Sealed(m)
<1>1. Sealed(m) <=> row[m] \/ \E u \in Threads \ {t} : Seals(u, m)
  BY DEF Sealed, Seals
<1>2. Sealed(m)' <=> row'[m] \/ \E u \in Threads \ {t} : Seals(u, m)'
  BY DEF Sealed, Seals
<1>3. \A u \in Threads \ {t} : Seals(u, m)' <=> Seals(u, m)
  BY DEF Others, Seals, Creating, At
<1>4. QED
  BY <1>1, <1>2, <1>3

\* While the only creator of a pair writes its files, nothing refers to its month.
LEMMA Unsealed ==
  ASSUME SoleCreator, LockInv, NEW t \in Threads, NoOverlap(call[t].tag),
         call[t].pc \in {"save_private", "save_public"}
  PROVE  ~Sealed(call[t].tag)
<1>1. Creating(t) /\ ~At(t, "commit")
  BY DEF LockInv, At
<1>2. QED
  BY <1>1 DEF Sealed, SoleCreator

\* The steps of a call that touch neither the row nor the files.
Quiet(t) ==
    \/ Encrypt(t) \/ (\E r \in stored : Decrypt(t, r)) \/ SetTime(t) \/ GetDate(t)
    \/ EnterLock(t) \/ FindRow(t) \/ FindNothing(t)
    \/ LoadPublic(t) \/ LoadPrivate(t) \/ LoadFails(t)
    \/ NextPart(t) \/ Save(t)

QuietEffect(t) ==
    /\ UNCHANGED <<row, files>> /\ Others(t) /\ ~At(t, "commit")
    /\ ~(call'[t].creates /\ call'[t].pc = "commit")
    /\ ~Save(t) => stored' = stored

LEMMA QuietFields ==
  ASSUME TypeOK, PairInv, LockInv, NEW t \in Threads, Quiet(t)
  PROVE  QuietEffect(t)
<1> USE DEF QuietEffect
<1>1. Creating(t) => call[t].pc \in {"save_private", "save_public", "commit"}
  BY DEF LockInv
<1>2. CASE Encrypt(t)
  BY <1>2, EncryptFields DEF Encrypt, At
<1>3. ASSUME NEW r \in stored, Decrypt(t, r) PROVE QuietEffect(t)
  BY <1>3, DecryptFields DEF Decrypt, At
<1>4. CASE SetTime(t)
  BY <1>4, SetTimeFields DEF SetTime, At
<1>5. CASE GetDate(t)
  BY <1>5, GetDateFields DEF GetDate, At
<1>6. CASE EnterLock(t)
  BY <1>1, <1>6, EnterLockFields DEF EnterLock, At, Creating
<1>7. CASE FindRow(t)
  BY <1>7, FindRowFields DEF FindRow, At
<1>8. CASE FindNothing(t)
  BY <1>8, FindNothingFields DEF FindNothing, At
<1>9. CASE LoadPublic(t)
  BY <1>9, LoadPublicFields DEF LoadPublic, At
<1>10. CASE LoadPrivate(t)
  BY <1>1, <1>10, LoadPrivateFields DEF LoadPrivate, At, Creating
<1>11. CASE LoadFails(t)
  BY <1>11, LoadFailsFields, IdleFields DEF LoadFails, At
<1>12. CASE NextPart(t)
  BY <1>12, NextPartFields DEF NextPart, At
<1>13. CASE Save(t)
  BY <1>13, SaveFields, IdleFields DEF Save, At
<1>14. QED
  BY <1>2, <1>3, <1>4, <1>5, <1>6, <1>7, <1>8, <1>9, <1>10, <1>11, <1>12, <1>13 DEF Quiet

\* A settled month stays settled, with its files, unless an accident happens to
\* it, and only the call that writes its public file settles a month.
Keeps(m) ==
    /\ Sealed(m) => Sealed(m)' /\ files'[m] = files[m]
    /\ Sealed(m)' => Sealed(m) \/ \E t \in Threads : SavePublic(t) /\ call[t].tag = m

LEMMA SealStep ==
  ASSUME TypeOK, PairInv, LockInv, SoleCreator, [Next]_vars, NEW m \in Months, Unharmed(m)'
  PROVE  Keeps(m)
<1>1. Unharmed(m) /\ NoOverlap(m)
  BY UnharmedBefore, UnharmedMonth
<1>2. ASSUME NEW t \in Threads, Proceed(t) PROVE Keeps(m)
  <2>1. ASSUME Others(t), row'[m] = row[m], ~Seals(t, m), ~Seals(t, m)',
               Sealed(m) => files'[m] = files[m]
        PROVE  Keeps(m)
    BY <2>1, SealSame DEF Keeps
  <2>2. CASE Quiet(t)
    <3>1. row' = row /\ files' = files /\ Others(t) /\ ~Seals(t, m) /\ ~Seals(t, m)'
      BY <2>2, QuietFields DEF QuietEffect, Seals, Creating, At
    <3>2. QED
      BY <2>1, <3>1
  <2>3. CASE SavePrivate(t) \/ SavePublic(t) \/ SaveFails(t)
    <3>1. /\ UNCHANGED row /\ Others(t) /\ call[t].pc \in {"save_private", "save_public"}
          /\ ~SavePublic(t) => call'[t].pc # "commit"
          /\ SavePublic(t) => call'[t].tag = call[t].tag
      BY <2>3, SavePrivateFields, SavePublicFields, SaveFailsFields, IdleFields
         DEF SavePrivate, SavePublic, SaveFails, At
    <3>2. ~Seals(t, m)
      BY <3>1 DEF Seals, At
    <3>3. Sealed(m) => call[t].tag # m
      BY <1>1, <3>1, Unsealed
    <3>4. Sealed(m) => files'[m] = files[m]
      BY <2>3, <3>3, FilesElse
    <3>5. CASE SavePublic(t) /\ call[t].tag = m
      BY <3>3, <3>5 DEF Keeps
    <3>6. CASE ~(SavePublic(t) /\ call[t].tag = m)
      <4>1. ~Seals(t, m)'
        BY <3>1, <3>6 DEF Seals, At
      <4>2. QED
        BY <2>1, <3>1, <3>2, <3>4, <4>1
    <3>7. QED
      BY <3>5, <3>6
  <2>4. CASE Commit(t)
    <3>1. /\ UNCHANGED files /\ At(t, "commit") /\ Others(t)
          /\ call[t].tag \in Months /\ ~call'[t].creates
      BY <2>4, CommitFields, IdleFields DEF Commit, TypeOK, Call
    <3>2. row'[m] <=> row[m] \/ (Creating(t) /\ m = call[t].tag)
      BY <2>4, <3>1 DEF Commit, TypeOK
    <3>3. Sealed(m) <=> row[m] \/ Seals(t, m) \/ \E u \in Threads \ {t} : Seals(u, m)
      BY DEF Sealed, Seals
    <3>4. Sealed(m)' <=> row'[m] \/ Seals(t, m)' \/ \E u \in Threads \ {t} : Seals(u, m)'
      BY DEF Sealed, Seals
    <3>5. \A u \in Threads \ {t} : Seals(u, m)' <=> Seals(u, m)
      BY <3>1 DEF Others, Seals, Creating, At
    <3>6. ~Seals(t, m)' /\ (Seals(t, m) <=> Creating(t) /\ m = call[t].tag)
      BY <3>1 DEF Seals, Creating
    <3>7. QED
      BY <3>1, <3>2, <3>3, <3>4, <3>5, <3>6 DEF Keeps
  <2>5. CASE DuplicateRow(t)
    <3>1. call[t].tag # m
      BY <1>1, <2>5 DEF DuplicateRow, SoleCreator
    <3>2. UNCHANGED <<row, files>> /\ Others(t) /\ ~call'[t].creates
      BY <2>5, DuplicateRowFields, IdleFields DEF DuplicateRow
    <3>3. QED
      BY <2>1, <3>1, <3>2 DEF Seals, Creating
  <2>6. CASE CommitFails(t)
    <3>1. Accident("commit", call[t].tag).month = call[t].tag
      BY AccidentType DEF TypeOK, Call
    <3>2. call[t].tag # m
      BY <2>6, <3>1 DEF CommitFails, Unharmed
    <3>3. UNCHANGED <<row, files>> /\ Others(t) /\ ~call'[t].creates
      BY <2>6, CommitFailsFields, IdleFields DEF CommitFails
    <3>4. QED
      BY <2>1, <3>2, <3>3 DEF Seals, Creating
  <2>7. QED
    BY <1>2, <2>2, <2>3, <2>4, <2>5, <2>6 DEF Proceed, Quiet
<1>3. ASSUME NEW s \in Servers, Restart(s) PROVE Keeps(m)
  <2>1. /\ UNCHANGED <<row, files>>
        /\ \A t \in Threads : call'[t] = IF ServerOf[t] = s THEN Idle ELSE call[t]
        /\ known[s][m] # NoPair => row[m] \/ Accident("crash", m) \in accidents'
    BY <1>3, RestartFields DEF Restart
  <2>2. Accident("crash", m) \notin accidents'
    BY AccidentType DEF Unharmed
  <2>3. CASE row[m]
    BY <2>1, <2>3 DEF Keeps, Sealed
  <2>4. CASE ~row[m]
    <3>1. \A t \in Threads : Seals(t, m) => call'[t] = call[t]
      BY <2>1, <2>2, <2>4 DEF LockInv, KnownTo, Seals
    <3>2. \A t \in Threads : call'[t].creates => call'[t] = call[t]
      BY <2>1, IdleFields
    <3>3. Sealed(m)' <=> Sealed(m)
      BY <2>1, <3>1, <3>2 DEF Sealed, Seals, Creating, At
    <3>4. QED
      BY <2>1, <3>3 DEF Keeps
  <2>5. QED
    BY <2>3, <2>4
<1>4. CASE MonthPasses \/ UNCHANGED vars
  <2>1. UNCHANGED <<row, files, call>>
    BY <1>4 DEF MonthPasses, vars
  <2>2. QED
    BY <2>1 DEF Keeps, Sealed, Creating, At
<1>5. QED
  BY <1>2, <1>3, <1>4 DEF Next
-----------------------------------------------------------------------------
(* What is stored can be read. *)

\* A call to encrypt uses the month of its registration,
RightDate(t) ==
    call[t].pc \notin {"idle", "time", "get"} /\ call[t].data = None /\ Unharmed(call[t].month)
        => call[t].tag = call[t].month

\* the pair that a call came out with is the one of its month,
RightPair(t) ==
    call[t].pc \in {"commit", "save"} /\ Unharmed(call[t].tag)
        => /\ call[t].pair = files[call[t].tag] /\ Sealed(call[t].tag)
           /\ Halves(call[t].pair)

\* and so is the one of the parts it has encrypted, or is to decrypt.
RightParts(t) ==
    /\ At(t, "save") => call[t].data = None
    /\ call[t].data # None => [month |-> call[t].month, key |-> call[t].data] \in stored
    /\ Unharmed(call[t].month) => \A k \in call[t].made :
          files[call[t].month] = [public |-> k, private |-> k] /\ Sealed(call[t].month)

CallFits(t) == RightDate(t) /\ RightPair(t) /\ RightParts(t)

\* The pair of an unharmed month that the database, knownKeys or a call refers to
\* is the one in the files, and settled.
DataInv ==
    /\ \A r \in stored : Unharmed(r.month) =>
          files[r.month] = [public |-> r.key, private |-> r.key] /\ Sealed(r.month)
    /\ \A s \in Servers, m \in Months :
          Unharmed(m) /\ known[s][m] # NoPair => known[s][m] = files[m] /\ Sealed(m)
    /\ \A t \in Threads : CallFits(t)

LEMMA IdleFits ==
  ASSUME NEW t \in Threads, call[t] = Idle
  PROVE  CallFits(t)
BY IdleFields DEF CallFits, RightDate, RightPair, RightParts, At

LEMMA InitData == Init => DataInv
<1> SUFFICES ASSUME Init PROVE DataInv
  OBVIOUS
<1>1. \A t \in Threads : CallFits(t)
  BY IdleFits DEF Init
<1>2. stored = {} /\ \A s \in Servers, m \in Months : known[s][m] = NoPair
  BY DEF Init
<1>3. QED
  BY <1>1, <1>2 DEF DataInv

\* A step harms some months and keeps all others.
KeepsUnharmed == \A m \in Months : Unharmed(m)' => Unharmed(m) /\ Keeps(m)

\* A call goes on with the same registration.
LEMMA CallGoesOn ==
  ASSUME TypeOK, NEW t \in Threads, CallFits(t), KeepsUnharmed, stored \subseteq stored',
         call'[t].month = call[t].month, call'[t].data = call[t].data,
         call'[t].made = call[t].made, RightDate(t)', RightPair(t)',
         call'[t].pc = "save" => call[t].data = None
  PROVE  CallFits(t)'
<1> PICK m \in Months : m = call[t].month
  BY DEF TypeOK, Call
<1>1. Unharmed(m)' => \A k \in call[t].made :
         files'[m] = [public |-> k, private |-> k] /\ Sealed(m)'
  BY DEF CallFits, RightParts, KeepsUnharmed, Keeps
<1>2. Unharmed(call[t].month)' => \A k \in call'[t].made :
         files'[call'[t].month] = [public |-> k, private |-> k] /\ Sealed(call[t].month)'
  BY <1>1
<1>3. RightParts(t)'
  BY <1>2 DEF CallFits, RightParts, At
<1>4. QED
  BY <1>3 DEF CallFits

\* A call waits.
LEMMA CallWaits ==
  ASSUME TypeOK, NEW t \in Threads, CallFits(t), KeepsUnharmed, stored \subseteq stored',
         call'[t] = call[t]
  PROVE  CallFits(t)'
<1> PICK m \in Months : m = call[t].month
  BY DEF TypeOK, Call
<1> PICK n \in Months : n = call[t].tag
  BY DEF TypeOK, Call
<1>1. RightDate(t)'
  <2>1. Unharmed(m)' => Unharmed(m)
    BY DEF KeepsUnharmed
  <2>2. Unharmed(call[t].month)' => Unharmed(call[t].month)
    BY <2>1
  <2>3. QED
    BY <2>2 DEF CallFits, RightDate
<1>2. RightPair(t)'
  <2>1. Unharmed(n)' => Unharmed(n) /\ (Sealed(n) => Sealed(n)' /\ files'[n] = files[n])
    BY DEF KeepsUnharmed, Keeps
  <2>2. call[t].pc \in {"commit", "save"} /\ Unharmed(n)' =>
           call[t].pair = files'[n] /\ Sealed(n)' /\ Halves(call[t].pair)
    BY <2>1 DEF CallFits, RightPair
  <2>3. QED
    BY <2>2 DEF RightPair, Halves
<1>3. call[t].pc = "save" => call[t].data = None
  BY DEF CallFits, RightParts, At
<1>4. /\ call'[t].month = call[t].month /\ call'[t].data = call[t].data
      /\ call'[t].made = call[t].made /\ call'[t].pc = call[t].pc
  OBVIOUS
<1>5. QED
  BY <1>1, <1>2, <1>3, <1>4, CallGoesOn

LEMMA DataFrame ==
  ASSUME TypeOK, TypeOK', DataInv, KeepsUnharmed, NEW t \in Threads, Others(t), CallFits(t)',
         stored \subseteq stored',
         \A r \in stored' \ stored : Unharmed(r.month)' =>
            files'[r.month] = [public |-> r.key, private |-> r.key] /\ Sealed(r.month)',
         \A s \in Servers, m \in Months : Unharmed(m)' =>
            known'[s][m] = known[s][m] \/ (known'[s][m] = files'[m] /\ Sealed(m)')
  PROVE  DataInv'
<1>1. \A r \in stored' : Unharmed(r.month)' =>
         files'[r.month] = [public |-> r.key, private |-> r.key] /\ Sealed(r.month)'
  <2> SUFFICES ASSUME NEW r \in stored, NEW m \in Months, m = r.month, Unharmed(m)'
               PROVE  files'[m] = [public |-> r.key, private |-> r.key] /\ Sealed(m)'
    BY DEF TypeOK
  <2>1. QED
    BY DEF DataInv, KeepsUnharmed, Keeps
<1>2. \A s \in Servers, m \in Months :
         Unharmed(m)' /\ known'[s][m] # NoPair => known'[s][m] = files'[m] /\ Sealed(m)'
  BY DEF DataInv, KeepsUnharmed, Keeps
<1>3. \A u \in Threads : CallFits(u)'
  BY CallWaits DEF DataInv, Others
<1>4. QED
  BY <1>1, <1>2, <1>3 DEF DataInv

LEMMA DataStep ==
  TypeOK /\ PairInv /\ LockInv /\ SoleCreator /\ HalvesInv /\ DataInv /\ [Next]_vars
    => DataInv'
<1> SUFFICES ASSUME TypeOK, PairInv, LockInv, SoleCreator, HalvesInv, DataInv, [Next]_vars
             PROVE  DataInv'
  OBVIOUS
<1>1. KeepsUnharmed
  BY SealStep, UnharmedBefore DEF KeepsUnharmed
<1>2. TypeOK'
  BY TypeStep
<1>3. ASSUME NEW t \in Threads, Proceed(t) PROVE DataInv'
  <2> DEFINE c == call[t]
             d == call'[t]
  <2>1. c.tag \in Months /\ c.month \in Months /\ CallFits(t)
    BY DEF TypeOK, Call, DataInv
  <2>2. \A m \in Months : Unharmed(m)' => Unharmed(m)
    BY <1>1 DEF KeepsUnharmed
  <2>3. ASSUME Others(t), stored' = stored, known' = known, CallFits(t)' PROVE DataInv'
    BY <1>1, <1>2, <2>3, DataFrame
  <2>4. ASSUME stored' = stored, d.month = c.month, d.data = c.data, d.made = c.made,
               RightDate(t)', RightPair(t)', d.pc # "save"
        PROVE  CallFits(t)'
    BY <1>1, <2>1, <2>4, CallGoesOn
  <2>5. ASSUME stored' = stored, d.month = c.month, d.data = c.data, d.made = c.made,
               c.pc \notin {"idle", "time", "get"}, d.tag = c.tag,
               RightPair(t)', d.pc # "save"
        PROVE  CallFits(t)'
    <3>1. Unharmed(call[t].month)' => Unharmed(call[t].month)
      BY <2>1, <2>2, <2>5
    <3>2. RightDate(t)'
      BY <2>1, <2>5, <3>1 DEF CallFits, RightDate
    <3>3. QED
      BY <2>4, <2>5, <3>2
  <2>6. ASSUME d.pc \notin {"commit", "save"} PROVE RightPair(t)'
    BY <2>6 DEF RightPair
  <2>7. ASSUME Others(t), call'[t] = Idle, stored' = stored, known' = known PROVE DataInv'
    <3>1. CallFits(t)'
      BY <2>7, IdleFields DEF CallFits, RightDate, RightPair, RightParts, At
    <3>2. QED
      BY <2>3, <2>7, <3>1
  <2>8. CASE Encrypt(t)
    <3>1. CallFits(t)'
      BY <2>8, EncryptFields DEF CallFits, RightDate, RightPair, RightParts, At
    <3>2. QED
      BY <2>3, <2>8, <3>1, EncryptFields DEF Encrypt
  <2>9. ASSUME NEW r \in stored, Decrypt(t, r) PROVE DataInv'
    <3>1. [month |-> r.month, key |-> r.key] = r
      BY DEF TypeOK
    <3>2. stored' = stored /\ known' = known
      BY <2>9 DEF Decrypt
    <3>3. CallFits(t)'
      BY <2>9, <3>1, <3>2, DecryptFields DEF CallFits, RightDate, RightPair, RightParts, At
    <3>4. QED
      BY <2>3, <2>9, <3>2, <3>3, DecryptFields
  <2>10. CASE SetTime(t)
    <3>1. stored' = stored /\ known' = known
      BY <2>10 DEF SetTime
    <3>2. RightDate(t)' /\ RightPair(t)'
      BY <2>10, SetTimeFields DEF RightDate, RightPair
    <3>3. QED
      BY <2>3, <2>4, <2>10, <3>1, <3>2, SetTimeFields
  <2>11. CASE GetDate(t)
    <3>1. stored' = stored /\ known' = known
      BY <2>11 DEF GetDate
    <3>2. Accident("calendar", c.month).month = c.month
      BY <2>1, AccidentType
    <3>3. Unharmed(call[t].month)' /\ c.data = None => d.tag = c.month
      BY <2>11, <3>2, GetDateFields DEF Unharmed
    <3>4. RightDate(t)' /\ RightPair(t)'
      BY <2>11, <3>3, GetDateFields DEF RightDate, RightPair
    <3>5. QED
      BY <2>3, <2>4, <2>11, <3>1, <3>4, GetDateFields
  <2>12. CASE EnterLock(t)
    <3>1. UNCHANGED <<files, known, stored>> /\ c.pc = "enter"
      BY <2>12 DEF EnterLock, At
    <3>2. PICK n \in Months : n = c.tag
      BY <2>1
    <3>3. Unharmed(n)' /\ KnownTo(t) # NoPair =>
             KnownTo(t) = files'[n] /\ Sealed(n)' /\ Halves(KnownTo(t))
      <4> SUFFICES ASSUME Unharmed(n)', KnownTo(t) # NoPair
                   PROVE  KnownTo(t) = files'[n] /\ Sealed(n)' /\ Halves(KnownTo(t))
        OBVIOUS
      <4>1. Unharmed(n) /\ NoOverlap(n) /\ (Sealed(n) => Sealed(n)')
        BY <1>1, UnharmedMonth DEF KeepsUnharmed, Keeps
      <4>2. KnownTo(t) = files[n] /\ Sealed(n) /\ Halves(KnownTo(t))
        BY <3>2, <4>1, ServerOfAssumption DEF DataInv, HalvesInv, KnownTo
      <4>3. QED
        BY <3>1, <4>1, <4>2
    <3>4. RightPair(t)'
      BY <2>12, <3>2, <3>3, EnterLockFields DEF RightPair, Halves
    <3>5. QED
      BY <2>3, <2>5, <2>12, <3>1, <3>4, EnterLockFields
  <2>13. CASE FindRow(t)
    <3>1. stored' = stored /\ known' = known /\ c.pc = "find"
      BY <2>13 DEF FindRow, At
    <3>2. QED
      BY <2>3, <2>5, <2>6, <2>13, <3>1, FindRowFields
  <2>14. CASE FindNothing(t)
    <3>1. stored' = stored /\ known' = known /\ c.pc = "find"
      BY <2>14 DEF FindNothing, At
    <3>2. QED
      BY <2>3, <2>5, <2>6, <2>14, <3>1, FindNothingFields
  <2>15. CASE SavePrivate(t)
    <3>1. stored' = stored /\ known' = known /\ c.pc = "save_private"
      BY <2>15 DEF SavePrivate, At
    <3>2. QED
      BY <2>3, <2>5, <2>6, <2>15, <3>1, SavePrivateFields
  <2>16. CASE SavePublic(t)
    <3>1. UNCHANGED <<row, stored>> /\ c.pc = "save_public" /\ Creating(t) /\ c.pair \in Pair
      BY <2>16 DEF SavePublic, At, TypeOK, Call, LockInv
    <3>2. PICK n \in Months : n = c.tag
      BY <2>1
    <3>3. /\ d.pc = "commit" /\ d.creates /\ d.tag = c.tag /\ d.pair = c.pair
          /\ d.month = c.month /\ d.data = c.data /\ d.made = c.made /\ Others(t)
      BY <2>16, <3>1, SavePublicFields DEF Creating
    <3>4. Sealed(n)'
      BY <3>2, <3>3 DEF Sealed, Creating, At
    <3>5. Unharmed(n)' => files'[n] = c.pair /\ Halves(c.pair)
      <4>1. /\ files'[n] \in Pair /\ files'[n].public = c.pair.public
            /\ files'[n].private = files[n].private
        BY <2>16, <3>1, <3>2, FilesType DEF SavePublic, TypeOK, Pair
      <4>2. Unharmed(n)' => NoOverlap(n)
        BY <2>2, UnharmedMonth
      <4>3. NoOverlap(n) => files[n].private = c.pair.private /\ Halves(c.pair)
        BY <3>1, <3>2 DEF HalvesInv, At
      <4>4. QED
        BY <3>1, <4>1, <4>2, <4>3 DEF Pair
    <3>6. RightPair(t)'
      BY <3>2, <3>3, <3>4, <3>5 DEF RightPair, Halves
    <3>7. CallFits(t)'
      BY <2>5, <3>1, <3>3, <3>6
    <3>8. \A s \in Servers, m \in Months :
             known'[s][m] = known[s][m] \/ (known'[s][m] = c.pair /\ m = n)
      BY <2>16, <3>2, SavePublicKnows, KnowFields
    <3>9. QED
      BY <1>1, <1>2, <3>1, <3>3, <3>4, <3>5, <3>7, <3>8, DataFrame
  <2>17. CASE SaveFails(t)
    BY <2>7, <2>17, SaveFailsFields DEF SaveFails
  <2>18. CASE LoadPublic(t)
    <3>1. stored' = stored /\ known' = known /\ c.pc = "load_public"
      BY <2>18 DEF LoadPublic, At
    <3>2. QED
      BY <2>3, <2>5, <2>6, <2>18, <3>1, LoadPublicFields
  <2>19. CASE LoadPrivate(t)
    <3>1. UNCHANGED <<row, files, stored>> /\ c.pc = "load_private"
      BY <2>19 DEF LoadPrivate, At
    <3>2. PICK n \in Months : n = c.tag
      BY <2>1
    <3>3. /\ d.pc = "commit" /\ d.tag = c.tag
          /\ d.month = c.month /\ d.data = c.data /\ d.made = c.made /\ Others(t)
      BY <2>19, LoadPrivateFields
    <3>4. Unharmed(n)' => d.pair = files'[n] /\ Sealed(n)' /\ Halves(d.pair)
      <4> SUFFICES ASSUME NoOverlap(n)
                   PROVE  d.pair = files'[n] /\ Sealed(n)' /\ Halves(d.pair)
        BY <2>2, UnharmedMonth
      <4>1. d.pair \in Pair /\ files[n] \in Pair
        BY <2>19, <3>1, LoadPrivateKnows DEF TypeOK
      <4>2. /\ Halves(d.pair) /\ row[n] /\ d.pair.public = files[n].public
            /\ d.pair.private = files[n].private
        BY <2>19, <3>2, LoadedHalves
      <4>3. Sealed(n)'
        BY <3>1, <4>2 DEF Sealed
      <4>4. QED
        BY <3>1, <4>1, <4>2, <4>3 DEF Pair
    <3>5. RightPair(t)'
      BY <3>2, <3>3, <3>4 DEF RightPair, Halves
    <3>6. CallFits(t)'
      BY <2>5, <3>1, <3>3, <3>5
    <3>7. \A s \in Servers, m \in Months :
             known'[s][m] = known[s][m] \/ (known'[s][m] = d.pair /\ m = n)
      BY <2>19, <3>2, LoadPrivateKnows, KnowFields
    <3>8. QED
      BY <1>1, <1>2, <3>1, <3>3, <3>4, <3>6, <3>7, DataFrame
  <2>20. CASE LoadFails(t)
    BY <2>7, <2>20, LoadFailsFields DEF LoadFails
  <2>21. CASE Commit(t)
    <3>1. UNCHANGED <<files, known, stored>> /\ c.pc = "commit"
      BY <2>21 DEF Commit, At
    <3>2. CASE c.data # None
      BY <2>7, <2>21, <3>1, <3>2, CommitFields
    <3>3. CASE c.data = None
      <4>1. /\ d.pc = "save" /\ d.month = c.month /\ d.tag = c.tag /\ d.data = c.data
            /\ d.pair = c.pair /\ d.made = c.made /\ Others(t)
        BY <2>21, <3>3, CommitFields
      <4>2. PICK n \in Months : n = c.tag
        BY <2>1
      <4>3. Unharmed(n)' => c.pair = files'[n] /\ Sealed(n)' /\ Halves(c.pair)
        BY <1>1, <2>1, <3>1, <4>2 DEF KeepsUnharmed, Keeps, CallFits, RightPair
      <4>4. RightPair(t)'
        BY <4>1, <4>2, <4>3 DEF RightPair, Halves
      <4>5. Unharmed(call[t].month)' => Unharmed(call[t].month)
        BY <2>1, <2>2, <4>1
      <4>6. RightDate(t)'
        BY <2>1, <3>1, <4>1, <4>5 DEF CallFits, RightDate
      <4>7. CallFits(t)'
        BY <1>1, <2>1, <3>1, <3>3, <4>1, <4>4, <4>6, CallGoesOn
      <4>8. QED
        BY <2>3, <3>1, <4>1, <4>7
    <3>4. QED
      BY <3>2, <3>3
  <2>22. CASE DuplicateRow(t)
    BY <2>7, <2>22, DuplicateRowFields DEF DuplicateRow
  <2>23. CASE CommitFails(t)
    <3>1. stored' = stored /\ known' = known
      BY <2>23 DEF CommitFails
    <3>2. CASE d = Idle
      BY <2>7, <2>23, <3>1, <3>2, CommitFailsFields
    <3>3. CASE d # Idle
      <4>1. /\ d.pc = "time" /\ d.month = c.month /\ d.data = c.data /\ d.made = c.made
            /\ Others(t)
        BY <2>23, <3>3, CommitFailsFields
      <4>2. RightDate(t)' /\ RightPair(t)'
        BY <4>1 DEF RightDate, RightPair
      <4>3. QED
        BY <2>3, <2>4, <3>1, <4>1, <4>2
    <3>4. QED
      BY <3>2, <3>3
  <2>24. ASSUME At(t, "save")
         PROVE  \A m \in Months : m = c.month /\ Unharmed(m)' =>
                   \A k \in c.made \cup {c.pair.public} :
                      files'[m] = [public |-> k, private |-> k] /\ Sealed(m)'
    <3> TAKE m \in Months
    <3> HAVE m = c.month /\ Unharmed(m)'
    <3>1. Unharmed(m) /\ (Sealed(m) => Sealed(m)' /\ files'[m] = files[m])
      BY <1>1 DEF KeepsUnharmed, Keeps
    <3>2. c.tag = m /\ c.pair = files[m] /\ Sealed(m) /\ Halves(c.pair)
      BY <2>1, <2>24, <3>1 DEF CallFits, RightDate, RightPair, RightParts, At
    <3>3. files[m] = [public |-> c.pair.public, private |-> c.pair.public]
      BY <3>2 DEF TypeOK, Pair, Halves
    <3>4. \A k \in c.made : files[m] = [public |-> k, private |-> k]
      BY <2>1, <3>1 DEF CallFits, RightParts
    <3>5. QED
      BY <3>1, <3>2, <3>3, <3>4
  <2>25. CASE NextPart(t)
    <3>1. stored' = stored /\ known' = known /\ At(t, "save")
      BY <2>25 DEF NextPart
    <3>2. /\ d.pc = "time" /\ d.data = None /\ d.month = c.month /\ Others(t)
          /\ d.made = c.made \cup {c.pair.public}
      BY <2>25, NextPartFields
    <3>3. PICK m \in Months : m = c.month
      BY <2>1
    <3>4. Unharmed(m)' => \A k \in d.made :
             files'[m] = [public |-> k, private |-> k] /\ Sealed(m)'
      BY <2>24, <3>1, <3>2, <3>3
    <3>5. CallFits(t)'
      BY <3>2, <3>3, <3>4 DEF CallFits, RightDate, RightPair, RightParts, At
    <3>6. QED
      BY <2>3, <3>1, <3>2, <3>5
  <2>26. CASE Save(t)
    <3>1. /\ stored' = stored \cup [month : {c.month}, key : c.made \cup {c.pair.public}]
          /\ known' = known /\ At(t, "save")
      BY <2>26 DEF Save
    <3>2. Others(t) /\ call'[t] = Idle
      BY <2>26, SaveFields
    <3>3. CallFits(t)'
      BY <3>2, IdleFields DEF CallFits, RightDate, RightPair, RightParts, At
    <3>4. \A r \in stored' \ stored : Unharmed(r.month)' =>
             files'[r.month] = [public |-> r.key, private |-> r.key] /\ Sealed(r.month)'
      BY <2>1, <2>24, <3>1
    <3>5. QED
      BY <1>1, <1>2, <3>1, <3>2, <3>3, <3>4, DataFrame
  <2>27. QED
    BY <1>3, <2>8, <2>9, <2>10, <2>11, <2>12, <2>13, <2>14, <2>15, <2>16, <2>17, <2>18, <2>19,
       <2>20, <2>21, <2>22, <2>23, <2>25, <2>26 DEF Proceed
<1>4. ASSUME NEW s \in Servers, Restart(s) PROVE DataInv'
  <2>1. UNCHANGED <<row, files, stored>>
    BY <1>4 DEF Restart
  <2>2. \A r \in stored' : Unharmed(r.month)' =>
           files'[r.month] = [public |-> r.key, private |-> r.key] /\ Sealed(r.month)'
    <3> SUFFICES ASSUME NEW r \in stored, NEW m \in Months, m = r.month, Unharmed(m)'
                 PROVE  files'[m] = [public |-> r.key, private |-> r.key] /\ Sealed(m)'
      BY <2>1 DEF TypeOK
    <3>1. QED
      BY <1>1 DEF DataInv, KeepsUnharmed, Keeps
  <2>3. \A r \in Servers, m \in Months : known'[r][m] = NoPair \/ known'[r][m] = known[r][m]
    BY <1>4, RestartFields
  <2>4. \A r \in Servers, m \in Months :
           Unharmed(m)' /\ known'[r][m] # NoPair => known'[r][m] = files'[m] /\ Sealed(m)'
    BY <1>1, <2>3 DEF DataInv, KeepsUnharmed, Keeps
  <2>5. ASSUME NEW u \in Threads PROVE CallFits(u)'
    <3>1. CASE call'[u] = Idle
      BY <3>1, IdleFields DEF CallFits, RightDate, RightPair, RightParts, At
    <3>2. CASE call'[u] = call[u]
      BY <1>1, <2>1, <3>2, CallWaits DEF DataInv
    <3>3. QED
      BY <1>4, <3>1, <3>2, RestartFields
  <2>6. QED
    BY <2>2, <2>4, <2>5 DEF DataInv
<1>5. CASE MonthPasses \/ UNCHANGED vars
  <2>1. UNCHANGED <<row, files, known, call, stored, accidents>>
    BY <1>5 DEF MonthPasses, vars
  <2>2. QED
    BY <2>1 DEF DataInv, CallFits, RightDate, RightPair, RightParts, Unharmed, Halves, Sealed,
       Creating, At
<1>6. QED
  BY <1>3, <1>4, <1>5 DEF Next

LEMMA AllInv ==
  Spec => [](TypeOK /\ PairInv /\ LockInv /\ SoleCreator /\ HalvesInv /\ DataInv)
<1>1. QED
  BY InitType, TypeStep, InitLock, LockStep, InitSole, SoleStep, InitHalves, HalvesStep,
     InitData, DataStep, PTL DEF Spec

\* Everything in the database of a month without an accident can be read, whatever
\* happened to other months: its pair is in the files and cannot be replaced.
THEOREM StoredStaysReadable == Spec => []StoredIsReadable
<1>1. DataInv => StoredIsReadable
  <2>1. ASSUME DataInv, NEW r \in stored, Unharmed(r.month)
        PROVE  /\ files[r.month] = [public |-> r.key, private |-> r.key]
               /\ row[r.month] \/ \E t \in Threads : Creating(t) /\ call[t].tag = r.month
    BY <2>1 DEF DataInv, Sealed
  <2>2. QED
    BY <2>1 DEF StoredIsReadable
<1>2. QED
  BY <1>1, AllInv, PTL

\* Data of such a month are decrypted with their own key.
THEOREM DecryptionReadsBack == Spec => []ReadsBack
<1>1. TypeOK /\ DataInv => ReadsBack
  <2> SUFFICES ASSUME TypeOK, DataInv, NEW t \in Threads, At(t, "commit"), call[t].data # None,
                      call[t].tag = call[t].month, Unharmed(call[t].month)
               PROVE  call[t].pair.private = call[t].data
    BY DEF ReadsBack
  <2> DEFINE r == [month |-> call[t].month, key |-> call[t].data]
  <2>1. r \in stored /\ r.month = call[t].month /\ r.key = call[t].data
    BY DEF DataInv, CallFits, RightParts
  <2>2. files[call[t].month] = [public |-> r.key, private |-> r.key]
    BY <2>1 DEF DataInv
  <2>3. call[t].pair = files[call[t].month]
    BY DEF DataInv, CallFits, RightPair, At
  <2>4. QED
    BY <2>1, <2>2, <2>3
<1>2. QED
  BY <1>1, AllInv, PTL
-----------------------------------------------------------------------------
(* EncryptionKeys implements KeyContract. *)

\* No two calls write the same pair, and no file of another month holds it.
OwnInv ==
    /\ \A m \in Months : files[m].public \in 0..pairs
    /\ \A t \in Threads : Creating(t) =>
          /\ call[t].pair.public \in 1..pairs
          /\ \A u \in Threads \ {t} :
                Creating(u) => call[u].pair.public # call[t].pair.public
          /\ \A m \in Months : m # call[t].tag => files[m].public # call[t].pair.public

LEMMA InitOwn == Init => OwnInv
BY IdleFields DEF Init, OwnInv, Creating, NoPair, None

\* A step that makes no pair and writes no file.
LEMMA OwnFrame ==
  ASSUME OwnInv, NEW t \in Threads, Others(t), files' = files, pairs' = pairs,
         call'[t].creates =>
            /\ call[t].creates /\ call'[t].tag = call[t].tag /\ call'[t].pair = call[t].pair
  PROVE  OwnInv'
BY DEF OwnInv, Creating, Others

\* A step that writes files of the tag of a call that creates.
LEMMA OwnWrite ==
  ASSUME TypeOK, OwnInv, NEW t \in Threads, Others(t), pairs' = pairs, Creating(t),
         call[t].tag \in Months,
         \A m \in Months \ {call[t].tag} : files'[m] = files[m],
         files'[call[t].tag].public \in
            {None, files[call[t].tag].public, call[t].pair.public},
         call'[t].creates =>
            /\ call'[t].tag = call[t].tag /\ call'[t].pair = call[t].pair
  PROVE  OwnInv'
<1>1. \A m \in Months : files'[m].public \in 0..pairs
  BY DEF OwnInv, None, TypeOK
<1>2. ASSUME NEW u \in Threads, call'[u].creates
      PROVE  /\ call[u].creates /\ call'[u].tag = call[u].tag /\ call'[u].pair = call[u].pair
  BY <1>2 DEF Others, Creating
<1>3. ASSUME NEW u \in Threads, Creating(u), NEW m \in Months, m # call[u].tag
      PROVE  files'[m].public # call[u].pair.public
  <2>1. files[m].public # call[u].pair.public /\ None # call[u].pair.public
    BY <1>3 DEF OwnInv, None
  <2>2. u # t => call[t].pair.public # call[u].pair.public
    BY <1>3 DEF OwnInv
  <2>3. u = t => m # call[t].tag
    BY <1>3
  <2>4. QED
    BY <2>1, <2>2, <2>3
<1>4. QED
  BY <1>1, <1>2, <1>3 DEF OwnInv, Creating

LEMMA OwnStep == TypeOK /\ PairInv /\ LockInv /\ OwnInv /\ [Next]_vars => OwnInv'
<1> SUFFICES ASSUME TypeOK, PairInv, LockInv, OwnInv, [Next]_vars PROVE OwnInv'
  OBVIOUS
<1>1. ASSUME NEW t \in Threads, Proceed(t) PROVE OwnInv'
  <2>1. ASSUME ~call'[t].creates, Others(t), UNCHANGED <<files, pairs>> PROVE OwnInv'
    BY <2>1, OwnFrame
  <2>2. Creating(t) => call[t].pc \in {"save_private", "save_public", "commit"}
    BY DEF LockInv
  <2>3. call[t].tag \in Months /\ call[t].pair \in Pair
    BY DEF TypeOK, Call
  <2>4. CASE Encrypt(t)
    BY <2>1, <2>4, EncryptFields DEF Encrypt
  <2>5. ASSUME NEW r \in stored, Decrypt(t, r) PROVE OwnInv'
    BY <2>1, <2>5, DecryptFields DEF Decrypt
  <2>6. CASE SetTime(t)
    BY <2>1, <2>2, <2>6, SetTimeFields DEF SetTime, At, Creating
  <2>7. CASE GetDate(t)
    BY <2>1, <2>2, <2>7, GetDateFields DEF GetDate, At, Creating
  <2>8. CASE EnterLock(t)
    BY <2>1, <2>2, <2>8, EnterLockFields DEF EnterLock, At, Creating
  <2>9. CASE FindRow(t)
    BY <2>1, <2>2, <2>9, FindRowFields DEF FindRow, At, Creating
  <2>10. CASE FindNothing(t)
    <3>1. pairs \in Nat /\ pairs' = pairs + 1 /\ files' = files
      BY <2>10, BoundsAssumption DEF FindNothing, TypeOK
    <3>2. Others(t) /\ call'[t].pair.public = pairs + 1
      <4>1. [public |-> pairs + 1, private |-> pairs + 1].public = pairs + 1
        OBVIOUS
      <4>2. call'[t].pair = [public |-> pairs + 1, private |-> pairs + 1]
        BY <2>10 DEF FindNothing, TypeOK, Call
      <4>3. QED
        BY <2>10, <4>1, <4>2, FindNothingFields
    <3>3. \A u \in Threads \ {t} : call'[u] = call[u]
      BY <3>2 DEF Others
    <3>4. \A u \in Threads \ {t} : Creating(u) => call[u].pair.public \in 1..pairs
      BY DEF OwnInv
    <3>5. \A m \in Months : files'[m].public \in 0..pairs /\ files'[m].public # pairs + 1
      BY <3>1 DEF OwnInv
    <3>6. ASSUME NEW u \in Threads, call'[u].creates
          PROVE  /\ call'[u].pair.public \in 1..pairs'
                 /\ \A v \in Threads \ {u} :
                       call'[v].creates => call'[v].pair.public # call'[u].pair.public
                 /\ \A m \in Months :
                       m # call'[u].tag => files'[m].public # call'[u].pair.public
      <4>1. CASE u = t
        BY <3>1, <3>2, <3>3, <3>4, <3>5, <4>1 DEF Creating
      <4>2. CASE u # t
        <5>1. \A v \in Threads \ {u, t} :
                 call'[v].creates => call'[v].pair.public # call'[u].pair.public
          BY <3>3, <3>6, <4>2 DEF OwnInv, Creating
        <5>2. \A m \in Months :
                 m # call'[u].tag => files'[m].public # call'[u].pair.public
          BY <3>1, <3>3, <3>6, <4>2 DEF OwnInv, Creating
        <5>3. QED
          BY <3>1, <3>2, <3>3, <3>4, <3>6, <4>2, <5>1, <5>2 DEF Creating
      <4>3. QED
        BY <4>1, <4>2
    <3>7. QED
      BY <3>1, <3>5, <3>6 DEF OwnInv, Creating
  <2>11. CASE SavePrivate(t)
    <3>1. Creating(t) /\ pairs' = pairs
      BY <2>11 DEF SavePrivate, At, LockInv
    <3>2. files'[call[t].tag].public = files[call[t].tag].public
      BY <2>3, <2>11 DEF SavePrivate, TypeOK, Pair
    <3>3. QED
      BY <2>3, <2>11, <3>1, <3>2, SavePrivateFields, FilesElse, OwnWrite
  <2>12. CASE SavePublic(t)
    <3>1. Creating(t) /\ pairs' = pairs
      BY <2>12 DEF SavePublic, At, LockInv
    <3>2. files'[call[t].tag].public = call[t].pair.public
      BY <2>3, <2>12 DEF SavePublic, TypeOK, Pair
    <3>3. QED
      BY <2>3, <2>12, <3>1, <3>2, SavePublicFields, FilesElse, OwnWrite
  <2>13. CASE SaveFails(t)
    <3>1. Creating(t) /\ pairs' = pairs
      BY <2>13 DEF SaveFails, LockInv
    <3>2. files'[call[t].tag].public = None
      BY <2>3, <2>13 DEF SaveFails, TypeOK, NoPair
    <3>3. QED
      BY <2>3, <2>13, <3>1, <3>2, SaveFailsFields, IdleFields, FilesElse, OwnWrite
  <2>14. CASE LoadPublic(t)
    BY <2>1, <2>2, <2>14, LoadPublicFields DEF LoadPublic, At, Creating
  <2>15. CASE LoadPrivate(t)
    BY <2>1, <2>2, <2>15, LoadPrivateFields DEF LoadPrivate, At, Creating
  <2>16. CASE LoadFails(t)
    BY <2>1, <2>16, LoadFailsFields, IdleFields DEF LoadFails
  <2>17. CASE Commit(t)
    BY <2>1, <2>17, CommitFields, IdleFields DEF Commit
  <2>18. CASE DuplicateRow(t)
    BY <2>1, <2>18, DuplicateRowFields, IdleFields DEF DuplicateRow
  <2>19. CASE CommitFails(t)
    BY <2>1, <2>19, CommitFailsFields, IdleFields DEF CommitFails
  <2>20. CASE Save(t)
    BY <2>1, <2>20, SaveFields, IdleFields DEF Save
  <2>21. CASE NextPart(t)
    BY <2>1, <2>21, NextPartFields DEF NextPart
  <2>22. QED
    BY <1>1, <2>4, <2>5, <2>6, <2>7, <2>8, <2>9, <2>10, <2>11, <2>12, <2>13, <2>14, <2>15,
       <2>16, <2>17, <2>18, <2>19, <2>20, <2>21 DEF Proceed
<1>2. ASSUME NEW s \in Servers, Restart(s) PROVE OwnInv'
  <2>1. \A t \in Threads : call'[t].creates => call'[t] = call[t]
    BY <1>2, RestartFields, IdleFields
  <2>2. UNCHANGED <<files, pairs>>
    BY <1>2 DEF Restart
  <2>3. QED
    BY <2>1, <2>2 DEF OwnInv, Creating
<1>3. CASE MonthPasses \/ UNCHANGED vars
  BY <1>3 DEF MonthPasses, vars, OwnInv, Creating
<1>4. QED
  BY <1>1, <1>2, <1>3 DEF Next

\* The one step that settles a month.
LEMMA Settles ==
  ASSUME TypeOK, PairInv, LockInv, SoleCreator, OwnInv,
         NEW t \in Threads, SavePublic(t), Unharmed(call[t].tag)
  PROVE  \E m \in Months, k \in Keys : Contract!Settle(m, k)
<1>0. /\ call[t].tag \in Months /\ call[t].pair \in Pair /\ At(t, "save_public")
      /\ call[t].pair.public \in Keys
  BY DEF SavePublic, At, TypeOK, Call, PairInv, Pair
<1>m. PICK m \in Months : m = call[t].tag
  BY <1>0
<1>k. PICK k \in Keys : k = call[t].pair.public
  BY <1>0
<1>1. UNCHANGED <<row, stored, accidents>> /\ Creating(t) /\ k # None /\ Unharmed(m)
  BY <1>0, <1>m DEF SavePublic, At, LockInv, None, Keys
<1>2. ~Sealed(m)
  BY <1>0, <1>1, <1>m, Unsealed, UnharmedMonth DEF At
<1>3. \A n \in Months : Sealed(n) => files[n].public # k
  BY <1>m, <1>k, <1>1, <1>2 DEF OwnInv
<1>4. files'[m].public = k /\ \A n \in Months \ {m} : files'[n] = files[n]
  <2>1. files'[m].public = k
    BY <1>0, <1>m, <1>k DEF SavePublic, TypeOK, Pair
  <2>2. QED
    BY <1>m, <2>1, FilesElse
<1>5. Others(t) /\ call'[t].pc = "commit" /\ call'[t].creates /\ call'[t].tag = m
  BY <1>m, <1>1, SavePublicFields DEF Creating
<1>6. Sealed(m)'
  BY <1>1, <1>5 DEF Sealed, Creating, At
<1>7. ASSUME NEW n \in Months, n # m PROVE Sealed(n)' <=> Sealed(n)
  BY <1>1, <1>5, <1>7, <1>m, SealSame DEF Seals
<1>8. [n \in Months |-> IF Sealed(n) THEN files[n].public ELSE None]'
        = [[n \in Months |-> IF Sealed(n) THEN files[n].public ELSE None] EXCEPT ![m] = k]
  <2>1. \A n \in Months : (IF Sealed(n) THEN files[n].public ELSE None)' =
           IF n = m THEN k ELSE IF Sealed(n) THEN files[n].public ELSE None
    BY <1>4, <1>6, <1>7
  <2>2. QED
    BY <2>1
<1>9. m \notin {n \in Months : ~Unharmed(n)}
      /\ {n \in Months : ~Unharmed(n)}' = {n \in Months : ~Unharmed(n)}
  BY <1>1 DEF Unharmed
<1>10. Contract!Settle(m, k)
  BY <1>1, <1>2, <1>3, <1>8, <1>9 DEF Contract!Settle
<1>11. QED
  BY <1>10

\* The step that stores a registration does so under the settled pair of its month.
LEMMA Stores ==
  ASSUME TypeOK, PairInv, DataInv, NEW t \in Threads, Save(t), Unharmed(call[t].month)
  PROVE  \E m \in Months : Contract!Store(m)
<1> PICK m \in Months : m = call[t].month
  BY DEF TypeOK, Call
<1> DEFINE k == call[t].pair.public
<1>1. /\ UNCHANGED <<row, files, accidents>> /\ At(t, "save")
      /\ stored' = stored \cup [month : {m}, key : call[t].made \cup {k}]
  BY DEF Save
<1>2. Sealed(m) /\ files[m].public = k /\ k # None
  <2>1. call[t].data = None /\ call[t].tag = m
    BY <1>1 DEF DataInv, CallFits, RightDate, RightParts, At
  <2>2. QED
    BY <1>1, <2>1 DEF DataInv, CallFits, RightPair, PairInv, At
<1>3. \A j \in call[t].made : j = k
  <2> TAKE j \in call[t].made
  <2>1. files[m] = [public |-> j, private |-> j]
    BY DEF DataInv, CallFits, RightParts
  <2>2. QED
    BY <1>2, <2>1
<1> HIDE DEF k
<1>4. stored' = stored \cup {[month |-> m, key |-> k]}
  <2>1. call[t].made \cup {k} = {k}
    BY <1>3
  <2>2. QED
    BY <1>1, <2>1
<1>5. Others(t) /\ ~At(t, "commit") /\ call'[t].pc # "commit"
  BY <1>1, SaveFields, IdleFields DEF At
<1>6. \A n \in Months : Sealed(n)' <=> Sealed(n)
  BY <1>1, <1>5, SealSame DEF Seals, At
<1>7. [n \in Months |-> IF Sealed(n) THEN files[n].public ELSE None]'
        = [n \in Months |-> IF Sealed(n) THEN files[n].public ELSE None]
  BY <1>1, <1>6
<1>8. [n \in Months |-> IF Sealed(n) THEN files[n].public ELSE None][m] = k
  BY <1>2
<1>9. m \notin {n \in Months : ~Unharmed(n)}
      /\ {n \in Months : ~Unharmed(n)}' = {n \in Months : ~Unharmed(n)}
  BY <1>1 DEF Unharmed
<1>10. Contract!Store(m)
  BY <1>2, <1>4, <1>7, <1>8, <1>9 DEF Contract!Store
<1>11. QED
  BY <1>10

\* Nothing else stores anything.
LEMMA StoredGrows ==
  ASSUME [Next]_vars
  PROVE  /\ stored \subseteq stored'
         /\ \A r \in stored' \ stored : \E t \in Threads : Save(t) /\ r.month = call[t].month
<1>1. ASSUME NEW t \in Threads, Proceed(t) PROVE stored' = stored \/ Save(t)
  BY <1>1 DEF Proceed, Encrypt, Decrypt, SetTime, GetDate, EnterLock, FindRow, FindNothing,
     SavePrivate, SavePublic, SaveFails, LoadPublic, LoadPrivate, LoadFails, Commit,
     DuplicateRow, CommitFails, NextPart
<1>2. CASE stored' = stored
  BY <1>2
<1>3. ASSUME NEW t \in Threads, Save(t)
      PROVE  /\ stored \subseteq stored'
             /\ \A r \in stored' \ stored : r.month = call[t].month
  BY <1>3 DEF Save
<1>4. CASE stored' # stored
  <2>1. PICK t \in Threads : Save(t)
    BY <1>1, <1>4 DEF Next, MonthPasses, Restart, vars
  <2>2. QED
    BY <1>3, <2>1
<1>5. QED
  BY <1>2, <1>4

KeysInv == TypeOK /\ PairInv /\ LockInv /\ SoleCreator /\ HalvesInv /\ DataInv /\ OwnInv

LEMMA ContractStep == KeysInv /\ [Next]_vars => [Contract!Next]_(Contract!vars)
<1> SUFFICES ASSUME KeysInv, [Next]_vars PROVE Contract!Next
  OBVIOUS
<1> USE DEF KeysInv
<1>1. ASSUME NEW t \in Threads, SavePublic(t), Unharmed(call[t].tag) PROVE Contract!Next
  BY <1>1, Settles DEF Contract!Next
<1>2. ASSUME NEW t \in Threads, Save(t), Unharmed(call[t].month) PROVE Contract!Next
  BY <1>2, Stores DEF Contract!Next
<1>3. CASE /\ \A t \in Threads : SavePublic(t) => ~Unharmed(call[t].tag)
           /\ \A t \in Threads : Save(t) => ~Unharmed(call[t].month)
  <2>1. {m \in Months : ~Unharmed(m)} \subseteq {m \in Months : ~Unharmed(m)}'
    BY AccidentsGrow DEF Unharmed
  <2>2. ASSUME NEW m \in Months, m \notin {n \in Months : ~Unharmed(n)}'
        PROVE  [n \in Months |-> IF Sealed(n) THEN files[n].public ELSE None]'[m]
                 = [n \in Months |-> IF Sealed(n) THEN files[n].public ELSE None][m]
    <3>1. Unharmed(m)' /\ Unharmed(m)
      BY <2>2, UnharmedBefore
    <3>2. (Sealed(m)' <=> Sealed(m)) /\ (Sealed(m) => files'[m] = files[m])
      BY <1>3, <3>1, SealStep DEF Keeps
    <3>3. QED
      BY <3>2
  <2>3. ASSUME NEW r \in stored' \ stored PROVE r.month \in {m \in Months : ~Unharmed(m)}
    <3>1. PICK t \in Threads : Save(t) /\ r.month = call[t].month
      BY StoredGrows
    <3>2. call[t].month \in Months
      BY DEF TypeOK, Call
    <3>3. QED
      BY <1>3, <3>1, <3>2
  <2>4. Contract!Suffer
    BY <2>1, <2>2, <2>3, StoredGrows DEF Contract!Suffer
  <2>5. QED
    BY <2>4 DEF Contract!Next
<1>4. QED
  BY <1>1, <1>2, <1>3

\* The servers together are one store that settles a month's pair once and stores
\* what is encrypted under it; an accident takes that from its own month only.
THEOREM Implements == Spec => ImplementsContract
<1>1. Init => Contract!Init
  <2>1. ASSUME Init PROVE \A m \in Months : ~Sealed(m) /\ Unharmed(m)
    BY <2>1, IdleFields DEF Init, Sealed, Creating, Unharmed
  <2>2. QED
    BY <2>1 DEF Init, Contract!Init
<1>2. Spec => []KeysInv
  BY AllInv, InitType, TypeStep, InitLock, LockStep, InitOwn, OwnStep, PTL DEF Spec, KeysInv
<1>3. QED
  BY <1>1, <1>2, ContractStep, PTL DEF Spec, ImplementsContract, Contract!Spec
=============================================================================
