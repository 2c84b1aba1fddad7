--------------------------- MODULE EncryptionKeys ---------------------------
(***************************************************************************)
(* The key pairs of pending voter registrations (EncryptionService): one   *)
(* pair for every month, state and voting region, made when it is first    *)
(* needed, kept in two files that all servers share, announced by a row of *)
(* encryption_key_statuses and remembered by each server in knownKeys.     *)
(* The model follows one state and region: a tag is a month.               *)
(*                                                                         *)
(* A registration is encrypted and decrypted part by part.  For each part  *)
(* makeEncryption or makeDecryption runs in a transaction of its own that  *)
(* commits after the lock on knownKeys is released; Hibernate inserts the  *)
(* row at that commit.  A row whose status is false is thus    *)
(* never seen, nor is the key violation that acquireEncryptionKeyStatus    *)
(* catches: its loop ends in its first round, by a pair to load or to make.*)
(* Reading and writing a file are atomic here.                             *)
(***************************************************************************)
EXTENDS Integers

CONSTANTS
    Servers,
    Threads,     \* threads that encrypt and decrypt
    ServerOf,    \* the server of every thread
    LastMonth,   \* bound: months 0..LastMonth
    MaxCalls,    \* bound: parts of registrations ever encrypted or decrypted
    MaxPairs,    \* bound: pairs ever made
    MaxFaults    \* bound: failed writes, failed commits, crashes of a call that makes a pair

ASSUME ServerOfAssumption == ServerOf \in [Threads -> Servers]
ASSUME BoundsAssumption == LastMonth \in Nat /\ MaxCalls \in Nat /\ MaxPairs \in Nat /\ MaxFaults \in Nat

Months == 0..LastMonth
Keys == 1..MaxPairs
None == 0                             \* no file, no key yet, no data to decrypt
Pair == [public : Keys \cup {None}, private : Keys \cup {None}]
NoPair == [public |-> None, private |-> None]

Call == [pc : {"idle", "time", "get", "enter", "find", "load_public", "load_private",
               "save_private", "save_public", "commit", "save"},
         month : Months,              \* the month of createdDate
         tag : Months,                \* the month that extractDate made of it
         data : Keys \cup {None},     \* the public key that the data to decrypt was made with
         pair : Pair,                 \* the pair, as far as it is loaded or made
         creates : BOOLEAN,           \* the transaction will insert the row
         made : SUBSET Keys]          \* the public keys of the parts encrypted before

Idle == [pc |-> "idle", month |-> 0, tag |-> 0, data |-> None, pair |-> NoPair,
         creates |-> FALSE, made |-> {}]

VARIABLES
    now,         \* the current month
    row,         \* whether the row of a tag is committed
    files,       \* the .eky and .dky files of a tag
    known,       \* knownKeys of every server
    locked,      \* whether a thread holds the lock on knownKeys
    calendar,    \* the month last set in the calendar of the service
    call,        \* what every thread does
    stored,      \* the parts of registrations in the database: month and public key
    calls,       \* parts begun
    pairs,       \* pairs made
    accidents,   \* what went wrong that the code does not prevent, and to which month
    faults

vars == <<now, row, files, known, locked, calendar, call, stored, calls, pairs, accidents, faults>>

Accidents == [kind : {"overlap", "calendar", "commit", "crash"}, month : Months]
Accident(kind, m) == [kind |-> kind, month |-> m]

TypeOK ==
    /\ now \in Months
    /\ row \in [Months -> BOOLEAN]
    /\ files \in [Months -> Pair]
    /\ known \in [Servers -> [Months -> Pair]]
    /\ locked \in [Servers -> BOOLEAN]
    /\ calendar \in [Servers -> Months]
    /\ call \in [Threads -> Call]
    /\ stored \subseteq [month : Months, key : Keys]
    /\ calls \in 0..MaxCalls
    /\ pairs \in 0..MaxPairs
    /\ accidents \subseteq Accidents
    /\ faults \in 0..MaxFaults

Init ==
    /\ now = 0
    /\ row = [m \in Months |-> FALSE]
    /\ files = [m \in Months |-> NoPair]
    /\ known = [s \in Servers |-> [m \in Months |-> NoPair]]
    /\ locked = [s \in Servers |-> FALSE]
    /\ calendar = [s \in Servers |-> 0]
    /\ call = [t \in Threads |-> Idle]
    /\ stored = {}
    /\ calls = 0
    /\ pairs = 0
    /\ accidents = {}
    /\ faults = 0

At(t, pc) == call[t].pc = pc
KnownTo(t) == known[ServerOf[t]][call[t].tag]

\* Whether a thread is between finding no row and the end of its transaction.
Creating(t) == call[t].creates

-----------------------------------------------------------------------------
(* Calls *)

MonthPasses ==
    /\ now < LastMonth
    /\ now' = now + 1
    /\ UNCHANGED <<row, files, known, locked, calendar, call, stored, calls, pairs, accidents, faults>>

\* PendingVoterRegistrationUtil.encryptAndSave of a registration made this month.
Encrypt(t) ==
    /\ At(t, "idle") /\ calls < MaxCalls
    /\ calls' = calls + 1
    /\ call' = [call EXCEPT ![t] = [Idle EXCEPT !.pc = "time", !.month = now]]
    /\ UNCHANGED <<now, row, files, known, locked, calendar, stored, pairs, accidents, faults>>

\* PendingVoterRegistrationCipher.decryptAll of a stored registration: one part
\* after the other, each like a call of its own.
Decrypt(t, part) ==
    /\ At(t, "idle") /\ calls < MaxCalls
    /\ calls' = calls + 1
    /\ part \in stored
    /\ call' = [call EXCEPT ![t] = [Idle EXCEPT !.pc = "time", !.month = part.month,
                                                !.data = part.key]]
    /\ UNCHANGED <<now, row, files, known, locked, calendar, stored, pairs, accidents, faults>>

\* extractDate: the calendar belongs to the service and has no lock ...
SetTime(t) ==
    /\ At(t, "time")
    /\ calendar' = [calendar EXCEPT ![ServerOf[t]] = call[t].month]
    /\ call' = [call EXCEPT ![t].pc = "get"]
    /\ UNCHANGED <<now, row, files, known, locked, stored, calls, pairs, accidents, faults>>

\* ... so that what is read is what was set last, or, while another thread's
\* get computes the fields too, anything.
Readable(t) ==
    {calendar[ServerOf[t]]} \cup
    {m \in Months : \E u \in Threads \ {t} : ServerOf[u] = ServerOf[t] /\ At(u, "get")}

\* It is an accident if the data to encrypt are given a wrong date.
GetDate(t) ==
    /\ At(t, "get")
    /\ \E m \in Readable(t) :
          /\ call' = [call EXCEPT ![t].tag = m, ![t].pc = "enter"]
          /\ accidents' = IF m = call[t].month \/ call[t].data # None
                          THEN accidents
                          ELSE accidents \cup {Accident("calendar", call[t].month)}
    /\ UNCHANGED <<now, row, files, known, locked, calendar, stored, calls, pairs, faults>>

EnterLock_Unlocked(t) ==
    /\ At(t, "enter")
    /\ IF KnownTo(t) # NoPair
       THEN /\ call' = [call EXCEPT ![t].pair = KnownTo(t), ![t].pc = "commit"]
            /\ UNCHANGED locked
       ELSE /\ call' = [call EXCEPT ![t].pc = "find"]
            /\ locked' = [locked EXCEPT ![ServerOf[t]] = TRUE]
    /\ UNCHANGED <<now, row, files, known, calendar, stored, calls, pairs, accidents, faults>>

\* The synchronized block: a known pair is returned at once.
EnterLock(t) ==
    /\ At(t, "enter")
    /\ ~locked[ServerOf[t]]
    /\ IF KnownTo(t) # NoPair
       THEN /\ call' = [call EXCEPT ![t].pair = KnownTo(t), ![t].pc = "commit"]
            /\ UNCHANGED locked
       ELSE /\ call' = [call EXCEPT ![t].pc = "find"]
            /\ locked' = [locked EXCEPT ![ServerOf[t]] = TRUE]
    /\ UNCHANGED <<now, row, files, known, calendar, stored, calls, pairs, accidents, faults>>

\* acquireEncryptionKeyStatus finds the row.
FindRow(t) ==
    /\ At(t, "find")
    /\ row[call[t].tag]
    /\ call' = [call EXCEPT ![t].pc = "load_public"]
    /\ UNCHANGED <<now, row, files, known, locked, calendar, stored, calls, pairs, accidents, faults>>

FindNothing_Always(t) ==
    /\ At(t, "find")
    /\ pairs < MaxPairs
    /\ pairs' = pairs + 1
    /\ call' = [call EXCEPT ![t].pair = [public |-> pairs + 1, private |-> pairs + 1],
                            ![t].pc = "save_private"]
    /\ UNCHANGED <<now, row, files, known, locked, calendar, stored, calls, accidents, faults>>

\* acquireEncryptionKeyStatus finds no row and queues one; createKeyPair
\* generates a pair.  It is an accident if another server is creating the pair of
\* that tag.
FindNothing(t) ==
    /\ At(t, "find")
    /\ ~row[call[t].tag]
    /\ pairs < MaxPairs
    /\ pairs' = pairs + 1
    /\ call' = [call EXCEPT ![t].pair = [public |-> pairs + 1, private |-> pairs + 1],
                            ![t].creates = TRUE, ![t].pc = "save_private"]
    /\ accidents' = IF \E u \in Threads : /\ ServerOf[u] # ServerOf[t]
                                          /\ Creating(u) /\ call[u].tag = call[t].tag
                    THEN accidents \cup {Accident("overlap", call[t].tag)} ELSE accidents
    /\ UNCHANGED <<now, row, files, known, locked, calendar, stored, calls, faults>>

SavePrivate_KeepsFile(t) ==
    /\ At(t, "save_private")
    /\ files' = IF files[call[t].tag].private # None THEN files
                ELSE [files EXCEPT ![call[t].tag].private = call[t].pair.private]
    /\ call' = [call EXCEPT ![t].pc = "save_public"]
    /\ UNCHANGED <<now, row, known, locked, calendar, stored, calls, pairs, accidents, faults>>

SavePrivate(t) ==
    /\ At(t, "save_private")
    /\ files' = [files EXCEPT ![call[t].tag].private = call[t].pair.private]
    /\ call' = [call EXCEPT ![t].pc = "save_public"]
    /\ UNCHANGED <<now, row, known, locked, calendar, stored, calls, pairs, accidents, faults>>

\* knownKeys.put, the end of the synchronized block.
Know(t, pair) ==
    /\ known' = [known EXCEPT ![ServerOf[t]][call[t].tag] = pair]
    /\ locked' = [locked EXCEPT ![ServerOf[t]] = FALSE]

SavePublic(t) ==
    /\ At(t, "save_public")
    /\ files' = [files EXCEPT ![call[t].tag].public = call[t].pair.public]
    /\ Know(t, call[t].pair)
    /\ call' = [call EXCEPT ![t].pc = "commit"]
    /\ UNCHANGED <<now, row, calendar, stored, calls, pairs, accidents, faults>>

\* A file cannot be written: both are deleted, the row is not inserted.
SaveFails(t) ==
    /\ call[t].pc \in {"save_private", "save_public"}
    /\ faults < MaxFaults
    /\ files' = [files EXCEPT ![call[t].tag] = NoPair]
    /\ locked' = [locked EXCEPT ![ServerOf[t]] = FALSE]
    /\ call' = [call EXCEPT ![t] = Idle]
    /\ faults' = faults + 1
    /\ UNCHANGED <<now, row, known, calendar, stored, calls, pairs, accidents>>

LoadPublic(t) ==
    /\ At(t, "load_public")
    /\ files[call[t].tag].public # None
    /\ call' = [call EXCEPT ![t].pair.public = files[call[t].tag].public, ![t].pc = "load_private"]
    /\ UNCHANGED <<now, row, files, known, locked, calendar, stored, calls, pairs, accidents, faults>>

LoadPrivate(t) ==
    /\ At(t, "load_private")
    /\ files[call[t].tag].private # None
    /\ LET pair == [public |-> call[t].pair.public, private |-> files[call[t].tag].private]
       IN  /\ call' = [call EXCEPT ![t].pair = pair, ![t].pc = "commit"]
           /\ Know(t, pair)
    /\ UNCHANGED <<now, row, files, calendar, stored, calls, pairs, accidents, faults>>

LoadFails_GoesOn(t) ==
    /\ \/ At(t, "load_public") /\ files[call[t].tag].public = None
       \/ At(t, "load_private") /\ files[call[t].tag].private = None
    /\ locked' = [locked EXCEPT ![ServerOf[t]] = FALSE]
    /\ call' = [call EXCEPT ![t].pc = "commit"]
    /\ UNCHANGED <<now, row, files, known, calendar, stored, calls, pairs, accidents, faults>>

\* The file to load is missing: the exception ends the call.
LoadFails(t) ==
    /\ \/ At(t, "load_public") /\ files[call[t].tag].public = None
       \/ At(t, "load_private") /\ files[call[t].tag].private = None
    /\ locked' = [locked EXCEPT ![ServerOf[t]] = FALSE]
    /\ call' = [call EXCEPT ![t] = Idle]
    /\ UNCHANGED <<now, row, files, known, calendar, stored, calls, pairs, accidents, faults>>

\* The transaction ends.  A part to encrypt is done; so is one to decrypt, whether
\* or not the pair fits the data.
Commit(t) ==
    /\ At(t, "commit")
    /\ Creating(t) => ~row[call[t].tag]
    /\ row' = IF Creating(t) THEN [row EXCEPT ![call[t].tag] = TRUE] ELSE row
    /\ call' = IF call[t].data = None
               THEN [call EXCEPT ![t].creates = FALSE, ![t].pc = "save"]
               ELSE [call EXCEPT ![t] = Idle]
    /\ UNCHANGED <<now, files, known, locked, calendar, stored, calls, pairs, accidents, faults>>

\* The row was inserted by somebody else: a key violation ends the call.
\* The pair stays in knownKeys.
DuplicateRow(t) ==
    /\ At(t, "commit")
    /\ Creating(t) /\ row[call[t].tag]
    /\ call' = [call EXCEPT ![t] = Idle]
    /\ UNCHANGED <<now, row, files, known, locked, calendar, stored, calls, pairs, accidents, faults>>

\* The insert fails.  A lock that could not be acquired makes DeadlockManager
\* try again, any other failure ends the call.  The pair stays in knownKeys.
CommitFails(t) ==
    /\ At(t, "commit")
    /\ Creating(t)
    /\ faults < MaxFaults
    /\ \/ call' = [call EXCEPT ![t] = Idle]
       \/ call' = [call EXCEPT ![t] = [Idle EXCEPT !.pc = "time", !.month = call[t].month,
                                         !.data = call[t].data, !.made = call[t].made]]
    /\ accidents' = accidents \cup {Accident("commit", call[t].tag)}
    /\ faults' = faults + 1
    /\ UNCHANGED <<now, row, files, known, locked, calendar, stored, calls, pairs>>

\* encryptAll goes on to the next part ...
NextPart(t) ==
    /\ At(t, "save") /\ calls < MaxCalls
    /\ calls' = calls + 1
    /\ call' = [call EXCEPT ![t] = [Idle EXCEPT !.pc = "time", !.month = call[t].month,
                                      !.made = call[t].made \cup {call[t].pair.public}]]
    /\ UNCHANGED <<now, row, files, known, locked, calendar, stored, pairs, accidents, faults>>

\* ... or ends, and PendingVoterRegistrationService.save stores all parts.
Save(t) ==
    /\ At(t, "save")
    /\ stored' = stored \cup [month : {call[t].month}, key : call[t].made \cup {call[t].pair.public}]
    /\ call' = [call EXCEPT ![t] = Idle]
    /\ UNCHANGED <<now, row, files, known, locked, calendar, calls, pairs, accidents, faults>>

\* A server stops and starts again: its calls end and knownKeys is empty.  It
\* is an accident if the row of a pair in knownKeys is not committed yet, since
\* other calls may have encrypted with that pair.
CreatingAt(s) == \E t \in Threads : ServerOf[t] = s /\ Creating(t)

Restart(s) ==
    /\ CreatingAt(s) => faults < MaxFaults
    /\ faults' = IF CreatingAt(s) THEN faults + 1 ELSE faults
    /\ accidents' = accidents \cup
                    {Accident("crash", m) : m \in {n \in Months : known[s][n] # NoPair /\ ~row[n]}}
    /\ known' = [known EXCEPT ![s] = [m \in Months |-> NoPair]]
    /\ locked' = [locked EXCEPT ![s] = FALSE]
    /\ calendar' = [calendar EXCEPT ![s] = 0]
    /\ call' = [t \in Threads |-> IF ServerOf[t] = s THEN Idle ELSE call[t]]
    /\ UNCHANGED <<now, row, files, stored, calls, pairs>>

-----------------------------------------------------------------------------

Proceed(t) ==
    \/ Encrypt(t) \/ \E part \in stored : Decrypt(t, part)
    \/ SetTime(t) \/ GetDate(t)
    \/ EnterLock(t)
    \/ FindRow(t) \/ FindNothing(t)
    \/ SavePrivate(t) \/ SavePublic(t) \/ SaveFails(t)
    \/ LoadPublic(t) \/ LoadPrivate(t) \/ LoadFails(t)
    \/ Commit(t) \/ DuplicateRow(t) \/ CommitFails(t)
    \/ NextPart(t) \/ Save(t)

Next ==
    \/ MonthPasses
    \/ \E t \in Threads : Proceed(t)
    \/ \E s \in Servers : Restart(s)

Spec == Init /\ [][Next]_vars
-----------------------------------------------------------------------------
(* Properties *)

\* No accident has happened to a month.
Unharmed(m) == \A a \in accidents : a.month # m

\* What is in the database can be read, whatever happens to other months: the
\* files of its month hold the pair it was encrypted with, and the row that keeps
\* others from replacing them is there or about to be committed.  The harm of two
\* servers that make a pair at once, of a date that met another in the calendar,
\* of a failed insert and of a crash before the insert of a pair that others could
\* use stays in its month; failed writes, all other crashes and every
\* interleaving of calls do none.
StoredIsReadable ==
    \A r \in stored : Unharmed(r.month) =>
        /\ files[r.month] = [public |-> r.key, private |-> r.key]
        /\ row[r.month] \/ \E t \in Threads : Creating(t) /\ call[t].tag = r.month

\* A call that decrypts with the right date comes out of acquireKeyPair with the
\* private key of its data, whether the pair was known, loaded or just made, and
\* although other calls, confused by the calendar, use the pair of its month too.
ReadsBack ==
    \A t \in Threads :
        /\ At(t, "commit") /\ call[t].data # None
        /\ call[t].tag = call[t].month /\ Unharmed(call[t].month)
        => call[t].pair.private = call[t].data

\* The halves of a pair that a server uses belong together, through failed
\* writes, failed commits, crashes between two files and wrong dates: only two
\* servers that make a pair of that month at once can mix them, so that what is
\* encrypted could not be read even by the server itself.
HalvesMatch ==
    \A s \in Servers, m \in Months :
        Accident("overlap", m) \notin accidents => known[s][m].public = known[s][m].private

\* The pair of a month is settled: its row is committed, or about to be by the
\* call that has written both files.
Sealed(m) ==
    row[m] \/ \E t \in Threads : Creating(t) /\ At(t, "commit") /\ call[t].tag = m

Contract == INSTANCE KeyContract WITH
    keyOf <- [m \in Months |-> IF Sealed(m) THEN files[m].public ELSE None],
    broken <- {m \in Months : ~Unharmed(m)}

\* Seen from outside, a month gets its pair in one step and keeps it, although
\* calls of several servers make, write, announce and load it in many: no
\* interleaving, failed write, crash between two files or restart shows a second
\* pair, and nothing is stored under a pair before it is settled.  An accident
\* ends that for its month alone.
ImplementsContract == Contract!Spec

=============================================================================
