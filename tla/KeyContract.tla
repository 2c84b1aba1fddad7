----------------------------- MODULE KeyContract -----------------------------
(***************************************************************************)
(* What the key pairs promise, whatever servers, threads, files and        *)
(* transactions do in between: a month gets one pair, which no other month *)
(* has, and keeps it for good; what is stored of the month is stored under *)
(* that pair only.  An accident breaks the promise for a month, and for    *)
(* that month alone: broken months lose neither what is stored nor the     *)
(* pairs of the others.                                                    *)
(***************************************************************************)
CONSTANTS Months, Keys, None

VARIABLES
    keyOf,       \* the pair of a month, None before it is settled
    stored,      \* the parts of registrations in the database: month and public key
    broken       \* the months that an accident has happened to

vars == <<keyOf, stored, broken>>

Init ==
    /\ keyOf = [m \in Months |-> None]
    /\ stored = {}
    /\ broken = {}

Settle(m, k) ==
    /\ m \notin broken
    /\ keyOf[m] = None
    /\ \A n \in Months : keyOf[n] # k
    /\ keyOf' = [keyOf EXCEPT ![m] = k]
    /\ UNCHANGED <<stored, broken>>

Store(m) ==
    /\ m \notin broken
    /\ keyOf[m] # None
    /\ stored' = stored \cup {[month |-> m, key |-> keyOf[m]]}
    /\ UNCHANGED <<keyOf, broken>>

\* An accident, or what comes of it later: no other month notices.
Suffer ==
    /\ broken \subseteq broken'
    /\ \A m \in Months \ broken' : keyOf'[m] = keyOf[m]
    /\ stored \subseteq stored'
    /\ \A r \in stored' \ stored : r.month \in broken

Next ==
    \/ \E m \in Months : Store(m) \/ \E k \in Keys : Settle(m, k)
    \/ Suffer

Spec == Init /\ [][Next]_vars
=============================================================================
