---------------------------- MODULE FormContract ----------------------------
(***************************************************************************)
(* The life of a form as users see it, whatever tasks, rows, old copies of *)
(* rows, failures and crashes do in between: a form is stored once, is     *)
(* never replaced and disappears only when the sandbox is swept; and a     *)
(* page offers it only after it was stored.                                *)
(***************************************************************************)
CONSTANTS Loads, Forms, None

VARIABLES
    form,        \* the stored form of a track, named after a page load
    swept,       \* the tracks whose form has been swept away
    offered      \* the tracks whose form some page has offered

vars == <<form, swept, offered>>

Init ==
    /\ form = [t \in Loads |-> None]
    /\ swept = {} /\ offered = {}

Store(t, f) ==
    /\ form[t] = None
    /\ form' = [form EXCEPT ![t] = f]
    /\ UNCHANGED <<swept, offered>>

Sweep(old) ==
    /\ form' = [t \in Loads |-> IF t \in old THEN None ELSE form[t]]
    /\ swept' = swept \cup old
    /\ UNCHANGED offered

Offer(t) ==
    /\ form[t] # None \/ t \in swept
    /\ offered' = offered \cup {t}
    /\ UNCHANGED <<form, swept>>

Next ==
    \/ \E t \in Loads : Offer(t) \/ \E f \in Forms : Store(t, f)
    \/ \E old \in SUBSET Loads : Sweep(old)

Spec == Init /\ [][Next]_vars
=============================================================================
