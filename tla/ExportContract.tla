--------------------------- MODULE ExportContract ---------------------------
(***************************************************************************)
(* What the export of registrations promises, whatever the jobs, the cache *)
(* and the faults in between do: a history row, once made, never vanishes; *)
(* it is confirmed EXPORTED only when the partner holds the result it      *)
(* stands for or the voter declined the transfer; and a partner only gets  *)
(* results whose voter agreed at some time.  Delivery is at least once:    *)
(* nothing here limits how often Deliver repeats.                          *)
(***************************************************************************)
CONSTANTS Results, Configs, HistoryId, ConfigFor, ResultFor

VARIABLES
    status,      \* status of every history row, "NONE" if there is no row
    sftp,        \* per configuration, the results the partner has received
    answered     \* per result, the answers its voter has given

vars == <<status, sftp, answered>>

Init ==
    /\ status = [h \in HistoryId |-> "NONE"]
    /\ sftp = [c \in Configs |-> {}]
    /\ answered = [r \in Results |-> {}]

Answer(r, answer) ==
    /\ answered' = [answered EXCEPT ![r] = @ \cup {answer}]
    /\ UNCHANGED <<status, sftp>>

Make(rows, as) ==
    /\ as \in {"NEW", "PREPARED"}
    /\ as = "NEW" => \A h \in rows : status[h] = "NONE"
    /\ status' = [h \in HistoryId |-> IF h \in rows THEN as ELSE status[h]]
    /\ UNCHANGED <<sftp, answered>>

Deliver(c, results) ==
    /\ \A r \in results : TRUE \in answered[r]
    /\ sftp' = [sftp EXCEPT ![c] = @ \cup results]
    /\ UNCHANGED <<status, answered>>

Confirm(rows) ==
    /\ \A h \in rows : /\ status[h] # "NONE"
                       /\ \/ ResultFor[h] \in sftp[ConfigFor[h]]
                          \/ FALSE \in answered[ResultFor[h]]
    /\ status' = [h \in HistoryId |-> IF h \in rows THEN "EXPORTED" ELSE status[h]]
    /\ UNCHANGED <<sftp, answered>>

Next ==
    \/ \E r \in Results, answer \in BOOLEAN : Answer(r, answer)
    \/ \E rows \in SUBSET HistoryId : (\E as \in {"NEW", "PREPARED"} : Make(rows, as)) \/ Confirm(rows)
    \/ \E c \in Configs, results \in SUBSET Results : Deliver(c, results)

Spec == Init /\ [][Next]_vars
=============================================================================
