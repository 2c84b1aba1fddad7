----------------------------- MODULE MailContract -----------------------------
(***************************************************************************)
(* What the mail queue promises its callers, whatever batches, objects,    *)
(* transactions and retries do in between.  A mail is handed to an SMTP    *)
(* server some times before its outcome is recorded; what is recorded is   *)
(* true of what happened; a deleted mail stays deleted.  A server that     *)
(* sends alone also records an outcome once: it never goes back to a mail  *)
(* that was sent or given up and, until a fault strikes, neither hands     *)
(* over a mail that has arrived nor tries one more often than allowed.     *)
(***************************************************************************)
EXTENDS Integers

CONSTANTS Emails, BadAddress, MaxAttempts,
          Alone     \* one server runs the job

VARIABLES
    status,      \* of every mail
    accepted,    \* how often an SMTP server has taken it
    failed,      \* how often sending it has ended in an exception
    struck       \* a fault has struck

vars == <<status, accepted, failed, struck>>

Init ==
    /\ status = [e \in Emails |-> "NONE"]
    /\ accepted = [e \in Emails |-> 0]
    /\ failed = [e \in Emails |-> 0]
    /\ struck = FALSE

Due == {"INITIAL", "RETRY"}

Queue(e) ==
    /\ status[e] = "NONE"
    /\ status' = [status EXCEPT ![e] = "INITIAL"]
    /\ UNCHANGED <<accepted, failed, struck>>

MayTry(e) ==
    /\ status[e] # "NONE"
    /\ Alone => status[e] \in Due \cup {"DELETED"}
    /\ Alone /\ ~struck => /\ accepted[e] = 0
                           /\ MaxAttempts > 0 => failed[e] < MaxAttempts

Arrive(e) ==
    /\ MayTry(e)
    /\ e \notin BadAddress
    /\ accepted' = [accepted EXCEPT ![e] = @ + 1]
    /\ UNCHANGED <<status, failed, struck>>

Fail(e) ==
    /\ MayTry(e)
    /\ failed' = [failed EXCEPT ![e] = @ + 1]
    /\ UNCHANGED <<status, accepted, struck>>

\* Only a fault makes a mail arrive and fail at once.
ArriveUnnoticed(e) ==
    /\ MayTry(e)
    /\ e \notin BadAddress
    /\ accepted' = [accepted EXCEPT ![e] = @ + 1]
    /\ failed' = [failed EXCEPT ![e] = @ + 1]
    /\ struck' = TRUE
    /\ UNCHANGED status

Justified(e, outcome) ==
    \/ outcome = "SENT" /\ accepted[e] > 0
    \/ outcome = "ERROR" /\ (e \in BadAddress \/ failed[e] >= MaxAttempts)
    \/ outcome = "RETRY" /\ e \notin BadAddress /\ failed[e] > 0

Record(e, outcome) ==
    /\ status[e] \notin {"NONE", "DELETED"}
    /\ Alone => status[e] \in Due
    /\ Justified(e, outcome)
    /\ status' = [status EXCEPT ![e] = outcome]
    /\ UNCHANGED <<accepted, failed, struck>>

Delete(old) ==
    /\ \A e \in old : status[e] # "NONE"
    /\ status' = [e \in Emails |-> IF e \in old THEN "DELETED" ELSE status[e]]
    /\ UNCHANGED <<accepted, failed, struck>>

Strike == struck' = TRUE /\ UNCHANGED <<status, accepted, failed>>

Next ==
    \/ \E e \in Emails :
          \/ Queue(e) \/ Arrive(e) \/ Fail(e) \/ ArriveUnnoticed(e)
          \/ \E outcome \in {"SENT", "ERROR", "RETRY"} : Record(e, outcome)
    \/ \E old \in SUBSET Emails : Delete(old)
    \/ Strike

Spec == Init /\ [][Next]_vars
=============================================================================
