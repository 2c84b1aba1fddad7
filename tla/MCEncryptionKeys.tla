-------------------------- MODULE MCEncryptionKeys --------------------------
(* Instances of EncryptionKeys for TLC: two threads on one server, one on    *)
(* another.                                                                  *)
EXTENDS EncryptionKeys, TLC

CONSTANTS s1, s2, t1, t2, u1

\* The threads of one server are alike.
Alike == Permutations({t1, t2})

Placement == t1 :> s1 @@ t2 :> s1 @@ u1 :> s2
=============================================================================
