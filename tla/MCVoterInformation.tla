------------------------- MODULE MCVoterInformation -------------------------
(* Instances of VoterInformation for TLC: a region in each of two states. *)
EXTENDS VoterInformation, TLC

CONSTANTS ca, tx, la, ha

\* One voter fills in the address, the other changes states and regions.
TwoVoters == {Boxes \cup Fields \cup {ca, la}, {"street1", ca, tx, la, ha}}

HomeOf == la :> ca @@ ha :> tx
=============================================================================
