------------------------ MODULE MCRegistrationExport ------------------------
(* Instances of RegistrationExport for TLC. *)
EXTENDS RegistrationExport, TLC

\* Every configuration is enabled and has its SFTP settings: nothing to edit.
OnSftp == {<<TRUE, TRUE>>}
\* Administrators switch deliveries and the recording of histories on and off.
AllSettings == BOOLEAN \X BOOLEAN

\* Results are interchangeable, job threads too; configurations are not, as
\* IdleRun picks one of them.
Symmetry == Permutations(Results) \cup Permutations(Runs)
=============================================================================
