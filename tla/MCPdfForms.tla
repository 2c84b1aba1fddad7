----------------------------- MODULE MCPdfForms -----------------------------
(* Instances of PdfForms for TLC. *)
EXTENDS PdfForms, TLC

\* Nothing picks one load, session or content over another.
Symmetry == Permutations(Loads) \cup Permutations(Answers) \cup Permutations(Sessions)
=============================================================================
