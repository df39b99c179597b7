---------------------------- MODULE MCReportAccess ----------------------------
(***************************************************************************)
(* Model checking of ReportAccess.  The recipients differ in privileges, so *)
(* that only the workers and the files are interchangeable.                 *)
(***************************************************************************)
EXTENDS ReportAccess, TLC

Symmetry == Permutations(Workers) \cup Permutations(Files)

=============================================================================
