--------------------------- MODULE MCJobLifecycle ---------------------------
(***************************************************************************)
(* Small instances of JobLifecycle and of its dry run for TLC.              *)
(***************************************************************************)
EXTENDS SubmissionDryRun

CONSTANTS j1

OneJob      == {j1}
NoDefects   == {}
AsCommitted == {"ids", "schema", "retrieval"}
=============================================================================
