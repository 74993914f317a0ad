------------------------ MODULE MCSubmissionLifecycle ------------------------
(* An instance of SubmissionLifecycle for TLC.                             *)
EXTENDS SubmissionLifecycle

=============================================================================
