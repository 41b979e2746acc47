----------------------- MODULE MCSubmissionLifecycle -----------------------
(* Instances of SubmissionLifecycle for TLC. *)
EXTENDS SubmissionLifecycle
=============================================================================
