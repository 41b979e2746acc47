-------------------------- MODULE MCProcessSandbox --------------------------
(* Instances of ProcessSandbox for TLC.  The two streams are not symmetric:  *)
(* the cap treats stderr differently.                                        *)
EXTENDS ProcessSandbox
=============================================================================
