-------------------------- MODULE MCMicroVMSandbox --------------------------
(* MicroVMSandbox for TLC; the configuration gives its bounds. *)
EXTENDS MicroVMSandbox
=============================================================================
