--------------------------- MODULE MCDockerSandbox ---------------------------
(* Instances of DockerSandbox for TLC: one timeout within the lease, one     *)
(* beyond it.                                                                *)
EXTENDS DockerSandbox
MCDeadlines == {1, 3}
=============================================================================
