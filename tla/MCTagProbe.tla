------------------------------ MODULE MCTagProbe ------------------------------
(* TagProbe on a small machine: systemd, the shell and two more pids, so that   *)
(* a chain of two forks exists and its pids come round again.                   *)
EXTENDS TagProbe, TLC

CONSTANTS a, b

MCPid == {Pid1, Shell, a, b}
\* A scope that takes a process out of the session is any cgroup but the
\* session's, and RootCg will do.
MCCgroup == {RootCg, SessionCg}

\* a and b play the same part.
MCSymmetry == Permutations({a, b})
=============================================================================
