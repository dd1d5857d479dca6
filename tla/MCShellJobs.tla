---------------------------- MODULE MCShellJobs ----------------------------
(* Instances of ShellJobs for TLC. *)
EXTENDS ShellJobs

MCPlace    == [ddc |-> 1, lcd |-> 2]
MCMaxCalls == [brightness |-> 3, search |-> 5]

\* A backlight that is truncated both ways and a monitor that has fewer steps
\* than there are percents.
MCHardwareMax == [ddc |-> 1, lcd |-> 3]
=============================================================================
