--------------------------- MODULE ShellOwnership ---------------------------
(***************************************************************************)
(* What `vastctl daemon` promises about the shells of one namespace,       *)
(* without files, signals or polling: one owner at a time, an owner starts *)
(* its shell while it owns the namespace and gives the namespace back only *)
(* after that shell is dead. Only an owner that is killed leaves a live    *)
(* shell behind.                                                           *)
(***************************************************************************)

CONSTANTS Supervisors, None

VARIABLES
  owner,  \* the supervisor that owns the namespace
  alive,  \* the supervisors whose shell lives
  lost    \* the supervisors that were killed

ownVars == <<owner, alive, lost>>

OwnInit == owner = None /\ alive = {} /\ lost = {}

Take(s) == owner = None /\ owner' = s /\ UNCHANGED <<alive, lost>>

Start(s) ==
  /\ owner = s
  /\ alive' = alive \cup {s}
  /\ UNCHANGED <<owner, lost>>

End(s) == alive' = alive \ {s} /\ UNCHANGED <<owner, lost>>

Give(s) ==
  /\ owner = s
  /\ s \notin alive
  /\ owner' = None
  /\ UNCHANGED <<alive, lost>>

Lose(s) ==
  /\ lost' = lost \cup {s}
  /\ owner' = IF owner = s THEN None ELSE owner
  /\ UNCHANGED alive

OwnNext ==
  \E s \in Supervisors : Take(s) \/ Start(s) \/ End(s) \/ Give(s) \/ Lose(s)

OwnSpec == OwnInit /\ [][OwnNext]_ownVars
=============================================================================
