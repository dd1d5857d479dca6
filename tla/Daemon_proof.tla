---------------------------- MODULE Daemon_proof ----------------------------
(***************************************************************************)
(* Proofs about Daemon for any set of supervisors and clients: its type    *)
(* invariant, the mutual exclusion of supervisors, the keeping of shells   *)
(* and of the published state, and the implementation of ShellOwnership.   *)
(***************************************************************************)
EXTENDS Daemon, TLAPS

USE DaemonAssumption DEF Procs

-----------------------------------------------------------------------------
(* Type correctness.                                                       *)

LEMMA InitTypeOK == Init => TypeOK
  BY DEF Init, TypeOK, Pcs, SupervisorPcs, ClientPcs, Commands

LEMMA RunningTargets ==
  ASSUME TypeOK, NEW l \in Pcs
  PROVE  /\ \A s \in Supervisors : /\ OnRunning(s, l) => l = "release"
                                   /\ OnNotRunning(s, l) => l = "start"
         /\ \A c \in Clients :
              /\ OnRunning(c, l) => l \in ClientPcs
                    /\ (l = "signal" <=> op[c] \in {"stop", "restart"})
              /\ OnNotRunning(c, l) => l \in ClientPcs \ {"signal"}
  BY DEF TypeOK, OnRunning, OnNotRunning, ClientPcs, Commands

LEMMA SupervisorTyped ==
  ASSUME TypeOK, NEW s \in Supervisors, SupervisorStep(s)
  PROVE  TypeOK'
<1> USE DEF TypeOK, Goto, SupervisorPcs, Pcs
<1>1. CASE AcquireLock(s) BY <1>1 DEF AcquireLock
<1>2. CASE ReadState(s) BY <1>2 DEF ReadState
<1>3. CASE CheckAlive(s) BY <1>3, RunningTargets DEF CheckAlive
<1>4. CASE ClearStale(s) BY <1>4, RunningTargets DEF ClearStale
<1>5. CASE StartShell(s) BY <1>5 DEF StartShell
<1>6. CASE AwaitInstance(s) BY <1>6 DEF AwaitInstance
<1>7. CASE WriteState(s) BY <1>7 DEF WriteState
<1>8. CASE KilledShell(s) BY <1>8 DEF KilledShell
<1>9. CASE SignalNotify(s) BY <1>9 DEF SignalNotify
<1>10. CASE Select(s) BY <1>10 DEF Select
<1>11. CASE Drain(s) BY <1>11 DEF Drain
<1>12. CASE Cleanup(s) BY <1>12 DEF Cleanup
<1>13. CASE Release(s) BY <1>13 DEF Release
<1> QED
  BY <1>1, <1>2, <1>3, <1>4, <1>5, <1>6, <1>7, <1>8, <1>9, <1>10, <1>11,
     <1>12, <1>13 DEF SupervisorStep

LEMMA ClientTyped ==
  ASSUME TypeOK, NEW c \in Clients, ClientStep(c)
  PROVE  TypeOK'
<1> USE DEF TypeOK, Goto, Pcs
<1>1. ASSUME NEW o \in Commands \ {"wait"}, Begin(c, o) PROVE TypeOK'
  BY <1>1 DEF Begin, ClientPcs, Commands
<1>2. CASE ReadState(c) BY <1>2 DEF ReadState, ClientPcs
<1>3. CASE CheckAlive(c) BY <1>3, RunningTargets DEF CheckAlive, Live, ClientPcs
<1>4. CASE ClearStale(c) BY <1>4, RunningTargets DEF ClearStale, Commands
<1>5. CASE Stop(c)
  <2>1. seen[c] \in Supervisors /\ pc[c] = "signal" BY <1>5 DEF Stop
  <2>2. CASE Terminated(seen[c])
    BY <1>5, <2>1, <2>2 DEF Stop, ClientPcs
  <2>3. CASE ~Terminated(seen[c])
    <3>1. PICK l \in {"read", "idle"} : Deliver(seen[c], c, l)
      BY <1>5, <2>3 DEF Stop
    <3>2. /\ UNCHANGED <<state, seen, shell>>
          /\ target' = [target EXCEPT ![c] = seen[c]]
          /\ op' = [op EXCEPT ![c] = IF @ = "restart" THEN "wait" ELSE @]
      BY <1>5, <2>3 DEF Stop
    <3>3. /\ lock' \in Supervisors \cup {None}
          /\ sig' \subseteq Supervisors
          /\ \/ pc' = [pc EXCEPT ![c] = l]
             \/ pc' = [pc EXCEPT ![seen[c]] = "killed", ![c] = l]
      BY <3>1, <2>1 DEF Deliver, Dies
    <3>4. l \in ClientPcs /\ l # "signal" /\ "killed" \in SupervisorPcs
      BY DEF ClientPcs, SupervisorPcs
    <3> QED BY <2>1, <3>2, <3>3, <3>4 DEF Commands
  <2> QED BY <2>2, <2>3
<1>6. CASE Spawn(c) BY <1>6 DEF Spawn, ClientPcs, SupervisorPcs
<1> QED BY <1>1, <1>2, <1>3, <1>4, <1>5, <1>6 DEF ClientStep

LEMMA ShellTyped ==
  ASSUME TypeOK, NEW s \in Supervisors,
         ShellServes(s) \/ ShellDies(s) \/ Kill(s)
  PROVE  TypeOK'
  BY DEF TypeOK, Pcs, ShellServes, ShellDies, Kill, Dies, Goto, Running, Terminated,
         SupervisorPcs

LEMMA NextTypeOK == TypeOK /\ [Next]_vars => TypeOK'
<1> SUFFICES ASSUME TypeOK, [Next]_vars PROVE TypeOK'
  OBVIOUS
<1>1. CASE Next BY <1>1, SupervisorTyped, ClientTyped, ShellTyped DEF Next
<1>2. CASE UNCHANGED vars BY <1>2 DEF vars, TypeOK
<1> QED BY <1>1, <1>2

\* The variables of the protocol keep their types in every reachable state.
THEOREM TypeCorrect == Spec => []TypeOK
  BY InitTypeOK, NextTypeOK, PTL DEF Spec

-----------------------------------------------------------------------------
(* The inductive invariant.                                                *)

LEMMA InitInv == Init => DaemonInv
  BY InitTypeOK DEF Init, DaemonInv, Owning, SupervisorPcs, Live,
     StateNamesServed, StateFollowsOwner

LEMMA SupervisorKeepsInv ==
  ASSUME DaemonInv, NEW s \in Supervisors, SupervisorStep(s), TypeOK'
  PROVE  DaemonInv'
<1> USE DEF DaemonInv, TypeOK, Pcs, Goto, Owning, Live, Resolvable,
            StateNamesServed, StateFollowsOwner, SupervisorPcs
<1>1. CASE AcquireLock(s) BY <1>1 DEF AcquireLock
<1>2. CASE ReadState(s) BY <1>2 DEF ReadState
<1>3. CASE CheckAlive(s) BY <1>3, RunningTargets DEF CheckAlive
<1>4. CASE ClearStale(s) BY <1>4, RunningTargets DEF ClearStale
<1>5. CASE StartShell(s) BY <1>5 DEF StartShell
<1>6. CASE AwaitInstance(s) BY <1>6 DEF AwaitInstance
<1>7. CASE WriteState(s) BY <1>7 DEF WriteState
<1>8. CASE KilledShell(s) BY <1>8 DEF KilledShell
<1>9. CASE SignalNotify(s) BY <1>9 DEF SignalNotify
<1>10. CASE Select(s) BY <1>10 DEF Select
<1>11. CASE Drain(s) BY <1>11 DEF Drain
<1>12. CASE Cleanup(s) BY <1>12 DEF Cleanup
<1>13. CASE Release(s) BY <1>13 DEF Release
<1> QED
  BY <1>1, <1>2, <1>3, <1>4, <1>5, <1>6, <1>7, <1>8, <1>9, <1>10, <1>11,
     <1>12, <1>13 DEF SupervisorStep

LEMMA ShellKeepsInv ==
  ASSUME DaemonInv, NEW s \in Supervisors, TypeOK',
         ShellServes(s) \/ ShellDies(s) \/ Kill(s)
  PROVE  DaemonInv'
<1> USE DEF DaemonInv, TypeOK, Pcs, Goto, Owning, Live, Resolvable,
            StateNamesServed, StateFollowsOwner, SupervisorPcs
<1>1. CASE ShellServes(s) BY <1>1 DEF ShellServes
<1>2. CASE ShellDies(s) BY <1>2 DEF ShellDies
<1>3. CASE Kill(s) BY <1>3 DEF Kill, Dies, Running, Terminated
<1> QED BY <1>1, <1>2, <1>3

\* A client's step moves no supervisor, except that Stop may kill the one it
\* signals or put a supervisor into its signal channel, and Spawn brings one
\* to AcquireLock; it writes the state file only to clear it.
LEMMA ClientKeepsInv ==
  ASSUME DaemonInv, NEW c \in Clients, ClientStep(c), TypeOK'
  PROVE  DaemonInv'
<1> USE DEF DaemonInv, TypeOK, Pcs, Goto, Owning, Live, Resolvable,
            StateNamesServed, StateFollowsOwner, SupervisorPcs
<1>1. ASSUME NEW o \in Commands \ {"wait"}, Begin(c, o) PROVE DaemonInv'
  BY <1>1 DEF Begin
<1>2. CASE ReadState(c) BY <1>2 DEF ReadState
<1>3. CASE CheckAlive(c) BY <1>3 DEF CheckAlive
<1>4. CASE ClearStale(c) BY <1>4 DEF ClearStale
<1>5. CASE Stop(c)
  <2>1. seen[c] \in Supervisors BY <1>5 DEF Stop
  <2>2. UNCHANGED <<state, seen, shell>> BY <1>5 DEF Stop
  <2>3. CASE Terminated(seen[c]) BY <1>5, <2>1, <2>2, <2>3 DEF Stop
  <2>4. CASE ~Terminated(seen[c])
    <3>1. PICK l : Deliver(seen[c], c, l)
      BY <1>5, <2>4 DEF Stop
    <3>2. CASE lock' = lock /\ Goto(c, l) BY <2>1, <2>2, <3>2
    <3>3. CASE /\ Running(seen[c])
               /\ Dies(seen[c])
               /\ pc' = [pc EXCEPT ![seen[c]] = "killed", ![c] = l]
      BY <2>1, <2>2, <3>3 DEF Dies, Running, Terminated
    <3> QED BY <3>1, <3>2, <3>3 DEF Deliver
  <2> QED BY <2>3, <2>4
<1>6. CASE Spawn(c) BY <1>6 DEF Spawn
<1> QED BY <1>1, <1>2, <1>3, <1>4, <1>5, <1>6 DEF ClientStep

LEMMA NextInv == DaemonInv /\ [Next]_vars => DaemonInv'
<1> SUFFICES ASSUME DaemonInv, [Next]_vars PROVE DaemonInv'
  OBVIOUS
<1>1. TypeOK' BY NextTypeOK DEF DaemonInv
<1>2. CASE Next
  BY <1>1, <1>2, SupervisorKeepsInv, ClientKeepsInv, ShellKeepsInv DEF Next
<1>3. CASE UNCHANGED vars
  BY <1>3 DEF vars, DaemonInv, TypeOK, Owning, Live, Resolvable,
              StateNamesServed, StateFollowsOwner
<1> QED BY <1>2, <1>3

\* The strengthened invariant holds in every reachable state.
THEOREM InvCorrect == Spec => []DaemonInv
  BY InitInv, NextInv, PTL DEF Spec

-----------------------------------------------------------------------------
(* What follows from it.                                                   *)

\* For any number of supervisors and clients, at most one supervisor is past
\* AcquireLock.
THEOREM OneOwnerHolds == Spec => []OneOwner
<1>1. DaemonInv => OneOwner BY DEF DaemonInv, OneOwner
<1> QED BY <1>1, InvCorrect, PTL

\* A live shell belongs to the holder of the lock unless its supervisor was
\* killed.
THEOREM ShellHasKeeperHolds == Spec => []ShellHasKeeper
<1>1. DaemonInv => ShellHasKeeper
  BY DEF DaemonInv, ShellHasKeeper, Owning, SupervisorPcs
<1> QED BY <1>1, InvCorrect, PTL

\* Only shells that served are ever published.
THEOREM StateNamesServedHolds == Spec => []StateNamesServed
<1>1. DaemonInv => StateNamesServed BY DEF DaemonInv
<1> QED BY <1>1, InvCorrect, PTL

\* While a supervisor owns the namespace the state file holds what its step
\* allows: nothing live before it clears it, nothing until it publishes, and
\* then its own identity unless a client removed it.
THEOREM StateFollowsOwnerHolds == Spec => []StateFollowsOwner
<1>1. DaemonInv => StateFollowsOwner BY DEF DaemonInv
<1> QED BY <1>1, InvCorrect, PTL

\* Until a supervisor is killed the namespace has one shell.
THEOREM OneShellUnlessKilledHolds == Spec => []OneShellUnlessKilled
<1>1. DaemonInv => OneShellUnlessKilled
  BY DEF DaemonInv, OneShellUnlessKilled, Owning, SupervisorPcs
<1> QED BY <1>1, InvCorrect, PTL

LostByClient == Live(state) /\ state' # state
                  => \E c \in Clients : pc[c] = "clear" /\ pc'[c] # "clear"

LEMMA StepLosesNoLiveState ==
  ASSUME DaemonInv, [Next]_vars PROVE LostByClient
<1> USE DEF DaemonInv, TypeOK, LostByClient, Live, StateFollowsOwner
<1>1. ASSUME NEW s \in Supervisors, SupervisorStep(s) PROVE LostByClient
  BY <1>1 DEF SupervisorStep, AcquireLock, ReadState, CheckAlive, ClearStale,
     StartShell, AwaitInstance, WriteState, KilledShell, SignalNotify, Select,
     Drain, Cleanup, Release
<1>2. ASSUME NEW s \in Supervisors,
             ShellServes(s) \/ ShellDies(s) \/ Kill(s)
      PROVE  LostByClient
  BY <1>2 DEF ShellServes, ShellDies, Kill
<1>3. ASSUME NEW c \in Clients, ClientStep(c) PROVE LostByClient
  <2>1. CASE ClearStale(c)
    <3>1. PICK l \in Pcs : OnNotRunning(c, l) /\ Goto(c, l)
      BY <2>1 DEF ClearStale
    <3>2. l # "clear" BY <3>1 DEF OnNotRunning
    <3> QED BY <2>1, <3>1, <3>2 DEF ClearStale, Goto
  <2>2. CASE ~ClearStale(c)
    BY <1>3, <2>2 DEF ClientStep, Begin, ReadState, CheckAlive, Stop, Spawn
  <2> QED BY <2>1, <2>2
<1>4. CASE UNCHANGED vars BY <1>4 DEF vars
<1> QED BY <1>1, <1>2, <1>3, <1>4 DEF Next

\* No supervisor's step removes or replaces the published state of a shell
\* that is alive; only the ClearState of a client's Running() can.
THEOREM LiveStateKeptHolds == Spec => LiveStateKept
<1>1. DaemonInv /\ [Next]_vars => [LostByClient]_vars
  BY StepLosesNoLiveState
<1> QED BY <1>1, InvCorrect, PTL DEF Spec, LiveStateKept, LostByClient

-----------------------------------------------------------------------------
(* The refinement.                                                         *)

Alive == {s \in Supervisors : Live(s)}
Lost == {s \in Supervisors : pc[s] = "killed"}
Abstract == [Ownership!OwnNext]_(Ownership!ownVars)

LEMMA InitMaps == Init => Ownership!OwnInit
  BY DEF Init, Ownership!OwnInit, Live

\* Acquiring takes, starting starts, releasing gives; every other step of a
\* supervisor is invisible to the abstract specification.
LEMMA SupervisorMaps ==
  ASSUME DaemonInv, NEW s \in Supervisors, SupervisorStep(s)
  PROVE  Abstract
<1> USE DEF DaemonInv, TypeOK, Abstract, Ownership!ownVars, Goto
<1>1. CASE AcquireLock(s)
  <2>1. pc'[s] # "killed" /\ pc[s] # "killed" BY <1>1 DEF AcquireLock
  <2>2. UNCHANGED <<Alive, Lost>>
    BY <1>1, <2>1 DEF AcquireLock, Alive, Lost, Live
  <2>3. CASE lock = None
    BY <1>1, <2>2, <2>3
       DEF AcquireLock, Ownership!OwnNext, Ownership!Take, Alive, Lost
  <2>4. CASE lock # None
    BY <1>1, <2>2, <2>4 DEF AcquireLock, Alive, Lost
  <2> QED BY <2>3, <2>4
<1>2. CASE StartShell(s)
  <2>1. lock = s /\ lock' = lock
    BY <1>2 DEF StartShell, Owning, SupervisorPcs
  <2>2. Lost' = Lost BY <1>2 DEF StartShell, Lost
  <2>3. Alive' = Alive \/ Alive' = Alive \cup {s}
    BY <1>2 DEF StartShell, Alive, Live
  <2> QED
    BY <2>1, <2>2, <2>3 DEF Ownership!OwnNext, Ownership!Start, Alive, Lost
<1>3. CASE Release(s)
  <2>1. lock = s /\ s \notin Alive
    BY <1>3 DEF Release, Owning, SupervisorPcs, Alive
  <2>2. UNCHANGED <<Alive, Lost>> BY <1>3 DEF Release, Alive, Lost, Live
  <2> QED
    BY <1>3, <2>1, <2>2
       DEF Release, Ownership!OwnNext, Ownership!Give, Alive, Lost
<1>4. CASE ~(AcquireLock(s) \/ StartShell(s) \/ Release(s))
  <2>1. lock' = lock /\ shell' = shell
    BY <1>4 DEF SupervisorStep, ReadState, CheckAlive, ClearStale,
       AwaitInstance, WriteState, KilledShell, SignalNotify, Select, Drain,
       Cleanup
  <2>2. \E l \in Pcs \ {"killed"} : pc' = [pc EXCEPT ![s] = l]
    BY <1>4, RunningTargets DEF SupervisorStep, ReadState, CheckAlive,
       ClearStale, AwaitInstance, WriteState, KilledShell, SignalNotify,
       Select, Drain, Cleanup, Pcs, SupervisorPcs
  <2>3. pc[s] # "killed"
    BY <1>4 DEF SupervisorStep, ReadState, CheckAlive, ClearStale,
       AwaitInstance, WriteState, KilledShell, SignalNotify, Select, Drain,
       Cleanup
  <2>4. UNCHANGED <<Alive, Lost>> BY <2>1, <2>2, <2>3 DEF Alive, Lost, Live
  <2> QED BY <2>1, <2>4 DEF Alive, Lost
<1> QED BY <1>1, <1>2, <1>3, <1>4

LEMMA ShellMaps ==
  ASSUME DaemonInv, NEW s \in Supervisors,
         ShellServes(s) \/ ShellDies(s) \/ Kill(s)
  PROVE  Abstract
<1> USE DEF DaemonInv, TypeOK, Abstract, Ownership!ownVars
<1>1. CASE ShellServes(s)
  <2>1. UNCHANGED <<lock, Alive, Lost>>
    BY <1>1 DEF ShellServes, Alive, Lost, Live
  <2> QED BY <2>1 DEF Alive, Lost
<1>2. CASE ShellDies(s)
  <2>1. UNCHANGED <<lock, Lost>> /\ Alive' = Alive \ {s}
    BY <1>2 DEF ShellDies, Alive, Lost, Live
  <2> QED BY <2>1 DEF Ownership!OwnNext, Ownership!End, Alive, Lost
<1>3. CASE Kill(s)
  <2>1. Alive' = Alive /\ Lost' = Lost \cup {s}
    BY <1>3 DEF Kill, Goto, Alive, Lost, Live, Pcs
  <2> QED
    BY <1>3, <2>1 DEF Kill, Dies, Ownership!OwnNext, Ownership!Lose, Alive, Lost
<1> QED BY <1>1, <1>2, <1>3

\* Of a client's steps only a Stop that kills a supervisor outside its select
\* is visible: it loses that supervisor.
LEMMA ClientMaps ==
  ASSUME DaemonInv, NEW c \in Clients, ClientStep(c)
  PROVE  Abstract
<1> USE DEF DaemonInv, TypeOK, Abstract, Ownership!ownVars, Goto
<1>1. CASE Stop(c)
  <2>1. seen[c] \in Supervisors /\ shell' = shell BY <1>1 DEF Stop
  <2>2. CASE UNCHANGED lock /\ \E l : pc' = [pc EXCEPT ![c] = l]
    <3>1. UNCHANGED <<Alive, Lost>> BY <2>1, <2>2 DEF Alive, Lost, Live
    <3> QED BY <2>2, <3>1 DEF Alive, Lost
  <2>3. CASE /\ Dies(seen[c])
             /\ \E l : pc' = [pc EXCEPT ![seen[c]] = "killed", ![c] = l]
    <3>1. Alive' = Alive /\ Lost' = Lost \cup {seen[c]}
      BY <2>1, <2>3 DEF Alive, Lost, Live
    <3> QED
      BY <2>1, <2>3, <3>1
         DEF Dies, Ownership!OwnNext, Ownership!Lose, Alive, Lost
  <2> QED BY <1>1, <2>2, <2>3 DEF Stop, Deliver
<1>2. CASE Spawn(c)
  <2>1. UNCHANGED <<lock, Alive, Lost>>
    BY <1>2 DEF Spawn, Alive, Lost, Live
  <2> QED BY <2>1 DEF Alive, Lost
<1>3. CASE ~(Stop(c) \/ Spawn(c))
  <2>1. UNCHANGED <<lock, shell>> /\ \E l : pc' = [pc EXCEPT ![c] = l]
    BY <1>3 DEF ClientStep, Begin, ReadState, CheckAlive, ClearStale
  <2>2. UNCHANGED <<Alive, Lost>> BY <2>1 DEF Alive, Lost, Live
  <2> QED BY <2>1, <2>2 DEF Alive, Lost
<1> QED BY <1>1, <1>2, <1>3

\* The supervisor protocol, with its files, signals, polling and deaths,
\* implements exclusive ownership of the namespace.
THEOREM Refinement == Spec => ImplementsOwnership
<1>1. DaemonInv /\ [Next]_vars => Abstract
  <2> SUFFICES ASSUME DaemonInv, [Next]_vars PROVE Abstract
    OBVIOUS
  <2>1. CASE Next
    BY <2>1, SupervisorMaps, ShellMaps, ClientMaps DEF Next
  <2>2. CASE UNCHANGED vars
    BY <2>2 DEF vars, Abstract, Ownership!ownVars, Live
  <2> QED BY <2>1, <2>2
<1> QED
  BY <1>1, InitMaps, InvCorrect, PTL
     DEF Spec, ImplementsOwnership, Ownership!OwnSpec, Abstract
=============================================================================
