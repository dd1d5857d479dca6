------------------------------- MODULE Daemon -------------------------------
(***************************************************************************)
(* The `vastctl daemon` protocol: supervisors that run one shell per       *)
(* namespace under a file lock and publish its identity in a state file,   *)
(* and the short-lived clients (start, stop, restart, status and every IPC *)
(* command) that read that file.                                           *)
(*                                                                         *)
(* A supervisor identity stands for one `vastctl daemon run` process and   *)
(* for the one shell it may start: process ids are never reused here.      *)
(* Supervisors and clients are processes that interleave at every file     *)
(* operation, signal and process event.                                    *)
(***************************************************************************)

CONSTANTS
  Supervisors,  \* the supervisor processes that may ever be spawned
  Clients,      \* the client processes; each issues commands one by one
  None          \* no supervisor: a free lock, an absent state file

ASSUME DaemonAssumption ==
  /\ None \notin Supervisors
  /\ Supervisors \cap Clients = {}

Procs == Supervisors \cup Clients

VARIABLES
  lock,    \* the supervisor holding the flock on vast.lock
  state,   \* the supervisor (and shell) that state.json names
  pc,      \* where each process is in its function
  op,      \* the command each process is executing
  seen,    \* what each process's last ReadState returned
  shell,   \* the shell of each supervisor
  sig,     \* supervisors whose signal channel holds a SIGINT or SIGTERM
  target   \* the supervisor each client's last Stop signalled (history)

vars == <<lock, state, pc, op, seen, shell, sig, target>>

Commands == {"start", "stop", "restart", "wait", "query", "run"}

SupervisorPcs == {"absent", "lock", "read", "check", "clear", "start",
                  "await", "publish", "kill", "notify", "serve", "drain",
                  "cleanup", "release", "exited", "killed"}

ClientPcs == {"idle", "read", "check", "clear", "signal", "spawn"}

Pcs == SupervisorPcs \cup ClientPcs

Init ==
  /\ lock = None
  /\ state = None
  /\ pc = [p \in Procs |-> IF p \in Supervisors THEN "absent" ELSE "idle"]
  /\ op = [p \in Procs |-> IF p \in Supervisors THEN "supervise" ELSE "query"]
  /\ seen = [p \in Procs |-> None]
  /\ shell = [s \in Supervisors |-> "none"]
  /\ sig = {}
  /\ target = [c \in Clients |-> None]

\* A shell process that answers kill(pid, 0): started and not yet reaped.
Live(s) == s \in Supervisors /\ shell[s] \in {"booting", "serving"}

\* The instance id of the shell resolves: it served, and the by-pid link of a
\* shell that died after serving may still be there.
Resolvable(s) == shell[s] \in {"serving", "gone"}

Terminated(s) == pc[s] \in {"exited", "killed"}
Running(s) == ~Terminated(s) /\ pc[s] # "absent"

Goto(p, l) == pc' = [pc EXCEPT ![p] = l]

-----------------------------------------------------------------------------
(* Running(): three steps of whichever process calls it.                   *)

\* l is where a command goes when Running() returns a live state. A restart
\* that polls in waitForExit polls again or gives up after its last attempt.
OnRunning(p, l) ==
  \/ op[p] = "supervise" /\ l = "release"
  \/ op[p] \in {"start", "query"} /\ l = "idle"
  \/ op[p] \in {"stop", "restart"} /\ l = "signal"
  \/ op[p] = "wait" /\ l \in {"read", "idle"}

\* l is where a command goes when Running() returns ErrNotRunning.
OnNotRunning(p, l) ==
  \/ op[p] = "supervise" /\ l = "start"
  \/ op[p] \in {"start", "wait"} /\ l = "spawn"
  \/ op[p] = "restart" /\ l = "read"
  \/ op[p] \in {"stop", "query"} /\ l = "idle"

ReadState(p) ==
  /\ pc[p] = "read"
  /\ seen' = [seen EXCEPT ![p] = state]
  /\ Goto(p, "check")
  /\ UNCHANGED <<lock, state, op, shell, sig, target>>

CheckAliveAlwaysClears(p) ==  \* fault: Supervise does not heed a live state
  /\ pc[p] = "check"
  /\ IF Live(seen[p]) /\ p \in Clients
     THEN \E l \in Pcs : OnRunning(p, l) /\ Goto(p, l)
     ELSE Goto(p, "clear")
  /\ UNCHANGED <<lock, state, op, seen, shell, sig, target>>

CheckAliveTrustsFile(p) ==  \* fault: the recorded pids are not probed
  /\ pc[p] = "check"
  /\ \/ \E l \in Pcs : OnRunning(p, l) /\ Goto(p, l)
     \/ seen[p] = None /\ Goto(p, "clear")
  /\ UNCHANGED <<lock, state, op, seen, shell, sig, target>>

CheckAlive(p) ==
  /\ pc[p] = "check"
  /\ IF Live(seen[p]) THEN \E l \in Pcs : OnRunning(p, l) /\ Goto(p, l)
                      ELSE Goto(p, "clear")
  /\ UNCHANGED <<lock, state, op, seen, shell, sig, target>>

\* ClearState removes whatever the file holds by now, not what was read. In
\* Supervise the ClearState that follows Running() is the same step: only the
\* holder of the lock publishes.
ClearStale(p) ==
  /\ pc[p] = "clear"
  /\ state' = None
  /\ \E l \in Pcs : OnNotRunning(p, l) /\ Goto(p, l)
  /\ op' = [op EXCEPT ![p] = IF @ = "restart" THEN "wait" ELSE @]
  /\ UNCHANGED <<lock, seen, shell, sig, target>>

-----------------------------------------------------------------------------
(* Supervise.                                                              *)

AcquireUnguarded(s) ==  \* fault: the lock is taken whoever holds it
  /\ pc[s] = "lock"
  /\ lock' = s
  /\ Goto(s, "read")
  /\ UNCHANGED <<state, op, seen, shell, sig, target>>

AcquireLock(s) ==
  /\ pc[s] = "lock"
  /\ IF lock = None THEN lock' = s /\ Goto(s, "read")
                    ELSE lock' = lock /\ Goto(s, "exited")
  /\ UNCHANGED <<state, op, seen, shell, sig, target>>

\* cmd.Start; when it fails, Supervise returns.
StartShell(s) ==
  /\ pc[s] = "start"
  /\ \/ shell' = [shell EXCEPT ![s] = "booting"] /\ Goto(s, "await")
     \/ shell' = shell /\ Goto(s, "release")
  /\ UNCHANGED <<lock, state, op, seen, sig, target>>

AwaitAbandons(s) ==  \* fault: a failed start returns without killing the shell
  /\ pc[s] = "await"
  /\ \/ Resolvable(s) /\ Goto(s, "publish")
     \/ shell[s] \in {"dead", "gone"} /\ Goto(s, "release")
     \/ shell[s] = "booting" /\ Goto(s, "release")
  /\ UNCHANGED <<lock, state, op, seen, shell, sig, target>>

AwaitForever(s) ==  \* fault: no boot timeout
  /\ pc[s] = "await"
  /\ \/ Resolvable(s) /\ Goto(s, "publish")
     \/ shell[s] \in {"dead", "gone"} /\ Goto(s, "kill")
  /\ UNCHANGED <<lock, state, op, seen, shell, sig, target>>

\* AwaitInstance: the instance id resolves, the shell died, or BootTimeout.
AwaitInstance(s) ==
  /\ pc[s] = "await"
  /\ \/ Resolvable(s) /\ Goto(s, "publish")
     \/ shell[s] \in {"dead", "gone"} /\ Goto(s, "kill")
     \/ shell[s] = "booting" /\ Goto(s, "kill")
  /\ UNCHANGED <<lock, state, op, seen, shell, sig, target>>

\* WriteState renames a complete file into place, or fails and the shell is
\* taken down.
WriteState(s) ==
  /\ pc[s] = "publish"
  /\ \/ state' = s /\ Goto(s, "notify")
     \/ state' = state /\ Goto(s, "kill")
  /\ UNCHANGED <<lock, op, seen, shell, sig, target>>

\* cmd.Process.Kill(); <-died
KilledShell(s) ==
  /\ pc[s] = "kill"
  /\ ~Live(s)
  /\ Goto(s, "release")
  /\ UNCHANGED <<lock, state, op, seen, shell, sig, target>>

SignalNotify(s) ==
  /\ pc[s] = "notify"
  /\ Goto(s, "serve")
  /\ UNCHANGED <<lock, state, op, seen, shell, sig, target>>

SelectDropsSignal(s) ==  \* fault: the signal is taken and not acted upon
  /\ pc[s] = "serve"
  /\ \/ ~Live(s) /\ Goto(s, "cleanup") /\ sig' = sig
     \/ s \in sig /\ Goto(s, "serve") /\ sig' = sig \ {s}
  /\ UNCHANGED <<lock, state, op, seen, shell, target>>

\* select { <-died ; sig := <-stop, forwarded to the shell }
Select(s) ==
  /\ pc[s] = "serve"
  /\ \/ ~Live(s) /\ Goto(s, "cleanup") /\ sig' = sig
     \/ s \in sig /\ Goto(s, "drain") /\ sig' = sig \ {s}
  /\ UNCHANGED <<lock, state, op, seen, shell, target>>

DrainImpatient(s) ==  \* fault: the shell's exit is not awaited
  /\ pc[s] = "drain"
  /\ Goto(s, "cleanup")
  /\ UNCHANGED <<lock, state, op, seen, shell, sig, target>>

\* <-died after the signal was forwarded
Drain(s) ==
  /\ pc[s] = "drain"
  /\ ~Live(s)
  /\ Goto(s, "cleanup")
  /\ UNCHANGED <<lock, state, op, seen, shell, sig, target>>

\* The deferred signal.Stop and ClearState.
Cleanup(s) ==
  /\ pc[s] = "cleanup"
  /\ state' = None
  /\ Goto(s, "release")
  /\ UNCHANGED <<lock, op, seen, shell, sig, target>>

\* The deferred lock.Release, on every return after AcquireLock.
Release(s) ==
  /\ pc[s] = "release"
  /\ lock' = None
  /\ Goto(s, "exited")
  /\ sig' = sig \ {s}
  /\ UNCHANGED <<state, op, seen, shell, target>>

-----------------------------------------------------------------------------
(* The shell and the death of a supervisor.                                *)

\* quickshell publishes its by-pid link.
ShellServes(s) ==
  /\ shell[s] = "booting"
  /\ shell' = [shell EXCEPT ![s] = "serving"]
  /\ UNCHANGED <<lock, state, pc, op, seen, sig, target>>

\* The shell exits by itself, by a signal or by SIGKILL, and is reaped.
ShellDies(s) ==
  /\ Live(s)
  /\ shell' = [shell EXCEPT ![s] = IF @ = "serving" THEN "gone" ELSE "dead"]
  /\ UNCHANGED <<lock, state, pc, op, seen, sig, target>>

\* A shell that was sent SIGKILL or the forwarded signal.
ShellObeys(s) == pc[s] \in {"kill", "drain"} /\ ShellDies(s)

\* The supervisor dies without running its deferred calls; the kernel drops
\* its lock. Its shell, if any, lives on.
Dies(s) ==
  /\ lock' = IF lock = s THEN None ELSE lock
  /\ sig' = sig \ {s}

Kill(s) ==
  /\ Running(s)
  /\ Dies(s)
  /\ Goto(s, "killed")
  /\ UNCHANGED <<state, op, seen, shell, target>>

-----------------------------------------------------------------------------
(* The clients.                                                            *)

\* A command begins with Running(), save `daemon run`, which a service
\* manager executes without asking.
Begin(c, o) ==
  /\ pc[c] = "idle"
  /\ op' = [op EXCEPT ![c] = o]
  /\ target' = [target EXCEPT ![c] = None]
  /\ Goto(c, IF o = "run" THEN "spawn" ELSE "read")
  /\ UNCHANGED <<lock, state, seen, shell, sig>>

\* What SIGTERM does to supervisor s, and where client c goes.
Deliver(s, c, l) ==
  \/ /\ pc[s] = "serve"
     /\ sig' = sig \cup {s}
     /\ lock' = lock
     /\ Goto(c, l)
  \/ /\ pc[s] \in {"drain", "cleanup"}
     /\ UNCHANGED <<sig, lock>>
     /\ Goto(c, l)
  \/ /\ Running(s) /\ pc[s] \notin {"serve", "drain"}
     /\ Dies(s)
     /\ pc' = [pc EXCEPT ![s] = "killed", ![c] = l]

\* Stop signals the recorded supervisor. It fails when that process is gone;
\* after a success a restart goes on to waitForExit.
Stop(c) ==
  /\ pc[c] = "signal"
  /\ LET s == seen[c] IN
       IF Terminated(s)
       THEN Goto(c, "idle") /\ UNCHANGED <<lock, sig, op, target>>
       ELSE /\ Deliver(s, c, IF op[c] = "restart" THEN "read" ELSE "idle")
            /\ target' = [target EXCEPT ![c] = s]
            /\ op' = [op EXCEPT ![c] = IF @ = "restart" THEN "wait" ELSE @]
  /\ UNCHANGED <<state, seen, shell>>

\* spawnSupervisor, or runSupervisor in the client's own process; either may
\* fail before a supervisor runs.
Spawn(c) ==
  /\ pc[c] = "spawn"
  /\ \/ \E s \in Supervisors :
          pc[s] = "absent" /\ pc' = [pc EXCEPT ![s] = "lock", ![c] = "idle"]
     \/ Goto(c, "idle")
  /\ UNCHANGED <<lock, state, op, seen, shell, sig, target>>

-----------------------------------------------------------------------------
SupervisorStep(s) ==
  \/ AcquireLock(s) \/ ReadState(s) \/ CheckAlive(s) \/ ClearStale(s)
  \/ StartShell(s) \/ AwaitInstance(s) \/ WriteState(s) \/ KilledShell(s)
  \/ SignalNotify(s) \/ Select(s) \/ Drain(s) \/ Cleanup(s) \/ Release(s)

ClientStep(c) ==
  \/ \E o \in Commands \ {"wait"} : Begin(c, o)
  \/ ReadState(c) \/ CheckAlive(c) \/ ClearStale(c)
  \/ Stop(c) \/ Spawn(c)

Next ==
  \/ \E s \in Supervisors :
       SupervisorStep(s) \/ ShellServes(s) \/ ShellDies(s) \/ Kill(s)
  \/ \E c \in Clients : ClientStep(c)

Spec == Init /\ [][Next]_vars

\* A process that is not blocked is scheduled; AwaitInstance polls against a
\* deadline; a shell that was told to exit does.
FairSpec ==
  /\ Spec
  /\ \A s \in Supervisors :
       WF_vars(SupervisorStep(s)) /\ WF_vars(ShellObeys(s))

-----------------------------------------------------------------------------
(* Properties.                                                             *)

\* Type correctness of the supervisor protocol's state.
TypeOK ==
  /\ lock \in Supervisors \cup {None}
  /\ state \in Supervisors \cup {None}
  /\ pc \in [Procs -> Pcs]
  /\ \A s \in Supervisors : pc[s] \in SupervisorPcs /\ op[s] = "supervise"
  /\ \A c \in Clients : pc[c] \in ClientPcs /\ op[c] \in Commands
  /\ op \in [Procs -> Commands \cup {"supervise"}]
  /\ seen \in [Procs -> Supervisors \cup {None}]
  /\ \A c \in Clients : pc[c] = "signal" => seen[c] \in Supervisors
  /\ shell \in [Supervisors -> {"none", "booting", "serving", "dead", "gone"}]
  /\ sig \subseteq Supervisors
  /\ target \in [Clients -> Supervisors \cup {None}]

\* The supervisors between a successful AcquireLock and Release.
Owning(s) == pc[s] \in SupervisorPcs \ {"absent", "lock", "exited", "killed"}

\* At most one supervisor runs past AcquireLock, so at most one shell is under
\* supervision, whatever is killed and whoever races to start it.
OneOwner == \A s, t \in Supervisors : Owning(s) /\ Owning(t) => s = t

\* A shell is never abandoned: while it lives its supervisor holds the lock,
\* unless that supervisor was killed. Every error return of Supervise takes its
\* shell down first.
ShellHasKeeper == \A s \in Supervisors : Live(s) => lock = s \/ pc[s] = "killed"

\* The state file names only a shell whose IPC instance was resolvable when it
\* was published, so a client never routes a call to a booting shell.
StateNamesServed == state # None => Resolvable(state)

\* What the state file may hold while a supervisor owns the lock: nothing live
\* when it is about to clear it, nothing until it publishes, and then its own
\* identity unless a client removed it.
StateFollowsOwner ==
  \A s \in Supervisors :
    /\ pc[s] = "check" => state \in {seen[s], None}
    /\ pc[s] = "clear" => ~Live(state)
    /\ pc[s] \in {"start", "await", "publish", "kill"} => state = None
    /\ pc[s] \in {"notify", "serve", "drain", "cleanup"} => state \in {s, None}

\* The strengthening the proofs rest on: the lock names the one supervisor past
\* AcquireLock, a live shell belongs to a supervisor that is still tending it
\* or was killed, and what is published has served.
DaemonInv ==
  /\ TypeOK
  /\ \A s \in Supervisors : Owning(s) <=> lock = s
  /\ \A s \in Supervisors :
       Live(s) => pc[s] \in {"await", "publish", "kill", "notify", "serve",
                             "drain", "killed"}
  /\ \A s \in Supervisors : pc[s] = "publish" => Resolvable(s)
  /\ StateNamesServed
  /\ StateFollowsOwner

\* Without a killed supervisor there is one shell per namespace.
OneShellUnlessKilled ==
  (\A s \in Supervisors : pc[s] # "killed")
    => \A s, t \in Supervisors : Live(s) /\ Live(t) => s = t

\* Supervise never removes or replaces the published state of a live shell,
\* an orphan's included: only a client's Running() can lose it.
LiveStateKept ==
  [][Live(state) /\ state' # state => \E c \in Clients : pc[c] = "clear"
                                                  /\ pc'[c] # "clear"]_vars

\* A boot never wedges the namespace: who takes the lock ends up serving or
\* gives the lock back.
BootSettles ==
  \A s \in Supervisors : lock = s ~> (pc[s] = "serve" \/ lock # s)

\* A stop request that reached a serving supervisor ends in a free lock.
StopCompletes == \A s \in Supervisors : s \in sig ~> lock # s

\* The protocol implements the abstract ownership of a namespace.
Ownership ==
  INSTANCE ShellOwnership WITH
    owner <- lock,
    alive <- {s \in Supervisors : Live(s)},
    lost  <- {s \in Supervisors : pc[s] = "killed"}

\* Every supervisor, client, shell and kill step takes, keeps, gives back or
\* loses the namespace the way ShellOwnership allows.
ImplementsOwnership == Ownership!OwnSpec

\* supervise.go: an orphaned shell that still answers IPC is refused, "what
\* keeps that from becoming a second shell": beside a serving shell none lives.
OneShell ==
  \A s, t \in Supervisors : shell[s] = "serving" /\ Live(t) => s = t

\* daemon.go: waitForExit blocks until the daemon is gone, "so a restart does
\* not race the outgoing supervisor for the lock".
RestartDoesNotRace ==
  \A c \in Clients : op[c] = "wait" /\ pc[c] = "spawn" => lock # target[c]
                                                      \/ target[c] = None
=============================================================================
