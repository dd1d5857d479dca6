---------------------------- MODULE JobExecutor ----------------------------
(***************************************************************************)
(* JobExecutor: one worker thread behind one queue, whose jobs return to   *)
(* the main thread as queued calls.  Brightness and FileSearch share it.   *)
(*                                                                         *)
(* Another user's entries in a queue only delay one's own, so a behaviour  *)
(* in which one user is called shows all that this user can meet.          *)
(*                                                                         *)
(* A job and the queued call that ends it are one step: the main thread    *)
(* sees nothing of a job but that call.                                    *)
(***************************************************************************)
EXTENDS Naturals, Sequences

CONSTANTS
  Users,     \* the components that post jobs
  MaxCalls,  \* bound: calls each of them gets in a behaviour
  None       \* no value: of a display, a folder, results, ...

VARIABLES
  jobs,      \* the event queue of the worker thread
  replies,   \* the queued calls that wait for the main thread
  calls,     \* calls made
  user       \* the component that gets the calls of this behaviour

executor == <<jobs, replies, calls, user>>

CallOf(u) == user = u /\ calls < MaxCalls[u] /\ calls' = calls + 1 /\ UNCHANGED user

\* The user interface calls u, which posts jobs js.
Call(u, js) == CallOf(u) /\ jobs' = jobs \o js

\* The worker thread runs the first job, of kind k; r is what it sends back.
Run(k, r) ==
  /\ jobs # <<>> /\ Head(jobs).kind = k
  /\ jobs' = Tail(jobs)
  /\ replies' = Append(replies, r)
  /\ UNCHANGED <<calls, user>>

Due(k) == replies # <<>> /\ Head(replies).kind = k

\* The main thread takes the first queued call, of kind k.
Deliver(k) ==
  /\ Due(k)
  /\ replies' = Tail(replies)
  /\ UNCHANGED <<calls, user>>

Quiet == jobs = <<>> /\ replies = <<>>

=============================================================================
