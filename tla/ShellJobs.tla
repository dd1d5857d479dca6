------------------------------ MODULE ShellJobs ------------------------------
(***************************************************************************)
(* The users of JobExecutor together: their jobs share its one thread and  *)
(* their queued calls the main thread, each in the order of posting.       *)
(***************************************************************************)
EXTENDS Brightness, FileSearch

vars == <<executor, brightness, fileSearch>>

\* Component.onCompleted of the brightness service posts the first scan.
Init ==
  /\ user \in Users
  /\ jobs = IF user = "brightness" THEN <<Scan>> ELSE <<>>
  /\ replies = <<>> /\ calls = 0
  /\ BrightnessInit /\ FileSearchInit
  /\ user = "brightness" \/ level = [d \in Displays |-> 0]

SearchWork  == FileSearchWork /\ UNCHANGED brightness
SearchReply == FileSearchReply /\ UNCHANGED brightness

Work  == \/ BrightnessWork /\ UNCHANGED fileSearch
         \/ SearchWork
Reply == \/ BrightnessReply /\ UNCHANGED fileSearch
         \/ SearchReply

Calls == \/ BrightnessCall /\ UNCHANGED fileSearch
         \/ FileSearchCall /\ UNCHANGED brightness
Timer == Debounce /\ UNCHANGED brightness

Next == Calls \/ Work \/ Reply \/ Timer

Spec == Init /\ [][Next]_vars

\* Both threads run what is the search's in their event loops, and the timer
\* fires: in a behaviour of the search nothing else is queued.
FairSpec ==
  /\ Spec
  /\ WF_vars(SearchWork) /\ WF_vars(SearchReply) /\ WF_vars(Timer)
=============================================================================
