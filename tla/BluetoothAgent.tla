--------------------------- MODULE BluetoothAgent ---------------------------
(***************************************************************************)
(* The Bluetooth pairing agent: BluetoothAgentManager registers itself     *)
(* with bluetoothd over the system bus in two asynchronous calls, keeps    *)
(* one pairing prompt per device until the dialog answers it, and follows  *)
(* bluetoothd through stops, crashes and restarts.                         *)
(*                                                                         *)
(* The bus keeps the order of what each side sends.  What the shell        *)
(* receives waits in the event queue of its main thread, so bluetoothd may *)
(* be several events ahead of the shell.  bluetoothd is external: it does  *)
(* what the shell's code and tests expect of it.                           *)
(***************************************************************************)
EXTENDS Parts, SequencesExt

CONSTANTS
  Devices,   \* device paths
  Buses,       \* what bluetoothd may do: pairs of refuses and lag, see bus
  MaxBoots,    \* bound: times bluetoothd starts
  MaxPrompts   \* bound: prompts bluetoothd issues

ASSUME AgentAssumption ==
  /\ Buses # {} /\ Buses \subseteq [refuses : BOOLEAN, lag : {"nobody", "shell", "shell and bus"}]
  /\ MaxBoots \in Nat \ {0} /\ MaxPrompts \in Nat
  /\ None \notin Devices /\ None \notin Nat

Prompts == 1 .. MaxPrompts

VARIABLES
  active,     \* mActive
  inFlight,   \* mActivationInFlight
  exported,   \* the agent object is registered on the bus connection
  pending,    \* mPending: the prompt each device waits for
  dialog,     \* the device the dialog asks about; None: currentMethod is ""
  inbox,      \* what the main thread has yet to handle
  wire,       \* what the shell sent and the bus has yet to route
  bus,        \* whether bluetoothd may refuse a registration, and who may
              \* still be behind when it starts again
  bluezUp,    \* bluetoothd owns org.bluez
  agent,      \* what bluetoothd knows of the agent
  waiting,    \* prompts bluetoothd awaits an answer for
  boots,      \* times bluetoothd has started
  prompts,    \* prompts issued
  answers     \* replies sent to each prompt (history)

shell     == <<active, inFlight, exported, pending, dialog>>
bluez     == <<bus, bluezUp, agent, waiting, boots, prompts>>
bluetooth == <<shell, bluez, inbox, wire, answers>>

Msg(k)       == [kind |-> k]
Outcome(k, ok) == [kind |-> k, ok |-> ok]
Ask(d, p)    == [kind |-> "prompt", device |-> d, prompt |-> p]
Answer(p)    == [kind |-> "answer", prompt |-> p]

\* The shell starts before or after bluetoothd; the constructor registers.
AgentInit ==
  /\ active = FALSE /\ inFlight = TRUE /\ exported = TRUE
  /\ pending = [d \in Devices |-> None]
  /\ dialog = None
  /\ inbox = <<>> /\ wire = <<Msg("register")>>
  /\ bus \in Initially("bluetooth", Buses)
  /\ bluezUp \in Initially("bluetooth", BOOLEAN) /\ agent = "none" /\ waiting = {}
  /\ boots = IF bluezUp THEN 1 ELSE 0
  /\ prompts = 0
  /\ answers = [p \in Prompts |-> 0]

-----------------------------------------------------------------------------
(* The shell.                                                              *)

Receive(k) == inbox # <<>> /\ Head(inbox).kind = k /\ inbox' = Tail(inbox)

Pending == {d \in Devices : pending[d] # None}

\* Sends calls, and one reply to each prompt in P.
Send(calls, P) ==
  /\ \E order \in SetToSeqs(P) :
       wire' = wire \o [k \in DOMAIN order |-> Answer(order[k])] \o calls
  /\ answers' = [p \in Prompts |-> answers[p] + IF p \in P THEN 1 ELSE 0]

EnsureRegistered ==
  IF inFlight \/ active
  THEN UNCHANGED <<inFlight, exported>> /\ Send(<<>>, {})
  ELSE /\ inFlight' = TRUE
       /\ exported' = TRUE
       /\ Send(<<Msg("register")>>, {})

RegisterFinishedSticky ==  \* fault: a refused registration stays in flight
  /\ Receive("registered")
  /\ IF Head(inbox).ok
     THEN Send(<<Msg("default")>>, {}) /\ UNCHANGED <<inFlight, exported>>
     ELSE Send(<<>>, {}) /\ exported' = FALSE /\ UNCHANGED inFlight
  /\ UNCHANGED <<active, pending, dialog, bluez>>

OnRegisterAgentFinished ==
  /\ Receive("registered")
  /\ IF Head(inbox).ok
     THEN Send(<<Msg("default")>>, {}) /\ UNCHANGED <<inFlight, exported>>
     ELSE Send(<<>>, {}) /\ inFlight' = FALSE /\ exported' = FALSE
  /\ UNCHANGED <<active, pending, dialog, bluez>>

OnRequestDefaultAgentFinished ==
  /\ Receive("defaulted")
  /\ Send(<<>>, {})
  /\ inFlight' = FALSE
  /\ IF Head(inbox).ok THEN active' = TRUE /\ UNCHANGED exported
                       ELSE exported' = FALSE /\ UNCHANGED active
  /\ UNCHANGED <<pending, dialog, bluez>>

DrainKeeps ==  \* fault: mPending is answered and never emptied
  /\ Send(<<>>, {pending[d] : d \in Pending})
  /\ dialog' = IF dialog \in Pending THEN None ELSE dialog
  /\ UNCHANGED pending

\* Cancel, Release and a vanished bluetoothd detach mPending, reject every
\* prompt and close the dialog of each.
Drain ==
  /\ Send(<<>>, {pending[d] : d \in Pending})
  /\ pending' = [d \in Devices |-> None]
  /\ dialog' = IF dialog \in Pending THEN None ELSE dialog

OwnerIgnoresReturn ==  \* fault: nothing is registered when bluetoothd returns
  /\ Receive("owner")
  /\ IF Head(inbox).ok
     THEN Send(<<>>, {}) /\ UNCHANGED shell
     ELSE Drain /\ active' = FALSE /\ UNCHANGED <<inFlight, exported>>
  /\ UNCHANGED bluez

ReRegisterIfNeeded ==
  /\ Receive("owner")
  /\ IF Head(inbox).ok
     THEN EnsureRegistered /\ UNCHANGED <<active, pending, dialog>>
     ELSE Drain /\ active' = FALSE /\ UNCHANGED <<inFlight, exported>>
  /\ UNCHANGED bluez

StoreOrphans(d, p) ==  \* fault: the displaced caller is not answered
  /\ Send(<<>>, {})
  /\ pending' = [pending EXCEPT ![d] = p]

StorePending(d, p) ==
  /\ Send(<<>>, {pending[d]} \ {None})
  /\ pending' = [pending EXCEPT ![d] = p]

\* The four prompts. The bus library refuses a call while the object is not
\* exported.
HandleRequest ==
  /\ Receive("prompt")
  /\ LET m == Head(inbox) IN
       IF exported THEN StorePending(m.device, m.prompt) /\ dialog' = m.device
                   ELSE Send(<<>>, {m.prompt}) /\ UNCHANGED <<pending, dialog>>
  /\ UNCHANGED <<active, inFlight, exported, bluez>>

HandleCancel ==
  /\ Receive("cancel")
  /\ IF exported THEN Drain ELSE Send(<<>>, {}) /\ UNCHANGED <<pending, dialog>>
  /\ UNCHANGED <<active, inFlight, exported, bluez>>

HandleRelease ==
  /\ Receive("release")
  /\ IF exported THEN Drain /\ active' = FALSE /\ inFlight' = FALSE
     ELSE Send(<<>>, {}) /\ UNCHANGED <<active, inFlight, pending, dialog>>
  /\ UNCHANGED <<exported, bluez>>

CompleteSilently ==  \* fault: the dialog closes and nobody is answered
  /\ dialog # None
  /\ dialog' = None
  /\ Send(<<>>, {})
  /\ UNCHANGED <<active, inFlight, exported, pending, bluez, inbox>>

\* The dialog's submit or cancel: providePinCode, providePasskey,
\* confirmPairing, authorizeService, each over takePending, then clearState.
Complete ==
  /\ dialog # None
  /\ dialog' = None
  /\ Send(<<>>, {pending[dialog]} \ {None})
  /\ pending' = [pending EXCEPT ![dialog] = None]
  /\ UNCHANGED <<active, inFlight, exported, bluez, inbox>>

-----------------------------------------------------------------------------
(* The bus and bluetoothd.                                                 *)

Deliver(msgs) == inbox' = inbox \o msgs

\* The next message of the shell, handled by bluetoothd.
BluezServes ==
  /\ bluezUp /\ wire # <<>>
  /\ wire' = Tail(wire)
  /\ LET m == Head(wire) IN
       \/ /\ m.kind = "register"
          /\ agent' = IF agent = "none" THEN "registered" ELSE agent
          /\ Deliver(<<Outcome("registered", TRUE)>>)
          /\ UNCHANGED waiting
       \/ /\ m.kind = "default" /\ agent # "none"
          /\ agent' = "default"
          /\ Deliver(<<Outcome("defaulted", TRUE)>>)
          /\ UNCHANGED waiting
       \/ /\ m.kind = "default" /\ (agent = "none" \/ bus.refuses)
          /\ Deliver(<<Outcome("defaulted", FALSE)>>)
          /\ UNCHANGED <<agent, waiting>>
       \/ /\ m.kind = "register" /\ bus.refuses
          /\ Deliver(<<Outcome("registered", FALSE)>>)
          /\ UNCHANGED <<agent, waiting>>
       \/ /\ m.kind = "answer"
          /\ waiting' = waiting \ {m.prompt}
          /\ UNCHANGED <<agent, inbox>>
  /\ UNCHANGED <<shell, bus, bluezUp, boots, prompts, answers>>

\* With nobody owning org.bluez (and no auto-start) the bus answers a call
\* with an error and drops a reply.
Bounce ==
  /\ ~bluezUp /\ wire # <<>>
  /\ wire' = Tail(wire)
  /\ LET m == Head(wire) IN
       Deliver(IF m.kind = "register" THEN <<Outcome("registered", FALSE)>>
               ELSE IF m.kind = "default" THEN <<Outcome("defaulted", FALSE)>>
               ELSE <<>>)
  /\ UNCHANGED <<shell, bluez, answers>>

BluezStarts ==
  /\ ~bluezUp /\ boots < MaxBoots
  /\ bus.lag # "shell and bus" => wire = <<>>
  /\ bus.lag = "nobody" => inbox = <<>>
  /\ bluezUp' = TRUE
  /\ boots' = boots + 1
  /\ Deliver(<<Outcome("owner", TRUE)>>)
  /\ UNCHANGED <<shell, bus, agent, waiting, prompts, wire, answers>>

\* A stop releases the agent; a crash does not.
BluezEnds ==
  /\ bluezUp
  /\ bluezUp' = FALSE
  /\ agent' = "none"
  /\ waiting' = {}
  /\ \/ Deliver(<<Outcome("owner", FALSE)>>)
     \/ agent # "none" /\ Deliver(<<Msg("release"), Outcome("owner", FALSE)>>)
  /\ UNCHANGED <<shell, bus, boots, prompts, wire, answers>>

\* Only the default agent is asked.
IssuePrompt(d) ==
  /\ bluezUp /\ agent = "default" /\ prompts < MaxPrompts
  /\ prompts' = prompts + 1
  /\ waiting' = waiting \cup {prompts'}
  /\ Deliver(<<Ask(d, prompts')>>)
  /\ UNCHANGED <<shell, bus, bluezUp, agent, boots, wire, answers>>

\* A timeout, or the device gave up.
CancelPrompts ==
  /\ bluezUp /\ waiting # {}
  /\ waiting' = {}
  /\ Deliver(<<Msg("cancel")>>)
  /\ UNCHANGED <<shell, bus, bluezUp, agent, boots, prompts, wire, answers>>

-----------------------------------------------------------------------------
ShellStep ==
  \/ OnRegisterAgentFinished \/ OnRequestDefaultAgentFinished
  \/ ReRegisterIfNeeded \/ HandleRequest \/ HandleCancel \/ HandleRelease

AgentNext ==
  \/ ShellStep \/ Complete
  \/ BluezServes \/ Bounce
  \/ BluezStarts \/ BluezEnds \/ CancelPrompts
  \/ \E d \in Devices : IssuePrompt(d)

-----------------------------------------------------------------------------
(* Properties.                                                             *)

InInbox(k) == \E j \in DOMAIN inbox : inbox[j].kind = k
OnWire(k)  == \E j \in DOMAIN wire : wire[j].kind = k

InboxMessages ==
  [kind : {"cancel", "release"}]
    \cup [kind : {"registered", "defaulted", "owner"}, ok : BOOLEAN]
    \cup [kind : {"prompt"}, device : Devices, prompt : Prompts]

WireMessages ==
  [kind : {"register", "default"}] \cup [kind : {"answer"}, prompt : Prompts]

\* Type correctness of the agent's state.
AgentTypeOK ==
  /\ bus \in Buses
  /\ {active, inFlight, exported, bluezUp} \subseteq BOOLEAN
  /\ pending \in [Devices -> Prompts \cup {None}]
  /\ dialog \in Devices \cup {None}
  /\ agent \in {"none", "registered", "default"}
  /\ waiting \subseteq 1 .. prompts
  /\ boots \in 0 .. MaxBoots /\ prompts \in 0 .. MaxPrompts
  /\ answers \in [Prompts -> Nat]
  /\ inbox \in Seq(InboxMessages) /\ wire \in Seq(WireMessages)

\* Types are correct and no caller is orphaned: a prompt bluetoothd still waits
\* for is in the queue, in mPending, or its answer is on the way, whatever else
\* was prompted, cancelled, released or re-registered.
NoOrphan ==
  AgentTypeOK /\ \A p \in waiting :
    \/ \E j \in DOMAIN inbox : inbox[j].kind = "prompt" /\ inbox[j].prompt = p
    \/ \E d \in Devices : pending[d] = p
    \/ \E j \in DOMAIN wire : wire[j].kind = "answer" /\ wire[j].prompt = p

\* No prompt is answered twice, whichever of the dialog, a newer prompt, a
\* cancel, a release and a vanished bluetoothd get to it.
OneAnswer == \A p \in Prompts : answers[p] <= 1

\* bluetoothd refuses nothing and the shell has handled its end before it starts
\* again.
KeepsUp == ~bus.refuses /\ bus.lag = "nobody"

\* mActivationInFlight, which blocks every further registration, is backed by
\* a call or a reply that is still to come; and active means that the agent is
\* the default and exported (docs/Testing.md), once the shell, the bus and
\* bluetoothd have nothing left to handle, while the shell keeps up.
ActivationBacked ==
  /\ inFlight => \/ OnWire("register") \/ OnWire("default")
                 \/ InInbox("registered") \/ InInbox("defaulted")
  /\ KeepsUp /\ active /\ bluezUp /\ inbox = <<>> /\ wire = <<>> => agent = "default" /\ exported

\* BluetoothAgentManager.cpp: bluetoothd (re)appeared, re-register: while
\* bluetoothd stays up and refuses nothing the agent becomes active.
ReRegisters == <>[]bluezUp => <>[]active

\* It does while the shell keeps up with the restarts of bluetoothd.
ReRegistersKeepingUp == part = "bluetooth" /\ KeepsUp => ReRegisters

\* A prompt does not stay with the shell for ever, unless a prompt of another
\* device took the dialog from it: then only bluetoothd can end it.
TakenOver(p) == \E d \in Devices : pending[d] = p /\ dialog \notin {d, None}
PromptSettles ==
  \A p \in Prompts : (p \in waiting ~> p \notin waiting) \/ <>TakenOver(p)
=============================================================================
