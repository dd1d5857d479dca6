------------------------ MODULE BluetoothAgent_proof ------------------------
(***************************************************************************)
(* Proofs about BluetoothAgent for any devices, prompts and restarts: no   *)
(* prompt is orphaned or answered twice, and a registration in flight is   *)
(* backed by a message, as long as the agent runs in ShellPlugins.         *)
(***************************************************************************)
EXTENDS ShellPlugins, QueueTheorems, FiniteSetTheorems, TLAPS

-----------------------------------------------------------------------------
(* The inductive invariant.                                                *)

AsksFor(p, j) == inbox[j].kind = "prompt" /\ inbox[j].prompt = p

\* The three places a prompt bluetoothd waits for may be in.
Located(p) ==
  \/ \E j \in DOMAIN inbox : AsksFor(p, j)
  \/ \E d \in Devices : pending[d] = p
  \/ \E j \in DOMAIN wire : wire[j].kind = "answer" /\ wire[j].prompt = p

\* A prompt is in one place at a time, and not answered until it has left the
\* queue and mPending.
Exclusive ==
  /\ \A i, j \in DOMAIN inbox : \A p \in Prompts : AsksFor(p, i) /\ AsksFor(p, j) => i = j
  /\ \A j \in DOMAIN inbox : \A p \in Prompts : AsksFor(p, j) =>
       p <= prompts /\ answers[p] = 0 /\ \A d \in Devices : pending[d] # p
  /\ \A d \in Devices : pending[d] # None => pending[d] <= prompts /\ answers[pending[d]] = 0
  /\ \A d, e \in Devices : pending[d] # None /\ pending[d] = pending[e] => d = e
  /\ \A p \in Prompts : answers[p] <= 1 /\ (p > prompts => answers[p] = 0)

AwaitedLocated == \A p \in waiting : Located(p)

\* Only the default agent of a bluetoothd that is up was asked.
AskedByDefault ==
  /\ waiting # {} => agent = "default"
  /\ ~bluezUp => agent = "none"

FlightBacked ==
  inFlight => \/ OnWire("register") \/ OnWire("default")
              \/ InInbox("registered") \/ InInbox("defaulted")

\* What the handshake has left to do while bluetoothd is up.
NoPending == pending = [d \in Devices |-> None]
OnlyAnswers == \A j \in DOMAIN wire : wire[j].kind = "answer"
Returned   == /\ inbox = <<Outcome("owner", TRUE)>> /\ wire = <<>>
              /\ agent = "none" /\ ~inFlight /\ ~active /\ NoPending
Registers  == /\ inbox = <<>> /\ wire = <<Msg("register")>>
              /\ agent = "none" /\ inFlight /\ exported /\ ~active /\ NoPending
Registered == /\ inbox = <<Outcome("registered", TRUE)>> /\ wire = <<>>
              /\ agent = "registered" /\ inFlight /\ exported /\ ~active /\ NoPending
Defaults   == /\ inbox = <<>> /\ wire = <<Msg("default")>>
              /\ agent = "registered" /\ inFlight /\ exported /\ ~active /\ NoPending
Defaulted  == /\ inbox # <<>> /\ inbox[1] = Outcome("defaulted", TRUE)
              /\ \A j \in DOMAIN inbox \ {1} : inbox[j].kind \in {"prompt", "cancel"}
              /\ agent = "default" /\ exported /\ OnlyAnswers
Active     == /\ \A j \in DOMAIN inbox : inbox[j].kind \in {"prompt", "cancel"}
              /\ agent = "default" /\ exported /\ active /\ OnlyAnswers

\* What follows the end of bluetoothd in the queue are the bus's refusals.
Refusal(m) == m.kind \in {"registered", "defaulted"} /\ ~m.ok
EndSeen == ~active /\ NoPending /\ \A j \in DOMAIN inbox : Refusal(inbox[j])
EndQueued == \E k \in DOMAIN inbox :
  /\ inbox[k] = Outcome("owner", FALSE)
  /\ \A j \in DOMAIN inbox : j > k => Refusal(inbox[j])

Handshake ==
  IF bluezUp THEN \/ Returned \/ Registers \/ Registered
                  \/ Defaults \/ Defaulted \/ Active
             ELSE EndSeen \/ EndQueued

AgentInv ==
  /\ AgentTypeOK
  /\ AwaitedLocated /\ Exclusive /\ AskedByDefault
  /\ FlightBacked
  /\ KeepsUp => Handshake
-----------------------------------------------------------------------------
(* What the agent sends.                                                   *)

CallsSent(calls) == \A j \in DOMAIN calls : \E k \in DOMAIN wire' : wire'[k] = calls[j]

LEMMA SendFacts ==
  ASSUME AgentTypeOK, NEW P \in SUBSET Prompts, NEW calls \in Seq(WireMessages),
         Send(calls, P)
  PROVE  /\ wire' \in Seq(WireMessages)
         /\ answers' = [p \in Prompts |-> answers[p] + IF p \in P THEN 1 ELSE 0]
         /\ \A j \in DOMAIN wire : j \in DOMAIN wire' /\ wire'[j] = wire[j]
         /\ \A p \in P : \E j \in DOMAIN wire' : wire'[j] = Answer(p)
         /\ CallsSent(calls)
         /\ \A k \in DOMAIN wire' :
              \/ k \in DOMAIN wire /\ wire'[k] = wire[k]
              \/ wire'[k].kind = "answer"
              \/ \E j \in DOMAIN calls : wire'[k] = calls[j]
         /\ P = {} => wire' = wire \o calls
<1>1. PICK order \in SetToSeqs(P) :
        wire' = wire \o [k \in DOMAIN order |-> Answer(order[k])] \o calls
  BY DEF Send
<1> DEFINE replies == [k \in DOMAIN order |-> Answer(order[k])]
<1>2. IsFiniteSet(P)
  <2>1. MaxPrompts \in Nat BY AgentAssumption, Zenon
  <2>2. IsFiniteSet(Prompts) BY <2>1, FS_Interval DEF Prompts
  <2> QED BY <2>2, FS_Subset
<1>3. /\ order \in Seq(P) /\ \A p \in P : \E k \in DOMAIN order : order[k] = p
      /\ P = {} => order = <<>>
  BY <1>2, EnumerationIsOnto
<1>4. \A p \in P : Answer(p) \in WireMessages /\ Answer(p).kind = "answer"
  BY DEF Answer, WireMessages
<1>5. /\ replies \in Seq(WireMessages) /\ DOMAIN replies = DOMAIN order
      /\ \A k \in DOMAIN order : replies[k] = Answer(order[k]) /\ order[k] \in P
  <2>1. DOMAIN order = 1 .. Len(order) /\ Len(order) \in Nat
    BY <1>3, LenProperties
  <2>2. \A k \in DOMAIN order : order[k] \in P BY <1>3, <2>1
  <2>3. replies \in [1 .. Len(order) -> WireMessages]
    BY <1>4, <2>1, <2>2
  <2> QED BY <2>1, <2>2, <2>3
<1>6. wire \in Seq(WireMessages) BY DEF AgentTypeOK
<1> HIDE DEF replies
<1>7. wire \o replies \in Seq(WireMessages) BY <1>5, <1>6, Grown
<1>8. wire' = (wire \o replies) \o calls BY <1>1 DEF replies
<1>9. /\ wire' \in Seq(WireMessages)
      /\ \A j \in DOMAIN (wire \o replies) :
           j \in DOMAIN wire' /\ wire'[j] = (wire \o replies)[j]
      /\ \A j \in DOMAIN calls : /\ Len(wire \o replies) + j \in DOMAIN wire'
                                /\ wire'[Len(wire \o replies) + j] = calls[j]
      /\ \A k \in DOMAIN wire' :
           \/ k \in DOMAIN (wire \o replies)
           \/ /\ k - Len(wire \o replies) \in DOMAIN calls
              /\ wire'[k] = calls[k - Len(wire \o replies)]
  BY <1>7, <1>8, Grown
<1>10. \A j \in DOMAIN wire : j \in DOMAIN wire' /\ wire'[j] = wire[j]
  BY <1>5, <1>6, <1>9, Grown
<1>11. \A j \in DOMAIN replies : \E k \in DOMAIN wire' : wire'[k] = replies[j]
  <2> SUFFICES ASSUME NEW j \in DOMAIN replies
               PROVE  \E k \in DOMAIN wire' : wire'[k] = replies[j]
    OBVIOUS
  <2>1. /\ Len(wire) + j \in DOMAIN (wire \o replies)
        /\ (wire \o replies)[Len(wire) + j] = replies[j]
    BY <1>5, <1>6, Grown
  <2> QED BY <2>1, <1>9
<1>12. CallsSent(calls) BY <1>9 DEF CallsSent
<1>13. \A k \in DOMAIN wire' :
         \/ k \in DOMAIN wire /\ wire'[k] = wire[k]
         \/ wire'[k].kind = "answer"
         \/ \E j \in DOMAIN calls : wire'[k] = calls[j]
  <2> SUFFICES ASSUME NEW k \in DOMAIN wire'
               PROVE  \/ k \in DOMAIN wire /\ wire'[k] = wire[k]
                      \/ wire'[k].kind = "answer"
                      \/ \E j \in DOMAIN calls : wire'[k] = calls[j]
    OBVIOUS
  <2>1. \/ k \in DOMAIN (wire \o replies) /\ wire'[k] = (wire \o replies)[k]
        \/ \E j \in DOMAIN calls : wire'[k] = calls[j]
    BY <1>9
  <2>2. ASSUME k \in DOMAIN (wire \o replies)
        PROVE  \/ k \in DOMAIN wire
               \/ \E j \in DOMAIN replies : (wire \o replies)[k] = replies[j]
    BY <2>2, <1>5, <1>6, Grown
  <2>3. \A j \in DOMAIN replies : replies[j].kind = "answer"
    BY <1>4, <1>5
  <2> QED BY <2>1, <2>2, <2>3, <1>10
<1>14. ASSUME P = {} PROVE wire' = wire \o calls
  <2>1. replies = <<>> BY <1>3, <1>14 DEF replies
  <2> QED BY <2>1, <1>6, <1>8, ConcatEmptySeq
<1>15. \A p \in P : \E j \in DOMAIN wire' : wire'[j] = Answer(p)
  BY <1>3, <1>5, <1>11
<1>16. answers' = [p \in Prompts |-> answers[p] + IF p \in P THEN 1 ELSE 0]
  BY DEF Send
<1> QED BY <1>9, <1>10, <1>12, <1>13, <1>14, <1>15, <1>16

-----------------------------------------------------------------------------
(* Type correctness.                                                       *)

LEMMA AgentBounds ==
  /\ MaxBoots \in Nat \ {0} /\ MaxPrompts \in Nat
  /\ None \notin Devices /\ None \notin Nat /\ Buses # {}
  BY AgentAssumption, Zenon

LEMMA MessagesTyped ==
  /\ \A m \in InboxMessages :
       /\ m.kind \in {"registered", "defaulted", "owner", "prompt", "cancel", "release"}
       /\ m.kind \in {"registered", "defaulted", "owner"} => m.ok \in BOOLEAN
       /\ m.kind = "prompt" => m.device \in Devices /\ m.prompt \in Prompts
  /\ \A m \in WireMessages :
       /\ m.kind \in {"register", "default", "answer"}
       /\ m.kind = "answer" => m.prompt \in Prompts
  /\ \A k \in {"cancel", "release"} : Msg(k) \in InboxMessages /\ Msg(k).kind = k
  /\ \A k \in {"register", "default"} : Msg(k) \in WireMessages /\ Msg(k).kind = k
  /\ \A k \in {"registered", "defaulted", "owner"}, ok \in BOOLEAN :
       /\ Outcome(k, ok) \in InboxMessages
       /\ Outcome(k, ok).kind = k /\ Outcome(k, ok).ok = ok
  /\ \A d \in Devices, p \in Prompts :
       /\ Ask(d, p) \in InboxMessages
       /\ Ask(d, p).kind = "prompt" /\ Ask(d, p).device = d /\ Ask(d, p).prompt = p
  BY DEF InboxMessages, WireMessages, Msg, Outcome, Ask

LEMMA CallsTyped ==
  /\ <<>> \in Seq(WireMessages)
  /\ <<Msg("register")>> \in Seq(WireMessages)
  /\ <<Msg("default")>> \in Seq(WireMessages)
  BY MessagesTyped

LEMMA OutcomesTyped ==
  \A k \in {"registered", "defaulted", "owner"}, ok \in BOOLEAN :
    <<Outcome(k, ok)>> \in Seq(InboxMessages)
  BY MessagesTyped

LEMMA SendTyped ==
  ASSUME AgentTypeOK, NEW P \in SUBSET Prompts, NEW calls \in Seq(WireMessages),
         Send(calls, P)
  PROVE  wire' \in Seq(WireMessages) /\ answers' \in [Prompts -> Nat]
<1>1. answers \in [Prompts -> Nat] BY DEF AgentTypeOK
<1>2. \A p \in Prompts : answers[p] + (IF p \in P THEN 1 ELSE 0) \in Nat BY <1>1
<1>3. answers' = [p \in Prompts |-> answers[p] + IF p \in P THEN 1 ELSE 0]
  BY SendFacts
<1>4. wire' \in Seq(WireMessages) BY SendFacts
<1> QED BY <1>2, <1>3, <1>4

LEMMA PendingTyped ==
  ASSUME AgentTypeOK
  PROVE  /\ {pending[d] : d \in Pending} \in SUBSET Prompts
         /\ \A d \in Devices : {pending[d]} \ {None} \in SUBSET Prompts
         /\ {} \in SUBSET Prompts
  BY DEF AgentTypeOK, Pending

LEMMA ReceiveFacts ==
  ASSUME AgentTypeOK, NEW k, Receive(k)
  PROVE  /\ inbox # <<>> /\ Head(inbox) \in InboxMessages /\ Head(inbox).kind = k
         /\ inbox' = Tail(inbox) /\ inbox' \in Seq(InboxMessages)
  BY HeadTailProperties DEF AgentTypeOK, Receive

LEMMA DeliverTyped ==
  ASSUME AgentTypeOK, NEW msgs \in Seq(InboxMessages), Deliver(msgs)
  PROVE  inbox' \in Seq(InboxMessages)
  BY Grown DEF AgentTypeOK, Deliver

LEMMA AgentInitTyped == AgentInit => AgentTypeOK
<1> SUFFICES ASSUME AgentInit PROVE AgentTypeOK
  OBVIOUS
<1>1. bus \in Buses /\ bluezUp \in BOOLEAN
  BY AgentBounds DEF AgentInit, Initially
<1>2. inbox \in Seq(InboxMessages) /\ wire \in Seq(WireMessages)
  BY CallsTyped DEF AgentInit
<1>3. boots \in 0 .. MaxBoots /\ prompts \in 0 .. MaxPrompts /\ waiting \subseteq 1 .. prompts
  BY AgentBounds DEF AgentInit
<1> QED BY <1>1, <1>2, <1>3 DEF AgentInit, AgentTypeOK

LEMMA ShellStepTyped ==
  ASSUME AgentTypeOK, ShellStep \/ Complete
  PROVE  AgentTypeOK'
<1> USE DEF shell, bluez
<1>0. /\ pending \in [Devices -> Prompts \cup {None}] /\ dialog \in Devices \cup {None}
      /\ \A d \in Devices, p \in Prompts :
           [pending EXCEPT ![d] = p] \in [Devices -> Prompts \cup {None}]
      /\ \A d \in Devices :
           [pending EXCEPT ![d] = None] \in [Devices -> Prompts \cup {None}]
      /\ [d \in Devices |-> None] \in [Devices -> Prompts \cup {None}]
  BY DEF AgentTypeOK
<1>1. CASE OnRegisterAgentFinished
  BY <1>1, ReceiveFacts, SendTyped, CallsTyped, PendingTyped
     DEF OnRegisterAgentFinished, AgentTypeOK
<1>2. CASE OnRequestDefaultAgentFinished
  BY <1>2, ReceiveFacts, SendTyped, CallsTyped, PendingTyped
     DEF OnRequestDefaultAgentFinished, AgentTypeOK
<1>3. CASE ReRegisterIfNeeded
  BY <1>0, <1>3, ReceiveFacts, SendTyped, CallsTyped, PendingTyped
     DEF ReRegisterIfNeeded, EnsureRegistered, Drain, AgentTypeOK
<1>4. CASE HandleRequest
  <2>1. Head(inbox).device \in Devices /\ Head(inbox).prompt \in Prompts
    BY <1>4, ReceiveFacts, MessagesTyped DEF HandleRequest
  <2>2. {Head(inbox).prompt} \in SUBSET Prompts BY <2>1
  <2> QED
    BY <1>0, <1>4, <2>1, <2>2, ReceiveFacts, SendTyped, CallsTyped, PendingTyped
       DEF HandleRequest, StorePending, AgentTypeOK
<1>5. CASE HandleCancel
  BY <1>0, <1>5, ReceiveFacts, SendTyped, CallsTyped, PendingTyped
     DEF HandleCancel, Drain, AgentTypeOK
<1>6. CASE HandleRelease
  BY <1>0, <1>6, ReceiveFacts, SendTyped, CallsTyped, PendingTyped
     DEF HandleRelease, Drain, AgentTypeOK
<1>7. CASE Complete
  BY <1>0, <1>7, SendTyped, CallsTyped, PendingTyped DEF Complete, AgentTypeOK
<1> QED BY <1>1, <1>2, <1>3, <1>4, <1>5, <1>6, <1>7 DEF ShellStep

LEMMA BusStepTyped ==
  ASSUME AgentTypeOK,
         \/ BluezServes \/ Bounce \/ BluezStarts \/ BluezEnds \/ CancelPrompts
         \/ \E d \in Devices : IssuePrompt(d)
  PROVE  AgentTypeOK'
<1> USE DEF shell, bluez
<1>1. \A k \in {"registered", "defaulted", "owner"}, ok \in BOOLEAN :
        <<Outcome(k, ok)>> \in Seq(InboxMessages)
  BY MessagesTyped
<1>2. wire # <<>> => Head(wire) \in WireMessages /\ Tail(wire) \in Seq(WireMessages)
  BY HeadTailProperties DEF AgentTypeOK
<1>3. CASE BluezServes
  BY <1>1, <1>2, <1>3, DeliverTyped DEF BluezServes, AgentTypeOK
<1>4. CASE Bounce
  <2>1. inbox' \in Seq(InboxMessages)
    BY <1>1, <1>4, DeliverTyped, EmptySeq DEF Bounce
  <2> QED BY <1>2, <1>4, <2>1 DEF Bounce, AgentTypeOK
<1>5. CASE BluezStarts
  <2>1. inbox' \in Seq(InboxMessages) BY <1>1, <1>5, DeliverTyped DEF BluezStarts
  <2>2. boots \in 0 .. MaxBoots BY DEF AgentTypeOK
  <2>3. boots < MaxBoots /\ boots' = boots + 1 BY <1>5 DEF BluezStarts
  <2>4. boots' \in 0 .. MaxBoots BY <2>2, <2>3, AgentBounds
  <2> QED BY <1>5, <2>1, <2>4 DEF BluezStarts, AgentTypeOK
<1>6. CASE BluezEnds
  <2>1. <<Msg("release"), Outcome("owner", FALSE)>> \in Seq(InboxMessages)
    <3>1. Msg("release") \in InboxMessages /\ Outcome("owner", FALSE) \in InboxMessages
      BY MessagesTyped
    <3> QED BY <3>1, PairInSeq
  <2>2. inbox' \in Seq(InboxMessages) BY <1>1, <1>6, <2>1, DeliverTyped DEF BluezEnds
  <2> QED BY <1>6, <2>2 DEF BluezEnds, AgentTypeOK
<1>7. CASE CancelPrompts
  <2>1. <<Msg("cancel")>> \in Seq(InboxMessages) BY MessagesTyped
  <2> QED BY <1>7, <2>1, DeliverTyped DEF CancelPrompts, AgentTypeOK
<1>8. ASSUME NEW d \in Devices, IssuePrompt(d) PROVE AgentTypeOK'
  <2>1. prompts' = prompts + 1 /\ prompts' \in Prompts
    BY <1>8, AgentBounds DEF IssuePrompt, AgentTypeOK, Prompts
  <2>2. <<Ask(d, prompts')>> \in Seq(InboxMessages) BY <2>1, MessagesTyped
  <2>3. inbox' \in Seq(InboxMessages) BY <1>8, <2>2, DeliverTyped DEF IssuePrompt
  <2> QED BY <1>8, <2>1, <2>3, AgentBounds DEF IssuePrompt, AgentTypeOK, Prompts
<1> QED BY <1>3, <1>4, <1>5, <1>6, <1>7, <1>8

LEMMA AgentNextTyped == AgentTypeOK /\ [AgentNext]_bluetooth => AgentTypeOK'
<1>1. ASSUME AgentTypeOK, UNCHANGED bluetooth PROVE AgentTypeOK'
  BY <1>1 DEF bluetooth, shell, bluez, AgentTypeOK
<1> QED BY <1>1, ShellStepTyped, BusStepTyped DEF AgentNext

-----------------------------------------------------------------------------
(* Every prompt stays in its place until it is answered, once.             *)

\* The prompt p is what this step takes from the queue.
Popping(p) == inbox # <<>> /\ inbox' = Tail(inbox) /\ AsksFor(p, 1)

\* A step of the shell that answers the prompts P: they were in mPending or
\* are taken from the queue, and leave both; the others stay.
Answering(P) ==
  /\ \E calls \in Seq(WireMessages) : Send(calls, P)
  /\ inbox' = inbox \/ (inbox # <<>> /\ inbox' = Tail(inbox))
  /\ \A p \in P : (\E d \in Devices : pending[d] = p) \/ Popping(p)
  /\ \A p \in P : \A d \in Devices : pending'[d] # p
  /\ \A p \in Prompts : Popping(p) => p \in P \/ \E d \in Devices : pending'[d] = p
  /\ \A d \in Devices : pending'[d] # None =>
       pending'[d] = pending[d] \/ Popping(pending'[d])
  /\ \A d \in Devices : pending[d] # None => pending'[d] = pending[d] \/ pending[d] \in P
  /\ \A d, e \in Devices : pending'[d] # None /\ pending'[d] = pending'[e] =>
       d = e \/ pending'[d] = pending[d] \/ pending'[e] = pending[e]
  /\ UNCHANGED bluez

LEMMA AnsweringKeeps ==
  ASSUME AgentTypeOK, AgentTypeOK', Exclusive, AwaitedLocated,
         NEW P \in SUBSET Prompts, Answering(P)
  PROVE  Exclusive' /\ AwaitedLocated'
<1>1. PICK calls \in Seq(WireMessages) : Send(calls, P) BY DEF Answering
<1>2. /\ answers' = [p \in Prompts |-> answers[p] + IF p \in P THEN 1 ELSE 0]
      /\ \A j \in DOMAIN wire : j \in DOMAIN wire' /\ wire'[j] = wire[j]
      /\ \A p \in P : \E j \in DOMAIN wire' : wire'[j] = Answer(p)
  BY <1>1, SendFacts
<1>3. UNCHANGED <<prompts, waiting>> BY DEF Answering, bluez
<1>4. /\ pending \in [Devices -> Prompts \cup {None}]
      /\ pending' \in [Devices -> Prompts \cup {None}]
      /\ answers \in [Prompts -> Nat] /\ prompts \in 0 .. MaxPrompts
      /\ None \notin Prompts /\ waiting \subseteq Prompts
      /\ inbox \in Seq(InboxMessages)
  BY AgentBounds, SMTT(30) DEF AgentTypeOK, Prompts
\* Where a message of the queue was before the step.
<1>5. \A j \in DOMAIN inbox' : \A p \in Prompts : AsksFor(p, j)' =>
        \E i \in DOMAIN inbox : /\ AsksFor(p, i)
                                /\ \/ inbox' = inbox /\ i = j
                                   \/ inbox' = Tail(inbox) /\ inbox # <<>> /\ i = j + 1 /\ i # 1
  <2>1. CASE inbox' = inbox BY <2>1 DEF AsksFor
  <2>2. CASE inbox # <<>> /\ inbox' = Tail(inbox)
    BY <1>4, <2>2, Popped DEF AsksFor
  <2> QED BY <2>1, <2>2 DEF Answering
<1>6. \A j \in DOMAIN inbox' : \A p \in Prompts : AsksFor(p, j)' => ~Popping(p)
  <2> SUFFICES ASSUME NEW j \in DOMAIN inbox', NEW p \in Prompts, AsksFor(p, j)', Popping(p)
               PROVE  FALSE
    OBVIOUS
  <2>1. inbox # <<>> /\ inbox' = Tail(inbox) /\ AsksFor(p, 1) BY DEF Popping
  <2>2. 1 \in DOMAIN inbox /\ inbox' # inbox
    <3>1. Len(inbox') # Len(inbox) BY <1>4, <2>1, HeadTailProperties, LenProperties
    <3> QED BY <1>4, <2>1, <3>1, Popped
  <2> QED BY <1>5, <2>1, <2>2 DEF Exclusive
<1>7. \A p \in Prompts : Popping(p) =>
        p <= prompts /\ answers[p] = 0 /\ \A d \in Devices : pending[d] # p
  BY <1>4, Popped DEF Popping, Exclusive
<1>8. \A p \in P : p <= prompts /\ answers[p] = 0
  BY <1>4, <1>7 DEF Answering, Exclusive
<1>9. \A j \in DOMAIN inbox' : \A p \in Prompts : AsksFor(p, j)' =>
        /\ p <= prompts /\ answers[p] = 0 /\ p \notin P
        /\ \A d \in Devices : pending'[d] # p
  <2> SUFFICES ASSUME NEW j \in DOMAIN inbox', NEW p \in Prompts, AsksFor(p, j)'
               PROVE  /\ p <= prompts /\ answers[p] = 0 /\ p \notin P
                      /\ \A d \in Devices : pending'[d] # p
    OBVIOUS
  <2>1. ~Popping(p) BY <1>6
  <2>2. p <= prompts /\ answers[p] = 0 /\ \A d \in Devices : pending[d] # p
    BY <1>5 DEF Exclusive
  <2> QED BY <1>4, <2>1, <2>2 DEF Answering
<1>10. Exclusive'
  <2>1. \A i, j \in DOMAIN inbox' : \A p \in Prompts :
          AsksFor(p, i)' /\ AsksFor(p, j)' => i = j
    <3> SUFFICES ASSUME NEW i \in DOMAIN inbox', NEW j \in DOMAIN inbox', NEW p \in Prompts,
                        AsksFor(p, i)', AsksFor(p, j)'
                 PROVE  i = j
      OBVIOUS
    <3>1. CASE inbox' = inbox BY <3>1 DEF AsksFor, Exclusive
    <3>2. CASE inbox # <<>> /\ inbox' = Tail(inbox)
      <4>1. /\ i \in Nat /\ i + 1 \in DOMAIN inbox /\ inbox'[i] = inbox[i + 1]
            /\ j \in Nat /\ j + 1 \in DOMAIN inbox /\ inbox'[j] = inbox[j + 1]
        BY <1>4, <3>2, Popped
      <4>2. AsksFor(p, i + 1) /\ AsksFor(p, j + 1) BY <4>1 DEF AsksFor
      <4>3. i + 1 = j + 1 BY <4>1, <4>2 DEF Exclusive
      <4> QED BY <4>1, <4>3
    <3> QED BY <3>1, <3>2 DEF Answering
  <2>2. \A j \in DOMAIN inbox' : \A p \in Prompts : AsksFor(p, j)' =>
          p <= prompts' /\ answers'[p] = 0 /\ \A d \in Devices : pending'[d] # p
    BY <1>2, <1>3, <1>4, <1>9
  <2>3. \A d \in Devices : pending'[d] # None =>
          pending'[d] <= prompts' /\ answers'[pending'[d]] = 0
    <3> SUFFICES ASSUME NEW d \in Devices, pending'[d] # None
                 PROVE  pending'[d] <= prompts' /\ answers'[pending'[d]] = 0
      OBVIOUS
    <3>1. pending'[d] \in Prompts /\ pending'[d] \notin P BY <1>4 DEF Answering
    <3>2. pending'[d] <= prompts /\ answers[pending'[d]] = 0
      BY <1>4, <1>7, <3>1 DEF Answering, Exclusive
    <3> QED BY <1>2, <1>3, <1>4, <3>1, <3>2
  <2>4. \A d, e \in Devices : pending'[d] # None /\ pending'[d] = pending'[e] => d = e
    BY <1>4, <1>7 DEF Answering, Exclusive
  <2>5. \A p \in Prompts : answers'[p] <= 1 /\ (p > prompts' => answers'[p] = 0)
    <3> SUFFICES ASSUME NEW p \in Prompts
                 PROVE  answers'[p] <= 1 /\ (p > prompts' => answers'[p] = 0)
      OBVIOUS
    <3>1. p \in P => answers'[p] = 1 /\ p <= prompts BY <1>2, <1>4, <1>8
    <3>2. p \notin P => answers'[p] = answers[p] BY <1>2, <1>4
    <3> QED BY <1>3, <1>4, <3>1, <3>2 DEF Exclusive, Prompts
  <2> QED BY <2>1, <2>2, <2>3, <2>4, <2>5 DEF Exclusive
<1>11. AwaitedLocated'
  <2> SUFFICES ASSUME NEW p \in waiting PROVE Located(p)'
    BY <1>3 DEF AwaitedLocated
  <2>1. p \in Prompts BY <1>4
  <2>2. CASE p \in P
    BY <1>2, <2>2 DEF Located, Answer
  <2>3. CASE \E d \in Devices : pending[d] = p
    BY <1>4, <2>1, <2>2, <2>3 DEF Located, Answering
  <2>4. CASE \E j \in DOMAIN wire : wire[j].kind = "answer" /\ wire[j].prompt = p
    BY <1>2, <2>4 DEF Located
  <2>5. CASE \E j \in DOMAIN inbox : AsksFor(p, j)
    <3>1. PICK j \in DOMAIN inbox : AsksFor(p, j) BY <2>5
    <3>2. CASE inbox' = inbox BY <3>1, <3>2 DEF Located, AsksFor
    <3>3. CASE inbox # <<>> /\ inbox' = Tail(inbox)
      <4>1. CASE j = 1
        BY <2>1, <2>2, <3>1, <3>3, <4>1 DEF Popping, Located, Answering
      <4>2. CASE j # 1
        <5>1. j - 1 \in DOMAIN inbox' /\ inbox'[j - 1] = inbox[j]
          BY <1>4, <3>3, <4>2, Popped
        <5> QED BY <3>1, <5>1 DEF Located, AsksFor
      <4> QED BY <4>1, <4>2
    <3> QED BY <3>2, <3>3 DEF Answering
  <2> QED BY <2>3, <2>4, <2>5 DEF AwaitedLocated, Located
<1> QED BY <1>10, <1>11

\* Draining answers what is pending and leaves nothing pending.
LEMMA DrainAnswers ==
  ASSUME AgentTypeOK, Drain, UNCHANGED bluez, inbox # <<>>, inbox' = Tail(inbox),
         Head(inbox).kind # "prompt"
  PROVE  Answering({pending[d] : d \in Pending})
<1>1. \A p : ~Popping(p)
  BY Popped DEF Popping, AsksFor, AgentTypeOK
<1>2. <<>> \in Seq(WireMessages) BY CallsTyped
<1>3. \A d \in Devices : pending[d] # None => pending[d] \in {pending[e] : e \in Pending}
  BY DEF Pending
<1>4. \A d \in Devices : pending'[d] = None BY DEF Drain
<1>5. None \notin {pending[e] : e \in Pending} BY DEF Pending
<1> QED BY <1>1, <1>2, <1>3, <1>4, <1>5 DEF Answering, Drain, Pending

\* A step that handles another message, or none, and answers nobody.
LEMMA NobodyAnswered ==
  ASSUME AgentTypeOK, NEW calls \in Seq(WireMessages), Send(calls, {}),
         UNCHANGED <<pending, bluez>>,
         inbox # <<>>, inbox' = Tail(inbox), Head(inbox).kind # "prompt"
  PROVE  Answering({})
<1>1. \A p : ~Popping(p)
  BY Popped DEF Popping, AsksFor, AgentTypeOK
<1> QED BY <1>1 DEF Answering

LEMMA ShellStepAnswers ==
  ASSUME AgentTypeOK, Exclusive, ShellStep \/ Complete
  PROVE  \E P \in SUBSET Prompts : Answering(P)
<1>1. {pending[d] : d \in Pending} \in SUBSET Prompts BY PendingTyped
<1>2. CASE OnRegisterAgentFinished
  <2>1. \E calls \in Seq(WireMessages) : Send(calls, {})
    BY <1>2, CallsTyped DEF OnRegisterAgentFinished
  <2> QED BY <1>2, <2>1, ReceiveFacts, NobodyAnswered DEF OnRegisterAgentFinished
<1>3. CASE OnRequestDefaultAgentFinished
  <2>1. Send(<<>>, {}) /\ UNCHANGED <<pending, bluez>> /\ <<>> \in Seq(WireMessages)
    BY <1>3, CallsTyped DEF OnRequestDefaultAgentFinished
  <2>2. inbox # <<>> /\ inbox' = Tail(inbox) /\ Head(inbox).kind # "prompt"
    BY <1>3, ReceiveFacts DEF OnRequestDefaultAgentFinished
  <2> QED BY <2>1, <2>2, NobodyAnswered
<1>4. CASE ReRegisterIfNeeded
  <2>1. CASE Head(inbox).ok
    <3>1. \E calls \in Seq(WireMessages) : Send(calls, {})
      BY <1>4, <2>1, CallsTyped DEF ReRegisterIfNeeded, EnsureRegistered
    <3> QED BY <1>4, <2>1, <3>1, ReceiveFacts, NobodyAnswered DEF ReRegisterIfNeeded
  <2>2. CASE ~Head(inbox).ok
    BY <1>1, <1>4, <2>2, ReceiveFacts, DrainAnswers DEF ReRegisterIfNeeded
  <2> QED BY <2>1, <2>2
<1>5. CASE HandleRequest
  <2> DEFINE p == Head(inbox).prompt
             d == Head(inbox).device
  <2>1. /\ p \in Prompts /\ d \in Devices /\ inbox # <<>> /\ inbox' = Tail(inbox)
        /\ <<>> \in Seq(WireMessages) /\ UNCHANGED bluez
        /\ \A q \in Prompts : Popping(q) <=> q = p
    BY <1>5, ReceiveFacts, MessagesTyped, CallsTyped, Popped
       DEF HandleRequest, Popping, AsksFor, AgentTypeOK
  <2>2. \A e \in Devices : pending[e] # p
    BY <2>1, Popped DEF Exclusive, Popping, AgentTypeOK
  <2>3. None \notin Prompts /\ pending \in [Devices -> Prompts \cup {None}]
    BY AgentBounds DEF AgentTypeOK, Prompts
  <2> HIDE DEF p, d
  <2>4. CASE exported
    <3>1. StorePending(d, p) BY <1>5, <2>4 DEF HandleRequest, p, d
    <3>2. {pending[d]} \ {None} \in SUBSET Prompts BY <2>1, PendingTyped
    <3>3. Answering({pending[d]} \ {None})
      <4>1. pending' = [pending EXCEPT ![d] = p] /\ Send(<<>>, {pending[d]} \ {None})
        BY <3>1 DEF StorePending
      <4>2. \A q \in {pending[d]} \ {None} : \A e \in Devices : pending'[e] # q
        BY <2>1, <2>2, <2>3, <4>1 DEF Exclusive
      <4>3. \A e \in Devices : pending'[e] = IF e = d THEN p ELSE pending[e]
        BY <2>3, <4>1
      <4> QED BY <2>1, <2>2, <2>3, <4>1, <4>2, <4>3 DEF Answering
    <3> QED BY <3>2, <3>3
  <2>5. CASE ~exported
    <3>1. Send(<<>>, {p}) /\ UNCHANGED pending BY <1>5, <2>5 DEF HandleRequest, p
    <3>2. Answering({p}) BY <2>1, <2>2, <3>1 DEF Answering
    <3> QED BY <2>1, <3>2
  <2> QED BY <2>4, <2>5
<1>6. CASE HandleCancel
  <2>1. /\ UNCHANGED bluez /\ <<>> \in Seq(WireMessages)
        /\ inbox # <<>> /\ inbox' = Tail(inbox) /\ Head(inbox).kind # "prompt"
    BY <1>6, ReceiveFacts, CallsTyped DEF HandleCancel
  <2>2. CASE exported BY <1>1, <1>6, <2>1, <2>2, DrainAnswers DEF HandleCancel
  <2>3. CASE ~exported
    <3>1. Send(<<>>, {}) /\ UNCHANGED pending BY <1>6, <2>3 DEF HandleCancel
    <3> QED BY <2>1, <3>1, NobodyAnswered
  <2> QED BY <2>2, <2>3
<1>7. CASE HandleRelease
  <2>1. /\ UNCHANGED bluez /\ <<>> \in Seq(WireMessages)
        /\ inbox # <<>> /\ inbox' = Tail(inbox) /\ Head(inbox).kind # "prompt"
    BY <1>7, ReceiveFacts, CallsTyped DEF HandleRelease
  <2>2. CASE exported BY <1>1, <1>7, <2>1, <2>2, DrainAnswers DEF HandleRelease
  <2>3. CASE ~exported
    <3>1. Send(<<>>, {}) /\ UNCHANGED pending BY <1>7, <2>3 DEF HandleRelease
    <3> QED BY <2>1, <3>1, NobodyAnswered
  <2> QED BY <2>2, <2>3
<1>8. CASE Complete
  <2>1. /\ dialog \in Devices /\ UNCHANGED <<inbox, bluez>> /\ <<>> \in Seq(WireMessages)
        /\ Send(<<>>, {pending[dialog]} \ {None})
        /\ pending' = [pending EXCEPT ![dialog] = None]
        /\ pending \in [Devices -> Prompts \cup {None}]
    BY <1>8, CallsTyped DEF Complete, AgentTypeOK
  <2>2. \A e \in Devices : pending'[e] = IF e = dialog THEN None ELSE pending[e]
    BY <2>1
  <2>3. {pending[dialog]} \ {None} \in SUBSET Prompts BY <2>1, PendingTyped
  <2>4. \A p : ~Popping(p)
    <3>1. inbox # <<>> => Len(Tail(inbox)) # Len(inbox)
      BY HeadTailProperties, LenProperties DEF AgentTypeOK
    <3> QED BY <2>1, <3>1 DEF Popping
  <2>5. \A q \in {pending[dialog]} \ {None} : \A e \in Devices : pending'[e] # q
    BY <2>1, <2>2 DEF Exclusive
  <2>6. Answering({pending[dialog]} \ {None})
    BY <2>1, <2>2, <2>4, <2>5 DEF Answering
  <2> QED BY <2>3, <2>6
<1> QED BY <1>2, <1>3, <1>4, <1>5, <1>6, <1>7, <1>8 DEF ShellStep

LEMMA BusStepKeeps ==
  ASSUME AgentTypeOK, AgentTypeOK', Exclusive, AwaitedLocated, AskedByDefault,
         \/ BluezServes \/ Bounce \/ BluezStarts \/ BluezEnds \/ CancelPrompts
         \/ \E d \in Devices : IssuePrompt(d)
  PROVE  Exclusive' /\ AwaitedLocated' /\ AskedByDefault'
<1> USE DEF shell, bluez
<1>1. ASSUME NEW msgs \in Seq(InboxMessages), Deliver(msgs)
      PROVE  /\ \A j \in DOMAIN inbox : j \in DOMAIN inbox' /\ inbox'[j] = inbox[j]
             /\ \A k \in DOMAIN inbox' :
                  \/ k \in DOMAIN inbox /\ inbox'[k] = inbox[k]
                  \/ \E j \in DOMAIN msgs : inbox'[k] = msgs[j]
  BY <1>1, Grown, SMTT(30) DEF Deliver, AgentTypeOK
\* Messages that are not prompts join the queue.
<1>2. ASSUME NEW msgs \in Seq(InboxMessages), Deliver(msgs),
             \A j \in DOMAIN msgs : msgs[j].kind # "prompt",
             UNCHANGED <<prompts, answers, pending>>
      PROVE  Exclusive'
  BY <1>1, <1>2 DEF Exclusive, AsksFor
\* What is added to the queue displaces nobody.
<1>3. ASSUME NEW msgs \in Seq(InboxMessages), Deliver(msgs),
             waiting' \subseteq waiting, UNCHANGED <<pending, wire>>
      PROVE  AwaitedLocated'
  BY <1>1, <1>3 DEF AwaitedLocated, Located, AsksFor
<1>4. \A k \in {"registered", "defaulted", "owner"}, ok \in BOOLEAN :
        /\ <<Outcome(k, ok)>> \in Seq(InboxMessages)
        /\ \A j \in DOMAIN <<Outcome(k, ok)>> : <<Outcome(k, ok)>>[j].kind # "prompt"
  BY MessagesTyped
<1>5. CASE BluezServes
  <2>1. UNCHANGED <<prompts, answers, pending, bluezUp>> /\ waiting' \subseteq waiting
    BY <1>5 DEF BluezServes
  <2>2. Exclusive'
    <3>1. CASE UNCHANGED inbox BY <2>1, <3>1 DEF Exclusive, AsksFor
    <3>2. CASE \E k \in {"registered", "defaulted", "owner"}, ok \in BOOLEAN :
                 Deliver(<<Outcome(k, ok)>>)
      BY <1>2, <1>4, <2>1, <3>2
    <3> QED BY <1>5, <3>1, <3>2 DEF BluezServes
  <2>3. AskedByDefault'
    BY <1>5 DEF BluezServes, AskedByDefault
  <2>4. AwaitedLocated'
    <3> SUFFICES ASSUME NEW p \in waiting' PROVE Located(p)'
      BY DEF AwaitedLocated
    <3>1. Located(p) BY <2>1 DEF AwaitedLocated
    <3>2. \A j \in DOMAIN inbox : AsksFor(p, j) => \E k \in DOMAIN inbox' : AsksFor(p, k)'
      <4>1. CASE UNCHANGED inbox BY <4>1 DEF AsksFor
      <4>2. CASE \E k \in {"registered", "defaulted", "owner"}, ok \in BOOLEAN :
                   Deliver(<<Outcome(k, ok)>>)
        BY <1>1, <1>4, <4>2 DEF AsksFor
      <4> QED BY <1>5, <4>1, <4>2 DEF BluezServes
    <3>3. ASSUME NEW j \in DOMAIN wire, wire[j].kind = "answer", wire[j].prompt = p
          PROVE  \E k \in DOMAIN wire' : wire'[k].kind = "answer" /\ wire'[k].prompt = p
      <4>1. wire # <<>> /\ wire' = Tail(wire) /\ wire \in Seq(WireMessages)
        BY <1>5 DEF BluezServes, AgentTypeOK
      <4>2. j # 1
        <5>1. Head(wire) = wire[1] BY <4>1, Popped
        <5> QED BY <1>5, <3>3, <5>1 DEF BluezServes
      <4>3. j - 1 \in DOMAIN wire' /\ wire'[j - 1] = wire[j]
        BY <4>1, <4>2, Popped
      <4> QED BY <3>3, <4>3
    <3> QED BY <2>1, <3>1, <3>2, <3>3 DEF Located
  <2> QED BY <2>2, <2>3, <2>4
<1>6. CASE Bounce
  <2>1. waiting = {} /\ UNCHANGED <<prompts, answers, pending, bluezUp, agent, waiting>>
    BY <1>6 DEF Bounce, AskedByDefault
  <2>2. \E msgs \in Seq(InboxMessages) :
          Deliver(msgs) /\ \A j \in DOMAIN msgs : msgs[j].kind # "prompt"
    <3>1. \A j \in DOMAIN <<>> : <<>>[j].kind # "prompt"
      OBVIOUS
    <3>2. <<>> \in Seq(InboxMessages) BY EmptySeq
    <3>3. \/ Deliver(<<>>) \/ Deliver(<<Outcome("registered", FALSE)>>)
          \/ Deliver(<<Outcome("defaulted", FALSE)>>)
      BY <1>6 DEF Bounce
    <3> QED BY <1>4, <3>1, <3>2, <3>3
  <2> QED BY <1>2, <2>1, <2>2 DEF AwaitedLocated, AskedByDefault
<1>7. CASE BluezStarts
  <2>1. Exclusive' BY <1>2, <1>4, <1>7 DEF BluezStarts
  <2>2. AwaitedLocated' BY <1>3, <1>4, <1>7 DEF BluezStarts
  <2> QED BY <1>7, <2>1, <2>2 DEF BluezStarts, AskedByDefault
<1>8. CASE BluezEnds
  <2>1. \E msgs \in Seq(InboxMessages) :
          Deliver(msgs) /\ \A j \in DOMAIN msgs : msgs[j].kind # "prompt"
    <3>1. /\ Msg("release") \in InboxMessages /\ Outcome("owner", FALSE) \in InboxMessages
          /\ Msg("release").kind # "prompt" /\ Outcome("owner", FALSE).kind # "prompt"
      BY MessagesTyped
    <3> DEFINE pair == <<Msg("release"), Outcome("owner", FALSE)>>
    <3>2. /\ pair \in Seq(InboxMessages)
          /\ \A j \in DOMAIN pair : pair[j] \in {Msg("release"), Outcome("owner", FALSE)}
      BY <3>1, PairInSeq
    <3>3. Deliver(<<Outcome("owner", FALSE)>>) \/ Deliver(pair) BY <1>8 DEF BluezEnds
    <3> HIDE DEF pair
    <3> QED BY <1>4, <3>1, <3>2, <3>3
  <2>2. Exclusive' BY <1>2, <1>8, <2>1 DEF BluezEnds
  <2> QED BY <1>8, <2>2 DEF BluezEnds, AskedByDefault, AwaitedLocated
<1>9. CASE CancelPrompts
  <2>1. /\ <<Msg("cancel")>> \in Seq(InboxMessages)
        /\ \A j \in DOMAIN <<Msg("cancel")>> : <<Msg("cancel")>>[j].kind # "prompt"
    BY MessagesTyped
  <2>2. Exclusive' BY <1>2, <1>9, <2>1 DEF CancelPrompts
  <2> QED BY <1>9, <2>2 DEF CancelPrompts, AskedByDefault, AwaitedLocated
<1>10. ASSUME NEW d \in Devices, IssuePrompt(d)
       PROVE  Exclusive' /\ AwaitedLocated' /\ AskedByDefault'
  <2> DEFINE p == prompts'
  <2>1. /\ p = prompts + 1 /\ p \in Prompts /\ prompts \in Nat
        /\ waiting' = waiting \cup {p}
        /\ UNCHANGED <<pending, wire, answers, bluezUp, agent>>
    BY <1>10, AgentBounds DEF IssuePrompt, AgentTypeOK, Prompts
  <2>2. /\ <<Ask(d, p)>> \in Seq(InboxMessages) /\ Deliver(<<Ask(d, p)>>)
        /\ Ask(d, p).kind = "prompt" /\ Ask(d, p).prompt = p
    BY <1>10, <2>1, MessagesTyped DEF IssuePrompt
  <2>3. /\ \A j \in DOMAIN inbox : j \in DOMAIN inbox' /\ inbox'[j] = inbox[j]
        /\ \A k \in DOMAIN inbox' :
             \/ k \in DOMAIN inbox /\ inbox'[k] = inbox[k]
             \/ k = Len(inbox) + 1 /\ inbox'[k] = Ask(d, p)
        /\ Len(inbox) + 1 \in DOMAIN inbox' /\ inbox'[Len(inbox) + 1] = Ask(d, p)
    BY <2>2, Grown DEF Deliver, AgentTypeOK
  <2> HIDE DEF p
  <2>4. \A j \in DOMAIN inbox' : \A q \in Prompts : AsksFor(q, j)' =>
          \/ j \in DOMAIN inbox /\ AsksFor(q, j) /\ q <= prompts
          \/ j = Len(inbox) + 1 /\ q = p
    BY <2>2, <2>3 DEF AsksFor, Exclusive
  <2>5. \A e \in Devices : pending[e] # p
    BY <2>1, AgentBounds DEF Exclusive
  <2>6. answers[p] = 0 BY <2>1 DEF Exclusive
  <2>7. Exclusive'
    <3>1. \A i, j \in DOMAIN inbox' : \A q \in Prompts :
            AsksFor(q, i)' /\ AsksFor(q, j)' => i = j
      BY <2>1, <2>4 DEF Exclusive
    <3>2. \A j \in DOMAIN inbox' : \A q \in Prompts : AsksFor(q, j)' =>
            q <= p /\ answers[q] = 0 /\ \A e \in Devices : pending[e] # q
      BY <2>1, <2>4, <2>5, <2>6 DEF Exclusive, Prompts
    <3>3. \A e \in Devices : pending[e] # None => pending[e] <= p
      BY <2>1 DEF Exclusive, AgentTypeOK, Prompts
    <3>4. \A q \in Prompts : q > p => answers[q] = 0
      BY <2>1 DEF Exclusive, Prompts
    <3> QED BY <2>1, <3>1, <3>2, <3>3, <3>4 DEF Exclusive, p
  <2>8. AwaitedLocated'
    BY <2>1, <2>2, <2>3 DEF AwaitedLocated, Located, AsksFor
  <2> QED BY <1>10, <2>1, <2>7, <2>8 DEF AskedByDefault, IssuePrompt
<1> QED BY <1>5, <1>6, <1>7, <1>8, <1>9, <1>10

-----------------------------------------------------------------------------
(* A registration in flight is backed by a message.                        *)

LEMMA FlightKept ==
  ASSUME AgentTypeOK, FlightBacked, [AgentNext]_bluetooth
  PROVE  FlightBacked'
<1> DEFINE Called == \E j \in DOMAIN wire : wire[j].kind \in {"register", "default"}
           Replied == \E j \in DOMAIN inbox : inbox[j].kind \in {"registered", "defaulted"}
<1>1. FlightBacked <=> (inFlight => Called \/ Replied)
  BY DEF FlightBacked, OnWire, InInbox
<1>2. FlightBacked' <=> (inFlight' => Called' \/ Replied')
  BY DEF FlightBacked, OnWire, InInbox
<1>3. ASSUME NEW P \in SUBSET Prompts, NEW calls \in Seq(WireMessages), Send(calls, P)
      PROVE  /\ Called => Called'
             /\ \A j \in DOMAIN calls : calls[j].kind \in {"register", "default"} => Called'
  <2>1. \A j \in DOMAIN wire : j \in DOMAIN wire' /\ wire'[j] = wire[j]
    BY <1>3, SendFacts
  <2>2. CallsSent(calls) BY <1>3, SendFacts
  <2> QED BY <2>1, <2>2 DEF CallsSent
<1>4. ASSUME NEW k, Receive(k), Replied PROVE Replied' \/ k \in {"registered", "defaulted"}
  <2>1. PICK j \in DOMAIN inbox : inbox[j].kind \in {"registered", "defaulted"}
    BY <1>4
  <2>2. inbox # <<>> /\ inbox' = Tail(inbox) /\ inbox[1].kind = k
    BY <1>4, Popped DEF Receive, AgentTypeOK
  <2>3. j = 1 \/ (j - 1 \in DOMAIN inbox' /\ inbox'[j - 1] = inbox[j])
    BY <2>2, Popped DEF AgentTypeOK
  <2> QED BY <2>1, <2>2, <2>3
<1>5. ASSUME NEW msgs \in Seq(InboxMessages), Deliver(msgs)
      PROVE  /\ Replied => Replied'
             /\ \A j \in DOMAIN msgs : msgs[j].kind \in {"registered", "defaulted"} => Replied'
  <2>1. inbox \in Seq(InboxMessages) /\ inbox' = inbox \o msgs
    BY <1>5 DEF Deliver, AgentTypeOK
  <2>2. /\ \A j \in DOMAIN inbox : j \in DOMAIN inbox' /\ inbox'[j] = inbox[j]
        /\ \A j \in DOMAIN msgs : /\ Len(inbox) + j \in DOMAIN inbox'
                                  /\ inbox'[Len(inbox) + j] = msgs[j]
    BY <2>1, Grown
  <2> QED BY <2>2
<1>6. /\ <<Msg("register")>> \in Seq(WireMessages) /\ <<Msg("default")>> \in Seq(WireMessages)
      /\ <<>> \in Seq(WireMessages) /\ <<>> \in Seq(InboxMessages)
      /\ 1 \in DOMAIN <<Msg("register")>> /\ <<Msg("register")>>[1].kind = "register"
      /\ 1 \in DOMAIN <<Msg("default")>> /\ <<Msg("default")>>[1].kind = "default"
  BY CallsTyped, MessagesTyped, EmptySeq
<1>7. {pending[d] : d \in Pending} \in SUBSET Prompts /\ {} \in SUBSET Prompts
  BY PendingTyped
<1>8. \A k \in {"registered", "defaulted", "owner"}, ok \in BOOLEAN :
        /\ <<Outcome(k, ok)>> \in Seq(InboxMessages)
        /\ 1 \in DOMAIN <<Outcome(k, ok)>> /\ <<Outcome(k, ok)>>[1].kind = k
  BY MessagesTyped
<1> HIDE DEF Called, Replied
\* A step that takes another message and puts nothing in flight.
<1>9. ASSUME NEW k, k \notin {"registered", "defaulted"}, Receive(k), inFlight' => inFlight,
              NEW P \in SUBSET Prompts, Send(<<>>, P)
       PROVE  FlightBacked'
  <2>1. Called => Called' BY <1>3, <1>6, <1>9
  <2>2. Replied => Replied' BY <1>4, <1>9
  <2> QED BY <1>1, <1>2, <1>9, <2>1, <2>2
<1>10. CASE OnRegisterAgentFinished
  <2>1. CASE Head(inbox).ok
    BY <1>2, <1>3, <1>6, <1>7, <1>10, <2>1 DEF OnRegisterAgentFinished
  <2>2. CASE ~Head(inbox).ok BY <1>2, <1>10, <2>2 DEF OnRegisterAgentFinished
  <2> QED BY <2>1, <2>2
<1>11. CASE OnRequestDefaultAgentFinished
  BY <1>2, <1>11 DEF OnRequestDefaultAgentFinished
<1>12. CASE ReRegisterIfNeeded
  <2>1. Receive("owner") BY <1>12 DEF ReRegisterIfNeeded
  <2>2. CASE Head(inbox).ok /\ ~(inFlight \/ active)
    BY <1>2, <1>3, <1>6, <1>7, <1>12, <2>2 DEF ReRegisterIfNeeded, EnsureRegistered
  <2>3. CASE Head(inbox).ok /\ (inFlight \/ active)
    BY <1>7, <1>12, <1>9, <2>1, <2>3 DEF ReRegisterIfNeeded, EnsureRegistered
  <2>4. CASE ~Head(inbox).ok
    BY <1>7, <1>12, <1>9, <2>1, <2>4 DEF ReRegisterIfNeeded, Drain
  <2> QED BY <2>2, <2>3, <2>4
<1>13. CASE HandleRequest
  <2>1. Receive("prompt") /\ UNCHANGED inFlight BY <1>13 DEF HandleRequest
  <2>2. Head(inbox).device \in Devices /\ Head(inbox).prompt \in Prompts
    BY <2>1, ReceiveFacts, MessagesTyped
  <2>3. {pending[Head(inbox).device]} \ {None} \in SUBSET Prompts
    BY <2>2, PendingTyped
  <2>4. {Head(inbox).prompt} \in SUBSET Prompts BY <2>2
  <2>5. \E P \in SUBSET Prompts : Send(<<>>, P)
    BY <1>13, <2>3, <2>4 DEF HandleRequest, StorePending
  <2> QED BY <1>9, <2>1, <2>5
<1>14. CASE HandleCancel \/ HandleRelease
  <2>1. Receive("cancel") \/ Receive("release") BY <1>14 DEF HandleCancel, HandleRelease
  <2>2. inFlight' => inFlight
    BY <1>14 DEF HandleCancel, HandleRelease, AgentTypeOK
  <2>3. \E P \in SUBSET Prompts : Send(<<>>, P)
    BY <1>7, <1>14 DEF HandleCancel, HandleRelease, Drain
  <2> QED BY <1>9, <2>1, <2>2, <2>3
<1>15. CASE Complete
  <2>1. {pending[dialog]} \ {None} \in SUBSET Prompts
    BY <1>15, PendingTyped DEF Complete, AgentTypeOK
  <2> QED
    BY <1>1, <1>2, <1>3, <1>6, <1>15, <2>1 DEF Complete, Replied
<1>16. CASE BluezServes
  <2>1. wire # <<>> /\ wire' = Tail(wire) /\ UNCHANGED inFlight
    BY <1>16 DEF BluezServes, shell
  <2>2. CASE Head(wire).kind = "answer"
    <3>1. Called => Called'
      <4>1. ASSUME NEW j \in DOMAIN wire, wire[j].kind \in {"register", "default"}
            PROVE  j - 1 \in DOMAIN wire' /\ wire'[j - 1] = wire[j]
        BY <2>1, <2>2, <4>1, Popped DEF AgentTypeOK
      <4> QED BY <4>1 DEF Called
    <3>2. UNCHANGED inbox BY <1>16, <2>2 DEF BluezServes
    <3> QED BY <1>1, <1>2, <2>1, <3>1, <3>2 DEF Replied
  <2>3. CASE Head(wire).kind # "answer"
    BY <1>2, <1>5, <1>8, <1>16, <2>3 DEF BluezServes
  <2> QED BY <2>2, <2>3
<1>17. CASE Bounce
  <2>1. wire # <<>> /\ wire' = Tail(wire) /\ UNCHANGED inFlight
    BY <1>17 DEF Bounce, shell
  <2>2. CASE Head(wire).kind \in {"register", "default"}
    BY <1>2, <1>5, <1>8, <1>17, <2>2 DEF Bounce
  <2>3. CASE Head(wire).kind \notin {"register", "default"}
    <3>1. Called => Called'
      <4>1. ASSUME NEW j \in DOMAIN wire, wire[j].kind \in {"register", "default"}
            PROVE  j - 1 \in DOMAIN wire' /\ wire'[j - 1] = wire[j]
        BY <2>1, <2>3, <4>1, Popped DEF AgentTypeOK
      <4> QED BY <4>1 DEF Called
    <3>2. Deliver(<<>>) BY <1>17, <2>3 DEF Bounce
    <3> QED BY <1>1, <1>2, <1>5, <1>6, <2>1, <3>1, <3>2
  <2> QED BY <2>2, <2>3
<1>18. CASE \/ BluezStarts \/ BluezEnds \/ CancelPrompts
            \/ \E d \in Devices : IssuePrompt(d)
  <2>1. UNCHANGED <<wire, inFlight>>
    BY <1>18 DEF BluezStarts, BluezEnds, CancelPrompts, IssuePrompt, shell
  <2>2. \E msgs : inbox' = inbox \o msgs /\ msgs \in Seq(InboxMessages)
    <3>1. /\ <<Msg("release"), Outcome("owner", FALSE)>> \in Seq(InboxMessages)
          /\ <<Msg("cancel")>> \in Seq(InboxMessages)
      <4>1. /\ Msg("release") \in InboxMessages /\ Msg("cancel") \in InboxMessages
            /\ Outcome("owner", FALSE) \in InboxMessages
        BY MessagesTyped
      <4>2. <<Msg("release"), Outcome("owner", FALSE)>> \in Seq(InboxMessages)
        BY <4>1, PairInSeq
      <4>3. <<Msg("cancel")>> \in Seq(InboxMessages) BY <4>1
      <4> QED BY <4>2, <4>3
    <3>2. ASSUME NEW d \in Devices, IssuePrompt(d)
          PROVE  <<Ask(d, prompts')>> \in Seq(InboxMessages)
      <4>1. prompts' \in Prompts
        BY <3>2, AgentBounds DEF IssuePrompt, AgentTypeOK, Prompts
      <4> QED BY <4>1, MessagesTyped
    <3> QED
      BY <1>8, <1>18, <3>1, <3>2
         DEF BluezStarts, BluezEnds, CancelPrompts, IssuePrompt, Deliver
  <2> QED BY <1>1, <1>2, <1>5, <2>1, <2>2 DEF Called, Deliver
<1>19. CASE UNCHANGED bluetooth
  BY <1>19 DEF bluetooth, shell, FlightBacked, OnWire, InInbox
<1> QED
  BY <1>10, <1>11, <1>12, <1>13, <1>14, <1>15, <1>16, <1>17, <1>18, <1>19
     DEF AgentNext, ShellStep

-----------------------------------------------------------------------------
(* The handshake, while bluetoothd refuses nothing and the shell keeps up. *)

\* Replies are all that a step without calls adds to the wire.
LEMMA RepliesOnly ==
  ASSUME AgentTypeOK, NEW P \in SUBSET Prompts, Send(<<>>, P)
  PROVE  /\ OnlyAnswers => OnlyAnswers'
         /\ P = {} => wire' = wire
<1>1. <<>> \in Seq(WireMessages) /\ DOMAIN <<>> = {} BY CallsTyped
<1>2. /\ \A k \in DOMAIN wire' :
           \/ k \in DOMAIN wire /\ wire'[k] = wire[k]
           \/ wire'[k].kind = "answer"
           \/ \E j \in DOMAIN <<>> : wire'[k] = <<>>[j]
      /\ P = {} => wire' = wire \o <<>>
  BY <1>1, SendFacts
<1>3. wire \o <<>> = wire BY ConcatEmptySeq DEF AgentTypeOK
<1> QED BY <1>1, <1>2, <1>3 DEF OnlyAnswers

LEMMA CompleteKeepsHandshake ==
  ASSUME AgentTypeOK, Handshake, Complete
  PROVE  Handshake'
<1>1. /\ dialog \in Devices /\ {pending[dialog]} \ {None} \in SUBSET Prompts
      /\ UNCHANGED <<inbox, active, inFlight, exported, agent, bluezUp>>
  BY PendingTyped DEF Complete, AgentTypeOK, bluez
<1>2. OnlyAnswers => OnlyAnswers' BY <1>1, RepliesOnly DEF Complete
<1>3. ASSUME NoPending PROVE NoPending' /\ wire' = wire
  <2>1. {pending[dialog]} \ {None} = {} BY <1>1, <1>3 DEF NoPending
  <2>2. wire' = wire BY <1>1, <2>1, RepliesOnly DEF Complete
  <2> QED BY <1>1, <1>3, <2>2 DEF Complete, NoPending
<1>4. CASE bluezUp
  <2>1. Returned => Returned' BY <1>1, <1>3 DEF Returned
  <2>2. Registers => Registers' BY <1>1, <1>3 DEF Registers
  <2>3. Registered => Registered' BY <1>1, <1>3 DEF Registered
  <2>4. Defaults => Defaults' BY <1>1, <1>3 DEF Defaults
  <2>5. Defaulted => Defaulted' BY <1>1, <1>2 DEF Defaulted
  <2>6. Active => Active' BY <1>1, <1>2 DEF Active
  <2> QED BY <1>1, <1>4, <2>1, <2>2, <2>3, <2>4, <2>5, <2>6 DEF Handshake
<1>5. CASE ~bluezUp
  BY <1>1, <1>3, <1>5 DEF Handshake, EndSeen, EndQueued, Refusal
<1> QED BY <1>4, <1>5

LEMMA EndIsQueued ==
  ASSUME AgentTypeOK, BluezEnds
  PROVE  Handshake'
<1> DEFINE end == Outcome("owner", FALSE)
<1>1. end \in InboxMessages /\ Msg("release") \in InboxMessages BY MessagesTyped
<1> HIDE DEF end
<1>2. <<end>> \in Seq(InboxMessages) /\ <<Msg("release"), end>> \in Seq(InboxMessages)
  BY <1>1, PairInSeq
<1>3. ASSUME NEW msgs \in Seq(InboxMessages), NEW n \in DOMAIN msgs, n = Len(msgs),
             msgs[n] = end, Deliver(msgs)
      PROVE  EndQueued'
  <2>1. inbox \in Seq(InboxMessages) /\ inbox' = inbox \o msgs
    BY <1>3 DEF Deliver, AgentTypeOK
  <2>2. /\ Len(inbox) + n \in DOMAIN inbox' /\ inbox'[Len(inbox) + n] = end
        /\ DOMAIN inbox' = 1 .. Len(inbox) + n /\ Len(inbox) \in Nat /\ n \in Nat
    BY <1>3, <2>1, Grown, LenProperties
  <2>3. \A j \in DOMAIN inbox' : ~(j > Len(inbox) + n) BY <2>2
  <2> QED BY <2>2, <2>3 DEF EndQueued, end
<1>4. \/ Deliver(<<end>>) \/ Deliver(<<Msg("release"), end>>)
  BY DEF BluezEnds, end
<1>5. EndQueued'
  <2>1. /\ 1 \in DOMAIN <<end>> /\ 1 = Len(<<end>>) /\ <<end>>[1] = end
    OBVIOUS
  <2>2. /\ 2 \in DOMAIN <<Msg("release"), end>> /\ 2 = Len(<<Msg("release"), end>>)
        /\ <<Msg("release"), end>>[2] = end
    OBVIOUS
  <2> QED BY <1>2, <1>3, <1>4, <2>1, <2>2
<1> QED BY <1>5 DEF Handshake, BluezEnds

LEMMA BounceKeepsHandshake ==
  ASSUME AgentTypeOK, Handshake, Bounce
  PROVE  Handshake'
<1>1. ~bluezUp /\ UNCHANGED <<bluezUp, active, pending>>
  BY DEF Bounce, shell, bluez
<1>2. \A k \in {"registered", "defaulted"} :
        <<Outcome(k, FALSE)>> \in Seq(InboxMessages) /\ Refusal(Outcome(k, FALSE))
  BY OutcomesTyped DEF Refusal, Outcome
<1>3. PICK msgs \in Seq(InboxMessages) :
        Deliver(msgs) /\ \A j \in DOMAIN msgs : Refusal(msgs[j])
  <2>1. <<>> \in Seq(InboxMessages) /\ DOMAIN <<>> = {} BY EmptySeq
  <2>2. \A m : DOMAIN <<m>> = {1} /\ <<m>>[1] = m OBVIOUS
  <2>3. \/ Deliver(<<>>) \/ Deliver(<<Outcome("registered", FALSE)>>)
        \/ Deliver(<<Outcome("defaulted", FALSE)>>)
    BY DEF Bounce
  <2> QED BY <1>2, <2>1, <2>2, <2>3
<1>4. /\ \A j \in DOMAIN inbox : j \in DOMAIN inbox' /\ inbox'[j] = inbox[j]
      /\ \A k \in DOMAIN inbox' : k \in DOMAIN inbox \/ Refusal(inbox'[k])
  <2>1. inbox \in Seq(InboxMessages) /\ inbox' = inbox \o msgs
    BY <1>3 DEF Deliver, AgentTypeOK
  <2>2. /\ \A j \in DOMAIN inbox : j \in DOMAIN inbox' /\ inbox'[j] = inbox[j]
        /\ \A k \in DOMAIN inbox' :
             \/ k \in DOMAIN inbox
             \/ k - Len(inbox) \in DOMAIN msgs /\ inbox'[k] = msgs[k - Len(inbox)]
    BY <2>1, Grown
  <2> QED BY <1>3, <2>2
<1>5. EndSeen => EndSeen' BY <1>1, <1>4 DEF EndSeen, NoPending
<1>6. EndQueued => EndQueued' BY <1>4 DEF EndQueued
<1> QED BY <1>1, <1>5, <1>6 DEF Handshake

LEMMA StartReturns ==
  ASSUME AgentTypeOK, KeepsUp, FlightBacked, AskedByDefault, Handshake, BluezStarts
  PROVE  Handshake'
<1>1. ~bluezUp /\ inbox = <<>> /\ wire = <<>> /\ DOMAIN <<>> = {}
  BY DEF BluezStarts, KeepsUp
<1>2. EndSeen BY <1>1 DEF Handshake, EndQueued
<1>3. ~inFlight BY <1>1 DEF FlightBacked, OnWire, InInbox
<1>4. inbox' = <<Outcome("owner", TRUE)>>
  <2>1. inbox' = <<>> \o <<Outcome("owner", TRUE)>> BY <1>1 DEF BluezStarts, Deliver
  <2>2. <<Outcome("owner", TRUE)>> \in Seq(InboxMessages) BY OutcomesTyped
  <2> QED BY <2>1, <2>2, ConcatEmptySeq
<1>5. /\ bluezUp' /\ wire' = wire /\ agent' = agent
      /\ inFlight' = inFlight /\ active' = active /\ pending' = pending
  BY DEF BluezStarts, shell
<1>6. agent = "none" BY <1>1 DEF AskedByDefault
<1>7. ~active /\ NoPending BY <1>2 DEF EndSeen
<1>8. Returned' BY <1>1, <1>3, <1>4, <1>5, <1>6, <1>7 DEF Returned, NoPending
<1> QED BY <1>5, <1>8 DEF Handshake

LEMMA AskingKeepsHandshake ==
  ASSUME AgentTypeOK, AskedByDefault, Handshake,
         CancelPrompts \/ \E d \in Devices : IssuePrompt(d)
  PROVE  Handshake'
<1>1. /\ bluezUp /\ agent = "default"
      /\ UNCHANGED <<bluezUp, agent, exported, active, wire>>
  BY DEF CancelPrompts, IssuePrompt, AskedByDefault, shell
<1>2. PICK m \in InboxMessages : inbox' = inbox \o <<m>> /\ m.kind \in {"prompt", "cancel"}
  <2>1. CASE CancelPrompts
    <3>1. inbox' = inbox \o <<Msg("cancel")>> BY <2>1 DEF CancelPrompts, Deliver
    <3>2. Msg("cancel") \in InboxMessages /\ Msg("cancel").kind = "cancel" BY MessagesTyped
    <3> QED BY <3>1, <3>2
  <2>2. ASSUME NEW d \in Devices, IssuePrompt(d)
        PROVE  Ask(d, prompts') \in InboxMessages /\ Ask(d, prompts').kind = "prompt"
    <3>1. prompts' \in Prompts
      BY <2>2, AgentBounds DEF IssuePrompt, AgentTypeOK, Prompts
    <3> QED BY <3>1, MessagesTyped
  <2> QED BY <2>1, <2>2 DEF IssuePrompt, Deliver
<1>3. /\ \A j \in DOMAIN inbox : j \in DOMAIN inbox' /\ inbox'[j] = inbox[j]
      /\ \A k \in DOMAIN inbox' : k \in DOMAIN inbox \/ inbox'[k].kind \in {"prompt", "cancel"}
  <2>1. inbox \in Seq(InboxMessages) /\ <<m>> \in Seq(InboxMessages) /\ <<m>>[1] = m
        /\ DOMAIN <<m>> = {1}
    BY DEF AgentTypeOK
  <2>2. \A k \in DOMAIN inbox' :
          \/ k \in DOMAIN inbox
          \/ k - Len(inbox) \in DOMAIN <<m>> /\ inbox'[k] = <<m>>[k - Len(inbox)]
    BY <1>2, <2>1, Grown
  <2>3. \A j \in DOMAIN inbox : j \in DOMAIN inbox' /\ inbox'[j] = inbox[j]
    BY <1>2, <2>1, Grown
  <2> QED BY <1>2, <2>1, <2>2, <2>3
<1>4. Defaulted \/ Active
  BY <1>1 DEF Handshake, Returned, Registers, Registered, Defaults
<1>5. Active => Active'
  BY <1>1, <1>3 DEF Active, OnlyAnswers
<1>6. ASSUME Defaulted PROVE Defaulted'
  <2>1. 1 \in DOMAIN inbox BY <1>6, Popped DEF Defaulted, AgentTypeOK
  <2>2. inbox'[1] = inbox[1] /\ 1 \in DOMAIN inbox' BY <1>3, <2>1
  <2>3. inbox' # <<>> BY <2>2
  <2> QED BY <1>1, <1>3, <1>6, <2>2, <2>3 DEF Defaulted, OnlyAnswers
<1> QED BY <1>1, <1>4, <1>5, <1>6 DEF Handshake

LEMMA ServingKeepsHandshake ==
  ASSUME AgentTypeOK, KeepsUp, Handshake, BluezServes
  PROVE  Handshake'
<1>1. /\ bluezUp /\ wire # <<>> /\ wire' = Tail(wire) /\ wire \in Seq(WireMessages)
      /\ Head(wire) = wire[1] /\ 1 \in DOMAIN wire /\ ~bus.refuses
      /\ UNCHANGED <<active, inFlight, exported, pending, bluezUp>>
  BY Popped DEF BluezServes, AgentTypeOK, KeepsUp, shell
<1>2. \A k \in {"registered", "defaulted"} :
        <<Outcome(k, TRUE)>> \in Seq(InboxMessages)
  BY OutcomesTyped
<1>3. \A m \in WireMessages : Tail(<<m>>) = <<>> /\ Head(<<m>>) = m
  OBVIOUS
<1>4. CASE Registers
  <2>1. Head(wire).kind = "register" /\ wire' = <<>> BY <1>1, <1>3, <1>4, MessagesTyped DEF Registers
  <2>2. agent' = "registered" /\ inbox' = <<>> \o <<Outcome("registered", TRUE)>>
    BY <1>1, <1>4, <2>1 DEF BluezServes, Deliver, Registers
  <2>3. inbox' = <<Outcome("registered", TRUE)>> BY <1>2, <2>2, ConcatEmptySeq
  <2>4. Registered' BY <1>1, <1>4, <2>1, <2>2, <2>3 DEF Registers, Registered, NoPending
  <2> QED BY <1>1, <2>4 DEF Handshake
<1>5. CASE Defaults
  <2>1. Head(wire).kind = "default" /\ wire' = <<>> BY <1>1, <1>3, <1>5, MessagesTyped DEF Defaults
  <2>2. agent' = "default" /\ inbox' = <<>> \o <<Outcome("defaulted", TRUE)>>
    BY <1>1, <1>5, <2>1 DEF BluezServes, Deliver, Defaults
  <2>3. inbox' = <<Outcome("defaulted", TRUE)>> BY <1>2, <2>2, ConcatEmptySeq
  <2>4. inbox' # <<>> /\ inbox'[1] = Outcome("defaulted", TRUE) /\ DOMAIN inbox' = {1}
    BY <2>3
  <2>5. Defaulted' BY <1>1, <1>5, <2>1, <2>2, <2>4 DEF Defaults, Defaulted, OnlyAnswers
  <2> QED BY <1>1, <2>5 DEF Handshake
<1>6. CASE Defaulted \/ Active
  <2>1. Head(wire).kind = "answer" BY <1>1, <1>6 DEF Defaulted, Active, OnlyAnswers
  <2>2. UNCHANGED <<agent, inbox>> BY <2>1 DEF BluezServes
  <2>3. \A j \in DOMAIN wire' : j + 1 \in DOMAIN wire /\ wire'[j] = wire[j + 1]
    BY <1>1, Popped
  <2>4. OnlyAnswers' BY <1>6, <2>3 DEF OnlyAnswers, Defaulted, Active
  <2>5. Defaulted' \/ Active' BY <1>1, <1>6, <2>2, <2>4 DEF Defaulted, Active
  <2> QED BY <1>1, <2>5 DEF Handshake
<1> QED BY <1>1, <1>4, <1>5, <1>6 DEF Handshake, Returned, Registered

LEMMA ShellKeepsHandshakeDown ==
  ASSUME AgentTypeOK, Handshake, ShellStep, ~bluezUp
  PROVE  Handshake'
<1>1. /\ inbox # <<>> /\ inbox' = Tail(inbox) /\ inbox \in Seq(InboxMessages)
      /\ 1 \in DOMAIN inbox /\ Head(inbox) = inbox[1] /\ bluezUp' = bluezUp
  BY Popped DEF ShellStep, OnRegisterAgentFinished, OnRequestDefaultAgentFinished,
     ReRegisterIfNeeded, HandleRequest, HandleCancel, HandleRelease, Receive, bluez,
     AgentTypeOK
<1>2. /\ \A j \in DOMAIN inbox' : j + 1 \in DOMAIN inbox /\ inbox'[j] = inbox[j + 1]
      /\ \A j \in DOMAIN inbox : j = 1 \/ (j - 1 \in DOMAIN inbox' /\ inbox'[j - 1] = inbox[j])
      /\ \A j \in DOMAIN inbox' : j \in Nat \ {0}
      /\ \A j \in DOMAIN inbox : j \in Nat \ {0}
  BY <1>1, Popped
<1>3. ASSUME EndSeen PROVE EndSeen'
  <2>1. Refusal(Head(inbox)) BY <1>1, <1>3 DEF EndSeen
  <2>2. UNCHANGED <<active, pending>>
    BY <2>1 DEF ShellStep, OnRegisterAgentFinished, OnRequestDefaultAgentFinished,
       ReRegisterIfNeeded, HandleRequest, HandleCancel, HandleRelease, Receive, Refusal
  <2> QED BY <1>2, <1>3, <2>2 DEF EndSeen, NoPending
<1>4. ASSUME NEW k \in DOMAIN inbox, inbox[k] = Outcome("owner", FALSE),
             \A j \in DOMAIN inbox : j > k => Refusal(inbox[j])
      PROVE  EndSeen' \/ EndQueued'
  <2>1. CASE k = 1
    <3>1. Head(inbox).kind = "owner" /\ ~Head(inbox).ok
      BY <1>1, <1>4, <2>1 DEF Outcome
    <3>2. Drain /\ active' = FALSE
      BY <3>1 DEF ShellStep, OnRegisterAgentFinished, OnRequestDefaultAgentFinished,
         ReRegisterIfNeeded, HandleRequest, HandleCancel, HandleRelease, Receive
    <3>3. \A j \in DOMAIN inbox' : Refusal(inbox'[j])
      BY <1>2, <1>4, <2>1
    <3> QED BY <3>2, <3>3 DEF EndSeen, Drain, NoPending
  <2>2. CASE k # 1
    <3>1. k - 1 \in DOMAIN inbox' /\ inbox'[k - 1] = Outcome("owner", FALSE)
      BY <1>2, <1>4, <2>2
    <3>2. \A j \in DOMAIN inbox' : j > k - 1 => Refusal(inbox'[j])
      BY <1>2, <1>4
    <3> QED BY <3>1, <3>2 DEF EndQueued
  <2> QED BY <2>1, <2>2
<1> QED BY <1>1, <1>3, <1>4 DEF Handshake, EndQueued

LEMMA ShellKeepsHandshakeUp ==
  ASSUME AgentTypeOK, Handshake, ShellStep, bluezUp
  PROVE  Handshake'
<1>1. /\ inbox # <<>> /\ inbox' = Tail(inbox) /\ inbox \in Seq(InboxMessages)
      /\ 1 \in DOMAIN inbox /\ Head(inbox) = inbox[1]
      /\ UNCHANGED <<bluezUp, agent>>
  BY Popped DEF ShellStep, OnRegisterAgentFinished, OnRequestDefaultAgentFinished,
     ReRegisterIfNeeded, HandleRequest, HandleCancel, HandleRelease, Receive, bluez,
     AgentTypeOK
<1>2. \A j \in DOMAIN inbox' : /\ j \in Nat \ {0}
                              /\ j + 1 \in DOMAIN inbox /\ inbox'[j] = inbox[j + 1]
  BY <1>1, Popped
<1>3. \A m \in InboxMessages : Tail(<<m>>) = <<>> /\ Head(<<m>>) = m
  OBVIOUS
<1>4. \A k \in {"registered", "defaulted", "owner"} :
        /\ Outcome(k, TRUE) \in InboxMessages
        /\ Outcome(k, TRUE).kind = k /\ Outcome(k, TRUE).ok
  BY MessagesTyped
<1>5. \A calls \in Seq(WireMessages) : Send(calls, {}) => wire' = wire \o calls
  BY SendFacts
<1>6. \A k \in {"register", "default"} :
        <<Msg(k)>> \in Seq(WireMessages) /\ <<>> \o <<Msg(k)>> = <<Msg(k)>>
  BY CallsTyped, ConcatEmptySeq
<1>7. CASE Returned
  <2>1. Head(inbox) = Outcome("owner", TRUE) /\ inbox' = <<>>
    BY <1>1, <1>3, <1>4, <1>7 DEF Returned
  <2>2. ReRegisterIfNeeded
    BY <1>4, <2>1 DEF ShellStep, OnRegisterAgentFinished, OnRequestDefaultAgentFinished,
       HandleRequest, HandleCancel, HandleRelease, Receive
  <2>3. /\ inFlight' = TRUE /\ exported' = TRUE /\ Send(<<Msg("register")>>, {})
        /\ UNCHANGED <<active, pending>>
    BY <1>4, <1>7, <2>1, <2>2 DEF ReRegisterIfNeeded, EnsureRegistered, Returned
  <2>4. wire' = <<Msg("register")>> BY <1>5, <1>6, <1>7, <2>3 DEF Returned
  <2>5. Registers' BY <1>1, <1>7, <2>1, <2>3, <2>4 DEF Returned, Registers, NoPending
  <2> QED BY <1>1, <2>5 DEF Handshake
<1>8. CASE Registered
  <2>1. Head(inbox) = Outcome("registered", TRUE) /\ inbox' = <<>>
    BY <1>1, <1>3, <1>4, <1>8 DEF Registered
  <2>2. OnRegisterAgentFinished
    BY <1>4, <2>1 DEF ShellStep, OnRequestDefaultAgentFinished, ReRegisterIfNeeded,
       HandleRequest, HandleCancel, HandleRelease, Receive
  <2>3. /\ Send(<<Msg("default")>>, {})
        /\ UNCHANGED <<inFlight, exported, active, pending>>
    BY <1>4, <2>1, <2>2 DEF OnRegisterAgentFinished
  <2>4. wire' = <<Msg("default")>> BY <1>5, <1>6, <1>8, <2>3 DEF Registered
  <2>5. Defaults' BY <1>1, <1>8, <2>1, <2>3, <2>4 DEF Registered, Defaults, NoPending
  <2> QED BY <1>1, <2>5 DEF Handshake
<1>9. CASE Defaulted
  <2>1. Head(inbox) = Outcome("defaulted", TRUE) BY <1>1, <1>9 DEF Defaulted
  <2>2. OnRequestDefaultAgentFinished
    BY <1>4, <2>1 DEF ShellStep, OnRegisterAgentFinished, ReRegisterIfNeeded,
       HandleRequest, HandleCancel, HandleRelease, Receive
  <2>3. active' = TRUE /\ UNCHANGED exported /\ Send(<<>>, {})
    BY <1>4, <2>1, <2>2 DEF OnRequestDefaultAgentFinished
  <2>4. {} \in SUBSET Prompts OBVIOUS
  <2>5. OnlyAnswers' BY <1>9, <2>3, <2>4, RepliesOnly DEF Defaulted
  <2>6. \A j \in DOMAIN inbox' : inbox'[j].kind \in {"prompt", "cancel"}
    BY <1>2, <1>9 DEF Defaulted
  <2>7. Active' BY <1>1, <1>9, <2>3, <2>5, <2>6 DEF Defaulted, Active
  <2> QED BY <1>1, <2>7 DEF Handshake
<1>10. CASE Active
  <2>1. Head(inbox).kind \in {"prompt", "cancel"} BY <1>1, <1>10 DEF Active
  <2>2. HandleRequest \/ HandleCancel
    BY <2>1 DEF ShellStep, OnRegisterAgentFinished, OnRequestDefaultAgentFinished,
       ReRegisterIfNeeded, HandleRelease, Receive
  <2>3. UNCHANGED <<active, exported>> BY <2>2 DEF HandleRequest, HandleCancel
  <2>4. \E P \in SUBSET Prompts : Send(<<>>, P)
    <3>1. CASE HandleRequest
      <4>1. Head(inbox).device \in Devices /\ Head(inbox).prompt \in Prompts
        BY <3>1, ReceiveFacts, MessagesTyped DEF HandleRequest
      <4>2. {Head(inbox).prompt} \in SUBSET Prompts
        BY <4>1
      <4>3. {pending[Head(inbox).device]} \ {None} \in SUBSET Prompts
        BY <4>1, PendingTyped
      <4> QED BY <3>1, <4>2, <4>3 DEF HandleRequest, StorePending
    <3>2. CASE HandleCancel
      BY <3>2, PendingTyped DEF HandleCancel, Drain
    <3> QED BY <2>2, <3>1, <3>2
  <2>5. OnlyAnswers' BY <1>10, <2>4, RepliesOnly DEF Active
  <2>6. \A j \in DOMAIN inbox' : inbox'[j].kind \in {"prompt", "cancel"}
    BY <1>2, <1>10 DEF Active
  <2>7. Active' BY <1>1, <1>10, <2>3, <2>5, <2>6 DEF Active
  <2> QED BY <1>1, <2>7 DEF Handshake
<1> QED BY <1>1, <1>7, <1>8, <1>9, <1>10 DEF Handshake, Registers, Defaults

LEMMA HandshakeKept ==
  ASSUME AgentTypeOK, KeepsUp, FlightBacked, AskedByDefault, Handshake,
         [AgentNext]_bluetooth
  PROVE  Handshake'
<1>1. CASE ShellStep
  <2>1. bluezUp \in BOOLEAN BY DEF AgentTypeOK
  <2> QED BY <1>1, <2>1, ShellKeepsHandshakeUp, ShellKeepsHandshakeDown
<1>2. CASE UNCHANGED bluetooth
  BY <1>2 DEF bluetooth, shell, bluez, Handshake, Returned, Registers, Registered, Defaults,
     Defaulted, Active, EndSeen, EndQueued, Refusal, NoPending, OnlyAnswers
<1> QED
  BY <1>1, <1>2, CompleteKeepsHandshake, EndIsQueued, BounceKeepsHandshake, StartReturns,
     AskingKeepsHandshake, ServingKeepsHandshake DEF AgentNext

-----------------------------------------------------------------------------
(* The theorems, about the agent as it runs in ShellPlugins.               *)

LEMMA AgentInitInv == AgentInit => AgentInv
<1> SUFFICES ASSUME AgentInit PROVE AgentInv
  OBVIOUS
<1>1. AgentTypeOK BY AgentInitTyped
<1>2. /\ wire = <<Msg("register")>> /\ wire[1].kind = "register" /\ DOMAIN wire = {1}
      /\ inbox = <<>> /\ DOMAIN inbox = {}
      /\ waiting = {} /\ inFlight /\ exported /\ ~active /\ agent = "none"
      /\ pending = [d \in Devices |-> None] /\ answers = [p \in Prompts |-> 0]
  BY MessagesTyped DEF AgentInit
<1>3. AwaitedLocated /\ AskedByDefault BY <1>2 DEF AwaitedLocated, AskedByDefault
<1>4. Exclusive BY <1>2 DEF Exclusive, AgentInit, AsksFor
<1>5. FlightBacked BY <1>2 DEF FlightBacked, OnWire
<1>6. Handshake BY <1>2 DEF Handshake, Registers, EndSeen, NoPending
<1> QED BY <1>1, <1>3, <1>4, <1>5, <1>6 DEF AgentInv

LEMMA AgentNextInv == AgentInv /\ [AgentNext]_bluetooth => AgentInv'
<1> SUFFICES ASSUME AgentInv, [AgentNext]_bluetooth PROVE AgentInv'
  OBVIOUS
<1> USE DEF AgentInv
<1>1. AgentTypeOK' BY AgentNextTyped
<1>2. FlightBacked' BY FlightKept
<1>3. bus' = bus
  BY DEF AgentNext, ShellStep, OnRegisterAgentFinished, OnRequestDefaultAgentFinished,
     ReRegisterIfNeeded, HandleRequest, HandleCancel, HandleRelease, Complete, BluezServes,
     Bounce, BluezStarts, BluezEnds, CancelPrompts, IssuePrompt, bluetooth, bluez
<1>4. KeepsUp' => Handshake' BY <1>3, HandshakeKept DEF KeepsUp
<1>5. AwaitedLocated' /\ Exclusive' /\ AskedByDefault'
  <2>1. CASE ShellStep \/ Complete
    <3>1. PICK P \in SUBSET Prompts : Answering(P) BY <2>1, ShellStepAnswers
    <3>2. AwaitedLocated' /\ Exclusive' BY <1>1, <3>1, AnsweringKeeps
    <3>3. AskedByDefault' BY <3>1 DEF Answering, AskedByDefault, bluez
    <3> QED BY <3>2, <3>3
  <2>2. CASE UNCHANGED bluetooth
    BY <2>2 DEF bluetooth, shell, bluez, AwaitedLocated, Located, Exclusive, AskedByDefault,
       AsksFor
  <2> QED BY <1>1, <2>1, <2>2, BusStepKeeps DEF AgentNext
<1> QED BY <1>1, <1>2, <1>4, <1>5

\* A step of another plugin leaves the agent alone.
LEMMA AgentRuns == [Next]_vars => [AgentNext]_bluetooth
  BY DEF Next, vars, bluetooth, input, audio

\* The inductive invariant of the agent, for any devices and any number of
\* prompts and restarts of bluetoothd.
THEOREM AgentInvCorrect == Spec => []AgentInv
<1>1. Init => AgentInv BY AgentInitInv DEF Init
<1>2. AgentInv /\ [Next]_vars => AgentInv' BY AgentNextInv, AgentRuns
<1> QED BY <1>1, <1>2, PTL DEF Spec

\* storePending, takePending and drainPending between them lose no caller: a
\* prompt bluetoothd still waits for is in the queue, in mPending or its answer
\* is on the way, whatever was prompted, cancelled, released or registered
\* again meanwhile.
THEOREM NoOrphanHolds == Spec => []NoOrphan
<1>1. AgentInv => NoOrphan
  BY DEF AgentInv, NoOrphan, AwaitedLocated, Located, AsksFor
<1> QED BY <1>1, AgentInvCorrect, PTL

\* And answer none twice, whichever of the dialog, a newer prompt, a cancel, a
\* release and the end of bluetoothd get to a prompt.
THEOREM OneAnswerHolds == Spec => []OneAnswer
<1>1. AgentInv => OneAnswer BY DEF AgentInv, OneAnswer, Exclusive
<1> QED BY <1>1, AgentInvCorrect, PTL

\* mActivationInFlight never blocks a registration that nothing would end, and
\* mActive means the default agent once everything is handled, while the shell
\* keeps up with bluetoothd.
THEOREM ActivationBackedHolds == Spec => []ActivationBacked
<1>1. ASSUME AgentInv, KeepsUp, active, bluezUp, inbox = <<>>, wire = <<>>
      PROVE  agent = "default" /\ exported
  BY <1>1 DEF AgentInv, Handshake, Returned, Registers, Registered, Defaults, Defaulted,
     Active
<1>2. AgentInv => ActivationBacked BY <1>1 DEF AgentInv, FlightBacked, ActivationBacked
<1> QED BY <1>2, AgentInvCorrect, PTL
=============================================================================
