---------------------------- MODULE IslandClients ----------------------------
(***************************************************************************)
(* The dynamic island with the services that show content on it: drag and  *)
(* drop (infinite while a session is on), KDEConnectReceive (infinite      *)
(* while a file comes in, then a finite result), PrivacyServices (a finite *)
(* notice per kind of stream) and StatusNotifications.  Each keeps the id  *)
(* of its last request to dismiss it.                                      *)
(***************************************************************************)
EXTENDS DynamicIsland

CONSTANT MaxQueue  \* bound: requests in the island's queue

ASSUME ClientsAssumption == MaxQueue \in Nat

VARIABLES
  drag,     \* GlobalStates.isDragAndDropActive
  receive,  \* KDEConnectReceive.currentState
  result,   \* KDEConnectReceive.dismissTimer runs
  window,   \* KDEConnectTransfer.receiving
  nodes,    \* the kinds of stream that are active
  flush     \* PrivacyServices.pendingKinds; notifyTimer runs unless it is empty

clients == <<drag, receive, result, window, nodes, flush>>
vars    == <<isl, clients>>

Init ==
  /\ isl = Empty
  /\ drag = FALSE
  /\ receive = "idle" /\ result = FALSE /\ window = FALSE
  /\ nodes = {} /\ flush = {}

Room == Len(isl.queue) < MaxQueue

\* An owner dismisses the request it keeps, and shows another and keeps it.
Drop(s, o) == IF s.held[o] = 0 THEN s
              ELSE [Dismiss(s, s.held[o]) EXCEPT !.held[o] = 0]
ShowHeld(s, o, inf) == LET r == Request(s, o, inf)
                       IN [Show(s, r) EXCEPT !.held[o] = r.id]

-----------------------------------------------------------------------------
(* Drag and drop.                                                          *)

\* setDragAndDropActive(true), openIsland
DragBegins ==
  /\ ~drag /\ Room
  /\ drag' = TRUE
  /\ isl' = IF isl.held["drag"] # 0 THEN isl ELSE ShowHeld(isl, "drag", TRUE)
  /\ UNCHANGED <<receive, result, window, nodes, flush>>

\* setDragAndDropActive(false) or the dismissal after a transfer, closeIsland
DragEnds ==
  /\ drag
  /\ drag' = FALSE
  /\ isl' = Drop(isl, "drag")
  /\ UNCHANGED <<receive, result, window, nodes, flush>>

-----------------------------------------------------------------------------
(* Receiving files.                                                        *)

\* beginReceiving; ignored unless idle
WindowOpens ==
  /\ ~window /\ Room
  /\ window' = TRUE
  /\ IF receive = "idle"
     THEN /\ receive' = "receiving"
          /\ result' = FALSE
          /\ isl' = ShowHeld(Drop(isl, "receive"), "receive", TRUE)
     ELSE UNCHANGED <<receive, result, isl>>
  /\ UNCHANGED <<drag, nodes, flush>>

ShowResultOver ==  \* fault: the request before the result is not dismissed
  /\ receive' = "received"
  /\ result' = TRUE
  /\ isl' = ShowHeld(isl, "receive", FALSE)

\* showResult
ShowResult ==
  /\ receive' = "received"
  /\ result' = TRUE
  /\ isl' = ShowHeld(Drop(isl, "receive"), "receive", FALSE)

\* finishReceiving; ignored unless receiving
WindowCloses ==
  /\ window
  /\ window' = FALSE
  /\ IF receive = "receiving" THEN ShowResult
                              ELSE UNCHANGED <<receive, result, isl>>
  /\ UNCHANGED <<drag, nodes, flush>>

\* recordFile: a file may be announced at any time.
FileReceived ==
  /\ Room
  /\ ShowResult
  /\ UNCHANGED <<drag, window, nodes, flush>>

\* dismiss, called by dismissTimer
ResultTimer ==
  /\ result
  /\ result' = FALSE
  /\ receive' = "idle"
  /\ isl' = Drop(isl, "receive")
  /\ UNCHANGED <<drag, window, nodes, flush>>

-----------------------------------------------------------------------------
(* Privacy.                                                                *)

\* handleKindChanged for a kind whose streams changed and remain: also when
\* one of several came or went.
KindChanges(k) ==
  /\ nodes' = nodes \cup {k}
  /\ flush' = flush \cup {k}
  /\ UNCHANGED <<isl, drag, receive, result, window>>

\* handleKindChanged for a kind without streams: discardKind, which for the
\* last kind is discardAll.
KindEnds(k) ==
  /\ k \in nodes
  /\ nodes' = nodes \ {k}
  /\ flush' = flush \ {k}
  /\ isl' = Drop(isl, k)
  /\ UNCHANGED <<drag, receive, result, window>>

\* showKindNow
ShowKindNow(s, k) ==
  LET i == s.held[k]
      queued == \E j \in DOMAIN s.queue : s.queue[j].id = i
  IN IF k \notin nodes \/ (i # 0 /\ queued) THEN s
     ELSE ShowHeld(Drop(s, k), k, FALSE)

\* The turn of the j-th of the kinds.
FlushKind(s, j) == IF j \in DOMAIN KindOrder /\ KindOrder[j] \in flush
                   THEN ShowKindNow(s, KindOrder[j]) ELSE s

\* flushPending, called by notifyTimer: the kinds in their order.
NotifyTimer ==
  /\ flush # {} /\ Room
  /\ flush' = {}
  /\ isl' = FlushKind(FlushKind(FlushKind(isl, 1), 2), 3)
  /\ UNCHANGED <<drag, receive, result, window, nodes>>

-----------------------------------------------------------------------------
Timers == (BaseTimer \/ OverlayTimer \/ CloseTimer) /\ UNCHANGED clients

Tell(n) == Room /\ Notify(n) /\ UNCHANGED clients

Next ==
  \/ Timers
  \/ \E n \in Notices : Tell(n)
  \/ DragBegins \/ DragEnds
  \/ WindowOpens \/ WindowCloses \/ FileReceived \/ ResultTimer
  \/ \E k \in Kinds : KindChanges(k) \/ KindEnds(k)
  \/ NotifyTimer

Spec == Init /\ [][Next]_vars

\* A timer that runs fires and a session on the island ends: weak fairness of
\* each, with its ENABLED written out.
FairSpec ==
  /\ Spec
  /\ []<>~isl.base  \/ []<><<BaseTimer /\ UNCHANGED clients>>_vars
  /\ []<>~isl.over  \/ []<><<OverlayTimer /\ UNCHANGED clients>>_vars
  /\ []<>~isl.close \/ []<><<CloseTimer /\ UNCHANGED clients>>_vars
  /\ []<>~result    \/ []<><<ResultTimer>>_vars
  /\ []<>~drag      \/ []<><<DragEnds>>_vars
  /\ []<>~window    \/ []<><<WindowCloses>>_vars

-----------------------------------------------------------------------------
(* Properties.                                                             *)

RequestOK(r) == /\ r.id \in Nat /\ r.owner \in Owners /\ r.infinite \in BOOLEAN

\* Type correctness of the island and its clients.
TypeOK ==
  /\ \A r \in Present(isl) : RequestOK(r)
  /\ {isl.closing, isl.base, isl.over, isl.close} \subseteq BOOLEAN
  /\ isl.pending \in Seq(Notices) /\ Len(isl.pending) <= MaxQueued
  /\ isl.held \in [Owners \ {"status"} -> Nat]
  /\ drag \in BOOLEAN /\ result \in BOOLEAN /\ window \in BOOLEAN
  /\ receive \in {"idle", "receiving", "received"}
  /\ nodes \subseteq Kinds /\ flush \subseteq nodes

\* Types are correct, and nothing that ends by itself stays for ever: whatever
\* was shown, replaced, dismissed or interrupted by a slot, finite content has
\* its timer running and so has a closing island.
TimerBacked ==
  /\ TypeOK
  /\ isl.closing => isl.close
  /\ isl.current # None /\ ~isl.current.infinite /\ ~isl.closing => isl.base
  /\ isl.overlay # None /\ ~isl.closing => isl.over

\* Nothing waits behind an empty or a closing island, and a notice still to be
\* told waits for one that is on the island, never for an event that may not
\* come: promoteIfIdle has no other caller.
QueueBehindContent ==
  /\ isl.queue # <<>> =>
       (isl.current # None \/ isl.overlay # None) /\ ~isl.closing
  /\ isl.pending # <<>> => Live(isl)

\* What drag and drop and the receiver show is never out of their reach: every
\* request of theirs on the island is the one whose id they keep.
OwnersHoldTheirs ==
  \A r \in Present(isl) :
    r.owner \in {"drag", "receive"} =>
      r.id = isl.held[r.owner] \/ (isl.closing /\ isl.held[r.owner] = 0)

\* A session or a privacy notice that waits in the queue is shown or taken back
\* in the end, whatever else is told, received and dismissed meanwhile.
Waits(i) == \E j \in DOMAIN isl.queue :
              /\ isl.queue[j].id = i
              /\ isl.queue[j].owner \in Kinds \cup {"drag"}
QueueMoves == \A i \in 1 .. MaxQueue + Cardinality(Owners) : Waits(i) ~> ~Waits(i)

\* DynamicIslandService.qml: "Only an infinite base yields to a finite override
\* (overlay)": content under an overlay is infinite.
OnlyInfiniteYields ==
  isl.current # None /\ isl.overlay # None => isl.current.infinite
=============================================================================
