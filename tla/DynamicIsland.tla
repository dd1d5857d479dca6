---------------------------- MODULE DynamicIsland ----------------------------
(***************************************************************************)
(* DynamicIslandService: one piece of content on the island, a finite one  *)
(* over an infinite one, a queue behind them and a closing animation, each *)
(* ended by a timer or by its owner.                                       *)
(*                                                                         *)
(* A QML property assignment runs the slots connected to its change signal *)
(* before the next statement: StatusNotifications may show its next notice *)
(* and PrivacyServices may forget a request in the middle of a function of *)
(* the service.  So the functions are operators from island to island that *)
(* take each assignment, with its slots, in the order of the code.         *)
(***************************************************************************)
EXTENDS Naturals, Sequences, FiniteSets, SequencesExt, FiniteSetsExt

CONSTANTS
  KindOrder,  \* privacy kinds, in the order they are shown
  Notices,    \* what StatusNotifications may be asked to tell (its keys)
  MaxQueued,  \* StatusNotifications.maxQueued
  None        \* null

Kinds  == ToSet(KindOrder)
Owners == Kinds \cup {"drag", "receive", "status"}

ASSUME IslandAssumption ==
  /\ MaxQueued \in Nat \ {0}
  /\ KindOrder \in Seq(Kinds) /\ Cardinality(Kinds) = Len(KindOrder)
  /\ Len(KindOrder) <= 3  \* screenshare, audioIn, audioOut
  /\ Kinds \cap {"drag", "receive", "status"} = {}
  /\ None \notin [id : Nat, owner : Owners, infinite : BOOLEAN]

VARIABLE
  isl  \* the island: current, overlay, queue, closing; base, over, close: the
       \* timers that run; pending: the notices of StatusNotifications still to
       \* be shown; held: the request id each other owner keeps, 0 for none

Empty == [current |-> None, overlay |-> None, queue |-> <<>>, closing |-> FALSE,
          base |-> FALSE, over |-> FALSE, close |-> FALSE, pending |-> <<>>,
          held |-> [o \in Owners \ {"status"} |-> 0]]

Present(s) == ({s.current, s.overlay} \ {None}) \cup ToSet(s.queue)
IdsOf(s)   == {r.id : r \in Present(s)}

\* _nextId: here the least number nobody refers to any more. Nobody keeps the
\* id of a notice.
NextId(s) == LET used == {0} \cup IdsOf(s) \cup {s.held[o] : o \in DOMAIN s.held}
             IN Min((1 .. Cardinality(used)) \ used)

Request(s, o, inf) == [id |-> NextId(s), owner |-> o, infinite |-> inf]
Notice == [id |-> 0, owner |-> "status", infinite |-> FALSE]

-----------------------------------------------------------------------------
(* The slots of currentChanged, overlayChanged and queueChanged.           *)

\* isLive
Live(s) == \E r \in Present(s) : r.owner = "status"

\* syncAllRequests: PrivacyServices forgets requests that are not on the island.
Sync(s) == [s EXCEPT !.held = [o \in DOMAIN @ |->
              IF o \in Kinds /\ @[o] \notin IdsOf(s) THEN 0 ELSE @[o]]]

\* The part of show() after the closing island is given up.
Place(s, r) ==
  IF s.current = None /\ s.overlay = None
  THEN [s EXCEPT !.current = r, !.base = @ \/ ~r.infinite]
  ELSE IF s.current # None /\ s.current.infinite /\ ~r.infinite
          /\ s.overlay = None
  THEN [s EXCEPT !.overlay = r, !.over = TRUE]
  ELSE [s EXCEPT !.queue = Append(@, r)]

\* promoteIfIdle while the island is not closing.
Admit(s) ==
  IF s.pending = <<>> \/ Live(s) THEN s
  ELSE Place([s EXCEPT !.pending = Tail(@)], Notice)

\* show() on a closing island: the content that is on its way out is dropped.
Reopen(s) ==
  LET a == [s EXCEPT !.closing = FALSE, !.base = FALSE, !.over = FALSE,
                     !.close = FALSE]
      b == IF a.current = None THEN a
           ELSE Sync(Admit([a EXCEPT !.current = None]))
  IN IF b.overlay = None THEN b
     ELSE Sync(Admit([b EXCEPT !.overlay = None]))

\* show(): the id is taken before the island reopens.
Show(s, r) == Sync(Admit(Place(IF s.closing THEN Reopen(s) ELSE s, r)))

\* promoteIfIdle
Promote(s) ==
  IF s.pending = <<>> \/ Live(s) THEN s
  ELSE Show([s EXCEPT !.pending = Tail(@)], Notice)

\* An assignment that changes the property, and its slots.
SetCurrent(s, r) ==
  IF s.current = None /\ r = None THEN s
  ELSE Sync(Promote([s EXCEPT !.current = r]))
SetOverlay(s, r) ==
  IF s.overlay = None /\ r = None THEN s ELSE Sync(Promote([s EXCEPT !.overlay = r]))
SetQueue(s, q) == Sync(Promote([s EXCEPT !.queue = q]))

-----------------------------------------------------------------------------
(* The rest of the service.                                                *)

BeginClose(s) ==
  IF s.closing \/ (s.current = None /\ s.overlay = None) THEN s
  ELSE [s EXCEPT !.closing = TRUE, !.close = TRUE]

StartUntimed(s, r) == SetCurrent(s, r)  \* fault: its timer is not started

\* A request that waited becomes current.
Start(s, r) == [SetCurrent(s, r) EXCEPT !.base = @ \/ ~r.infinite]

CloseAtOnce(s) == BeginClose(s)  \* fault: closes over a queue

\* promoteOrClose
PromoteOrClose(s) ==
  IF s.queue = <<>> THEN BeginClose(s)
  ELSE Start(SetQueue(s, Tail(s.queue)), Head(s.queue))

\* finishDismissedOverlay
FinishDismissedOverlay(s) ==
  IF s.queue = <<>> THEN BeginClose(s)
  ELSE Start(SetOverlay(SetQueue(s, Tail(s.queue)), None), Head(s.queue))

DismissCurrent(s) ==
  IF s.current = None
  THEN IF s.overlay = None THEN s
       ELSE FinishDismissedOverlay([s EXCEPT !.over = FALSE])
  ELSE LET t == [s EXCEPT !.base = FALSE]
       IN IF t.overlay # None THEN SetCurrent(t, None) ELSE PromoteOrClose(t)

\* dismiss(id).  Every caller gives an id, and content to show().
Dismiss(s, i) ==
  IF s.overlay # None /\ s.overlay.id = i
  THEN LET t == [s EXCEPT !.over = FALSE]
       IN IF t.current = None THEN FinishDismissedOverlay(t)
          ELSE SetOverlay(t, None)
  ELSE IF s.current # None /\ s.current.id = i THEN DismissCurrent(s)
  ELSE LET found == {j \in DOMAIN s.queue : s.queue[j].id = i}
       IN IF found = {} THEN s ELSE SetQueue(s, RemoveAt(s.queue, Min(found)))

\* _expireBase, called by the timer
ExpireBase(s) ==
  LET t == [s EXCEPT !.base = FALSE]
  IN IF t.current = None \/ t.closing THEN t ELSE PromoteOrClose(t)

ExpireOverlayOnly(s) ==  \* fault: the queue does not advance after an overlay
  LET t == [s EXCEPT !.over = FALSE]
  IN IF t.overlay = None \/ t.closing THEN t ELSE SetOverlay(t, None)

\* _expireOverlay
ExpireOverlay(s) ==
  LET t == [s EXCEPT !.over = FALSE]
  IN IF t.overlay = None \/ t.closing THEN t
     ELSE IF t.current # None THEN SetOverlay(t, None)
     ELSE PromoteOrClose(SetOverlay(t, None))

\* _finishClose
FinishClose(s) ==
  LET t == [s EXCEPT !.base = FALSE, !.over = FALSE, !.close = FALSE]
      u == [SetOverlay(SetCurrent(t, None), None) EXCEPT !.closing = FALSE]
  IN IF u.queue = <<>> THEN u ELSE PromoteOrClose(u)

-----------------------------------------------------------------------------
(* Actions of the service and of StatusNotifications.                      *)

BaseTimer    == isl.base  /\ isl' = ExpireBase(isl)
OverlayTimer == isl.over  /\ isl' = ExpireOverlay(isl)
CloseTimer   == isl.close /\ isl' = FinishClose(isl)

\* notify: a repeated notice moves to the end (it waits once at most), and the
\* oldest of too many is lost.
Notify(n) ==
  LET found == {j \in DOMAIN isl.pending : isl.pending[j] = n}
      others == IF found = {} THEN isl.pending ELSE RemoveAt(isl.pending, Min(found))
      q == Append(others, n)
      kept == IF Len(q) > MaxQueued THEN Tail(q) ELSE q
  IN isl' = Promote([isl EXCEPT !.pending = kept])
=============================================================================
