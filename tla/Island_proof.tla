---------------------------- MODULE Island_proof ----------------------------
(***************************************************************************)
(* Proofs about the dynamic island and its clients.  The functions of the  *)
(* service are operators from island to island, so each has a lemma that   *)
(* says what it makes of any island it is called on; the actions follow    *)
(* from those.                                                             *)
(***************************************************************************)
EXTENDS IslandClients, QueueTheorems

\* A request; only the notices of StatusNotifications have no id.
Requests == {r \in [id : Nat, owner : Owners, infinite : BOOLEAN] :
               r.id = 0 => r.owner = "status"}

Islands == [current : Requests \cup {None}, overlay : Requests \cup {None},
            queue : Seq(Requests), closing : BOOLEAN, base : BOOLEAN, over : BOOLEAN,
            close : BOOLEAN, pending : Seq(Notices), held : [Owners \ {"status"} -> Nat]]

-----------------------------------------------------------------------------
(* The invariant: what holds of the island between two calls.              *)

\* The closing animation is what ends a closing.
Closes(s) == s.closing <=> s.close

\* Finite content of an island that is not closing has its timer.
Based(s) == s.current # None /\ ~s.current.infinite /\ ~s.closing => s.base
Overed(s) == s.overlay # None /\ ~s.closing => s.over

\* Requests wait behind content only, notices behind a notice only.
Fenced(s) ==
  s.queue # <<>> => (s.current # None \/ s.overlay # None) /\ ~s.closing
Told(s) == s.pending # <<>> => Live(s)

\* A request is in one place.
Apart(s) ==
  /\ s.current # None /\ s.overlay # None /\ s.current.id # 0 =>
       s.current.id # s.overlay.id
  /\ \A j \in DOMAIN s.queue : s.queue[j].id # 0 =>
       /\ s.current # None => s.current.id # s.queue[j].id
       /\ s.overlay # None => s.overlay.id # s.queue[j].id
       /\ \A k \in DOMAIN s.queue : s.queue[j].id = s.queue[k].id => j = k

\* What drag and drop and the receiver have on the island is what they keep.
Own(r, s) == r.id = s.held[r.owner] \/ (s.closing /\ s.held[r.owner] = 0)
Reached(s) == \A r \in Present(s) : r.owner \in {"drag", "receive"} => Own(r, s)

Good(s) == Closes(s) /\ Based(s) /\ Overed(s) /\ Fenced(s) /\ Told(s) /\ Apart(s)

Sound(s) == s \in Islands /\ Len(s.pending) <= MaxQueued /\ Good(s) /\ Reached(s)

IslandInv == Sound(isl)

ClientsInv ==
  /\ drag \in BOOLEAN /\ result \in BOOLEAN /\ window \in BOOLEAN
  /\ receive \in {"idle", "receiving", "received"}
  /\ nodes \subseteq Kinds /\ flush \subseteq nodes

Inv == IslandInv /\ ClientsInv

-----------------------------------------------------------------------------
(* Islands, and what is on them.                                           *)

LEMMA IslandFields ==
  ASSUME NEW s \in Islands
  PROVE  /\ s.current \in Requests \cup {None} /\ s.overlay \in Requests \cup {None}
         /\ s.queue \in Seq(Requests) /\ s.pending \in Seq(Notices)
         /\ s.closing \in BOOLEAN /\ s.base \in BOOLEAN /\ s.over \in BOOLEAN
         /\ s.close \in BOOLEAN /\ s.held \in [Owners \ {"status"} -> Nat]
         /\ DOMAIN s.queue \subseteq Nat
         /\ \A j \in DOMAIN s.queue : s.queue[j] \in Requests
BY LenProperties, ElementOfSeq DEF Islands

LEMMA RequestFields ==
  /\ None \notin Requests
  /\ Notice \in Requests /\ Notice.id = 0 /\ Notice.owner = "status" /\ ~Notice.infinite
  /\ \A r \in Requests : /\ r.id \in Nat /\ r.owner \in Owners /\ r.infinite \in BOOLEAN
                         /\ r.id = 0 => r.owner = "status"
BY IslandAssumption DEF Requests, Notice, Owners

LEMMA PresentHas ==
  ASSUME NEW s \in Islands, NEW r
  PROVE  r \in Present(s) <=> \/ r # None /\ (r = s.current \/ r = s.overlay)
                              \/ \E j \in DOMAIN s.queue : r = s.queue[j]
<1>1. r \in ToSet(s.queue) <=> \E j \in DOMAIN s.queue : r = s.queue[j] BY DEF ToSet
<1> QED BY <1>1, IslandFields, RequestFields DEF Present

LEMMA PresentRequests ==
  ASSUME NEW s \in Islands PROVE Present(s) \subseteq Requests
BY PresentHas, IslandFields

\* Islands that differ in the requests kept for the kinds at most.
Same(s, t) ==
  /\ t.current = s.current /\ t.overlay = s.overlay /\ t.queue = s.queue
  /\ t.closing = s.closing /\ t.base = s.base /\ t.over = s.over /\ t.close = s.close
  /\ t.pending = s.pending
  /\ t.held["drag"] = s.held["drag"] /\ t.held["receive"] = s.held["receive"]

LEMMA SameKeeps ==
  ASSUME NEW s, NEW t, Same(s, t)
  PROVE  /\ Present(t) = Present(s) /\ Live(t) = Live(s)
         /\ Closes(t) = Closes(s) /\ Based(t) = Based(s) /\ Overed(t) = Overed(s)
         /\ Fenced(t) = Fenced(s) /\ Told(t) = Told(s) /\ Apart(t) = Apart(s)
<1>1. Present(t) = Present(s) BY DEF Same, Present
<1>2. Live(t) = Live(s) BY <1>1 DEF Live
<1> QED BY <1>1, <1>2 DEF Same, Closes, Based, Overed, Fenced, Told, Apart

LEMMA KindsApart == "drag" \notin Kinds /\ "receive" \notin Kinds /\ "status" \notin Kinds
                    /\ "drag" \in Owners \ {"status"} /\ "receive" \in Owners \ {"status"}
BY IslandAssumption DEF Owners

LEMMA SyncFacts ==
  ASSUME NEW s \in Islands
  PROVE  Sync(s) \in Islands /\ Same(s, Sync(s))
<1> DEFINE h == [o \in Owners \ {"status"} |->
                   IF o \in Kinds /\ s.held[o] \notin IdsOf(s) THEN 0 ELSE s.held[o]]
<1>1. h \in [Owners \ {"status"} -> Nat] BY IslandFields
<1>2. h["drag"] = s.held["drag"] /\ h["receive"] = s.held["receive"] BY KindsApart
<1>3. DOMAIN s.held = Owners \ {"status"} BY IslandFields
<1>4. Sync(s) = [s EXCEPT !.held = h] BY <1>3 DEF Sync
<1> HIDE DEF h
<1>5. [s EXCEPT !.held = h] \in Islands BY <1>1 DEF Islands
<1>6. Same(s, [s EXCEPT !.held = h]) BY <1>2 DEF Islands, Same
<1> QED BY <1>4, <1>5, <1>6

-----------------------------------------------------------------------------
(* Putting a request on the island.                                        *)

Fresh(s, r) == r.id # 0 => \A x \in Present(s) : x.id # r.id

\* What stays of the island: its content stays where it is.
InPlace(s, t) == /\ s.current # None => t.current = s.current
                 /\ s.overlay # None => t.overlay = s.overlay

\* Timers run for finite content as they did before.
TimersKept(s, t) == (Based(s) => Based(t)) /\ (Overed(s) => Overed(t))

\* A request that comes goes on top of infinite content at most.
OnlyNew(s, t, r) ==
  /\ t.current \in {s.current, r}
  /\ s.overlay = None /\ (s.current = None \/ ~s.current.infinite) => t.overlay = None
  /\ \A j \in DOMAIN t.queue :
       t.queue[j] = r \/ \E k \in DOMAIN s.queue : t.queue[j] = s.queue[k]

Placed(s, t, r) ==
  /\ t \in Islands /\ ~t.closing /\ t.close = s.close
  /\ t.pending = s.pending /\ t.held = s.held
  /\ Present(t) = Present(s) \cup {r}
  /\ Fenced(t) /\ TimersKept(s, t) /\ InPlace(s, t)
  /\ Apart(s) /\ Fresh(s, r) => Apart(t)
  /\ OnlyNew(s, t, r)

LEMMA PlaceFacts ==
  ASSUME NEW s \in Islands, NEW r \in Requests, ~s.closing
  PROVE  Placed(s, Place(s, r), r)
<1> USE DEF Placed, InPlace, TimersKept, OnlyNew
<1>1. /\ r # None /\ r.id \in Nat /\ r.infinite \in BOOLEAN /\ s.queue \in Seq(Requests)
      /\ s.queue # <<>> \/ DOMAIN s.queue = {}
  BY IslandFields, RequestFields
<1>2. \A x \in Present(s) : Fresh(s, r) /\ r.id # 0 => x.id # r.id BY DEF Fresh
<1>3. /\ s.current # None => s.current \in Present(s)
      /\ s.overlay # None => s.overlay \in Present(s)
      /\ \A j \in DOMAIN s.queue : s.queue[j] \in Present(s)
  BY PresentHas
<1>4. CASE s.current = None /\ s.overlay = None
  <2>1. PICK t : t = [s EXCEPT !.current = r, !.base = @ \/ ~r.infinite] OBVIOUS
  <2>2. /\ t.current = r /\ t.overlay = None /\ t.queue = s.queue /\ ~t.closing
        /\ t.close = s.close /\ t.pending = s.pending /\ t.held = s.held
        /\ t.base = (s.base \/ ~r.infinite) /\ t.over = s.over
    BY <1>4, <2>1 DEF Islands
  <2>3. t \in Islands BY <1>1, <2>1 DEF Islands
  <2>4. Present(t) = Present(s) \cup {r}
    <3> SUFFICES ASSUME NEW x PROVE x \in Present(t) <=> x \in Present(s) \cup {r} OBVIOUS
    <3> QED BY <1>1, <1>4, <2>2, <2>3, PresentHas
  <2>5. Fenced(t) /\ (Based(s) => Based(t)) /\ (Overed(s) => Overed(t))
    BY <1>1, <2>2 DEF Fenced, Based, Overed
  <2>6. Apart(s) /\ Fresh(s, r) => Apart(t)
    BY <1>1, <1>2, <1>3, <2>2 DEF Apart
  <2>7. Place(s, r) = t BY <1>4, <2>1 DEF Place
  <2> QED BY <1>4, <2>2, <2>3, <2>4, <2>5, <2>6, <2>7
<1>5. CASE ~(s.current = None /\ s.overlay = None)
           /\ s.current # None /\ s.current.infinite /\ ~r.infinite /\ s.overlay = None
  <2>1. PICK t : t = [s EXCEPT !.overlay = r, !.over = TRUE] OBVIOUS
  <2>2. /\ t.current = s.current /\ t.overlay = r /\ t.queue = s.queue /\ ~t.closing
        /\ t.close = s.close /\ t.pending = s.pending /\ t.held = s.held
        /\ t.base = s.base /\ t.over
    BY <1>5, <2>1 DEF Islands
  <2>3. t \in Islands BY <1>1, <2>1 DEF Islands
  <2>4. Present(t) = Present(s) \cup {r}
    <3> SUFFICES ASSUME NEW x PROVE x \in Present(t) <=> x \in Present(s) \cup {r} OBVIOUS
    <3> QED BY <1>1, <1>5, <2>2, <2>3, PresentHas
  <2>5. Fenced(t) /\ (Based(s) => Based(t)) /\ Overed(t)
    BY <1>1, <2>2 DEF Fenced, Based, Overed
  <2>6. Apart(s) /\ Fresh(s, r) => Apart(t)
    BY <1>1, <1>2, <1>3, <1>5, <2>2 DEF Apart
  <2>7. Place(s, r) = t BY <1>5, <2>1 DEF Place
  <2> QED BY <1>5, <2>2, <2>3, <2>4, <2>5, <2>6, <2>7
<1>6. CASE ~(s.current = None /\ s.overlay = None)
           /\ ~(s.current # None /\ s.current.infinite /\ ~r.infinite /\ s.overlay = None)
  <2> DEFINE q == Append(s.queue, r)
  <2>1. /\ q \in Seq(Requests) /\ Len(s.queue) + 1 \in DOMAIN q /\ q[Len(s.queue) + 1] = r
        /\ \A j \in DOMAIN s.queue : j \in DOMAIN q /\ q[j] = s.queue[j]
        /\ \A k \in DOMAIN q : k \in DOMAIN s.queue \/ k = Len(s.queue) + 1
    BY <1>1, Appended
  <2> HIDE DEF q
  <2>2. PICK t : t = [s EXCEPT !.queue = q] OBVIOUS
  <2>3. /\ t.current = s.current /\ t.overlay = s.overlay /\ t.queue = q /\ ~t.closing
        /\ t.close = s.close /\ t.pending = s.pending /\ t.held = s.held
        /\ t.base = s.base /\ t.over = s.over
    BY <2>2 DEF Islands
  <2>4. t \in Islands BY <2>1, <2>2 DEF Islands
  <2>5. Present(t) = Present(s) \cup {r}
    <3> SUFFICES ASSUME NEW x PROVE x \in Present(t) <=> x \in Present(s) \cup {r} OBVIOUS
    <3>1. (\E j \in DOMAIN q : x = q[j]) <=> (x = r \/ \E j \in DOMAIN s.queue : x = s.queue[j])
      BY <2>1
    <3> QED BY <1>1, <2>3, <2>4, <3>1, PresentHas
  <2>6. Fenced(t) /\ (Based(s) => Based(t)) /\ (Overed(s) => Overed(t))
    BY <1>6, <2>3 DEF Fenced, Based, Overed
  <2>7. ASSUME Apart(s), Fresh(s, r) PROVE Apart(t)
    <3>1. s.current # None => s.current.id # r.id \/ r.id = 0 BY <1>2, <1>3, <2>7
    <3>2. s.overlay # None => s.overlay.id # r.id \/ r.id = 0 BY <1>2, <1>3, <2>7
    <3>3. \A j \in DOMAIN s.queue : s.queue[j].id # r.id \/ r.id = 0 BY <1>2, <1>3, <2>7
    <3> QED BY <2>1, <2>3, <2>7, <3>1, <3>2, <3>3 DEF Apart
  <2>8. Place(s, r) = t BY <1>6, <2>2 DEF Place, q
  <2> QED BY <1>6, <2>1, <2>3, <2>4, <2>5, <2>6, <2>7, <2>8
<1> QED BY <1>4, <1>5, <1>6

\* The next notice, where none is on the island.
Admitted(s, t) ==
  /\ t \in Islands /\ ~t.closing /\ t.close = s.close /\ t.held = s.held
  /\ Len(t.pending) <= Len(s.pending)
  /\ Present(s) \subseteq Present(t) /\ Present(t) \subseteq Present(s) \cup {Notice}
  /\ Told(t) /\ TimersKept(s, t) /\ InPlace(s, t) /\ OnlyNew(s, t, Notice)
  /\ (Fenced(s) => Fenced(t)) /\ (Apart(s) => Apart(t))

LEMMA NoticesTaken ==
  ASSUME NEW s \in Islands, s.pending # <<>>
  PROVE  \E t \in Islands :
           /\ t = [s EXCEPT !.pending = Tail(@)]
           /\ Len(t.pending) = Len(s.pending) - 1 /\ Len(s.pending) \in Nat
           /\ t.current = s.current /\ t.overlay = s.overlay /\ t.queue = s.queue
           /\ t.closing = s.closing /\ t.base = s.base /\ t.over = s.over
           /\ t.close = s.close /\ t.held = s.held
           /\ Present(t) = Present(s) /\ Live(t) = Live(s)
<1>1. s.pending \in Seq(Notices) BY IslandFields
<1>2. /\ Tail(s.pending) \in Seq(Notices) /\ Len(s.pending) \in Nat
      /\ Len(Tail(s.pending)) = Len(s.pending) - 1
  BY <1>1, HeadTailProperties, LenProperties
<1>3. PICK t : t = [s EXCEPT !.pending = Tail(@)] OBVIOUS
<1>4. /\ t \in Islands /\ t.pending = Tail(s.pending)
      /\ t.current = s.current /\ t.overlay = s.overlay /\ t.queue = s.queue
      /\ t.closing = s.closing /\ t.base = s.base /\ t.over = s.over
      /\ t.close = s.close /\ t.held = s.held
  BY <1>2, <1>3 DEF Islands
<1>5. Present(t) = Present(s) /\ Live(t) = Live(s) BY <1>4 DEF Present, Live
<1> QED BY <1>2, <1>3, <1>4, <1>5

LEMMA LiveHas ==
  ASSUME NEW s, Notice \in Present(s) PROVE Live(s)
BY RequestFields DEF Live

LEMMA AdmitFacts ==
  ASSUME NEW s \in Islands, ~s.closing
  PROVE  Admitted(s, Admit(s))
<1>1. CASE s.pending = <<>> \/ Live(s)
  <2>1. Admit(s) = s BY <1>1 DEF Admit
  <2>2. Told(s) BY <1>1 DEF Told
  <2>3. Len(s.pending) \in Nat BY IslandFields, LenProperties
  <2> QED BY <2>1, <2>2, <2>3 DEF Admitted, TimersKept, InPlace, OnlyNew
<1>2. CASE ~(s.pending = <<>> \/ Live(s))
  <2>1. PICK a \in Islands :
           /\ a = [s EXCEPT !.pending = Tail(@)]
           /\ Len(a.pending) = Len(s.pending) - 1 /\ Len(s.pending) \in Nat
           /\ a.current = s.current /\ a.overlay = s.overlay /\ a.queue = s.queue
           /\ a.closing = s.closing /\ a.base = s.base /\ a.over = s.over
           /\ a.close = s.close /\ a.held = s.held
           /\ Present(a) = Present(s) /\ Live(a) = Live(s)
    BY <1>2, NoticesTaken
  <2>2. PICK t : t = Place(a, Notice) OBVIOUS
  <2>3. Placed(a, t, Notice) BY <2>1, <2>2, PlaceFacts, RequestFields
  <2>4. Admit(s) = t BY <1>2, <2>1, <2>2 DEF Admit
  <2>5. Fresh(a, Notice) BY RequestFields DEF Fresh
  <2>6. Told(t) BY <2>3, LiveHas DEF Placed, Told
  <2>7. Based(a) = Based(s) /\ Overed(a) = Overed(s) /\ Apart(a) = Apart(s)
    BY <2>1 DEF Based, Overed, Apart
  <2>8. /\ TimersKept(s, t) /\ InPlace(s, t) /\ OnlyNew(s, t, Notice)
    BY <2>1, <2>3, <2>7 DEF Placed, TimersKept, InPlace, OnlyNew
  <2>9. Len(t.pending) <= Len(s.pending) BY <2>1, <2>3 DEF Placed
  <2> QED BY <2>1, <2>3, <2>4, <2>5, <2>6, <2>7, <2>8, <2>9 DEF Placed, Admitted
<1> QED BY <1>1, <1>2

LEMMA NoticesApart ==
  ASSUME NEW s \in Islands, Present(s) \subseteq {Notice}
  PROVE  Apart(s)
<1>1. /\ s.current # None => s.current = Notice
      /\ s.overlay # None => s.overlay = Notice
      /\ \A j \in DOMAIN s.queue : s.queue[j] = Notice
  BY PresentHas, IslandFields, RequestFields
<1> QED BY <1>1, RequestFields DEF Apart

-----------------------------------------------------------------------------
(* Assignments to the properties, before their slots.                      *)

Beside(s, t) == /\ t.closing = s.closing /\ t.close = s.close /\ t.base = s.base
                /\ t.over = s.over /\ t.pending = s.pending /\ t.held = s.held

LEMMA CurrentGiven ==
  ASSUME NEW s \in Islands, NEW c \in Requests \cup {None}, NEW t, t = [s EXCEPT !.current = c]
  PROVE  /\ t \in Islands /\ Beside(s, t)
         /\ t.current = c /\ t.overlay = s.overlay /\ t.queue = s.queue
BY DEF Islands, Beside

LEMMA OverlayGiven ==
  ASSUME NEW s \in Islands, NEW c \in Requests \cup {None}, NEW t, t = [s EXCEPT !.overlay = c]
  PROVE  /\ t \in Islands /\ Beside(s, t)
         /\ t.current = s.current /\ t.overlay = c /\ t.queue = s.queue
BY DEF Islands, Beside

LEMMA QueueGiven ==
  ASSUME NEW s \in Islands, NEW q \in Seq(Requests), NEW t, t = [s EXCEPT !.queue = q]
  PROVE  /\ t \in Islands /\ Beside(s, t)
         /\ t.current = s.current /\ t.overlay = s.overlay /\ t.queue = q
BY DEF Islands, Beside

-----------------------------------------------------------------------------
(* show() and promoteIfIdle.                                               *)

\* A closing island gives up all it had; a notice may have taken its place.
Reopened(s, t) ==
  /\ t \in Islands /\ ~t.closing /\ ~t.close
  /\ Len(t.pending) <= Len(s.pending)
  /\ t.held["drag"] = s.held["drag"] /\ t.held["receive"] = s.held["receive"]
  /\ Present(t) \subseteq {Notice} /\ t.overlay = None
  /\ Based(t) /\ Overed(t) /\ Apart(t)

LEMMA ReopenFacts ==
  ASSUME NEW s \in Islands, s.queue = <<>>
  PROVE  Reopened(s, Reopen(s))
<1>1. PICK a :
        a = [s EXCEPT !.closing = FALSE, !.base = FALSE, !.over = FALSE, !.close = FALSE]
  OBVIOUS
<1>2. /\ a \in Islands
      /\ a.current = s.current /\ a.overlay = s.overlay /\ a.queue = <<>>
      /\ ~a.closing /\ ~a.close /\ a.pending = s.pending /\ a.held = s.held
  BY <1>1 DEF Islands
<1>3. Len(s.pending) \in Nat BY IslandFields, LenProperties
<1>4. PICK b : b = IF a.current = None THEN a
                   ELSE Sync(Admit([a EXCEPT !.current = None]))
  OBVIOUS
<1>5. /\ b \in Islands /\ ~b.closing /\ ~b.close /\ Len(b.pending) <= Len(s.pending)
      /\ b.held["drag"] = s.held["drag"] /\ b.held["receive"] = s.held["receive"]
      /\ b.current \in {None, Notice} /\ (b.overlay = None \/ b.overlay = a.overlay \/ b.overlay = Notice)
      /\ \A j \in DOMAIN b.queue : b.queue[j] = Notice
      /\ Based(b)
  <2>1. CASE a.current = None
    <3>1. b = a BY <1>4, <2>1
    <3>2. DOMAIN a.queue = {} BY <1>2
    <3> QED BY <1>2, <1>3, <2>1, <3>1, <3>2 DEF Based
  <2>2. CASE a.current # None
    <3>1. PICK c : c = [a EXCEPT !.current = None] OBVIOUS
    <3>2. /\ c \in Islands /\ Beside(a, c)
          /\ c.current = None /\ c.overlay = a.overlay /\ c.queue = <<>>
      BY <1>2, <3>1, CurrentGiven
    <3>3. PICK d : d = Admit(c) OBVIOUS
    <3>4. Admitted(c, d) BY <1>2, <3>2, <3>3, AdmitFacts DEF Beside
    <3>5. d \in Islands BY <3>4 DEF Admitted
    <3>6. b = Sync(d) BY <1>4, <2>2, <3>1, <3>3
    <3>7. b \in Islands /\ Same(d, b) BY <3>5, <3>6, SyncFacts
    <3>8. Based(c) /\ DOMAIN c.queue = {} BY <3>2 DEF Based
    <3>9. Based(b) BY <3>4, <3>7, <3>8, SameKeeps DEF Admitted, TimersKept
    <3>10. /\ d.current \in {None, Notice}
          /\ \A j \in DOMAIN d.queue : d.queue[j] = Notice
      BY <3>2, <3>4, <3>8 DEF Admitted, OnlyNew
    <3>11. d.overlay = None \/ d.overlay = c.overlay \/ d.overlay = Notice
      <4>1. c.overlay # None => d.overlay = c.overlay BY <3>4 DEF Admitted, InPlace
      <4>2. c.overlay = None => d.overlay = None BY <3>2, <3>4 DEF Admitted, OnlyNew
      <4> QED BY <4>1, <4>2
    <3> QED BY <1>2, <3>2, <3>4, <3>7, <3>9, <3>10, <3>11 DEF Admitted, Same, Beside
  <2> QED BY <2>1, <2>2
<1>6. PICK t : t = IF b.overlay = None THEN b
                   ELSE Sync(Admit([b EXCEPT !.overlay = None]))
  OBVIOUS
<1>7. Reopen(s) = t BY <1>1, <1>4, <1>6 DEF Reopen
<1>8. CASE b.overlay = None
  <2>1. t = b BY <1>6, <1>8
  <2>2. Present(b) \subseteq {Notice} BY <1>5, <1>8, PresentHas
  <2>3. Apart(b) BY <1>5, <2>2, NoticesApart
  <2>4. Overed(b) BY <1>8 DEF Overed
  <2> QED BY <1>5, <1>7, <1>8, <2>1, <2>2, <2>3, <2>4 DEF Reopened
<1>9. CASE b.overlay # None
  <2>1. PICK c : c = [b EXCEPT !.overlay = None] OBVIOUS
  <2>2. /\ c \in Islands /\ Beside(b, c)
        /\ c.current = b.current /\ c.overlay = None /\ c.queue = b.queue
    BY <1>5, <2>1, OverlayGiven
  <2>3. PICK d : d = Admit(c) OBVIOUS
  <2>4. Admitted(c, d) BY <1>5, <2>2, <2>3, AdmitFacts DEF Beside
  <2>5. d \in Islands BY <2>4 DEF Admitted
  <2>6. t = Sync(d) BY <1>6, <1>9, <2>1, <2>3
  <2>7. t \in Islands /\ Same(d, t) BY <2>5, <2>6, SyncFacts
  <2>8. Based(c) /\ Overed(c) BY <1>5, <2>2 DEF Based, Overed, Beside
  <2>9. Present(c) \subseteq {Notice} BY <1>5, <2>2, PresentHas
  <2>10. Present(t) \subseteq {Notice} BY <2>4, <2>7, <2>9, SameKeeps DEF Admitted
  <2>11. Based(t) /\ Overed(t) BY <2>4, <2>7, <2>8, SameKeeps DEF Admitted, TimersKept
  <2>12. Apart(t) BY <2>7, <2>10, NoticesApart
  <2>13. d.overlay = None BY <1>5, <2>2, <2>4, RequestFields DEF Admitted, OnlyNew
  <2>14. Len(t.pending) <= Len(s.pending)
    <3>1. Len(d.pending) \in Nat /\ Len(c.pending) \in Nat /\ Len(b.pending) \in Nat
      BY <1>5, <2>2, <2>5, IslandFields, LenProperties
    <3>2. Len(d.pending) <= Len(c.pending) /\ c.pending = b.pending /\ t.pending = d.pending
      BY <2>2, <2>4, <2>7 DEF Admitted, Beside, Same
    <3> QED BY <1>3, <1>5, <3>1, <3>2
  <2>15. ~t.closing /\ ~t.close /\ t.overlay = None BY <1>5, <2>2, <2>4, <2>7, <2>13 DEF Admitted, Same, Beside
  <2>16. t.held["drag"] = s.held["drag"] /\ t.held["receive"] = s.held["receive"]
    BY <1>5, <2>2, <2>4, <2>7 DEF Admitted, Same, Beside
  <2> QED BY <1>7, <2>7, <2>10, <2>11, <2>12, <2>14, <2>15, <2>16 DEF Reopened
<1> QED BY <1>8, <1>9

\* What show() makes of an island that it may be called on.
Ready(s) == s \in Islands /\ (s.closing => s.queue = <<>>) /\ (s.close => s.closing)

Left(s) == IF s.closing THEN {} ELSE Present(s)

Shown(s, t, r) ==
  /\ t \in Islands /\ ~t.closing /\ ~t.close
  /\ Len(t.pending) <= Len(s.pending)
  /\ t.held["drag"] = s.held["drag"] /\ t.held["receive"] = s.held["receive"]
  /\ Fenced(t) /\ Told(t) /\ TimersKept(s, t)
  /\ r \in Present(t) /\ Present(t) \subseteq Left(s) \cup {Notice, r}
  /\ Apart(s) /\ Fresh(s, r) => Apart(t)
  /\ ~s.closing => InPlace(s, t)

LEMMA ShowFacts ==
  ASSUME NEW s, Ready(s), NEW r \in Requests
  PROVE  Shown(s, Show(s, r), r)
<1>1. PICK a : a = IF s.closing THEN Reopen(s) ELSE s OBVIOUS
<1>2. /\ a \in Islands /\ ~a.closing /\ ~a.close /\ Len(a.pending) <= Len(s.pending)
      /\ a.held["drag"] = s.held["drag"] /\ a.held["receive"] = s.held["receive"]
      /\ TimersKept(s, a) /\ Present(a) \subseteq Left(s) \cup {Notice}
      /\ Apart(s) /\ Fresh(s, r) => Apart(a) /\ Fresh(a, r)
      /\ ~s.closing => a = s
  <2>1. CASE s.closing
    <3>1. Reopened(s, a) BY <1>1, <2>1, ReopenFacts DEF Ready
    <3>2. \A x \in Present(a) : x.id = 0 BY <3>1, RequestFields DEF Reopened
    <3> QED BY <2>1, <3>1, <3>2 DEF Reopened, TimersKept, Fresh
  <2>2. CASE ~s.closing
    <3>1. a = s BY <1>1, <2>2
    <3>2. s \in Islands /\ ~s.close BY <2>2 DEF Ready
    <3>3. Len(s.pending) \in Nat BY <3>2, IslandFields, LenProperties
    <3> QED BY <2>2, <3>1, <3>2, <3>3 DEF TimersKept, Left
  <2> QED BY <2>1, <2>2
<1>3. PICK b : b = Place(a, r) OBVIOUS
<1>4. Placed(a, b, r) BY <1>2, <1>3, PlaceFacts
<1>5. b \in Islands /\ ~b.closing BY <1>4 DEF Placed
<1>6. PICK c : c = Admit(b) OBVIOUS
<1>7. Admitted(b, c) BY <1>5, <1>6, AdmitFacts
<1>8. c \in Islands BY <1>7 DEF Admitted
<1>9. PICK t : t = Sync(c) OBVIOUS
<1>10. t \in Islands /\ Same(c, t) BY <1>8, <1>9, SyncFacts
<1>11. Show(s, r) = t BY <1>1, <1>3, <1>6, <1>9 DEF Show
<1>12. /\ Present(t) = Present(c) /\ Based(t) = Based(c) /\ Overed(t) = Overed(c)
       /\ Fenced(t) = Fenced(c) /\ Told(t) = Told(c) /\ Apart(t) = Apart(c)
  BY <1>10, SameKeeps
<1>13. Fenced(t) /\ Told(t) BY <1>4, <1>7, <1>12 DEF Placed, Admitted
<1>14. TimersKept(s, t) BY <1>2, <1>4, <1>7, <1>12 DEF Placed, Admitted, TimersKept
<1>15. r \in Present(t) /\ Present(t) \subseteq Left(s) \cup {Notice, r}
  BY <1>2, <1>4, <1>7, <1>12 DEF Placed, Admitted
<1>16. Apart(s) /\ Fresh(s, r) => Apart(t)
  BY <1>2, <1>4, <1>7, <1>12 DEF Placed, Admitted
<1>17. ~s.closing => InPlace(s, t)
  BY <1>2, <1>4, <1>7, <1>10 DEF Placed, Admitted, InPlace, Same
<1>18. Len(t.pending) <= Len(s.pending)
  <2>1. /\ Len(c.pending) \in Nat /\ Len(b.pending) \in Nat /\ Len(a.pending) \in Nat
        /\ Len(s.pending) \in Nat
    BY <1>2, <1>5, <1>8, IslandFields, LenProperties DEF Ready
  <2>2. Len(c.pending) <= Len(b.pending) /\ b.pending = a.pending /\ t.pending = c.pending
    BY <1>4, <1>7, <1>10 DEF Placed, Admitted, Same
  <2> QED BY <1>2, <2>1, <2>2
<1>19. /\ ~t.closing /\ ~t.close
       /\ t.held["drag"] = s.held["drag"] /\ t.held["receive"] = s.held["receive"]
  BY <1>2, <1>4, <1>7, <1>10 DEF Placed, Admitted, Same
<1> QED BY <1>10, <1>11, <1>13, <1>14, <1>15, <1>16, <1>17, <1>18, <1>19 DEF Shown

\* What has become of an island after a call: nothing is new on it but notices,
\* and one that was closing still is, or has given up all it had.
Rest(s, t) ==
  /\ Len(t.pending) <= Len(s.pending)
  /\ t.held["drag"] = s.held["drag"] /\ t.held["receive"] = s.held["receive"]
  /\ Present(t) \subseteq Present(s) \cup {Notice}
  /\ t.closing \/ ~s.closing \/ Present(t) \subseteq {Notice}

LEMMA RestSame ==
  ASSUME NEW s \in Islands PROVE Rest(s, s)
BY IslandFields, LenProperties DEF Rest

LEMMA RestThen ==
  ASSUME NEW s \in Islands, NEW t \in Islands, NEW u \in Islands, Rest(s, t), Rest(t, u)
  PROVE  Rest(s, u)
<1>1. Len(s.pending) \in Nat /\ Len(t.pending) \in Nat /\ Len(u.pending) \in Nat
  BY IslandFields, LenProperties
<1>2. Len(u.pending) <= Len(s.pending) BY <1>1 DEF Rest
<1> QED BY <1>2 DEF Rest

\* promoteIfIdle.
Promoted(s, t) ==
  /\ Ready(t) /\ Rest(s, t) /\ Told(t) /\ TimersKept(s, t)
  /\ (Closes(s) => Closes(t)) /\ (Fenced(s) => Fenced(t)) /\ (Apart(s) => Apart(t))
  /\ ~s.closing => ~t.closing /\ InPlace(s, t)
  /\ Same(s, t) \/ (~t.closing /\ Fenced(t))

LEMMA PromoteFacts ==
  ASSUME NEW s, Ready(s)
  PROVE  Promoted(s, Promote(s))
<1>1. CASE s.pending = <<>> \/ Live(s)
  <2>1. Promote(s) = s BY <1>1 DEF Promote
  <2>2. Told(s) BY <1>1 DEF Told
  <2>3. Rest(s, s) BY RestSame DEF Ready
  <2> QED BY <2>1, <2>2, <2>3 DEF Promoted, TimersKept, InPlace, Same
<1>2. CASE ~(s.pending = <<>> \/ Live(s))
  <2>1. s \in Islands BY DEF Ready
  <2>2. PICK a \in Islands :
           /\ a = [s EXCEPT !.pending = Tail(@)]
           /\ Len(a.pending) = Len(s.pending) - 1 /\ Len(s.pending) \in Nat
           /\ a.current = s.current /\ a.overlay = s.overlay /\ a.queue = s.queue
           /\ a.closing = s.closing /\ a.base = s.base /\ a.over = s.over
           /\ a.close = s.close /\ a.held = s.held
           /\ Present(a) = Present(s) /\ Live(a) = Live(s)
    BY <1>2, <2>1, NoticesTaken
  <2>3. Ready(a) BY <2>2 DEF Ready
  <2>4. PICK t : t = Show(a, Notice) OBVIOUS
  <2>5. Shown(a, t, Notice) BY <2>3, <2>4, ShowFacts, RequestFields
  <2>6. Promote(s) = t BY <1>2, <2>2, <2>4 DEF Promote
  <2>7. Based(a) = Based(s) /\ Overed(a) = Overed(s) /\ Apart(a) = Apart(s)
    BY <2>2 DEF Based, Overed, Apart
  <2>8. Fresh(a, Notice) BY RequestFields DEF Fresh
  <2>9. Ready(t) BY <2>5 DEF Ready, Shown
  <2>10. Len(t.pending) <= Len(s.pending)
    <3>1. t \in Islands /\ Len(t.pending) <= Len(a.pending) BY <2>5 DEF Shown
    <3>2. Len(t.pending) \in Nat BY <3>1, IslandFields, LenProperties
    <3> QED BY <2>2, <3>1, <3>2
  <2>11. Rest(s, t) BY <2>2, <2>5, <2>10 DEF Shown, Rest, Left
  <2>12. TimersKept(s, t) /\ (Apart(s) => Apart(t))
    BY <2>5, <2>7, <2>8 DEF Shown, TimersKept
  <2>13. Told(t) /\ Fenced(t) /\ ~t.closing /\ Closes(t) BY <2>5 DEF Shown, Closes
  <2>14. ~s.closing => InPlace(s, t) BY <2>2, <2>5 DEF Shown, InPlace
  <2> QED BY <2>6, <2>9, <2>11, <2>12, <2>13, <2>14 DEF Promoted
<1> QED BY <1>1, <1>2

\* The slots of an assignment.
LEMMA SlotsFacts ==
  ASSUME NEW s, Ready(s)
  PROVE  Promoted(s, Sync(Promote(s)))
<1>1. PICK p : p = Promote(s) OBVIOUS
<1>2. Promoted(s, p) BY <1>1, PromoteFacts
<1>3. p \in Islands BY <1>2 DEF Promoted, Ready
<1>4. PICK t : t = Sync(p) OBVIOUS
<1>5. t \in Islands /\ Same(p, t) BY <1>3, <1>4, SyncFacts
<1>6. /\ Present(t) = Present(p) /\ Closes(t) = Closes(p) /\ Based(t) = Based(p)
      /\ Overed(t) = Overed(p) /\ Fenced(t) = Fenced(p) /\ Told(t) = Told(p)
      /\ Apart(t) = Apart(p)
  BY <1>5, SameKeeps
<1>7. Ready(t) /\ Rest(s, t) BY <1>2, <1>5, <1>6 DEF Promoted, Ready, Rest, Same
<1>8. ~s.closing => ~t.closing /\ InPlace(s, t) BY <1>2, <1>5 DEF Promoted, InPlace, Same
<1>9. Same(s, t) \/ (~t.closing /\ Fenced(t)) BY <1>2, <1>5, <1>6 DEF Promoted, Same
<1>10. TimersKept(s, t) BY <1>2, <1>6 DEF Promoted, TimersKept
<1>11. Promoted(s, t) BY <1>2, <1>6, <1>7, <1>8, <1>9, <1>10 DEF Promoted
<1> QED BY <1>1, <1>4, <1>11

-----------------------------------------------------------------------------
(* Content that leaves and content that moves up.                          *)

Without(s, i) == \A x \in Present(s) : x.id # i

\* The current content replaced by a request of another place, or by nothing.
LEMMA CurrentReplaced ==
  ASSUME NEW s \in Islands, NEW c \in Requests \cup {None},
         NEW t \in Islands, Beside(s, t), t.current = c, t.overlay = s.overlay, t.queue = s.queue
  PROVE  /\ Present(t) \subseteq Present(s) \cup ({c} \ {None})
         /\ Overed(t) = Overed(s)
         /\ Apart(s) /\ (c = None \/ Fresh(s, c)) => Apart(t)
         /\ Apart(s) /\ s.current # None /\ s.current.id # 0 /\ (c # None => c.id # s.current.id)
              => Without(t, s.current.id)
<1>1. ASSUME NEW x \in Present(t) PROVE x \in Present(s) \cup ({c} \ {None})
  BY <1>1, PresentHas
<1>2. Overed(t) = Overed(s) BY DEF Overed, Beside
<1>3. /\ s.overlay # None => s.overlay \in Present(s)
      /\ \A j \in DOMAIN s.queue : s.queue[j] \in Present(s)
  BY PresentHas, IslandFields, RequestFields
<1>4. ASSUME Apart(s), c = None \/ Fresh(s, c) PROVE Apart(t)
  <2>1. c # None /\ c.id # 0 => /\ s.overlay # None => s.overlay.id # c.id
                                /\ \A j \in DOMAIN s.queue : s.queue[j].id # c.id
    BY <1>3, <1>4 DEF Fresh
  <2> QED BY <1>4, <2>1 DEF Apart
<1>5. ASSUME Apart(s), s.current # None, s.current.id # 0, c # None => c.id # s.current.id
      PROVE  Without(t, s.current.id)
  <2> SUFFICES ASSUME NEW x \in Present(t) PROVE x.id # s.current.id BY DEF Without
  <2>1. CASE x = c /\ c # None BY <1>5, <2>1
  <2>2. CASE x = s.overlay /\ s.overlay # None BY <1>5, <2>2 DEF Apart
  <2>3. CASE \E j \in DOMAIN s.queue : x = s.queue[j] BY <1>5, <2>3 DEF Apart
  <2> QED BY <2>1, <2>2, <2>3, PresentHas
<1> QED BY <1>1, <1>2, <1>4, <1>5

\* The overlay taken away.
LEMMA OverlayTaken ==
  ASSUME NEW s \in Islands, NEW t \in Islands, Beside(s, t), t.overlay = None,
         t.current = s.current, t.queue = s.queue
  PROVE  /\ Present(t) \subseteq Present(s) /\ Overed(t) /\ Based(t) = Based(s)
         /\ Apart(s) => Apart(t)
         /\ Apart(s) /\ s.overlay # None /\ s.overlay.id # 0 => Without(t, s.overlay.id)
<1>1. ASSUME NEW x \in Present(t) PROVE x \in Present(s) BY <1>1, PresentHas
<1>2. Overed(t) /\ Based(t) = Based(s) BY DEF Overed, Based, Beside
<1>3. Apart(s) => Apart(t) BY DEF Apart
<1>4. ASSUME Apart(s), s.overlay # None, s.overlay.id # 0 PROVE Without(t, s.overlay.id)
  <2> SUFFICES ASSUME NEW x \in Present(t) PROVE x.id # s.overlay.id BY DEF Without
  <2>1. CASE x = s.current /\ s.current # None BY <1>4, <2>1 DEF Apart
  <2>2. CASE \E j \in DOMAIN s.queue : x = s.queue[j] BY <1>4, <2>2 DEF Apart
  <2> QED BY <2>1, <2>2, PresentHas
<1> QED BY <1>1, <1>2, <1>3, <1>4

\* The head of the queue taken out of it.
LEMMA HeadTaken ==
  ASSUME NEW s \in Islands, s.queue # <<>>,
         NEW t \in Islands, Beside(s, t), t.queue = Tail(s.queue),
         t.current = s.current, t.overlay = s.overlay
  PROVE  /\ Head(s.queue) \in Requests /\ Head(s.queue) \in Present(s)
         /\ Present(t) \subseteq Present(s)
         /\ Overed(t) = Overed(s) /\ Based(t) = Based(s)
         /\ Apart(s) => Apart(t) /\ Fresh(t, Head(s.queue))
         /\ Apart(s) /\ s.current # None /\ s.current.id # 0
              => Head(s.queue).id # s.current.id
         /\ Apart(s) /\ s.overlay # None /\ s.overlay.id # 0
              => Head(s.queue).id # s.overlay.id
<1>1. PICK h, q : h = Head(s.queue) /\ q = Tail(s.queue) OBVIOUS
<1>2. /\ 1 \in DOMAIN s.queue /\ h = s.queue[1] /\ h \in Requests
      /\ \A j \in DOMAIN q : /\ j \in Nat \ {0} /\ j + 1 \in DOMAIN s.queue
                             /\ q[j] = s.queue[j + 1]
  BY <1>1, IslandFields, Popped
<1>3. h \in Present(s) /\ t.queue = q BY <1>1, <1>2, PresentHas
<1>4. ASSUME NEW x \in Present(t) PROVE x \in Present(s)
  <2>1. CASE \E j \in DOMAIN q : x = q[j] BY <1>2, <2>1, PresentHas
  <2>2. CASE x # None /\ (x = s.current \/ x = s.overlay) BY <2>2, PresentHas
  <2>3. \/ x # None /\ (x = t.current \/ x = t.overlay)
        \/ \E j \in DOMAIN q : x = q[j]
    BY <1>3, <1>4, PresentHas
  <2> QED BY <2>1, <2>2, <2>3
<1>5. Overed(t) = Overed(s) /\ Based(t) = Based(s) BY DEF Overed, Based, Beside
<1>6. ASSUME Apart(s) PROVE Apart(t) /\ Fresh(t, h)
  <2>1. \A j \in DOMAIN q : q[j].id # 0 =>
           /\ s.current # None => s.current.id # q[j].id
           /\ s.overlay # None => s.overlay.id # q[j].id
           /\ \A k \in DOMAIN q : q[j].id = q[k].id => j = k
           /\ h.id # q[j].id
    <3> SUFFICES ASSUME NEW j \in DOMAIN q, q[j].id # 0
                 PROVE  /\ s.current # None => s.current.id # q[j].id
                        /\ s.overlay # None => s.overlay.id # q[j].id
                        /\ \A k \in DOMAIN q : q[j].id = q[k].id => j = k
                        /\ h.id # q[j].id
      OBVIOUS
    <3>1. PICK m : m = j + 1 /\ m \in DOMAIN s.queue /\ q[j] = s.queue[m] /\ m # 1
      BY <1>2
    <3>2. \A k \in DOMAIN s.queue : s.queue[m].id = s.queue[k].id => m = k
      BY <1>6, <3>1 DEF Apart
    <3>3. ASSUME NEW k \in DOMAIN q, q[j].id = q[k].id PROVE j = k
      <4>1. k + 1 \in DOMAIN s.queue /\ q[k] = s.queue[k + 1] BY <1>2
      <4>2. m = k + 1 BY <3>1, <3>2, <3>3, <4>1
      <4> QED BY <1>2, <3>1, <4>2
    <3>4. h.id # q[j].id BY <1>2, <3>1, <3>2
    <3> QED BY <1>6, <3>1, <3>3, <3>4 DEF Apart
  <2>2. Apart(t) BY <1>1, <1>6, <2>1 DEF Apart
  <2>3. ASSUME NEW x \in Present(t), h.id # 0 PROVE x.id # h.id
    <3>1. CASE \E j \in DOMAIN q : x = q[j] BY <2>1, <2>3, <3>1
    <3>2. CASE x # None /\ (x = s.current \/ x = s.overlay) BY <1>2, <1>6, <2>3, <3>2 DEF Apart
    <3>3. \/ x # None /\ (x = t.current \/ x = t.overlay)
          \/ \E j \in DOMAIN q : x = q[j]
      BY <1>3, <2>3, PresentHas
    <3> QED BY <3>1, <3>2, <3>3
  <2> QED BY <2>2, <2>3 DEF Fresh
<1>7. Apart(s) => /\ s.current # None /\ s.current.id # 0 => h.id # s.current.id
                  /\ s.overlay # None /\ s.overlay.id # 0 => h.id # s.overlay.id
  BY <1>2 DEF Apart
<1> QED BY <1>1, <1>2, <1>3, <1>4, <1>5, <1>6, <1>7

Calmed(s, t) == t \in Islands /\ Good(t) /\ Rest(s, t)

\* Nothing but notices came and the same is closing.
LEMMA RestBeside ==
  ASSUME NEW s \in Islands, NEW t \in Islands, Beside(s, t),
         Present(t) \subseteq Present(s) \cup {Notice}
  PROVE  Rest(s, t)
BY IslandFields, LenProperties DEF Rest, Beside

LEMMA BeginCloseFacts ==
  ASSUME NEW s \in Islands, s.queue = <<>>, Closes(s), Told(s), Apart(s)
  PROVE  /\ Calmed(s, BeginClose(s))
         /\ BeginClose(s).closing \/ (s.current = None /\ s.overlay = None)
<1>1. CASE s.closing \/ (s.current = None /\ s.overlay = None)
  <2>1. BeginClose(s) = s BY <1>1 DEF BeginClose
  <2>2. Good(s) BY <1>1 DEF Good, Based, Overed, Fenced
  <2> QED BY <1>1, <2>1, <2>2, RestSame DEF Calmed
<1>2. CASE ~(s.closing \/ (s.current = None /\ s.overlay = None))
  <2>1. PICK t : t = [s EXCEPT !.closing = TRUE, !.close = TRUE] OBVIOUS
  <2>2. /\ t \in Islands /\ t.closing /\ t.close
        /\ t.current = s.current /\ t.overlay = s.overlay /\ t.queue = s.queue
        /\ t.pending = s.pending /\ t.held = s.held
    BY <2>1 DEF Islands
  <2>3. Present(t) = Present(s) /\ Live(t) = Live(s) BY <2>2 DEF Present, Live
  <2>4. Good(t)
    BY <2>2, <2>3 DEF Good, Closes, Based, Overed, Fenced, Told, Apart
  <2>5. Rest(s, t) BY <2>2, <2>3, IslandFields, LenProperties DEF Rest
  <2>6. BeginClose(s) = t BY <1>2, <2>1 DEF BeginClose
  <2> QED BY <2>2, <2>4, <2>5, <2>6 DEF Calmed
<1> QED BY <1>1, <1>2

LEMMA StartFacts ==
  ASSUME NEW s \in Islands, NEW r \in Requests, ~s.closing, ~s.close, Overed(s), Apart(s),
         Fresh(s, r)
  PROVE  /\ Start(s, r) \in Islands /\ Good(Start(s, r)) /\ ~Start(s, r).closing
         /\ Rest([s EXCEPT !.current = r], Start(s, r))
<1>1. PICK a : a = [s EXCEPT !.current = r] OBVIOUS
<1>2. /\ a \in Islands /\ Beside(s, a) /\ a.current = r /\ a.overlay = s.overlay
      /\ a.queue = s.queue
  BY <1>1, CurrentGiven
<1>3. Overed(a) /\ Apart(a) BY <1>2, CurrentReplaced
<1>4. Ready(a) /\ ~a.closing BY <1>2 DEF Ready, Beside
<1>5. PICK p : p = Sync(Promote(a)) OBVIOUS
<1>6. Promoted(a, p) BY <1>4, <1>5, SlotsFacts
<1>7. r # None BY RequestFields
<1>8. PICK t : t = [p EXCEPT !.base = @ \/ ~r.infinite] OBVIOUS
<1>9. Start(s, r) = t BY <1>1, <1>5, <1>7, <1>8 DEF Start, SetCurrent
<1>10. p \in Islands /\ r.infinite \in BOOLEAN BY <1>6, RequestFields DEF Promoted, Ready
<1>11. /\ t \in Islands
       /\ t.current = p.current /\ t.overlay = p.overlay /\ t.queue = p.queue
       /\ t.closing = p.closing /\ t.close = p.close /\ t.over = p.over
       /\ t.pending = p.pending /\ t.held = p.held
       /\ t.base = (p.base \/ ~r.infinite)
  BY <1>8, <1>10 DEF Islands
<1>12. Present(t) = Present(p) /\ Live(t) = Live(p) BY <1>11 DEF Present, Live
<1>13. ~p.closing /\ p.current = r BY <1>2, <1>4, <1>6, <1>7 DEF Promoted, InPlace
<1>14. Overed(p) /\ Told(p) /\ Apart(p) /\ ~p.close
  BY <1>3, <1>6, <1>13 DEF Promoted, TimersKept, Ready
<1>15. Good(t)
  <2>1. Closes(t) /\ Based(t) /\ Fenced(t)
    BY <1>7, <1>11, <1>13, <1>14 DEF Closes, Based, Fenced
  <2>2. Overed(t) /\ Told(t) BY <1>11, <1>12, <1>14 DEF Overed, Told
  <2>3. Apart(t) BY <1>11, <1>14 DEF Apart
  <2> QED BY <2>1, <2>2, <2>3 DEF Good
<1>16. Rest(a, p) BY <1>6 DEF Promoted
<1>17. Rest(a, t) BY <1>11, <1>12, <1>16 DEF Rest
<1> QED BY <1>1, <1>9, <1>11, <1>13, <1>15, <1>17

\* The request under the current one, or under the overlay, is out of reach.
LEMMA StillWithout ==
  ASSUME NEW s, NEW t, NEW i, i # 0, Without(s, i), Present(t) \subseteq Present(s) \cup {Notice}
  PROVE  Without(t, i)
BY RequestFields DEF Without

\* Nothing of that id is left once the current content goes.
OnlyAt(s, i) == Without(s, i) \/ (s.current # None /\ s.current.id = i)

\* What moves up from the queue leaves it.
LEMMA StartRests ==
  ASSUME NEW s \in Islands, ~s.closing,
         NEW b \in Islands, ~b.closing, ~b.close, Overed(b), Apart(b), Rest(s, b),
         NEW h \in Requests, h \in Present(s), Fresh(b, h)
  PROVE  /\ Calmed(s, Start(b, h))
         /\ \A i \in Nat : i # 0 /\ h.id # i /\ OnlyAt(b, i) => Without(Start(b, h), i)
<1>1. PICK t : t = Start(b, h) OBVIOUS
<1>2. PICK c : c = [b EXCEPT !.current = h] OBVIOUS
<1>3. /\ c \in Islands /\ Beside(b, c) /\ c.current = h /\ c.overlay = b.overlay
      /\ c.queue = b.queue
  BY <1>2, CurrentGiven
<1>4. t \in Islands /\ Good(t) /\ ~t.closing /\ Rest(c, t)
  BY <1>1, <1>2, StartFacts
<1>5. /\ Present(c) \subseteq Present(b) \cup {h}
      /\ b.current # None /\ b.current.id # 0 /\ h.id # b.current.id
           => Without(c, b.current.id)
  BY <1>3, CurrentReplaced
<1>6. Rest(s, t)
  <2>1. Present(t) \subseteq Present(s) \cup {Notice}
    BY <1>4, <1>5 DEF Rest
  <2>2. c.pending = b.pending /\ c.held = b.held BY <1>3 DEF Beside
  <2>3. Len(t.pending) <= Len(s.pending)
    <3>1. /\ Len(t.pending) \in Nat /\ Len(b.pending) \in Nat /\ Len(s.pending) \in Nat
      BY <1>4, IslandFields, LenProperties
    <3>2. Len(t.pending) <= Len(b.pending) /\ Len(b.pending) <= Len(s.pending)
      BY <1>4, <2>2 DEF Rest
    <3> QED BY <3>1, <3>2
  <2>4. t.held["drag"] = s.held["drag"] /\ t.held["receive"] = s.held["receive"]
    BY <1>4, <2>2 DEF Rest
  <2> QED BY <2>1, <2>3, <2>4 DEF Rest
<1>7. ASSUME NEW i \in Nat, i # 0, h.id # i, OnlyAt(b, i)
      PROVE  Without(t, i)
  <2>1. CASE Without(c, i) BY <1>4, <1>7, <2>1, StillWithout DEF Rest
  <2>2. Without(b, i) => Without(c, i) BY <1>5, <1>7 DEF Without
  <2>3. b.current # None /\ b.current.id = i => Without(c, i) BY <1>5, <1>7
  <2> QED BY <1>7, <2>1, <2>2, <2>3 DEF OnlyAt
<1>8. Calmed(s, t) BY <1>4, <1>6 DEF Calmed
<1>9. \A i \in Nat : i # 0 /\ h.id # i /\ OnlyAt(b, i) => Without(t, i)
  BY <1>7
<1> QED BY <1>1, <1>8, <1>9

LEMMA PromoteOrCloseFacts ==
  ASSUME NEW s \in Islands, Closes(s), Overed(s), s.queue # <<>> => ~s.closing,
         Told(s), Apart(s)
  PROVE  /\ Calmed(s, PromoteOrClose(s))
         /\ s.current # None /\ s.current.id # 0 =>
              PromoteOrClose(s).closing \/ Without(PromoteOrClose(s), s.current.id)
<1>1. CASE s.queue = <<>>
  BY <1>1, BeginCloseFacts DEF PromoteOrClose
<1>2. CASE s.queue # <<>>
  <2>1. PICK h, q : h = Head(s.queue) /\ q = Tail(s.queue) OBVIOUS
  <2>2. h \in Requests /\ q \in Seq(Requests) BY <1>2, <2>1, IslandFields, Popped
  <2>3. PICK a : a = [s EXCEPT !.queue = q] OBVIOUS
  <2>4. /\ a \in Islands /\ Beside(s, a) /\ a.current = s.current /\ a.overlay = s.overlay
        /\ a.queue = q
    BY <2>2, <2>3, QueueGiven
  <2>5. /\ h \in Present(s) /\ Present(a) \subseteq Present(s) /\ Overed(a) /\ Apart(a)
        /\ Fresh(a, h)
        /\ s.current # None /\ s.current.id # 0 => h.id # s.current.id
    BY <1>2, <2>1, <2>4, HeadTaken
  <2>6. Ready(a) /\ ~a.closing BY <1>2, <2>4 DEF Ready, Beside, Closes
  <2>7. PICK b : b = Sync(Promote(a)) OBVIOUS
  <2>8. Promoted(a, b) BY <2>6, <2>7, SlotsFacts
  <2>9. /\ b \in Islands /\ ~b.closing /\ ~b.close /\ Overed(b) /\ Apart(b) /\ Rest(a, b)
        /\ InPlace(a, b)
    BY <2>5, <2>6, <2>8 DEF Promoted, Ready, TimersKept
  <2>10. Fresh(b, h) BY <2>5, <2>9, RequestFields DEF Fresh, Rest
  <2>11. Rest(s, b)
    <3>1. Rest(s, a) BY <2>4, <2>5, RestBeside
    <3> QED BY <2>4, <2>9, <3>1, RestThen
  <2>12. PICK t : t = Start(b, h) OBVIOUS
  <2>13. PromoteOrClose(s) = t BY <1>2, <2>1, <2>3, <2>7, <2>12 DEF PromoteOrClose, SetQueue
  <2>14. ~s.closing BY <1>2
  <2>15. /\ Calmed(s, t)
         /\ \A i \in Nat : i # 0 /\ h.id # i /\ OnlyAt(b, i) => Without(t, i)
    BY <2>2, <2>5, <2>9, <2>10, <2>11, <2>12, <2>14, StartRests
  <2>16. ASSUME s.current # None, s.current.id # 0 PROVE Without(t, s.current.id)
    <3>1. b.current = s.current BY <2>4, <2>9, <2>16 DEF InPlace
    <3>2. s.current.id \in Nat BY <2>16, IslandFields, RequestFields
    <3>3. OnlyAt(b, s.current.id) BY <2>16, <3>1 DEF OnlyAt
    <3> QED BY <2>5, <2>15, <2>16, <3>2, <3>3
  <2> QED BY <2>13, <2>15, <2>16
<1> QED BY <1>1, <1>2

LEMMA FinishDismissedOverlayFacts ==
  ASSUME NEW s \in Islands, s.current = None, s.overlay # None,
         Closes(s), Fenced(s), Told(s), Apart(s)
  PROVE  /\ Calmed(s, FinishDismissedOverlay(s))
         /\ s.overlay.id # 0 => \/ FinishDismissedOverlay(s).closing
                                \/ Without(FinishDismissedOverlay(s), s.overlay.id)
<1>1. CASE s.queue = <<>>
  BY <1>1, BeginCloseFacts DEF FinishDismissedOverlay
<1>2. CASE s.queue # <<>>
  <2>1. PICK h, q : h = Head(s.queue) /\ q = Tail(s.queue) OBVIOUS
  <2>2. h \in Requests /\ q \in Seq(Requests) BY <1>2, <2>1, IslandFields, Popped
  <2>3. PICK a : a = [s EXCEPT !.queue = q] OBVIOUS
  <2>4. /\ a \in Islands /\ Beside(s, a) /\ a.current = None /\ a.overlay = s.overlay
        /\ a.queue = q
    BY <2>2, <2>3, QueueGiven
  <2>5. /\ h \in Present(s) /\ Present(a) \subseteq Present(s) /\ Apart(a) /\ Fresh(a, h)
        /\ s.overlay.id # 0 => h.id # s.overlay.id
    BY <1>2, <2>1, <2>4, HeadTaken
  <2>6. Ready(a) /\ ~a.closing BY <1>2, <2>4 DEF Ready, Beside, Closes, Fenced
  <2>7. PICK b : b = Sync(Promote(a)) OBVIOUS
  <2>8. Promoted(a, b) BY <2>6, <2>7, SlotsFacts
  <2>9. /\ b \in Islands /\ ~b.closing /\ ~b.close /\ Apart(b) /\ Rest(a, b)
        /\ b.overlay = s.overlay
    BY <1>2, <2>4, <2>5, <2>6, <2>8 DEF Promoted, Ready, InPlace
  <2>10. PICK c : c = [b EXCEPT !.overlay = None] OBVIOUS
  <2>11. /\ c \in Islands /\ Beside(b, c) /\ c.current = b.current /\ c.overlay = None
         /\ c.queue = b.queue
    BY <2>9, <2>10, OverlayGiven
  <2>12. /\ Present(c) \subseteq Present(b) /\ Overed(c) /\ Apart(c)
         /\ s.overlay.id # 0 => Without(c, s.overlay.id)
    BY <2>9, <2>11, OverlayTaken
  <2>13. Ready(c) /\ ~c.closing BY <2>9, <2>11 DEF Ready, Beside
  <2>14. PICK d : d = Sync(Promote(c)) OBVIOUS
  <2>15. Promoted(c, d) BY <2>13, <2>14, SlotsFacts
  <2>16. /\ d \in Islands /\ ~d.closing /\ ~d.close /\ Overed(d) /\ Apart(d) /\ Rest(c, d)
    BY <2>12, <2>13, <2>15 DEF Promoted, Ready, TimersKept
  <2>17. Fresh(d, h) BY <2>5, <2>9, <2>12, <2>16, RequestFields DEF Fresh, Rest
  <2>18. Rest(s, d)
    <3>1. Rest(s, a) BY <2>4, <2>5, RestBeside
    <3>2. Rest(s, b) BY <2>4, <2>9, <3>1, RestThen
    <3>3. Rest(b, c) BY <2>9, <2>11, <2>12, RestBeside
    <3>4. Rest(s, c) BY <2>9, <2>11, <3>2, <3>3, RestThen
    <3> QED BY <2>11, <2>16, <3>4, RestThen
  <2>19. PICK t : t = Start(d, h) OBVIOUS
  <2>20. FinishDismissedOverlay(s) = t
    BY <1>2, <2>1, <2>3, <2>7, <2>9, <2>10, <2>14, <2>19
    DEF FinishDismissedOverlay, SetQueue, SetOverlay
  <2>21. ~s.closing BY <1>2 DEF Fenced
  <2>22. /\ Calmed(s, t)
         /\ \A i \in Nat : i # 0 /\ h.id # i /\ OnlyAt(d, i) => Without(t, i)
    BY <2>2, <2>5, <2>16, <2>17, <2>18, <2>19, <2>21, StartRests
  <2>23. ASSUME s.overlay.id # 0 PROVE Without(t, s.overlay.id)
    <3>1. Without(d, s.overlay.id) BY <2>12, <2>16, <2>23, StillWithout DEF Rest
    <3>2. s.overlay.id \in Nat BY IslandFields, RequestFields
    <3>3. OnlyAt(d, s.overlay.id) BY <3>1 DEF OnlyAt
    <3> QED BY <2>5, <2>22, <2>23, <3>2, <3>3
  <2> QED BY <2>20, <2>22, <2>23
<1> QED BY <1>1, <1>2

-----------------------------------------------------------------------------
(* dismiss().                                                              *)

\* Only the timers of the content differ.
Untimed(s, t) ==
  /\ t.current = s.current /\ t.overlay = s.overlay /\ t.queue = s.queue
  /\ t.closing = s.closing /\ t.close = s.close
  /\ t.pending = s.pending /\ t.held = s.held

LEMMA UntimedKeeps ==
  ASSUME NEW s \in Islands, NEW t \in Islands, Untimed(s, t)
  PROVE  /\ Present(t) = Present(s) /\ Rest(s, t)
         /\ Closes(t) = Closes(s) /\ Fenced(t) = Fenced(s) /\ Told(t) = Told(s)
         /\ Apart(t) = Apart(s)
<1>1. Present(t) = Present(s) BY DEF Untimed, Present
<1>2. Live(t) = Live(s) BY <1>1 DEF Live
<1>3. Rest(s, t) BY <1>1, RestSame DEF Untimed, Rest
<1> QED BY <1>1, <1>2, <1>3 DEF Untimed, Closes, Fenced, Told, Apart

LEMMA TimersOff ==
  ASSUME NEW s \in Islands
  PROVE  /\ [s EXCEPT !.base = FALSE] \in Islands
         /\ Untimed(s, [s EXCEPT !.base = FALSE]) /\ ([s EXCEPT !.base = FALSE]).over = s.over
         /\ [s EXCEPT !.over = FALSE] \in Islands
         /\ Untimed(s, [s EXCEPT !.over = FALSE]) /\ ([s EXCEPT !.over = FALSE]).base = s.base
BY DEF Islands, Untimed

\* A call that ends with the slots of an assignment leaves a good island.
LEMMA SlotsCalm ==
  ASSUME NEW s \in Islands, Closes(s), Fenced(s), Based(s), Overed(s), Apart(s)
  PROVE  Calmed(s, Sync(Promote(s)))
<1>1. Ready(s) BY DEF Ready, Closes, Fenced
<1>2. Promoted(s, Sync(Promote(s))) BY <1>1, SlotsFacts
<1> QED BY <1>2 DEF Promoted, Ready, TimersKept, Good, Calmed

LEMMA CalmedThen ==
  ASSUME NEW s \in Islands, NEW t \in Islands, NEW u, Rest(s, t), Calmed(t, u)
  PROVE  Calmed(s, u)
BY RestThen DEF Calmed

\* dismiss of the current content, which ends what is on the island under its id.
LEMMA DismissCurrentFacts ==
  ASSUME NEW s \in Islands, Good(s), s.current # None
  PROVE  /\ Calmed(s, DismissCurrent(s))
         /\ s.current.id # 0 =>
              DismissCurrent(s).closing \/ Without(DismissCurrent(s), s.current.id)
<1>1. PICK t : t = [s EXCEPT !.base = FALSE] OBVIOUS
<1>2. t \in Islands /\ Untimed(s, t) /\ t.over = s.over BY <1>1, TimersOff
<1>3. /\ Rest(s, t) /\ Closes(t) /\ Fenced(t) /\ Told(t) /\ Apart(t)
      /\ t.current = s.current /\ t.overlay = s.overlay /\ Overed(t)
  BY <1>2, UntimedKeeps DEF Good, Untimed, Overed
<1>4. CASE t.overlay # None
  <2>1. PICK c : c = [t EXCEPT !.current = None] OBVIOUS
  <2>2. /\ c \in Islands /\ Beside(t, c) /\ c.current = None /\ c.overlay = t.overlay
        /\ c.queue = t.queue
    BY <1>2, <2>1, CurrentGiven
  <2>3. /\ Present(c) \subseteq Present(t) /\ Overed(c) /\ Apart(c)
        /\ t.current.id # 0 => Without(c, t.current.id)
    BY <1>2, <1>3, <2>2, CurrentReplaced
  <2>4. Closes(c) /\ Fenced(c) /\ Based(c)
    BY <1>3, <1>4, <2>2 DEF Closes, Fenced, Based, Beside
  <2>5. Calmed(c, Sync(Promote(c))) BY <2>2, <2>3, <2>4, SlotsCalm
  <2>6. Rest(t, c) BY <1>2, <2>2, <2>3, RestBeside
  <2>7. Rest(s, c) BY <1>2, <1>3, <2>2, <2>6, RestThen
  <2>8. Calmed(s, Sync(Promote(c))) BY <2>2, <2>5, <2>7, CalmedThen
  <2>9. DismissCurrent(s) = Sync(Promote(c))
    BY <1>1, <1>3, <1>4, <2>1 DEF DismissCurrent, SetCurrent
  <2>10. t.current.id # 0 => Without(Sync(Promote(c)), t.current.id)
    BY <2>3, <2>5, StillWithout DEF Calmed, Rest
  <2> QED BY <1>3, <2>8, <2>9, <2>10
<1>5. CASE t.overlay = None
  <2>1. t.queue # <<>> => ~t.closing BY <1>3 DEF Fenced
  <2>2. PICK u : u = PromoteOrClose(t) OBVIOUS
  <2>3. /\ Calmed(t, u)
        /\ t.current # None /\ t.current.id # 0 => u.closing \/ Without(u, t.current.id)
    BY <1>2, <1>3, <2>1, <2>2, PromoteOrCloseFacts
  <2>4. Calmed(s, u) BY <1>2, <1>3, <2>3, CalmedThen
  <2>5. DismissCurrent(s) = u BY <1>1, <1>5, <2>2 DEF DismissCurrent
  <2> QED BY <1>3, <2>3, <2>4, <2>5
<1> QED BY <1>4, <1>5

\* What is left when the k-th is taken out.
LEMMA TakenOut ==
  ASSUME NEW S, NEW s \in Seq(S), NEW k \in DOMAIN s
  PROVE  /\ RemoveAt(s, k) \in Seq(S) /\ Len(RemoveAt(s, k)) = Len(s) - 1 /\ Len(s) \in Nat
         /\ \A j \in DOMAIN RemoveAt(s, k) :
              \/ j < k /\ j \in DOMAIN s /\ RemoveAt(s, k)[j] = s[j]
              \/ k <= j /\ j + 1 \in DOMAIN s /\ RemoveAt(s, k)[j] = s[j + 1]
<1>1. Len(s) \in Nat /\ DOMAIN s = 1 .. Len(s) /\ k \in 1 .. Len(s) BY LenProperties
<1>2. PICK a, b : a = SubSeq(s, 1, k - 1) /\ b = SubSeq(s, k + 1, Len(s)) OBVIOUS
<1>3. /\ a \in Seq(S) /\ Len(a) = k - 1 /\ \A j \in 1 .. k - 1 : a[j] = s[j]
  BY <1>1, <1>2, SubSeqProperties
<1>4. /\ b \in Seq(S) /\ Len(b) = Len(s) - k /\ \A j \in 1 .. Len(s) - k : b[j] = s[k + j]
  BY <1>1, <1>2, SubSeqProperties, SMTT(30)
<1>5. PICK c : c = a \o b OBVIOUS
<1>6. /\ c \in Seq(S) /\ Len(c) = Len(a) + Len(b)
      /\ \A j \in DOMAIN c :
           \/ j \in DOMAIN a /\ c[j] = a[j]
           \/ j - Len(a) \in DOMAIN b /\ c[j] = b[j - Len(a)] /\ j \in Nat
  <2>1. c \in Seq(S) /\ Len(c) = Len(a) + Len(b) BY <1>3, <1>4, <1>5, ConcatProperties
  <2>2. ASSUME NEW j \in DOMAIN c
        PROVE  \/ j \in DOMAIN a /\ c[j] = a[j]
               \/ j - Len(a) \in DOMAIN b /\ c[j] = b[j - Len(a)] /\ j \in Nat
    <3>1. \/ j \in DOMAIN a
          \/ j - Len(a) \in DOMAIN b /\ c[j] = b[j - Len(a)]
      BY <1>3, <1>4, <1>5, <2>2, Grown, SMTT(30)
    <3>2. j \in DOMAIN a => c[j] = a[j] BY <1>3, <1>4, <1>5, Grown
    <3>3. j \in Nat BY <2>1, LenProperties
    <3> QED BY <3>1, <3>2, <3>3
  <2> QED BY <2>1, <2>2
<1>7. RemoveAt(s, k) = c BY <1>2, <1>5 DEF RemoveAt
<1>8. Len(c) = Len(s) - 1 /\ Len(a) = k - 1 BY <1>1, <1>3, <1>4, <1>6
<1>9. DOMAIN a = 1 .. k - 1 /\ DOMAIN b = 1 .. Len(s) - k
  BY <1>3, <1>4, LenProperties
<1>10. ASSUME NEW j \in DOMAIN c
       PROVE  \/ j < k /\ j \in DOMAIN s /\ c[j] = s[j]
              \/ k <= j /\ j + 1 \in DOMAIN s /\ c[j] = s[j + 1]
  <2>1. CASE j \in DOMAIN a /\ c[j] = a[j]
    <3>1. j \in 1 .. k - 1 /\ j < k /\ j \in 1 .. Len(s) BY <1>1, <1>9, <2>1
    <3> QED BY <1>1, <1>3, <2>1, <3>1
  <2>2. CASE j - Len(a) \in DOMAIN b /\ c[j] = b[j - Len(a)] /\ j \in Nat
    <3>1. PICK m : m = j - Len(a) OBVIOUS
    <3>2. m \in 1 .. Len(s) - k /\ c[j] = b[m] /\ j = m + k - 1 BY <1>1, <1>8, <1>9, <2>2, <3>1
    <3>3. k + m = j + 1 /\ k <= j /\ j + 1 \in 1 .. Len(s) BY <1>1, <3>2
    <3>4. b[m] = s[k + m] BY <1>4, <3>2
    <3> QED BY <1>1, <3>2, <3>3, <3>4
  <2> QED BY <1>6, <2>1, <2>2
<1> QED BY <1>1, <1>6, <1>7, <1>8, <1>10

\* dismiss of a request in the queue.
LEMMA TakeFacts ==
  ASSUME NEW s \in Islands, Good(s), NEW k \in DOMAIN s.queue, s.queue[k].id # 0
  PROVE  /\ Calmed(s, SetQueue(s, RemoveAt(s.queue, k)))
         /\ Without(SetQueue(s, RemoveAt(s.queue, k)), s.queue[k].id)
<1>1. PICK q, i : q = RemoveAt(s.queue, k) /\ i = s.queue[k].id OBVIOUS
<1>2. /\ q \in Seq(Requests)
      /\ \A j \in DOMAIN q : \E m \in DOMAIN s.queue :
           m # k /\ q[j] = s.queue[m] /\ m = (IF j < k THEN j ELSE j + 1)
  <2>1. /\ q \in Seq(Requests)
        /\ \A j \in DOMAIN q :
             \/ j < k /\ j \in DOMAIN s.queue /\ q[j] = s.queue[j]
             \/ k <= j /\ j + 1 \in DOMAIN s.queue /\ q[j] = s.queue[j + 1]
    <3>1. s.queue \in Seq(Requests) BY IslandFields
    <3> QED BY <1>1, <3>1, TakenOut
  <2>2. k \in Nat /\ DOMAIN q \subseteq Nat BY <2>1, IslandFields, LenProperties
  <2>3. ASSUME NEW j \in DOMAIN q
        PROVE  \E m \in DOMAIN s.queue :
                 m # k /\ q[j] = s.queue[m] /\ m = (IF j < k THEN j ELSE j + 1)
    <3>1. CASE j < k /\ j \in DOMAIN s.queue /\ q[j] = s.queue[j] BY <2>2, <3>1
    <3>2. CASE k <= j /\ j + 1 \in DOMAIN s.queue /\ q[j] = s.queue[j + 1]
      <4>1. j + 1 # k /\ ~(j < k) BY <2>2, <3>2
      <4> QED BY <3>2, <4>1
    <3> QED BY <2>1, <3>1, <3>2
  <2> QED BY <2>1, <2>3
<1>3. PICK a : a = [s EXCEPT !.queue = q] OBVIOUS
<1>4. /\ a \in Islands /\ Beside(s, a) /\ a.current = s.current /\ a.overlay = s.overlay
      /\ a.queue = q
  BY <1>2, <1>3, QueueGiven
<1>5. ASSUME NEW x \in Present(a) PROVE x \in Present(s) /\ x.id # i
  <2>1. CASE x # None /\ (x = s.current \/ x = s.overlay)
    <3>1. x \in Present(s) BY <2>1, PresentHas
    <3> QED BY <1>1, <2>1, <3>1 DEF Good, Apart
  <2>2. CASE \E j \in DOMAIN q : x = q[j]
    <3>1. PICK m \in DOMAIN s.queue : m # k /\ x = s.queue[m] BY <1>2, <2>2
    <3>2. x \in Present(s) BY <3>1, PresentHas
    <3> QED BY <1>1, <3>1, <3>2 DEF Good, Apart
  <2> QED BY <1>4, <1>5, <2>1, <2>2, PresentHas
<1>6. Apart(a)
  <2>1. ASSUME NEW j \in DOMAIN q, q[j].id # 0
        PROVE  /\ s.current # None => s.current.id # q[j].id
               /\ s.overlay # None => s.overlay.id # q[j].id
               /\ \A l \in DOMAIN q : q[j].id = q[l].id => j = l
    <3>1. PICK m \in DOMAIN s.queue : q[j] = s.queue[m] /\ m = (IF j < k THEN j ELSE j + 1)
      BY <1>2
    <3>2. ASSUME NEW l \in DOMAIN q, q[j].id = q[l].id PROVE j = l
      <4>1. PICK n \in DOMAIN s.queue : q[l] = s.queue[n] /\ n = (IF l < k THEN l ELSE l + 1)
        BY <1>2
      <4>2. m = n BY <2>1, <3>1, <3>2, <4>1 DEF Good, Apart
      <4>3. j \in Nat /\ l \in Nat BY <1>2, LenProperties
      <4>4. k \in Nat BY IslandFields
      <4> QED BY <3>1, <4>1, <4>2, <4>3, <4>4
    <3> QED BY <2>1, <3>1, <3>2 DEF Good, Apart
  <2> QED BY <1>4, <2>1 DEF Good, Apart
<1>7. s.queue # <<>> BY EmptySeq
<1>8. Closes(a) /\ Fenced(a) /\ Based(a) /\ Overed(a)
  BY <1>4, <1>7 DEF Good, Closes, Fenced, Based, Overed, Beside
<1>9. Calmed(a, Sync(Promote(a))) BY <1>4, <1>6, <1>8, SlotsCalm
<1>10. Rest(s, a) BY <1>4, <1>5, RestBeside
<1>11. Calmed(s, Sync(Promote(a))) BY <1>4, <1>9, <1>10, CalmedThen
<1>12. SetQueue(s, RemoveAt(s.queue, k)) = Sync(Promote(a)) BY <1>1, <1>3 DEF SetQueue
<1>13. Without(Sync(Promote(a)), i)
  <2>1. Without(a, i) /\ i # 0 BY <1>1, <1>5 DEF Without
  <2> QED BY <1>9, <2>1, StillWithout DEF Calmed, Rest
<1> QED BY <1>1, <1>11, <1>12, <1>13

LEMMA DismissFacts ==
  ASSUME NEW s \in Islands, Good(s), NEW i \in Nat \ {0}
  PROVE  Calmed(s, Dismiss(s, i)) /\ (Dismiss(s, i).closing \/ Without(Dismiss(s, i), i))
<1>1. CASE s.overlay # None /\ s.overlay.id = i
  <2>1. PICK t : t = [s EXCEPT !.over = FALSE] OBVIOUS
  <2>2. t \in Islands /\ Untimed(s, t) /\ t.base = s.base BY <2>1, TimersOff
  <2>3. /\ Rest(s, t) /\ Closes(t) /\ Fenced(t) /\ Told(t) /\ Apart(t)
        /\ t.current = s.current /\ t.overlay = s.overlay /\ Based(t)
    BY <2>2, UntimedKeeps DEF Good, Untimed, Based
  <2>4. CASE t.current = None
    <3>1. PICK u : u = FinishDismissedOverlay(t) OBVIOUS
    <3>2. Calmed(t, u) /\ (u.closing \/ Without(u, i))
      BY <1>1, <2>2, <2>3, <2>4, <3>1, FinishDismissedOverlayFacts
    <3>3. Calmed(s, u) BY <2>2, <2>3, <3>2, CalmedThen
    <3>4. Dismiss(s, i) = u BY <1>1, <2>1, <2>4, <3>1 DEF Dismiss
    <3> QED BY <3>2, <3>3, <3>4
  <2>5. CASE t.current # None
    <3>1. PICK c : c = [t EXCEPT !.overlay = None] OBVIOUS
    <3>2. /\ c \in Islands /\ Beside(t, c) /\ c.current = t.current /\ c.overlay = None
          /\ c.queue = t.queue
      BY <2>2, <3>1, OverlayGiven
    <3>3. /\ Present(c) \subseteq Present(t) /\ Overed(c) /\ Based(c) /\ Apart(c)
          /\ Without(c, i)
      BY <1>1, <2>2, <2>3, <3>2, OverlayTaken
    <3>4. Closes(c) /\ Fenced(c) BY <2>3, <2>5, <3>2 DEF Closes, Fenced, Beside
    <3>5. PICK u : u = Sync(Promote(c)) OBVIOUS
    <3>6. Calmed(c, u) BY <3>2, <3>3, <3>4, <3>5, SlotsCalm
    <3>7. Rest(t, c) BY <2>2, <3>2, <3>3, RestBeside
    <3>8. Rest(s, c) BY <2>2, <2>3, <3>2, <3>7, RestThen
    <3>9. Calmed(s, u) BY <3>2, <3>6, <3>8, CalmedThen
    <3>10. Without(u, i) BY <3>3, <3>6, StillWithout DEF Calmed, Rest
    <3>11. Dismiss(s, i) = u BY <1>1, <2>1, <2>3, <2>5, <3>1, <3>5 DEF Dismiss, SetOverlay
    <3> QED BY <3>9, <3>10, <3>11
  <2> QED BY <2>4, <2>5
<1>2. CASE ~(s.overlay # None /\ s.overlay.id = i) /\ s.current # None /\ s.current.id = i
  BY <1>2, DismissCurrentFacts DEF Dismiss
<1>3. CASE /\ ~(s.overlay # None /\ s.overlay.id = i)
           /\ ~(s.current # None /\ s.current.id = i)
  <2>1. PICK found : found = {j \in DOMAIN s.queue : s.queue[j].id = i} OBVIOUS
  <2>2. CASE found = {}
    <3>1. Dismiss(s, i) = s BY <1>3, <2>1, <2>2 DEF Dismiss
    <3>2. Without(s, i)
      <4> SUFFICES ASSUME NEW x \in Present(s) PROVE x.id # i BY DEF Without
      <4> QED BY <1>3, <2>1, <2>2, PresentHas
    <3> QED BY <3>1, <3>2, RestSame DEF Calmed
  <2>3. CASE found # {}
    <3>1. found \in SUBSET Nat BY <2>1, IslandFields
    <3>2. PICK k \in found : k = Min(found)
      <4>1. PICK x \in found : \A y \in found : x <= y BY <2>3, <3>1, LeastExists
      <4> QED BY <4>1 DEF Min
    <3>3. k \in DOMAIN s.queue /\ s.queue[k].id = i BY <2>1, <3>2
    <3>4. PICK u : u = SetQueue(s, RemoveAt(s.queue, k)) OBVIOUS
    <3>5. Calmed(s, u) /\ Without(u, i) BY <3>3, <3>4, TakeFacts
    <3>6. Dismiss(s, i) = u BY <1>3, <2>1, <2>3, <3>2, <3>4 DEF Dismiss
    <3> QED BY <3>5, <3>6
  <2> QED BY <2>2, <2>3
<1> QED BY <1>1, <1>2, <1>3

-----------------------------------------------------------------------------
(* What the timers call.                                                   *)

LEMMA ExpireBaseFacts ==
  ASSUME NEW s \in Islands, Good(s)
  PROVE  Calmed(s, ExpireBase(s))
<1>1. PICK t : t = [s EXCEPT !.base = FALSE] OBVIOUS
<1>2. t \in Islands /\ Untimed(s, t) /\ t.over = s.over BY <1>1, TimersOff
<1>3. /\ Rest(s, t) /\ Closes(t) /\ Fenced(t) /\ Told(t) /\ Apart(t) /\ Overed(t)
  BY <1>2, UntimedKeeps DEF Good, Untimed, Overed
<1>4. CASE t.current = None \/ t.closing
  <2>1. ExpireBase(s) = t BY <1>1, <1>4 DEF ExpireBase
  <2>2. Based(t) BY <1>4 DEF Based
  <2> QED BY <1>2, <1>3, <2>1, <2>2 DEF Calmed, Good
<1>5. CASE ~(t.current = None \/ t.closing)
  <2>1. Calmed(t, PromoteOrClose(t)) BY <1>2, <1>3, <1>5, PromoteOrCloseFacts
  <2>2. ExpireBase(s) = PromoteOrClose(t) BY <1>1, <1>5 DEF ExpireBase
  <2> QED BY <1>2, <1>3, <2>1, <2>2, CalmedThen
<1> QED BY <1>4, <1>5

LEMMA ExpireOverlayFacts ==
  ASSUME NEW s \in Islands, Good(s)
  PROVE  Calmed(s, ExpireOverlay(s))
<1>1. PICK t : t = [s EXCEPT !.over = FALSE] OBVIOUS
<1>2. t \in Islands /\ Untimed(s, t) /\ t.base = s.base BY <1>1, TimersOff
<1>3. /\ Rest(s, t) /\ Closes(t) /\ Fenced(t) /\ Told(t) /\ Apart(t) /\ Based(t)
  BY <1>2, UntimedKeeps DEF Good, Untimed, Based
<1>4. CASE t.overlay = None \/ t.closing
  <2>1. ExpireOverlay(s) = t BY <1>1, <1>4 DEF ExpireOverlay
  <2>2. Overed(t) BY <1>4 DEF Overed
  <2> QED BY <1>2, <1>3, <2>1, <2>2 DEF Calmed, Good
<1>5. CASE ~(t.overlay = None \/ t.closing)
  <2>1. PICK c : c = [t EXCEPT !.overlay = None] OBVIOUS
  <2>2. /\ c \in Islands /\ Beside(t, c) /\ c.current = t.current /\ c.overlay = None
        /\ c.queue = t.queue
    BY <1>2, <2>1, OverlayGiven
  <2>3. Present(c) \subseteq Present(t) /\ Overed(c) /\ Based(c) /\ Apart(c)
    BY <1>2, <1>3, <2>2, OverlayTaken
  <2>4. Closes(c) /\ ~c.closing BY <1>3, <1>5, <2>2 DEF Closes, Beside
  <2>5. PICK u : u = Sync(Promote(c)) /\ u = SetOverlay(t, None)
    BY <1>5, <2>1 DEF SetOverlay
  <2>6. Rest(t, c) BY <1>2, <2>2, <2>3, RestBeside
  <2>7. Rest(s, c) BY <1>2, <1>3, <2>2, <2>6, RestThen
  <2>8. CASE t.current # None
    <3>1. Fenced(c) BY <2>2, <2>4, <2>8 DEF Fenced
    <3>2. Calmed(c, u) BY <2>2, <2>3, <2>4, <2>5, <3>1, SlotsCalm
    <3>3. ExpireOverlay(s) = u BY <1>1, <1>5, <2>5, <2>8 DEF ExpireOverlay
    <3> QED BY <2>2, <2>7, <3>2, <3>3, CalmedThen
  <2>9. CASE t.current = None
    <3>1. Ready(c) BY <2>2, <2>4 DEF Ready, Closes
    <3>2. Promoted(c, u) BY <2>5, <3>1, SlotsFacts
    <3>3. /\ u \in Islands /\ Rest(c, u) /\ Closes(u) /\ Overed(u) /\ Told(u) /\ Apart(u)
          /\ ~u.closing
      BY <2>3, <2>4, <3>2 DEF Promoted, Ready, TimersKept
    <3>4. Calmed(u, PromoteOrClose(u)) BY <3>3, PromoteOrCloseFacts
    <3>5. Rest(s, u) BY <2>2, <2>7, <3>3, RestThen
    <3>6. ExpireOverlay(s) = PromoteOrClose(u) BY <1>1, <1>5, <2>5, <2>9 DEF ExpireOverlay
    <3> QED BY <3>3, <3>4, <3>5, <3>6, CalmedThen
  <2> QED BY <2>8, <2>9
<1> QED BY <1>4, <1>5

LEMMA FinishCloseFacts ==
  ASSUME NEW s \in Islands, Good(s), s.close
  PROVE  Calmed(s, FinishClose(s))
<1>1. PICK t : t = [s EXCEPT !.base = FALSE, !.over = FALSE, !.close = FALSE] OBVIOUS
<1>2. s.closing /\ s.queue = <<>> BY DEF Good, Closes, Fenced
<1>3. /\ t \in Islands /\ t.closing /\ ~t.close /\ t.queue = <<>>
      /\ t.current = s.current /\ t.overlay = s.overlay
      /\ t.pending = s.pending /\ t.held = s.held
  BY <1>1, <1>2 DEF Islands
<1>4. Present(t) = Present(s) /\ Live(t) = Live(s) BY <1>2, <1>3 DEF Present, Live
<1>5. /\ Ready(t) /\ Told(t) /\ Apart(t) /\ Based(t) /\ Overed(t)
  BY <1>2, <1>3, <1>4 DEF Good, Ready, Told, Apart, Based, Overed
<1>6. Rest(s, t) BY <1>3, <1>4, RestSame DEF Rest
<1>7. PICK a : a = SetCurrent(t, None) OBVIOUS
<1>8. /\ Ready(a) /\ Rest(t, a) /\ Told(a) /\ Apart(a) /\ Based(a) /\ Overed(a) /\ ~a.close
      /\ a.closing => a.current = None /\ a.queue = <<>>
  <2>1. CASE t.current = None
    <3>1. a = t BY <1>7, <2>1 DEF SetCurrent
    <3> QED BY <1>3, <1>5, <2>1, <3>1, RestSame
  <2>2. CASE t.current # None
    <3>1. PICK c : c = [t EXCEPT !.current = None] OBVIOUS
    <3>2. /\ c \in Islands /\ Beside(t, c) /\ c.current = None /\ c.overlay = t.overlay
          /\ c.queue = t.queue
      <4>1. t \in Islands /\ None \in Requests \cup {None} BY <1>3
      <4> QED BY <3>1, <4>1, CurrentGiven
    <3>3. Present(c) \subseteq Present(t) /\ Apart(c) /\ Overed(c)
      BY <1>3, <1>5, <3>2, CurrentReplaced
    <3>4. Based(c) /\ Ready(c) /\ ~c.close BY <1>3, <3>2 DEF Based, Ready, Beside
    <3>5. a = Sync(Promote(c)) BY <1>7, <2>2, <3>1 DEF SetCurrent
    <3>6. Promoted(c, a) BY <3>4, <3>5, SlotsFacts
    <3>7. a \in Islands BY <3>6 DEF Promoted, Ready
    <3>8. Rest(t, c) BY <1>3, <3>2, <3>3, RestBeside
    <3>9. Rest(t, a) BY <1>3, <3>2, <3>6, <3>7, <3>8, RestThen DEF Promoted
    <3>10. /\ Ready(a) /\ Told(a) /\ Apart(a) /\ Based(a) /\ Overed(a)
           /\ Same(c, a) \/ ~a.closing
      BY <3>3, <3>4, <3>6 DEF Promoted, TimersKept
    <3> QED BY <1>3, <3>2, <3>4, <3>9, <3>10 DEF Same, Ready
  <2> QED BY <2>1, <2>2
<1>9. a \in Islands BY <1>8 DEF Ready
<1>10. PICK b : b = SetOverlay(a, None) OBVIOUS
<1>11. /\ Ready(b) /\ Rest(a, b) /\ Told(b) /\ Apart(b) /\ Based(b) /\ Overed(b) /\ ~b.close
       /\ b.closing => b.current = None /\ b.overlay = None /\ b.queue = <<>>
  <2>1. CASE a.overlay = None
    <3>1. b = a BY <1>10, <2>1 DEF SetOverlay
    <3> QED BY <1>8, <1>9, <2>1, <3>1, RestSame
  <2>2. CASE a.overlay # None
    <3>1. PICK c : c = [a EXCEPT !.overlay = None] OBVIOUS
    <3>2. /\ c \in Islands /\ Beside(a, c) /\ c.current = a.current /\ c.overlay = None
          /\ c.queue = a.queue
      BY <1>9, <3>1, OverlayGiven
    <3>3. Present(c) \subseteq Present(a) /\ Apart(c) /\ Overed(c) /\ Based(c)
      BY <1>8, <1>9, <3>2, OverlayTaken
    <3>4. Ready(c) /\ ~c.close BY <1>8, <3>2 DEF Ready, Beside
    <3>5. b = Sync(Promote(c)) BY <1>10, <2>2, <3>1 DEF SetOverlay
    <3>6. Promoted(c, b) BY <3>4, <3>5, SlotsFacts
    <3>7. b \in Islands BY <3>6 DEF Promoted, Ready
    <3>8. Rest(a, c) BY <1>9, <3>2, <3>3, RestBeside
    <3>9. Rest(a, b) BY <1>9, <3>2, <3>6, <3>7, <3>8, RestThen DEF Promoted
    <3>10. /\ Ready(b) /\ Told(b) /\ Apart(b) /\ Based(b) /\ Overed(b)
           /\ Same(c, b) \/ ~b.closing
      BY <3>3, <3>4, <3>6 DEF Promoted, TimersKept
    <3> QED BY <1>8, <3>2, <3>4, <3>9, <3>10 DEF Same, Ready, Beside
  <2> QED BY <2>1, <2>2
<1>12. b \in Islands BY <1>11 DEF Ready
<1>13. PICK u : u = [b EXCEPT !.closing = FALSE] OBVIOUS
<1>14. /\ u \in Islands /\ ~u.closing /\ ~u.close /\ u.base = b.base /\ u.over = b.over
       /\ u.current = b.current /\ u.overlay = b.overlay /\ u.queue = b.queue
       /\ u.pending = b.pending /\ u.held = b.held
  BY <1>11, <1>12, <1>13 DEF Islands
<1>15. Present(u) = Present(b) /\ Live(u) = Live(b) BY <1>14 DEF Present, Live
<1>16. Rest(b, u)
  <2>1. ASSUME b.closing PROVE Present(u) \subseteq {Notice}
    <3>1. u.current = None /\ u.overlay = None /\ DOMAIN u.queue = {} BY <1>11, <1>14, <2>1
    <3> QED BY <1>14, <3>1, PresentHas
  <2> QED BY <1>12, <1>14, <1>15, <2>1, RestSame DEF Rest
<1>17. Closes(u) /\ Based(u) /\ Overed(u) /\ Told(u) /\ Apart(u)
  BY <1>11, <1>14, <1>15 DEF Closes, Based, Overed, Told, Apart
<1>18. Rest(s, u)
  <2>1. Rest(s, a) BY <1>3, <1>6, <1>8, <1>9, RestThen
  <2>2. Rest(s, b) BY <1>9, <1>11, <1>12, <2>1, RestThen
  <2> QED BY <1>12, <1>14, <1>16, <2>2, RestThen
<1>19. FinishClose(s) = IF u.queue = <<>> THEN u ELSE PromoteOrClose(u)
  BY <1>1, <1>7, <1>10, <1>13 DEF FinishClose
<1>20. CASE u.queue = <<>>
  BY <1>14, <1>17, <1>18, <1>19, <1>20 DEF Calmed, Good, Fenced
<1>21. CASE u.queue # <<>>
  <2>1. Calmed(u, PromoteOrClose(u)) BY <1>14, <1>17, PromoteOrCloseFacts
  <2> QED BY <1>14, <1>18, <1>19, <1>21, <2>1, CalmedThen
<1> QED BY <1>20, <1>21

-----------------------------------------------------------------------------
(* What the owners call.                                                   *)

LEMMA RestReached ==
  ASSUME NEW s \in Islands, NEW t \in Islands, Reached(s),
         t.held["drag"] = s.held["drag"], t.held["receive"] = s.held["receive"],
         Present(t) \subseteq Present(s) \cup {Notice},
         t.closing \/ ~s.closing \/ Present(t) \subseteq {Notice}
  PROVE  Reached(t)
<1> SUFFICES ASSUME NEW r \in Present(t), r.owner \in {"drag", "receive"} PROVE Own(r, t)
  BY DEF Reached
<1>1. r # Notice BY RequestFields
<1>2. r \in Present(s) /\ t.held[r.owner] = s.held[r.owner] BY <1>1
<1>3. Own(r, s) BY <1>2 DEF Reached
<1> QED BY <1>1, <1>2, <1>3 DEF Own

LEMMA CalmSound ==
  ASSUME NEW s, Sound(s), NEW t, Calmed(s, t)
  PROVE  Sound(t)
<1>1. s \in Islands /\ t \in Islands BY DEF Sound, Calmed
<1>2. Reached(t) BY <1>1, RestReached DEF Sound, Calmed, Rest
<1>3. Len(t.pending) \in Nat /\ Len(s.pending) \in Nat /\ MaxQueued \in Nat
  BY <1>1, IslandFields, LenProperties, IslandAssumption
<1>4. Len(t.pending) <= Len(s.pending) /\ Len(s.pending) <= MaxQueued
  BY DEF Sound, Calmed, Rest
<1> QED BY <1>1, <1>2, <1>3, <1>4 DEF Sound, Calmed

\* Room for one more notice, then its turn.
LEMMA NotifyFacts ==
  ASSUME NEW n \in Notices, IslandInv, Notify(n)
  PROVE  IslandInv'
<1>1. PICK found : found = {j \in DOMAIN isl.pending : isl.pending[j] = n} OBVIOUS
<1>2. PICK others : others = IF found = {} THEN isl.pending
                             ELSE RemoveAt(isl.pending, Min(found))
  OBVIOUS
<1>3. isl \in Islands /\ isl.pending \in Seq(Notices) /\ Good(isl) /\ MaxQueued \in Nat
  BY IslandFields, IslandAssumption DEF IslandInv, Sound
<1>4. others \in Seq(Notices) /\ Len(others) \in Nat /\ Len(others) <= MaxQueued
  <2>1. Len(isl.pending) \in Nat /\ Len(isl.pending) <= MaxQueued /\ DOMAIN isl.pending \subseteq Nat
    BY <1>3, LenProperties DEF IslandInv, Sound
  <2>2. CASE found = {} BY <1>2, <1>3, <2>1, <2>2
  <2>3. CASE found # {}
    <3>1. found \in SUBSET Nat BY <1>1, <2>1
    <3>2. PICK k \in found : k = Min(found)
      <4>1. PICK x \in found : \A y \in found : x <= y BY <2>3, <3>1, LeastExists
      <4> QED BY <4>1 DEF Min
    <3>3. k \in DOMAIN isl.pending BY <1>1, <3>2
    <3>4. others = RemoveAt(isl.pending, k) BY <1>2, <2>3, <3>2
    <3>5. others \in Seq(Notices) /\ Len(others) = Len(isl.pending) - 1
      BY <1>3, <3>3, <3>4, TakenOut
    <3>6. Len(others) \in Nat BY <3>5, LenProperties
    <3> QED BY <1>3, <2>1, <3>5, <3>6
  <2> QED BY <2>2, <2>3
<1>5. PICK q : q = Append(others, n) OBVIOUS
<1>6. q \in Seq(Notices) /\ Len(q) = Len(others) + 1 /\ q # <<>>
  BY <1>4, <1>5, AppendProperties
<1>7. PICK told : told = IF Len(q) > MaxQueued THEN Tail(q) ELSE q OBVIOUS
<1>8. told \in Seq(Notices) /\ Len(told) \in Nat /\ Len(told) <= MaxQueued
  <2>1. CASE Len(q) > MaxQueued
    <3>1. told = Tail(q) BY <1>7, <2>1
    <3>2. told \in Seq(Notices) /\ Len(told) = Len(q) - 1 BY <1>6, <3>1, HeadTailProperties
    <3> QED BY <1>3, <1>4, <1>6, <3>2
  <2>2. CASE ~(Len(q) > MaxQueued) BY <1>3, <1>4, <1>6, <1>7, <2>2
  <2> QED BY <2>1, <2>2
<1>9. PICK a : a = [isl EXCEPT !.pending = told] OBVIOUS
<1>10. /\ a \in Islands /\ a.pending = told
       /\ a.current = isl.current /\ a.overlay = isl.overlay /\ a.queue = isl.queue
       /\ a.closing = isl.closing /\ a.close = isl.close /\ a.base = isl.base
       /\ a.over = isl.over /\ a.held = isl.held
  BY <1>3, <1>8, <1>9 DEF Islands
<1>11. Present(a) = Present(isl) BY <1>10 DEF Present
<1>12. Ready(a) /\ Closes(a) /\ Based(a) /\ Overed(a) /\ Fenced(a) /\ Apart(a)
  BY <1>3, <1>10 DEF Good, Ready, Closes, Based, Overed, Fenced, Apart
<1>13. PICK t : t = Promote(a) OBVIOUS
<1>14. Promoted(a, t) BY <1>12, <1>13, PromoteFacts
<1>15. isl' = t
  BY <1>1, <1>2, <1>5, <1>7, <1>9, <1>13 DEF Notify
<1>16. t \in Islands /\ Good(t) /\ Rest(a, t)
  BY <1>12, <1>14 DEF Promoted, Ready, TimersKept, Good
<1>17. Len(t.pending) <= MaxQueued
  <2>1. Len(t.pending) \in Nat /\ Len(t.pending) <= Len(told)
    BY <1>10, <1>16, IslandFields, LenProperties DEF Rest
  <2> QED BY <1>3, <1>8, <2>1
<1>18. Reached(t)
  <2>1. Reached(isl) BY DEF IslandInv, Sound
  <2> QED BY <1>3, <1>10, <1>11, <1>16, <2>1, RestReached DEF Rest
<1>19. Sound(t) BY <1>16, <1>17, <1>18 DEF Sound
<1>20. Sound(isl') BY <1>15, <1>19
<1> QED BY <1>20 DEF IslandInv

\* The id of a new request is nobody's: of n numbers one is beyond 1 .. n.
LEMMA NextIdFacts ==
  ASSUME NEW s \in Islands
  PROVE  NextId(s) \in Nat \ {0} /\ \A x \in Present(s) : x.id # NextId(s)
<1>1. PICK used : used = {0} \cup IdsOf(s) \cup {s.held[o] : o \in DOMAIN s.held} OBVIOUS
<1>2. /\ s.held \in [Owners \ {"status"} -> Nat] /\ s.queue \in Seq(Requests)
      /\ Len(s.queue) \in Nat /\ DOMAIN s.queue = 1 .. Len(s.queue)
  BY IslandFields, LenProperties
<1>3. IsFiniteSet(ToSet(s.queue))
  <2>1. PICK f : f = [j \in 1 .. Len(s.queue) |-> s.queue[j]] OBVIOUS
  <2>2. f \in Surjection(1 .. Len(s.queue), ToSet(s.queue))
    BY <1>2, <2>1 DEF Surjection, ToSet
  <2>3. IsFiniteSet(1 .. Len(s.queue)) BY <1>2, FS_Interval
  <2> QED BY <2>2, <2>3, FS_Surjection
<1>4. IsFiniteSet(Present(s))
  <2>1. IsFiniteSet({s.current, s.overlay})
    <3>1. {s.current, s.overlay} = {s.current} \cup {s.overlay} OBVIOUS
    <3>2. IsFiniteSet({s.current}) /\ IsFiniteSet({s.overlay}) BY FS_Singleton
    <3>3. IsFiniteSet({s.current} \cup {s.overlay}) BY <3>2, FS_Union
    <3> QED BY <3>1, <3>3
  <2>2. IsFiniteSet({s.current, s.overlay} \ {None}) BY <2>1, FS_Subset
  <2> QED BY <1>3, <2>2, FS_Union DEF Present
<1>5. IsFiniteSet(IdsOf(s))
  <2>1. PICK f : f = [x \in Present(s) |-> x.id] OBVIOUS
  <2>2. f \in Surjection(Present(s), IdsOf(s)) BY <2>1 DEF Surjection, IdsOf
  <2> QED BY <1>4, <2>2, FS_Surjection
<1>6. IsFiniteSet({s.held[o] : o \in DOMAIN s.held})
  <2>1. IsFiniteSet(Owners \ {"status"})
    <3>1. PICK f : f = [j \in 1 .. Len(KindOrder) |-> KindOrder[j]] OBVIOUS
    <3>2. Len(KindOrder) \in Nat /\ DOMAIN KindOrder = 1 .. Len(KindOrder)
      BY IslandAssumption, LenProperties
    <3>3. f \in Surjection(1 .. Len(KindOrder), Kinds)
      BY <3>1, <3>2 DEF Surjection, Kinds, ToSet
    <3>4. IsFiniteSet(Kinds) BY <3>2, <3>3, FS_Interval, FS_Surjection
    <3>5. IsFiniteSet({"drag", "receive", "status"})
      <4>1. {"drag", "receive", "status"} = {"drag"} \cup ({"receive"} \cup {"status"})
        OBVIOUS
      <4>2. IsFiniteSet({"drag"}) /\ IsFiniteSet({"receive"}) /\ IsFiniteSet({"status"})
        BY FS_Singleton
      <4>3. IsFiniteSet({"receive"} \cup {"status"}) BY <4>2, FS_Union
      <4>4. IsFiniteSet({"drag"} \cup ({"receive"} \cup {"status"})) BY <4>2, <4>3, FS_Union
      <4> QED BY <4>1, <4>4
    <3>6. IsFiniteSet(Owners) BY <3>4, <3>5, FS_Union DEF Owners
    <3> QED BY <3>6, FS_Subset
  <2>2. DOMAIN s.held = Owners \ {"status"} BY <1>2
  <2>3. s.held \in Surjection(DOMAIN s.held, {s.held[o] : o \in DOMAIN s.held})
    BY <1>2 DEF Surjection
  <2> QED BY <2>1, <2>2, <2>3, FS_Surjection
<1>7. IsFiniteSet(used) BY <1>1, <1>5, <1>6, FS_Singleton, FS_Union
<1>8. PICK n \in Nat : n = Cardinality(used) BY <1>7, FS_CardinalityType
<1>9. (1 .. n) \ used # {}
  <2> SUFFICES ASSUME (1 .. n) \subseteq used PROVE FALSE OBVIOUS
  <2>1. (0 .. n) \subseteq used BY <1>1
  <2>2. IsFiniteSet(0 .. n) /\ Cardinality(0 .. n) = n + 1 BY <1>8, FS_Interval
  <2>3. Cardinality(0 .. n) <= n BY <1>7, <1>8, <2>1, FS_Subset
  <2> QED BY <1>8, <2>2, <2>3
<1>10. PICK free : free = (1 .. n) \ used OBVIOUS
<1>11. free \in SUBSET Nat /\ free # {} BY <1>8, <1>9, <1>10
<1>12. PICK x \in free : \A y \in free : x <= y BY <1>11, LeastExists
<1>13. Min(free) \in free BY <1>12 DEF Min
<1>14. NextId(s) = Min(free) BY <1>1, <1>8, <1>10 DEF NextId
<1>15. NextId(s) \in 1 .. n /\ NextId(s) \notin used BY <1>10, <1>13, <1>14
<1>16. \A y \in Present(s) : y.id \in used BY <1>1 DEF IdsOf
<1> QED BY <1>8, <1>15, <1>16

Keeping(s, o, i) == [s EXCEPT !.held[o] = i]

\* Only what o keeps differs.
Handed(s, o, i, t) ==
  /\ t \in Islands /\ t.held[o] = i
  /\ \A p \in Owners \ {"status", o} : t.held[p] = s.held[p]
  /\ t.closing = s.closing /\ t.pending = s.pending
  /\ Present(t) = Present(s) /\ (Good(s) => Good(t))

LEMMA HeldGiven ==
  ASSUME NEW s \in Islands, NEW o \in Owners \ {"status"}, NEW i \in Nat
  PROVE  Handed(s, o, i, Keeping(s, o, i))
<1>1. PICK t : t = Keeping(s, o, i) OBVIOUS
<1>2. PICK h : h = [s.held EXCEPT ![o] = i] OBVIOUS
<1>3. /\ h \in [Owners \ {"status"} -> Nat] /\ h[o] = i
      /\ \A p \in Owners \ {"status", o} : h[p] = s.held[p]
  BY <1>2, IslandFields
<1>4. t = [s EXCEPT !.held = h] BY <1>1, <1>2 DEF Keeping
<1>5. /\ t \in Islands /\ t.held = h
      /\ t.current = s.current /\ t.overlay = s.overlay /\ t.queue = s.queue
      /\ t.closing = s.closing /\ t.close = s.close /\ t.base = s.base /\ t.over = s.over
      /\ t.pending = s.pending
  BY <1>3, <1>4 DEF Islands
<1>6. Present(t) = Present(s) BY <1>5 DEF Present
<1>7. Live(t) = Live(s) BY <1>6 DEF Live
<1>8. Good(t) = Good(s)
  BY <1>5, <1>7 DEF Good, Closes, Based, Overed, Fenced, Told, Apart
<1>9. Handed(s, o, i, t) BY <1>3, <1>5, <1>6, <1>8 DEF Handed
<1> QED BY <1>1, <1>9

\* What drag and drop or the receiver shows, it keeps; it kept nothing before.
LEMMA ShowHeldFacts ==
  ASSUME NEW s, Sound(s), NEW o \in Owners \ {"status"}, NEW inf \in BOOLEAN,
         s.held[o] = 0 \/ o \in Kinds
  PROVE  Sound(ShowHeld(s, o, inf))
<1>1. s \in Islands /\ Good(s) /\ Reached(s) BY DEF Sound
<1>2. PICK r : r = Request(s, o, inf) OBVIOUS
<1>3. /\ r \in Requests /\ r.id \in Nat \ {0} /\ r.owner = o
      /\ \A x \in Present(s) : x.id # r.id
  BY <1>1, <1>2, NextIdFacts DEF Request, Requests
<1>4. Ready(s) BY <1>1 DEF Good, Ready, Closes, Fenced
<1>5. PICK t : t = Show(s, r) OBVIOUS
<1>6. Shown(s, t, r) BY <1>3, <1>4, <1>5, ShowFacts
<1>7. t \in Islands BY <1>6 DEF Shown
<1>8. Good(t)
  <2>1. Fresh(s, r) BY <1>3 DEF Fresh
  <2> QED BY <1>1, <1>6, <2>1 DEF Shown, Good, TimersKept, Closes
<1>9. PICK u : u = Keeping(t, o, r.id) OBVIOUS
<1>10. /\ u \in Islands /\ u.held[o] = r.id
       /\ \A p \in Owners \ {"status", o} : u.held[p] = t.held[p]
       /\ u.closing = t.closing /\ u.pending = t.pending
       /\ Present(u) = Present(t) /\ (Good(t) => Good(u))
  <2>1. Handed(t, o, r.id, u) BY <1>3, <1>7, <1>9, HeldGiven
  <2> QED BY <2>1 DEF Handed
<1>11. Reached(u)
  <2> SUFFICES ASSUME NEW x \in Present(u), x.owner \in {"drag", "receive"} PROVE Own(x, u)
    BY DEF Reached
  <2>1. x \in Left(s) \cup {Notice, r} BY <1>6, <1>10 DEF Shown
  <2>2. x # Notice BY RequestFields
  <2>3. CASE x = r BY <1>3, <1>10, <2>3 DEF Own
  <2>4. CASE x \in Left(s)
    <3>1. ~s.closing /\ x \in Present(s) BY <2>4 DEF Left
    <3>2. x.id = s.held[x.owner] BY <1>1, <3>1 DEF Reached, Own
    <3>3. x \in Requests BY <1>1, <3>1, PresentRequests
    <3>4. x.owner # o BY <3>2, <3>3, RequestFields, KindsApart
    <3>5. u.held[x.owner] = s.held[x.owner] BY <1>6, <1>10, <3>4, KindsApart DEF Shown
    <3> QED BY <3>2, <3>5 DEF Own
  <2> QED BY <2>1, <2>2, <2>3, <2>4
<1>12. Len(u.pending) <= MaxQueued
  <2>1. /\ Len(t.pending) \in Nat /\ Len(s.pending) \in Nat /\ MaxQueued \in Nat
        /\ Len(t.pending) <= Len(s.pending) /\ Len(s.pending) <= MaxQueued
    BY <1>1, <1>6, <1>7, IslandFields, LenProperties, IslandAssumption DEF Shown, Sound
  <2> QED BY <1>10, <2>1
<1>13. Sound(u) BY <1>8, <1>10, <1>11, <1>12 DEF Sound
<1> QED BY <1>2, <1>5, <1>9, <1>13 DEF ShowHeld, Keeping

\* An owner that lets go leaves nothing but what is on its way out.
LEMMA DropFacts ==
  ASSUME NEW s, Sound(s), NEW o \in Owners \ {"status"}
  PROVE  Sound(Drop(s, o)) /\ Drop(s, o).held[o] = 0
<1>1. s \in Islands /\ Good(s) /\ s.held[o] \in Nat BY IslandFields DEF Sound
<1>2. CASE s.held[o] = 0 BY <1>2 DEF Drop
<1>3. CASE s.held[o] # 0
  <2>1. PICK i : i = s.held[o] OBVIOUS
  <2>2. i \in Nat \ {0} BY <1>1, <1>3, <2>1
  <2>3. PICK t : t = Dismiss(s, i) OBVIOUS
  <2>4. Calmed(s, t) /\ (t.closing \/ Without(t, i)) BY <1>1, <2>2, <2>3, DismissFacts
  <2>5. Sound(t) /\ t \in Islands BY <2>4, CalmSound DEF Calmed
  <2>6. PICK u : u = Keeping(t, o, 0) OBVIOUS
  <2>7. /\ u \in Islands /\ u.held[o] = 0
        /\ \A p \in Owners \ {"status", o} : u.held[p] = t.held[p]
        /\ u.closing = t.closing /\ u.pending = t.pending
        /\ Present(u) = Present(t) /\ (Good(t) => Good(u))
    <3>1. Handed(t, o, 0, u) BY <2>5, <2>6, HeldGiven
    <3> QED BY <3>1 DEF Handed
  <2>8. Reached(u)
    <3> SUFFICES ASSUME NEW x \in Present(u), x.owner \in {"drag", "receive"} PROVE Own(x, u)
      BY DEF Reached
    <3>1. Own(x, t) BY <2>5, <2>7 DEF Sound, Reached
    <3>2. CASE x.owner # o
      <4>1. u.held[x.owner] = t.held[x.owner] BY <2>7, <3>2, KindsApart
      <4> QED BY <2>7, <3>1, <4>1 DEF Own
    <3>3. CASE x.owner = o
      <4>1. t.held[o] = i BY <2>1, <2>4, <3>3 DEF Calmed, Rest
      <4>2. ~Without(t, i) BY <2>2, <2>7, <3>1, <3>3, <4>1 DEF Own, Without
      <4> QED BY <2>4, <2>7, <3>3, <4>2 DEF Own
    <3> QED BY <3>2, <3>3
  <2>9. Sound(u) BY <2>5, <2>7, <2>8 DEF Sound
  <2>10. Drop(s, o) = u BY <1>3, <2>1, <2>3, <2>6 DEF Drop, Keeping
  <2> QED BY <2>7, <2>9, <2>10
<1> QED BY <1>2, <1>3

LEMMA ShowKindNowFacts ==
  ASSUME NEW s, Sound(s), NEW k \in Kinds
  PROVE  Sound(ShowKindNow(s, k))
<1>1. k \in Owners \ {"status"} BY KindsApart DEF Owners
<1>2. Sound(Drop(s, k)) BY <1>1, DropFacts
<1>3. Sound(ShowHeld(Drop(s, k), k, FALSE)) BY <1>1, <1>2, ShowHeldFacts
<1> QED BY <1>3 DEF ShowKindNow

LEMMA FlushKindFacts ==
  ASSUME NEW s, Sound(s), NEW j
  PROVE  Sound(FlushKind(s, j))
<1>1. CASE j \in DOMAIN KindOrder /\ KindOrder[j] \in flush
  <2>1. KindOrder[j] \in Kinds BY <1>1 DEF Kinds, ToSet
  <2> QED BY <1>1, <2>1, ShowKindNowFacts DEF FlushKind
<1>2. CASE ~(j \in DOMAIN KindOrder /\ KindOrder[j] \in flush) BY <1>2 DEF FlushKind
<1> QED BY <1>1, <1>2

-----------------------------------------------------------------------------
(* The invariant holds.                                                    *)

LEMMA InitGood == Init => Inv
<1> SUFFICES ASSUME Init PROVE Inv OBVIOUS
<1>1. isl = Empty BY DEF Init
<1>2. [o \in Owners \ {"status"} |-> 0] \in [Owners \ {"status"} -> Nat] OBVIOUS
<1>3. <<>> \in Seq(Requests) /\ <<>> \in Seq(Notices) /\ Len(<<>>) = 0 /\ DOMAIN <<>> = {}
  BY LenProperties
<1>4. /\ isl \in Islands /\ isl.current = None /\ isl.overlay = None /\ isl.queue = <<>>
      /\ ~isl.closing /\ ~isl.close /\ isl.pending = <<>>
  BY <1>1, <1>2, <1>3 DEF Empty, Islands
<1>5. Present(isl) = {} BY <1>3, <1>4, PresentHas
<1>6. Good(isl) BY <1>3, <1>4 DEF Good, Closes, Based, Overed, Fenced, Told, Apart
<1>7. Reached(isl) BY <1>5 DEF Reached
<1>8. IslandInv BY <1>3, <1>4, <1>6, <1>7, IslandAssumption DEF IslandInv, Sound
<1>9. ClientsInv BY DEF Init, ClientsInv
<1> QED BY <1>8, <1>9 DEF Inv

LEMMA NextKeeps == Inv /\ [Next]_vars => Inv'
<1> SUFFICES ASSUME Inv, [Next]_vars PROVE Inv' OBVIOUS
<1>1. /\ Sound(isl) /\ isl \in Islands /\ Good(isl) /\ ClientsInv /\ IslandInv
      /\ "drag" \in Owners \ {"status"} /\ "receive" \in Owners \ {"status"}
  BY KindsApart DEF Inv, IslandInv, Sound
<1>2. CASE UNCHANGED vars
  BY <1>1, <1>2 DEF vars, clients, Inv, IslandInv, ClientsInv
<1>3. CASE Timers
  <2>1. Calmed(isl, isl')
    <3>1. CASE BaseTimer BY <1>1, <3>1, ExpireBaseFacts DEF BaseTimer
    <3>2. CASE OverlayTimer BY <1>1, <3>2, ExpireOverlayFacts DEF OverlayTimer
    <3>3. CASE CloseTimer BY <1>1, <3>3, FinishCloseFacts DEF CloseTimer
    <3> QED BY <1>3, <3>1, <3>2, <3>3 DEF Timers
  <2>2. IslandInv' BY <1>1, <2>1, CalmSound DEF IslandInv
  <2>3. ClientsInv' BY <1>1, <1>3 DEF Timers, clients, ClientsInv
  <2> QED BY <2>2, <2>3 DEF Inv
<1>4. ASSUME NEW n \in Notices, Tell(n) PROVE Inv'
  <2>1. IslandInv' BY <1>1, <1>4, NotifyFacts DEF Tell
  <2>2. ClientsInv' BY <1>1, <1>4 DEF Tell, clients, ClientsInv
  <2> QED BY <2>1, <2>2 DEF Inv
<1>5. CASE DragBegins
  <2>1. Sound(IF isl.held["drag"] # 0 THEN isl ELSE ShowHeld(isl, "drag", TRUE))
    BY <1>1, ShowHeldFacts
  <2>2. IslandInv' BY <1>5, <2>1 DEF DragBegins, IslandInv
  <2>3. ClientsInv' BY <1>1, <1>5 DEF DragBegins, ClientsInv
  <2> QED BY <2>2, <2>3 DEF Inv
<1>6. CASE DragEnds
  <2>1. IslandInv' BY <1>1, <1>6, DropFacts DEF DragEnds, IslandInv
  <2>2. ClientsInv' BY <1>1, <1>6 DEF DragEnds, ClientsInv
  <2> QED BY <2>1, <2>2 DEF Inv
<1>7. ASSUME NEW inf \in BOOLEAN PROVE Sound(ShowHeld(Drop(isl, "receive"), "receive", inf))
  <2>1. Sound(Drop(isl, "receive")) /\ Drop(isl, "receive").held["receive"] = 0
    BY <1>1, DropFacts
  <2> QED BY <1>1, <2>1, ShowHeldFacts
<1>8. CASE WindowOpens
  <2>1. IslandInv' BY <1>1, <1>7, <1>8 DEF WindowOpens, IslandInv
  <2>2. ClientsInv' BY <1>1, <1>8 DEF WindowOpens, ClientsInv
  <2> QED BY <2>1, <2>2 DEF Inv
<1>9. CASE WindowCloses
  <2>1. IslandInv' BY <1>1, <1>7, <1>9 DEF WindowCloses, ShowResult, IslandInv
  <2>2. ClientsInv' BY <1>1, <1>9 DEF WindowCloses, ShowResult, ClientsInv
  <2> QED BY <2>1, <2>2 DEF Inv
<1>10. CASE FileReceived
  <2>1. IslandInv' BY <1>1, <1>7, <1>10 DEF FileReceived, ShowResult, IslandInv
  <2>2. ClientsInv' BY <1>1, <1>10 DEF FileReceived, ShowResult, ClientsInv
  <2> QED BY <2>1, <2>2 DEF Inv
<1>11. CASE ResultTimer
  <2>1. IslandInv' BY <1>1, <1>11, DropFacts DEF ResultTimer, IslandInv
  <2>2. ClientsInv' BY <1>1, <1>11 DEF ResultTimer, ClientsInv
  <2> QED BY <2>1, <2>2 DEF Inv
<1>12. ASSUME NEW k \in Kinds, KindChanges(k) PROVE Inv'
  BY <1>1, <1>12 DEF KindChanges, Inv, IslandInv, ClientsInv
<1>13. ASSUME NEW k \in Kinds, KindEnds(k) PROVE Inv'
  <2>1. k \in Owners \ {"status"} BY KindsApart DEF Owners
  <2>2. IslandInv' BY <1>1, <1>13, <2>1, DropFacts DEF KindEnds, IslandInv
  <2>3. ClientsInv' BY <1>1, <1>13 DEF KindEnds, ClientsInv
  <2> QED BY <2>2, <2>3 DEF Inv
<1>14. CASE NotifyTimer
  <2>1. Sound(FlushKind(FlushKind(FlushKind(isl, 1), 2), 3))
    <3>1. Sound(FlushKind(isl, 1)) BY <1>1, FlushKindFacts
    <3>2. Sound(FlushKind(FlushKind(isl, 1), 2)) BY <3>1, FlushKindFacts
    <3> QED BY <3>2, FlushKindFacts
  <2>2. IslandInv' BY <1>14, <2>1 DEF NotifyTimer, IslandInv
  <2>3. ClientsInv' BY <1>1, <1>14 DEF NotifyTimer, ClientsInv
  <2> QED BY <2>2, <2>3 DEF Inv
<1> QED
  BY <1>2, <1>3, <1>4, <1>5, <1>6, <1>8, <1>9, <1>10, <1>11, <1>12, <1>13, <1>14 DEF Next

\* On the island and with its clients the invariant holds, for every set of
\* notices, every bound and up to three kinds of stream.
THEOREM IslandInvCorrect == Spec => []Inv
<1> QED BY InitGood, NextKeeps, PTL DEF Spec

\* Finite content always has its timer and a closing island its animation,
\* whichever slot interrupted whichever function of DynamicIslandService.
THEOREM TimerBackedHolds == Spec => []TimerBacked
<1>1. Inv => TimerBacked
  <2> SUFFICES ASSUME Inv PROVE TimerBacked OBVIOUS
  <2>1. isl \in Islands /\ Good(isl) /\ Len(isl.pending) <= MaxQueued /\ ClientsInv
    BY DEF Inv, IslandInv, Sound
  <2>2. \A r \in Present(isl) : RequestOK(r)
    BY <2>1, PresentRequests, RequestFields DEF RequestOK
  <2>3. TypeOK BY <2>1, <2>2, IslandFields DEF ClientsInv, TypeOK
  <2> QED BY <2>1, <2>3 DEF TimerBacked, Good, Closes, Based, Overed
<1> QED BY <1>1, IslandInvCorrect, PTL

\* Nothing waits behind an empty or a closing island, and no notice of
\* StatusNotifications waits where no notice is shown.
THEOREM QueueBehindContentHolds == Spec => []QueueBehindContent
<1>1. Inv => QueueBehindContent
  BY DEF Inv, IslandInv, Sound, Good, Fenced, Told, QueueBehindContent
<1> QED BY <1>1, IslandInvCorrect, PTL

\* Drag and drop and KDEConnectReceive can always dismiss what they show.
THEOREM OwnersHoldTheirsHolds == Spec => []OwnersHoldTheirs
<1>1. Inv => OwnersHoldTheirs
  BY DEF Inv, IslandInv, Sound, Reached, Own, OwnersHoldTheirs
<1> QED BY <1>1, IslandInvCorrect, PTL
=============================================================================
