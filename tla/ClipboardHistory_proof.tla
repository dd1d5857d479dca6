----------------------- MODULE ClipboardHistory_proof -----------------------
(***************************************************************************)
(* Proofs about ClipboardHistory for any contents, limits, queue length    *)
(* and number of rows: the list shows no ghosts, its pins settle to those  *)
(* of the table, a settled pin survives, nothing but an unpin parts list,  *)
(* table and entry limit, and no pruning takes the row just inserted.      *)
(***************************************************************************)
EXTENDS ClipboardHistory, FiniteSetTheorems, SequenceTheorems, WellFoundedInduction, TLAPS

-----------------------------------------------------------------------------
(* The inductive invariant.                                                *)

\* A setPin that makes the pin of row i `to` is still to run.
Queued(i, to) ==
  \E k \in 1 .. Len(queue) :
    queue[k].kind = "pin" /\ queue[k].id = i /\ queue[k].to = to

\* AUTOINCREMENT: no row has, or had, the id given next.
Fresh == stored \cup shown \subseteq 1 .. nextId - 1

\* The list is ahead of the table only by what is queued.
GhostsReload == Pending("reload") = {} => shown \subseteq stored

PinsBacked ==
  \A i \in shown \cap stored :
    /\ i \in shownPins /\ i \notin pins => Queued(i, TRUE)
    /\ i \notin shownPins /\ i \in pins => Queued(i, FALSE)

HistoryInv == TypeOK /\ Fresh /\ GhostsReload /\ PinsBacked

-----------------------------------------------------------------------------
(* The event queue.                                                        *)

LEMMA HistoryBounds == {PruneRounds, MaxId, MaxClock, MaxQueue} \subseteq Nat /\ None \notin Contents
  BY HistoryAssumption, Zenon

LEMMA EventsTyped ==
  /\ \A e \in Events :
       /\ e.kind \in {"selection", "pin", "bump", "reload"}
       /\ e.kind = "selection" => e.content \in Contents
       /\ e.kind = "pin" => e.id \in Ids /\ e.to \in BOOLEAN
       /\ e.kind = "bump" => e.id \in Ids
  /\ \A c \in Contents : [kind |-> "selection", content |-> c] \in Events
  /\ \A i \in Ids, to \in BOOLEAN : [kind |-> "pin", id |-> i, to |-> to] \in Events
  /\ \A i \in Ids : [kind |-> "bump", id |-> i] \in Events
  /\ [kind |-> "reload"] \in Events
  BY DEF Events

LEMMA PostFacts ==
  ASSUME TypeOK, NEW e \in Events, Post(e)
  PROVE  /\ queue' \in Seq(Events) /\ Len(queue') <= MaxQueue
         /\ \A k \in 1 .. Len(queue) : k \in 1 .. Len(queue') /\ queue'[k] = queue[k]
         /\ Len(queue) + 1 \in 1 .. Len(queue') /\ queue'[Len(queue) + 1] = e
<1>1. queue \in Seq(Events) /\ Len(queue) < MaxQueue /\ queue' = Append(queue, e)
  BY DEF TypeOK, Post
<1>2. /\ queue' \in Seq(Events) /\ Len(queue') = Len(queue) + 1
      /\ \A k \in 1 .. Len(queue) : queue'[k] = queue[k]
      /\ queue'[Len(queue) + 1] = e
  BY <1>1, AppendProperties
<1>3. Len(queue) \in Nat /\ MaxQueue \in Nat BY <1>1, LenProperties, HistoryBounds
<1> QED BY <1>1, <1>2, <1>3

LEMMA DequeueFacts ==
  ASSUME TypeOK, NEW kind, Dequeue(kind)
  PROVE  /\ queue' \in Seq(Events) /\ Len(queue') <= MaxQueue
         /\ Head(queue) \in Events /\ Head(queue).kind = kind
         /\ \A k \in 1 .. Len(queue) :
              \/ k = 1 /\ queue[k] = Head(queue)
              \/ k - 1 \in 1 .. Len(queue') /\ queue'[k - 1] = queue[k]
<1>1. /\ queue \in Seq(Events) /\ Len(queue) <= MaxQueue /\ queue # <<>>
      /\ queue' = Tail(queue) /\ Head(queue).kind = kind
  BY DEF TypeOK, Dequeue
<1>2. /\ Head(queue) \in Events /\ Head(queue) = queue[1]
      /\ queue' \in Seq(Events) /\ Len(queue') = Len(queue) - 1
      /\ \A k \in 1 .. Len(queue') : queue'[k] = queue[k + 1]
  BY <1>1, HeadTailProperties
<1>3. Len(queue) \in Nat /\ Len(queue) # 0 /\ MaxQueue \in Nat
  BY <1>1, LenProperties, EmptySeq, HistoryBounds
<1>4. ASSUME NEW k \in 1 .. Len(queue), k # 1
      PROVE  k - 1 \in 1 .. Len(queue') /\ queue'[k - 1] = queue[k]
  BY <1>2, <1>3, <1>4
<1> QED BY <1>1, <1>2, <1>3, <1>4

-----------------------------------------------------------------------------
(* Type correctness.                                                       *)

\* What a change of the table leaves of contents and stamps is typed.
LEMMA KeptTyped ==
  ASSUME NEW S, NEW none \in S, NEW f \in [Ids -> S]
  PROVE  Kept(f, none) \in [Ids -> S]
  BY DEF Kept

LEMMA DeleteTyped ==
  ASSUME TypeOK, NEW D, NEW S, Delete(D, S), queue' \in Seq(Events), Len(queue') <= MaxQueue
  PROVE  TypeOK'
<1>1. stored' \subseteq Ids /\ pins' \subseteq stored' /\ stored' \subseteq stored
      /\ shown' \subseteq Ids /\ shownPins' \subseteq shown'
  BY DEF Delete, TypeOK
<1>2. None \in Contents \cup {None} /\ 0 \in 0 .. MaxClock BY HistoryBounds
<1>3. content' \in [Ids -> Contents \cup {None}] /\ stamp' \in [Ids -> 0 .. MaxClock]
  BY <1>2, KeptTyped DEF Delete, TypeOK
<1>4. \A i \in stored' : content'[i] \in Contents \ Blanks
  BY <1>1 DEF Delete, Kept, TypeOK
<1> QED BY <1>1, <1>3, <1>4 DEF Delete, TypeOK

\* A pruned table and list, of rows S with contents c and stamps t.
LEMMA PruneTyped ==
  ASSUME pins \subseteq stored, shownPins \subseteq shown,
         NEW S \in SUBSET Ids, NEW c \in [Ids -> Contents \cup {None}],
         NEW t \in [Ids -> 0 .. MaxClock], NEW sh \in SUBSET Ids,
         stored \subseteq S, shown \subseteq sh,
         \A i \in S : c[i] \in Contents \ Blanks,
         Prune(S, t, c, sh), pins' = pins,
         content' = Kept(c, None), stamp' = Kept(t, 0)
  PROVE  /\ stored' \subseteq Ids /\ pins' \subseteq stored'
         /\ shown' \subseteq Ids /\ shownPins' \subseteq shown'
         /\ content' \in [Ids -> Contents \cup {None}] /\ stamp' \in [Ids -> 0 .. MaxClock]
         /\ \A i \in stored' : content'[i] \in Contents \ Blanks
<1>1. PICK V1, V2 \in SUBSET (S \ pins) :
        /\ stored' = S \ (V1 \cup V2) /\ shown' = sh \ (V1 \cup V2)
        /\ shownPins' = shownPins \ (V1 \cup V2)
  BY DEF Prune
<1>2. None \in Contents \cup {None} /\ 0 \in 0 .. MaxClock BY HistoryBounds
<1>3. content' \in [Ids -> Contents \cup {None}] /\ stamp' \in [Ids -> 0 .. MaxClock]
  BY <1>2, KeptTyped
<1>4. \A i \in stored' : content'[i] \in Contents \ Blanks
  BY <1>1 DEF Kept
<1> QED BY <1>1, <1>3, <1>4

LEMMA InsertTyped ==
  ASSUME TypeOK, NEW c \in Contents \ Blanks, Insert(c),
         queue' \in Seq(Events), Len(queue') <= MaxQueue, guard' \in Contents \cup {None}
  PROVE  TypeOK'
<1> DEFINE t == [stamp EXCEPT ![nextId] = clock']
           n == [content EXCEPT ![nextId] = c]
<1>1. /\ nextId \in Ids /\ nextId' \in 1 .. MaxId + 1 /\ clock' \in 0 .. MaxClock
      /\ limits' = limits
  BY HistoryBounds DEF Insert, TypeOK, Ids
<1>2. t \in [Ids -> 0 .. MaxClock] /\ n \in [Ids -> Contents \cup {None}]
  BY <1>1 DEF TypeOK
<1>3. \A i \in stored \cup {nextId} : n[i] \in Contents \ Blanks
  BY <1>1 DEF TypeOK
<1>4. /\ Prune(stored \cup {nextId}, t, n, shown \cup {nextId}) /\ pins' = pins
      /\ stamp' = Kept(t, 0) /\ content' = Kept(n, None)
  BY DEF Insert
<1> HIDE DEF t, n
<1>5. /\ stored \cup {nextId} \in SUBSET Ids /\ shown \cup {nextId} \in SUBSET Ids
      /\ pins \subseteq stored /\ shownPins \subseteq shown
  BY <1>1 DEF TypeOK
<1>6. /\ stored' \subseteq Ids /\ pins' \subseteq stored'
      /\ shown' \subseteq Ids /\ shownPins' \subseteq shown'
      /\ content' \in [Ids -> Contents \cup {None}] /\ stamp' \in [Ids -> 0 .. MaxClock]
      /\ \A i \in stored' : content'[i] \in Contents \ Blanks
  BY <1>2, <1>3, <1>4, <1>5, PruneTyped
<1> QED BY <1>1, <1>6 DEF TypeOK

LEMMA HandlersTyped ==
  ASSUME TypeOK, HandleSelection \/ HandlePin \/ HandleBump \/ HandleReload
  PROVE  TypeOK'
<1>1. CASE HandleSelection
  <2>1. /\ queue' \in Seq(Events) /\ Len(queue') <= MaxQueue /\ Head(queue).content \in Contents
        /\ guard' = None
    BY <1>1, DequeueFacts, EventsTyped DEF HandleSelection
  <2>2. CASE UNCHANGED <<table, list, limits, nextId, clock>>
    BY <2>1, <2>2 DEF TypeOK, table, list
  <2>3. CASE Head(queue).content \notin Blanks /\ Insert(Head(queue).content)
    BY <2>1, <2>3, InsertTyped
  <2> QED BY <1>1, <2>2, <2>3 DEF HandleSelection
<1>2. CASE HandlePin
  <2>1. queue' \in Seq(Events) /\ Len(queue') <= MaxQueue
    BY <1>2, DequeueFacts DEF HandlePin
  <2>2. pins' \subseteq stored /\ shownPins' \subseteq shown
    BY <1>2 DEF HandlePin, TypeOK
  <2> QED BY <1>2, <2>1, <2>2 DEF HandlePin, TypeOK, list
<1>3. CASE HandleBump
  <2>1. queue' \in Seq(Events) /\ Len(queue') <= MaxQueue
    BY <1>3, DequeueFacts DEF HandleBump
  <2>2. clock' \in 0 .. MaxClock BY <1>3, HistoryBounds DEF HandleBump, TypeOK
  <2>3. stamp' \in [Ids -> 0 .. MaxClock] BY <1>3, <2>2 DEF HandleBump, TypeOK
  <2> QED BY <1>3, <2>1, <2>2, <2>3 DEF HandleBump, TypeOK, list
<1>4. CASE HandleReload
  <2>1. queue' \in Seq(Events) /\ Len(queue') <= MaxQueue
    BY <1>4, DequeueFacts DEF HandleReload
  <2> QED BY <1>4, <2>1 DEF HandleReload, TypeOK, table
<1> QED BY <1>1, <1>2, <1>3, <1>4

LEMMA CallsTyped ==
  ASSUME TypeOK,
         \/ \E c \in Contents : Arrive(c) \/ CopySelection(c)
         \/ \E i \in Ids : Copy(i) \/ Pin(i) \/ Remove(i)
         \/ \E S \in SUBSET Ids : RemoveMany(S)
         \/ ClearUnpinned \/ ClearAll
         \/ \E l \in Limits : SetLimits(l)
         \/ Restart
  PROVE  TypeOK'
<1>0. queue \in Seq(Events) /\ Len(queue) <= MaxQueue BY DEF TypeOK
<1>1. ASSUME NEW c \in Contents, Arrive(c) PROVE TypeOK'
  <2>1. queue' \in Seq(Events) /\ Len(queue') <= MaxQueue
    BY <1>1, PostFacts, EventsTyped DEF Arrive
  <2> QED BY <1>1, <2>1 DEF Arrive, TypeOK, table, list
<1>2. ASSUME NEW c \in Contents, CopySelection(c) PROVE TypeOK'
  BY <1>2 DEF CopySelection, TypeOK, table, list
<1>3. ASSUME NEW i \in Ids, Copy(i) PROVE TypeOK'
  <2>1. queue' \in Seq(Events) /\ Len(queue') <= MaxQueue
    BY <1>0, <1>3, PostFacts, EventsTyped DEF Copy
  <2>2. guard' \in Contents BY <1>3 DEF Copy, TypeOK
  <2> QED BY <1>3, <2>1, <2>2 DEF Copy, TypeOK, table, list
<1>4. ASSUME NEW i \in Ids, Pin(i) PROVE TypeOK'
  <2>1. [kind |-> "pin", id |-> i, to |-> i \notin shownPins] \in Events
    BY EventsTyped
  <2>2. queue' \in Seq(Events) /\ Len(queue') <= MaxQueue
    BY <1>4, <2>1, PostFacts DEF Pin
  <2>3. shownPins' \subseteq shown BY <1>4 DEF Pin, TypeOK
  <2> QED BY <1>4, <2>2, <2>3 DEF Pin, TypeOK, table
<1>5. ASSUME NEW i \in Ids, Remove(i) PROVE TypeOK'
  BY <1>0, <1>5, DeleteTyped DEF Remove
<1>6. ASSUME NEW S \in SUBSET Ids, RemoveMany(S) PROVE TypeOK'
  BY <1>0, <1>6, DeleteTyped DEF RemoveMany
<1>7. ASSUME NEW D, Clear(D) PROVE TypeOK'
  <2>1. queue' \in Seq(Events) /\ Len(queue') <= MaxQueue
    BY <1>7, PostFacts, EventsTyped DEF Clear
  <2> QED BY <1>7, <2>1, DeleteTyped DEF Clear
<1>8. ASSUME NEW l \in Limits, SetLimits(l) PROVE TypeOK'
  <2>1. /\ stored \in SUBSET Ids /\ shown \in SUBSET Ids
        /\ pins \subseteq stored /\ shownPins \subseteq shown
        /\ stamp \in [Ids -> 0 .. MaxClock] /\ content \in [Ids -> Contents \cup {None}]
        /\ \A i \in stored : content[i] \in Contents \ Blanks
    BY DEF TypeOK
  <2>2. /\ Prune(stored, stamp, content, shown) /\ pins' = pins
        /\ content' = Kept(content, None) /\ stamp' = Kept(stamp, 0)
    BY <1>8 DEF SetLimits
  <2>3. /\ stored' \subseteq Ids /\ pins' \subseteq stored'
        /\ shown' \subseteq Ids /\ shownPins' \subseteq shown'
        /\ content' \in [Ids -> Contents \cup {None}] /\ stamp' \in [Ids -> 0 .. MaxClock]
        /\ \A i \in stored' : content'[i] \in Contents \ Blanks
    BY <2>1, <2>2, PruneTyped
  <2> QED BY <1>8, <2>3 DEF SetLimits, TypeOK
<1>9. CASE Restart
  <2>1. <<>> \in Seq(Events) /\ Len(<<>>) = 0 BY EmptySeq
  <2> QED BY <1>9, <2>1, HistoryBounds DEF Restart, TypeOK, table
<1> QED
  BY <1>1, <1>2, <1>3, <1>4, <1>5, <1>6, <1>7, <1>8, <1>9 DEF ClearUnpinned, ClearAll

LEMMA NextTyped == TypeOK /\ [Next]_vars => TypeOK'
<1>1. ASSUME TypeOK, UNCHANGED vars PROVE TypeOK'
  BY <1>1 DEF vars, table, list, TypeOK
<1> QED BY <1>1, HandlersTyped, CallsTyped DEF Next

LEMMA InitTyped == Init => TypeOK
<1> SUFFICES ASSUME Init PROVE TypeOK
  OBVIOUS
<1>1. <<>> \in Seq(Events) /\ Len(<<>>) = 0 BY EmptySeq
<1> QED BY <1>1, HistoryBounds DEF Init, TypeOK, Ids

-----------------------------------------------------------------------------
(* What a step of the queue leaves in it.                                  *)

LEMMA Posting ==
  ASSUME TypeOK, NEW e \in Events, Post(e)
  PROVE  /\ Pending("reload")' = {} => Pending("reload") = {}
         /\ e.kind = "reload" => Pending("reload")' # {}
         /\ \A i, to : Queued(i, to) => Queued(i, to)'
<1>1. /\ \A k \in 1 .. Len(queue) : k \in 1 .. Len(queue') /\ queue'[k] = queue[k]
      /\ Len(queue) + 1 \in 1 .. Len(queue') /\ queue'[Len(queue) + 1] = e
  BY PostFacts
<1> QED BY <1>1 DEF Pending, Queued

LEMMA PostingPin ==
  ASSUME TypeOK, NEW i \in Ids, NEW to \in BOOLEAN,
         Post([kind |-> "pin", id |-> i, to |-> to])
  PROVE  /\ Pending("reload")' = {} => Pending("reload") = {}
         /\ \A j, b : Queued(j, b) => Queued(j, b)'
         /\ Queued(i, to)'
<1> DEFINE e == [kind |-> "pin", id |-> i, to |-> to]
<1>1. e \in Events BY EventsTyped
<1>2. e.kind = "pin" /\ e.id = i /\ e.to = to OBVIOUS
<1>3. Post(e) OBVIOUS
<1> HIDE DEF e
<1>4. /\ Pending("reload")' = {} => Pending("reload") = {}
      /\ \A j, b : Queued(j, b) => Queued(j, b)'
  BY <1>1, <1>3, Posting
<1>5. Len(queue) + 1 \in 1 .. Len(queue') /\ queue'[Len(queue) + 1] = e
  BY <1>1, <1>3, PostFacts
<1>6. Queued(i, to)' BY <1>2, <1>5 DEF Queued
<1> QED BY <1>4, <1>6

LEMMA Dequeueing ==
  ASSUME TypeOK, NEW kind, Dequeue(kind)
  PROVE  /\ kind # "reload" => (Pending("reload")' = {} => Pending("reload") = {})
         /\ \A i, to : Queued(i, to) =>
              \/ Queued(i, to)'
              \/ kind = "pin" /\ Head(queue).id = i /\ Head(queue).to = to
<1>1. /\ Head(queue).kind = kind
      /\ \A k \in 1 .. Len(queue) :
           \/ k = 1 /\ queue[k] = Head(queue)
           \/ k - 1 \in 1 .. Len(queue') /\ queue'[k - 1] = queue[k]
  BY DequeueFacts
<1>2. ASSUME kind # "reload", NEW k \in 1 .. Len(queue), queue[k].kind = "reload"
      PROVE  Pending("reload")' # {}
  BY <1>1, <1>2 DEF Pending
<1>3. ASSUME NEW i, NEW to, Queued(i, to)
      PROVE  \/ Queued(i, to)'
             \/ kind = "pin" /\ Head(queue).id = i /\ Head(queue).to = to
  <2>1. PICK k \in 1 .. Len(queue) :
          queue[k].kind = "pin" /\ queue[k].id = i /\ queue[k].to = to
    BY <1>3 DEF Queued
  <2> QED BY <1>1, <2>1 DEF Queued
<1> QED BY <1>2, <1>3 DEF Pending

\* Table and list lose the same rows, unpinned ones, or the list loses more.
LEMMA InsertLoses ==
  ASSUME NEW c, Insert(c)
  PROVE  /\ stored' \cup shown' \subseteq stored \cup shown \cup {nextId}
         /\ nextId \in Ids /\ nextId' = nextId + 1
         /\ shown \subseteq stored => shown' \subseteq stored'
         /\ shownPins' \subseteq shownPins /\ pins' = pins
         /\ \A i \in shown' : i \in shownPins => i \in shownPins'
  BY DEF Insert, Prune

LEMMA LimitsLose ==
  ASSUME NEW l, SetLimits(l)
  PROVE  /\ stored' \subseteq stored /\ shown' \subseteq shown
         /\ shown \subseteq stored => shown' \subseteq stored'
         /\ shownPins' \subseteq shownPins /\ pins' = pins
         /\ \A i \in shown' : i \in shownPins => i \in shownPins'
         /\ UNCHANGED <<queue, nextId>>
  BY DEF SetLimits, Prune

-----------------------------------------------------------------------------
(* The inductive invariant.                                                *)

LEMMA SelectionKeeps ==
  ASSUME HistoryInv, HandleSelection
  PROVE  Fresh' /\ GhostsReload' /\ PinsBacked'
<1> USE DEF HistoryInv
<1>1. /\ Pending("reload")' = {} => Pending("reload") = {}
      /\ \A i, to : Queued(i, to) => Queued(i, to)'
  BY Dequeueing DEF HandleSelection
<1>2. CASE UNCHANGED <<table, list, limits, nextId, clock>>
  BY <1>1, <1>2 DEF Fresh, GhostsReload, PinsBacked, table, list
<1>3. ASSUME NEW c, Insert(c)
      PROVE  Fresh' /\ GhostsReload' /\ PinsBacked'
  <2>1. /\ stored' \cup shown' \subseteq stored \cup shown \cup {nextId}
        /\ nextId \in Nat \ {0} /\ nextId' = nextId + 1
        /\ shown \subseteq stored => shown' \subseteq stored'
        /\ shownPins' \subseteq shownPins /\ pins' = pins
        /\ \A i \in shown' : i \in shownPins => i \in shownPins'
    BY <1>3, InsertLoses DEF Ids
  <2>2. Fresh'
    <3>1. \A i \in stored \cup shown \cup {nextId} : i \in 1 .. nextId
      BY <2>1 DEF Fresh
    <3>2. nextId' - 1 = nextId BY <2>1
    <3> QED BY <2>1, <3>1, <3>2 DEF Fresh
  <2>3. GhostsReload' BY <1>1, <2>1 DEF GhostsReload
  <2>4. \A i \in shown' \cap stored' : i \in shown \cap stored \/ i = nextId
    BY <1>3 DEF Insert, Prune
  <2>5. nextId \notin pins /\ nextId \notin shownPins
    BY <2>1 DEF Fresh, TypeOK
  <2>6. PinsBacked' BY <1>1, <2>1, <2>4, <2>5 DEF PinsBacked
  <2> QED BY <2>2, <2>3, <2>6
<1> QED BY <1>2, <1>3 DEF HandleSelection

LEMMA DeferredKeep ==
  ASSUME HistoryInv, HandlePin \/ HandleBump \/ HandleReload
  PROVE  Fresh' /\ GhostsReload' /\ PinsBacked'
<1> USE DEF HistoryInv
<1>1. CASE HandlePin
  <2> DEFINE i == Head(queue).id
             to == Head(queue).to
  <2>1. /\ Pending("reload")' = {} => Pending("reload") = {}
        /\ \A j, b : Queued(j, b) => Queued(j, b)' \/ (i = j /\ to = b)
        /\ to \in BOOLEAN
    BY <1>1, Dequeueing, DequeueFacts, EventsTyped DEF HandlePin
  <2>2. /\ pins' = IF i \notin stored THEN pins ELSE IF to THEN pins \cup {i} ELSE pins \ {i}
        /\ shownPins' = IF i \notin shown THEN shownPins
                        ELSE IF to THEN shownPins \cup {i} ELSE shownPins \ {i}
        /\ UNCHANGED <<stored, shown, nextId>>
    BY <1>1 DEF HandlePin
  <2> HIDE DEF i, to
  <2>3. Fresh' /\ GhostsReload' BY <2>1, <2>2 DEF Fresh, GhostsReload
  <2>4. ASSUME NEW j \in shown \cap stored
        PROVE  /\ j \in shownPins' /\ j \notin pins' => Queued(j, TRUE)'
               /\ j \notin shownPins' /\ j \in pins' => Queued(j, FALSE)'
    <3>1. CASE j = i BY <2>1, <2>2, <3>1
    <3>2. CASE j # i
      <4>1. (j \in pins' <=> j \in pins) /\ (j \in shownPins' <=> j \in shownPins)
        BY <2>2, <3>2
      <4> QED BY <2>1, <3>2, <4>1 DEF PinsBacked
    <3> QED BY <3>1, <3>2
  <2> QED BY <2>2, <2>3, <2>4 DEF PinsBacked
<1>2. CASE HandleBump
  <2>1. /\ Pending("reload")' = {} => Pending("reload") = {}
        /\ \A i, to : Queued(i, to) => Queued(i, to)'
    BY <1>2, Dequeueing DEF HandleBump
  <2> QED BY <1>2, <2>1 DEF HandleBump, Fresh, GhostsReload, PinsBacked, list
<1>3. CASE HandleReload
  BY <1>3 DEF HandleReload, Fresh, GhostsReload, PinsBacked, table
<1> QED BY <1>1, <1>2, <1>3

LEMMA CallsKeep ==
  ASSUME HistoryInv,
         \/ \E c \in Contents : Arrive(c) \/ CopySelection(c)
         \/ \E i \in Ids : Copy(i) \/ Pin(i) \/ Remove(i)
         \/ \E S \in SUBSET Ids : RemoveMany(S)
         \/ ClearUnpinned \/ ClearAll
         \/ \E l \in Limits : SetLimits(l)
         \/ Restart
  PROVE  Fresh' /\ GhostsReload' /\ PinsBacked'
<1> USE DEF HistoryInv
<1>1. ASSUME UNCHANGED <<table, list, nextId>>,
             UNCHANGED queue \/ \E e \in Events : Post(e)
      PROVE  Fresh' /\ GhostsReload' /\ PinsBacked'
  <2>1. /\ Pending("reload")' = {} => Pending("reload") = {}
        /\ \A i, to : Queued(i, to) => Queued(i, to)'
    BY <1>1, Posting DEF Pending, Queued
  <2> QED BY <1>1, <2>1 DEF Fresh, GhostsReload, PinsBacked, table, list
<1>2. ASSUME NEW c \in Contents, Arrive(c) \/ CopySelection(c)
      PROVE  Fresh' /\ GhostsReload' /\ PinsBacked'
  BY <1>1, <1>2, EventsTyped DEF Arrive, CopySelection
<1>3. ASSUME NEW i \in Ids, Copy(i)
      PROVE  Fresh' /\ GhostsReload' /\ PinsBacked'
  BY <1>1, <1>3, EventsTyped DEF Copy
<1>4. ASSUME NEW i \in Ids, Pin(i)
      PROVE  Fresh' /\ GhostsReload' /\ PinsBacked'
  <2>1. PICK to \in BOOLEAN : /\ Post([kind |-> "pin", id |-> i, to |-> to])
                              /\ to <=> i \notin shownPins
    BY <1>4 DEF Pin
  <2>2. /\ Pending("reload")' = {} => Pending("reload") = {}
        /\ \A j, b : Queued(j, b) => Queued(j, b)'
        /\ Queued(i, to)'
    BY <2>1, PostingPin
  <2>3. /\ i \in shownPins => Queued(i, FALSE)'
        /\ i \notin shownPins => Queued(i, TRUE)'
    BY <2>1, <2>2
  <2>4. /\ UNCHANGED <<stored, pins, shown, nextId>>
        /\ i \in shownPins => shownPins' = shownPins \ {i}
        /\ i \notin shownPins => shownPins' = shownPins \cup {i}
    BY <1>4 DEF Pin, table
  <2>5. PinsBacked' BY <2>2, <2>3, <2>4 DEF PinsBacked
  <2> QED BY <2>2, <2>4, <2>5 DEF Fresh, GhostsReload
<1>5. ASSUME NEW D, NEW S, Delete(D, S), D \subseteq S, UNCHANGED queue
      PROVE  Fresh' /\ GhostsReload' /\ PinsBacked'
  BY <1>5 DEF Delete, Fresh, GhostsReload, PinsBacked, Pending, Queued
<1>6. ASSUME NEW i \in Ids, Remove(i)
      PROVE  Fresh' /\ GhostsReload' /\ PinsBacked'
  BY <1>5, <1>6 DEF Remove
<1>7. ASSUME NEW S \in SUBSET Ids, RemoveMany(S)
      PROVE  Fresh' /\ GhostsReload' /\ PinsBacked'
  <2>1. (S \ shownPins) \ pins \subseteq S \ shownPins OBVIOUS
  <2> QED BY <1>5, <1>7, <2>1 DEF RemoveMany
<1>8. ASSUME NEW D, Clear(D)
      PROVE  Fresh' /\ GhostsReload' /\ PinsBacked'
  <2>1. /\ Pending("reload")' # {}
        /\ \A i, to : Queued(i, to) => Queued(i, to)'
    BY <1>8, Posting, EventsTyped DEF Clear
  <2> QED BY <1>8, <2>1 DEF Clear, Delete, Fresh, GhostsReload, PinsBacked
<1>9. ASSUME NEW l \in Limits, SetLimits(l)
      PROVE  Fresh' /\ GhostsReload' /\ PinsBacked'
  BY <1>9, LimitsLose DEF Fresh, GhostsReload, PinsBacked, Pending, Queued
<1>10. CASE Restart
  BY <1>10 DEF Restart, Fresh, GhostsReload, PinsBacked, table
<1> QED
  BY <1>2, <1>3, <1>4, <1>6, <1>7, <1>8, <1>9, <1>10 DEF ClearUnpinned, ClearAll

LEMMA HistoryNextInv == HistoryInv /\ [Next]_vars => HistoryInv'
<1> SUFFICES ASSUME HistoryInv, [Next]_vars PROVE HistoryInv'
  OBVIOUS
<1>1. TypeOK' BY NextTyped DEF HistoryInv
<1>2. CASE UNCHANGED vars
  BY <1>1, <1>2 DEF HistoryInv, vars, table, list, Fresh, GhostsReload, PinsBacked, Pending,
     Queued
<1> QED BY <1>1, <1>2, SelectionKeeps, DeferredKeep, CallsKeep DEF HistoryInv, Next

LEMMA HistoryInitInv == Init => HistoryInv
  BY InitTyped DEF HistoryInv, Init, Fresh, GhostsReload, PinsBacked

\* The inductive invariant of the history, for any contents, limits and rows.
THEOREM HistoryInvCorrect == Spec => []HistoryInv
  BY HistoryInitInv, HistoryNextInv, PTL DEF Spec

\* What is on screen can be copied and opened: the list shows only stored rows
\* unless loadAllEntries is queued, whatever insert, pruneToLimit, remove,
\* removeMany and clear did to table and list in between.
THEOREM ShownIsStoredHolds == Spec => []ShownIsStored
<1>1. HistoryInv => ShownIsStored BY DEF HistoryInv, GhostsReload, ShownIsStored
<1> QED BY <1>1, HistoryInvCorrect, PTL

\* A row that list and table disagree about has a setPin of what the list shows
\* queued: with none queued for the row the two agree.
THEOREM PinsSettleHolds == Spec => []PinsSettle
<1>1. ASSUME NEW i, PendingPins(i) = {} PROVE ~Queued(i, TRUE) /\ ~Queued(i, FALSE)
  BY <1>1 DEF PendingPins, Pending, Queued
<1>2. HistoryInv => PinsSettle BY <1>1 DEF HistoryInv, PinsBacked, PinsSettle
<1> QED BY <1>2, HistoryInvCorrect, PTL

-----------------------------------------------------------------------------
(* Action properties.                                                      *)

LEMMA SettledStays ==
  ASSUME HistoryInv, Next, NEW i \in shownPins \cap stored,
         PendingPins(i) = {}, i \notin stored'
  PROVE  Remove(i) \/ ClearAll
<1>1. ~Queued(i, TRUE) BY DEF PendingPins, Pending, Queued
<1>2. i \in pins BY <1>1 DEF HistoryInv, PinsBacked, TypeOK
<1>3. ASSUME NEW c, Insert(c) PROVE FALSE BY <1>2, <1>3 DEF Insert, Prune
<1>4. ASSUME NEW l, SetLimits(l) PROVE FALSE BY <1>2, <1>4 DEF SetLimits, Prune
<1>5. CASE HandleSelection BY <1>3, <1>5 DEF HandleSelection, table
<1>6. CASE \/ \E c \in Contents : Arrive(c) \/ CopySelection(c)
           \/ HandlePin \/ HandleBump \/ HandleReload \/ Restart
           \/ \E j \in Ids : Copy(j) \/ Pin(j)
  BY <1>6 DEF Arrive, CopySelection, HandlePin, HandleBump, HandleReload, Restart, Copy, Pin,
     table
<1>7. ASSUME NEW j \in Ids, Remove(j) PROVE Remove(i)
  <2>1. i = j BY <1>7 DEF Remove, Delete
  <2> QED BY <1>7, <2>1
<1>8. ASSUME NEW S \in SUBSET Ids, RemoveMany(S) PROVE FALSE
  BY <1>2, <1>8 DEF RemoveMany, Delete
<1>9. CASE ClearUnpinned BY <1>2, <1>9 DEF ClearUnpinned, Clear, Delete
<1> QED BY <1>4, <1>5, <1>6, <1>7, <1>8, <1>9 DEF Next

\* Once setPin has run for it, an entry pinned on screen is safe from
\* pruneToLimit, removeMany and clearUnpinned in every order of these: only
\* remove of its id and clear delete it.
THEOREM SettledPinSurvivesHolds == Spec => SettledPinSurvives
<1>1. HistoryInv /\ [Next]_vars =>
        [\A i \in shownPins \cap stored :
           PendingPins(i) = {} /\ i \notin stored' => Remove(i) \/ ClearAll]_vars
  BY SettledStays
<1> QED BY <1>1, HistoryInvCorrect, PTL DEF Spec, SettledPinSurvives

\* A row that leaves the list but not the table has a setPin queued that
\* unpins it.
LEMMA HiddenRowUnpins ==
  ASSUME HistoryInv, Next, NEW i \in stored \cap shown, i \in stored' \ shown'
  PROVE  \E k \in PendingPins(i) : ~queue[k].to
<1>1. \E S \in SUBSET Ids : RemoveMany(S) /\ i \in S \ shownPins
  <2>1. ASSUME NEW c, Insert(c) PROVE FALSE BY <2>1 DEF Insert, Prune
  <2>2. ASSUME NEW l, SetLimits(l) PROVE FALSE BY <2>2 DEF SetLimits, Prune
  <2>3. CASE HandleSelection BY <2>1, <2>3 DEF HandleSelection, table, list
  <2>4. CASE \/ \E c \in Contents : Arrive(c) \/ CopySelection(c)
             \/ HandlePin \/ HandleBump \/ HandleReload \/ Restart
             \/ \E j \in Ids : Copy(j) \/ Pin(j) \/ Remove(j)
             \/ ClearUnpinned \/ ClearAll
    BY <2>4 DEF Arrive, CopySelection, HandlePin, HandleBump, HandleReload, Restart, Copy, Pin,
       Remove, ClearUnpinned, ClearAll, Clear, Delete, table, list
  <2>5. ASSUME NEW S \in SUBSET Ids, RemoveMany(S) PROVE i \in S \ shownPins
    BY <2>5 DEF RemoveMany, Delete
  <2> QED BY <2>2, <2>3, <2>4, <2>5 DEF Next
<1>2. i \in pins /\ i \notin shownPins BY <1>1 DEF RemoveMany, Delete
<1>3. Queued(i, FALSE) BY <1>2 DEF HistoryInv, PinsBacked
<1> QED BY <1>3 DEF Queued, PendingPins, Pending

\* Fewer unpinned rows stay within the limit.
LEMMA FewerWithin ==
  ASSUME HistoryInv, WithinLimit, limits' = limits,
         stored' \ pins' \subseteq stored \ pins
  PROVE  WithinLimit'
<1>1. IsFiniteSet(stored \ pins)
  <2>1. MaxId \in Nat BY HistoryBounds
  <2>2. IsFiniteSet(Ids) BY <2>1, FS_Interval DEF Ids
  <2> QED BY <2>2, FS_Subset DEF HistoryInv, TypeOK
<1>2. /\ Cardinality(stored' \ pins') \in Nat /\ Cardinality(stored \ pins) \in Nat
      /\ Cardinality(stored' \ pins') <= Cardinality(stored \ pins)
  BY <1>1, FS_Subset, FS_CardinalityType
<1>3. limits.entries \in Nat
  BY HistoryAssumption DEF HistoryInv, TypeOK, Limits
<1> QED BY <1>2, <1>3 DEF WithinLimit

\* pruneToLimit leaves the table within the limit.
LEMMA PrunedWithin ==
  ASSUME NEW S \in SUBSET Ids, NEW t, NEW c, NEW sh,
         Prune(S, t, c, sh), pins' = pins, limits' \in Limits
  PROVE  WithinLimit'
<1>1. PICK V1, V2 \in SUBSET (S \ pins) :
        CountVictims(V1, S \ pins, t) /\ stored' = S \ (V1 \cup V2)
  BY DEF Prune
<1> DEFINE free == S \ pins
           n == limits'.entries
<1>2. n \in Nat /\ MaxId \in Nat
  BY HistoryAssumption DEF Limits
<1>3. IsFiniteSet(free)
  <2>1. IsFiniteSet(Ids) BY <1>2, FS_Interval DEF Ids
  <2> QED BY <2>1, FS_Subset
<1>4. CASE n = 0 BY <1>4 DEF WithinLimit
<1>5. CASE n > 0
  <2>1. /\ Cardinality(V1) = IF Cardinality(free) > n THEN Cardinality(free) - n ELSE 0
        /\ V1 \subseteq free
    BY <1>1, <1>5 DEF CountVictims, Oldest
  <2>2. free \cap V1 = V1 /\ stored' \ pins' \subseteq free \ V1
    BY <1>1, <2>1
  <2>3. /\ IsFiniteSet(free \ V1) /\ Cardinality(free \ V1) = Cardinality(free) - Cardinality(V1)
        /\ Cardinality(free) \in Nat
    BY <1>3, <2>2, FS_Difference, FS_CardinalityType
  <2>4. Cardinality(free \ V1) <= n BY <1>2, <2>1, <2>3
  <2>5. /\ Cardinality(stored' \ pins') <= Cardinality(free \ V1)
        /\ Cardinality(stored' \ pins') \in Nat /\ Cardinality(free \ V1) \in Nat
    BY <2>2, <2>3, FS_Subset, FS_CardinalityType
  <2>6. Cardinality(stored' \ pins') <= n BY <1>2, <2>4, <2>5
  <2> QED BY <2>6 DEF WithinLimit
<1> QED BY <1>2, <1>4, <1>5

\* Every other step keeps the number of unpinned rows within the limit.
LEMMA WithinKept ==
  ASSUME HistoryInv, Next, WithinLimit
  PROVE  WithinLimit' \/ (HandlePin /\ ~Head(queue).to) \/ Restart
<1> USE DEF HistoryInv
<1>1. CASE HandleSelection
  <2>1. CASE UNCHANGED <<table, list, limits, nextId, clock>>
    BY <2>1, FewerWithin DEF table
  <2>2. ASSUME NEW c, Insert(c) PROVE WithinLimit'
    <3>1. stored \cup {nextId} \in SUBSET Ids /\ limits' \in Limits /\ pins' = pins
      BY <2>2 DEF Insert, TypeOK
    <3> QED BY <2>2, <3>1, PrunedWithin DEF Insert
  <2> QED BY <1>1, <2>1, <2>2 DEF HandleSelection
<1>2. CASE HandlePin /\ Head(queue).to
  <2>1. stored' \ pins' \subseteq stored \ pins /\ limits' = limits
    BY <1>2 DEF HandlePin
  <2> QED BY <2>1, FewerWithin
<1>3. CASE \/ \E c \in Contents : Arrive(c) \/ CopySelection(c)
           \/ HandleBump \/ HandleReload
           \/ \E i \in Ids : Copy(i) \/ Pin(i) \/ Remove(i)
           \/ \E S \in SUBSET Ids : RemoveMany(S)
           \/ ClearUnpinned \/ ClearAll
  <2>1. stored' \ pins' \subseteq stored \ pins /\ limits' = limits
    BY <1>3 DEF Arrive, CopySelection, HandleBump, HandleReload, Copy, Pin, Remove, RemoveMany,
       ClearUnpinned, ClearAll, Clear, Delete, table
  <2> QED BY <2>1, FewerWithin
<1>4. ASSUME NEW l \in Limits, SetLimits(l) PROVE WithinLimit'
  <2>1. stored \in SUBSET Ids /\ limits' \in Limits /\ pins' = pins
    BY <1>4 DEF SetLimits, TypeOK
  <2> QED BY <1>4, <2>1, PrunedWithin DEF SetLimits
<1> QED BY <1>1, <1>2, <1>3, <1>4 DEF Next

\* Of everything that changes list and table only an unpin parts them, and only
\* a stored unpin or a restart with other limits leaves more unpinned rows than
\* maxEntries.
THEOREM OnlyUnpinDisturbsHolds == Spec => OnlyUnpinDisturbs
<1>1. HistoryInv /\ [Next]_vars =>
        [/\ \A i \in stored \cap shown :
              i \in stored' \ shown' => \E k \in PendingPins(i) : ~queue[k].to
         /\ WithinLimit /\ ~WithinLimit' => (HandlePin /\ ~Head(queue).to) \/ Restart]_vars
  BY HiddenRowUnpins, WithinKept
<1> QED BY <1>1, HistoryInvCorrect, PTL DEF Spec, OnlyUnpinDisturbs

-----------------------------------------------------------------------------
(* Bytes: a sum over rows.                                                 *)

\* The row a sum over s takes next.
Some(s) == CHOOSE x \in s : TRUE

\* g is the sum of the sizes in c over the subsets of D.
Adds(g, D, c) ==
  g = [s \in SUBSET D |->
         IF s = {} THEN 0 ELSE Size[c[Some(s)]] + g[s \ {Some(s)}]]

\* A non-empty set of natural numbers has a least one.
LEMMA LeastNumber ==
  ASSUME NEW S \in SUBSET Nat, S # {}
  PROVE  \E x \in S : \A y \in S : x <= y
<1>1. PICK x \in S : \A y \in S : ~(<<y, x>> \in OpToRel(<, Nat))
  BY WFMin, NatLessThanWellFounded
<1>2. \A y \in S : ~(y < x) BY <1>1 DEF OpToRel
<1>3. \A y \in S : x <= y BY <1>2
<1> QED BY <1>3

\* Of some sets of elements of a finite set one has no smaller one among them.
LEMMA SmallestSet ==
  ASSUME NEW D, IsFiniteSet(D), NEW B \in SUBSET (SUBSET D), B # {}
  PROVE  \E s \in B : \A x \in s : s \ {x} \notin B
<1> DEFINE N == {n \in Nat : \E s \in B : Cardinality(s) = n}
<1>1. \A s \in B : IsFiniteSet(s) /\ Cardinality(s) \in Nat BY FS_Subset, FS_CardinalityType
<1>2. N \in SUBSET Nat /\ N # {} BY <1>1
<1>3. PICK n \in N : \A m \in N : n <= m BY <1>2, LeastNumber
<1>4. PICK s \in B : Cardinality(s) = n BY <1>3
<1>5. ASSUME NEW x \in s, s \ {x} \in B PROVE FALSE
  <2>1. Cardinality(s \ {x}) = Cardinality(s) - 1 BY <1>1, <1>4, <1>5, FS_RemoveElement
  <2>2. Cardinality(s \ {x}) \in N BY <1>1, <1>5
  <2>3. n <= Cardinality(s \ {x}) /\ n \in Nat BY <1>3, <2>2
  <2> HIDE DEF N
  <2> QED BY <1>4, <2>1, <2>3
<1> QED BY <1>4, <1>5

LEMMA AddsExists ==
  ASSUME NEW D, IsFiniteSet(D), NEW c
  PROVE  \E g : Adds(g, D, c)
<1> DEFINE Part(n) == {s \in SUBSET D : Cardinality(s) <= n}
           Upto(g, n) == g = [s \in Part(n) |->
             IF s = {} THEN 0 ELSE Size[c[Some(s)]] + g[s \ {Some(s)}]]
           Bad == {n \in Nat : ~ \E g : Upto(g, n)}
<1>1. \A s \in SUBSET D : IsFiniteSet(s) /\ Cardinality(s) \in Nat
  BY FS_Subset, FS_CardinalityType
<1>2. \A s \in SUBSET D : s # {} => Some(s) \in s BY DEF Some
<1>3. ASSUME Bad # {} PROVE FALSE
  <2>1. PICK n \in Bad : \A m \in Bad : n <= m
    <3>1. Bad \in SUBSET Nat OBVIOUS
    <3> HIDE DEF Bad
    <3> QED BY <1>3, <3>1, LeastNumber
  <2>2. n \in Nat /\ ~ \E g : Upto(g, n) BY <2>1
  <2>3. CASE n = 0
    <3>1. \A s \in Part(n) : s = {}
      <4>1. \A s \in SUBSET D : Cardinality(s) <= 0 => s = {} BY <1>1, FS_EmptySet
      <4> QED BY <2>3, <4>1
    <3>2. Upto([s \in Part(n) |-> 0], n) BY <3>1
    <3> QED BY <2>2, <3>2
  <2>4. CASE n > 0
    <3>1. n - 1 \in Nat /\ ~(n <= n - 1) BY <2>2, <2>4
    <3>2. n - 1 \notin Bad BY <2>1, <3>1
    <3>3. PICK g : Upto(g, n - 1) BY <3>1, <3>2
    <3> DEFINE h == [s \in Part(n) |->
                       IF s = {} THEN 0 ELSE Size[c[Some(s)]] + g[s \ {Some(s)}]]
    <3>4. \A r \in Part(n - 1) : r \in Part(n) /\ h[r] = g[r]
      <4>1. \A r \in Part(n - 1) : r \in Part(n) BY <1>1, <2>2, <3>1
      <4>2. \A r \in Part(n - 1) :
              g[r] = IF r = {} THEN 0 ELSE Size[c[Some(r)]] + g[r \ {Some(r)}]
        BY <3>3
      <4> QED BY <4>1, <4>2
    <3>5. ASSUME NEW s \in Part(n), s # {} PROVE s \ {Some(s)} \in Part(n - 1)
      <4>1. Some(s) \in s BY <1>2, <3>5
      <4>2. Cardinality(s \ {Some(s)}) = Cardinality(s) - 1
        BY <1>1, <4>1, FS_RemoveElement
      <4>3. Cardinality(s) \in Nat /\ Cardinality(s) <= n BY <1>1
      <4> QED BY <2>2, <4>2, <4>3
    <3>6. h = [s \in Part(n) |-> IF s = {} THEN 0 ELSE Size[c[Some(s)]] + h[s \ {Some(s)}]]
      <4>1. \A s \in Part(n) :
              h[s] = IF s = {} THEN 0 ELSE Size[c[Some(s)]] + h[s \ {Some(s)}]
        <5>1. \A s \in Part(n) :
                h[s] = IF s = {} THEN 0 ELSE Size[c[Some(s)]] + g[s \ {Some(s)}]
          OBVIOUS
        <5> HIDE DEF h, Part
        <5> QED BY <3>4, <3>5, <5>1
      <4> HIDE DEF Part
      <4>2. h = [s \in Part(n) |-> h[s]] OBVIOUS
      <4> HIDE DEF h
      <4> QED BY <4>1, <4>2
    <3> QED BY <2>2, <3>6
  <2> QED BY <2>2, <2>3, <2>4
<1>4. PICK g : Upto(g, Cardinality(D)) BY <1>1, <1>3
<1>5. Part(Cardinality(D)) = SUBSET D BY <1>1, FS_Subset
<1> QED BY <1>4, <1>5 DEF Adds

LEMMA AddsStep ==
  ASSUME NEW D, NEW c, NEW g, Adds(g, D, c)
  PROVE  /\ g[{}] = 0
         /\ \A s \in SUBSET D : s # {} =>
              Some(s) \in s /\ g[s] = Size[c[Some(s)]] + g[s \ {Some(s)}]
<1>1. \A s \in SUBSET D :
        g[s] = IF s = {} THEN 0 ELSE Size[c[Some(s)]] + g[s \ {Some(s)}]
  BY DEF Adds
<1>2. \A s \in SUBSET D : s # {} => Some(s) \in s BY DEF Some
<1> QED BY <1>1, <1>2

LEMMA AddsNat ==
  ASSUME NEW D, IsFiniteSet(D), NEW c, NEW g, Adds(g, D, c),
         \A x \in D : Size[c[x]] \in Nat
  PROVE  \A s \in SUBSET D : g[s] \in Nat
<1> DEFINE B == {s \in SUBSET D : g[s] \notin Nat}
<1>1. ASSUME B # {} PROVE FALSE
  <2>1. B \in SUBSET (SUBSET D) OBVIOUS
  <2> HIDE DEF B
  <2>2. PICK s \in B : \A x \in s : s \ {x} \notin B BY <1>1, <2>1, SmallestSet
  <2>3. s \in SUBSET D /\ g[s] \notin Nat BY DEF B
  <2>4. s # {} BY <2>3, AddsStep
  <2>5. Some(s) \in s /\ g[s] = Size[c[Some(s)]] + g[s \ {Some(s)}]
    <3>1. \A x \in SUBSET D : x # {} =>
            Some(x) \in x /\ g[x] = Size[c[Some(x)]] + g[x \ {Some(x)}]
      BY AddsStep
    <3> QED BY ONLY <2>3, <2>4, <3>1
  <2>6. g[s \ {Some(s)}] \in Nat BY <2>2, <2>3, <2>5 DEF B
  <2>7. Some(s) \in D /\ Size[c[Some(s)]] \in Nat BY <2>3, <2>5
  <2> QED BY <2>3, <2>5, <2>6, <2>7
<1> QED BY <1>1 DEF B

\* The sum does not depend on the element taken first.
LEMMA AddsAny ==
  ASSUME NEW D, IsFiniteSet(D), NEW c, NEW g, Adds(g, D, c),
         \A x \in D : Size[c[x]] \in Nat
  PROVE  \A s \in SUBSET D : \A x \in s : g[s] = Size[c[x]] + g[s \ {x}]
<1> DEFINE B == {s \in SUBSET D : ~ \A x \in s : g[s] = Size[c[x]] + g[s \ {x}]}
<1>1. ASSUME B # {} PROVE FALSE
  <2>1. B \in SUBSET (SUBSET D) OBVIOUS
  <2> HIDE DEF B
  <2>2. PICK s \in B : \A x \in s : s \ {x} \notin B BY <1>1, <2>1, SmallestSet
  <2> USE DEF B
  <2>3. PICK x \in s : g[s] # Size[c[x]] + g[s \ {x}] BY <2>2
  <2> DEFINE y == Some(s)
  <2>4. y \in s /\ g[s] = Size[c[y]] + g[s \ {y}] BY <2>3, AddsStep
  <2> HIDE DEF y
  <2>5. x # y BY <2>3, <2>4
  <2>6. s \ {x} \notin B /\ s \ {y} \notin B BY <2>2, <2>4
  <2>7. g[s \ {y}] = Size[c[x]] + g[(s \ {y}) \ {x}] BY <2>4, <2>5, <2>6
  <2>8. g[s \ {x}] = Size[c[y]] + g[(s \ {x}) \ {y}] BY <2>4, <2>5, <2>6
  <2>9. (s \ {x}) \ {y} = (s \ {y}) \ {x} OBVIOUS
  <2>10. Size[c[x]] \in Nat /\ Size[c[y]] \in Nat /\ g[(s \ {y}) \ {x}] \in Nat
    BY <2>4, AddsNat
  <2>11. \A i, j, k \in Nat : i + (j + k) = j + (i + k) OBVIOUS
  <2>12. Size[c[y]] + (Size[c[x]] + g[(s \ {y}) \ {x}]) = Size[c[x]] + (Size[c[y]] + g[(s \ {y}) \ {x}])
    BY <2>10, <2>11
  <2> QED BY <2>3, <2>4, <2>7, <2>8, <2>9, <2>12
<1> QED BY <1>1

\* Over the elements two contents agree on the sums agree.
LEMMA AddsSame ==
  ASSUME NEW D, NEW E, NEW c, NEW e, NEW g, NEW h, Adds(g, D, c), Adds(h, E, e),
         NEW A, IsFiniteSet(A), A \subseteq D, A \subseteq E, \A x \in A : c[x] = e[x]
  PROVE  g[A] = h[A]
<1> DEFINE B == {s \in SUBSET A : g[s] # h[s]}
<1>1. /\ g[{}] = 0
      /\ \A s \in SUBSET D : s # {} =>
           Some(s) \in s /\ g[s] = Size[c[Some(s)]] + g[s \ {Some(s)}]
  BY AddsStep
<1>2. /\ h[{}] = 0
      /\ \A s \in SUBSET E : s # {} =>
           Some(s) \in s /\ h[s] = Size[e[Some(s)]] + h[s \ {Some(s)}]
  BY AddsStep
<1>3. ASSUME B # {} PROVE FALSE
  <2>1. B \in SUBSET (SUBSET A) OBVIOUS
  <2> HIDE DEF B
  <2>2. PICK s \in B : \A x \in s : s \ {x} \notin B BY <1>3, <2>1, SmallestSet
  <2> USE DEF B
  <2>3. s # {}
    <3>1. g[{}] = h[{}] BY <1>1, <1>2
    <3> QED BY <2>2, <3>1
  <2>4. s \in SUBSET D /\ s \in SUBSET E OBVIOUS
  <2>5. /\ Some(s) \in s /\ g[s] = Size[c[Some(s)]] + g[s \ {Some(s)}]
        /\ h[s] = Size[e[Some(s)]] + h[s \ {Some(s)}]
    BY <1>1, <1>2, <2>3, <2>4
  <2>6. g[s \ {Some(s)}] = h[s \ {Some(s)}] BY <2>2, <2>5
  <2>7. c[Some(s)] = e[Some(s)] BY <2>5
  <2> QED BY <2>5, <2>6, <2>7
<1> QED BY <1>3

LEMMA BytesAdds ==
  ASSUME NEW S, IsFiniteSet(S), NEW c
  PROVE  \E g : Adds(g, S, c) /\ Bytes(S, c) = g[S]
<1> DEFINE Sums(g) == g = [s \in SUBSET S |->
             IF s = {} THEN 0
             ELSE Size[c[CHOOSE x \in s : TRUE]] + g[s \ {CHOOSE x \in s : TRUE}]]
           h == CHOOSE g : Sums(g)
<1>1. \A g : Sums(g) <=> Adds(g, S, c) BY DEF Adds, Some
<1>2. Bytes(S, c) = h[S] BY DEF Bytes, MapThenSumSet, MapThenFoldSet
<1> HIDE DEF Sums
<1>3. \E g : Sums(g) BY <1>1, AddsExists
<1>4. Sums(h) BY <1>3
<1> QED BY <1>1, <1>2, <1>4

\* e is c with contents for the row n beside the rows S.
Beside(S, n, c, e) ==
  n \notin S /\ (\A x \in S : c[x] = e[x]) /\ \A x \in S \cup {n} : Size[e[x]] \in Nat

BytesAdded(S, n, c, e) == Bytes(S \cup {n}, e) = Bytes(S, c) + Size[e[n]]

\* A new row adds its size.
LEMMA BytesOfNew ==
  ASSUME NEW S, IsFiniteSet(S), NEW n, NEW c, NEW e, Beside(S, n, c, e)
  PROVE  BytesAdded(S, n, c, e)
<1> USE DEF Beside
<1>1. IsFiniteSet(S \cup {n}) BY FS_AddElement
<1>2. PICK g : Adds(g, S, c) /\ Bytes(S, c) = g[S] BY BytesAdds
<1>3. PICK h : Adds(h, S \cup {n}, e) /\ Bytes(S \cup {n}, e) = h[S \cup {n}] BY <1>1, BytesAdds
<1>4. h[S \cup {n}] = Size[e[n]] + h[(S \cup {n}) \ {n}] BY <1>1, <1>3, AddsAny
<1>5. (S \cup {n}) \ {n} = S OBVIOUS
<1>6. g[S] = h[S] BY <1>2, <1>3, AddsSame
<1>7. h[S] \in Nat BY <1>1, <1>3, AddsNat
<1>8. \A i, j \in Nat : i + j = j + i OBVIOUS
<1>9. Size[e[n]] + h[S] = h[S] + Size[e[n]] BY <1>7, <1>8
<1> QED BY <1>2, <1>3, <1>4, <1>5, <1>6, <1>9 DEF BytesAdded

-----------------------------------------------------------------------------
(* pruneToLimit never takes the row just inserted.                         *)

\* Every timestamp was taken from the clock.
Stamped == \A i \in Ids : stamp[i] <= clock

LEMMA StampedNext == HistoryInv /\ Stamped /\ [Next]_vars => Stamped'
<1> SUFFICES ASSUME HistoryInv, Stamped, [Next]_vars PROVE Stamped'
  OBVIOUS
<1>1. clock \in Nat /\ stamp \in [Ids -> Nat] /\ \A i \in Ids : stamp[i] <= clock
  BY HistoryBounds DEF HistoryInv, TypeOK, Stamped
<1>2. ASSUME NEW f \in [Ids -> Nat], \A i \in Ids : f[i] <= clock',
             stamp' = Kept(f, 0), clock' \in Nat
      PROVE  Stamped'
  BY <1>2 DEF Kept, Stamped
<1>3. ASSUME NEW c, Insert(c) PROVE Stamped'
  <2> DEFINE f == [stamp EXCEPT ![nextId] = clock']
  <2>1. clock' = clock + 1 /\ stamp' = Kept(f, 0) BY <1>3 DEF Insert
  <2>2. \A i \in Ids : f[i] = stamp[i] \/ f[i] = clock' BY <1>1
  <2>3. clock' \in Nat BY <1>1, <2>1
  <2>4. f \in [Ids -> Nat] BY <1>1, <2>3
  <2> HIDE DEF f
  <2>5. \A i \in Ids : f[i] <= clock' BY <1>1, <2>1, <2>2
  <2> QED BY <1>2, <2>1, <2>3, <2>4, <2>5
<1>4. ASSUME NEW D, NEW S, Delete(D, S) PROVE Stamped'
  BY <1>1, <1>2, <1>4 DEF Delete
<1>5. ASSUME NEW l, SetLimits(l) PROVE Stamped'
  BY <1>1, <1>2, <1>5 DEF SetLimits
<1>6. CASE HandleBump
  <2>1. clock' = clock + 1 BY <1>6 DEF HandleBump
  <2>2. \A i \in Ids : stamp'[i] = stamp[i] \/ stamp'[i] = clock'
    BY <1>1, <1>6 DEF HandleBump
  <2> QED BY <1>1, <2>1, <2>2 DEF Stamped
<1>7. CASE UNCHANGED <<stamp, clock>> BY <1>7 DEF Stamped
<1>8. CASE HandleSelection BY <1>3, <1>7, <1>8 DEF HandleSelection, table
<1>9. CASE \/ \E c \in Contents : Arrive(c) \/ CopySelection(c)
           \/ HandlePin \/ HandleReload \/ Restart
           \/ \E i \in Ids : Copy(i) \/ Pin(i)
           \/ UNCHANGED vars
  BY <1>7, <1>9 DEF Arrive, CopySelection, HandlePin, HandleReload, Restart, Copy, Pin, table,
     vars
<1>10. CASE \/ \E i \in Ids : Remove(i)
            \/ \E S \in SUBSET Ids : RemoveMany(S)
            \/ ClearUnpinned \/ ClearAll
  BY <1>4, <1>10 DEF Remove, RemoveMany, ClearUnpinned, ClearAll, Clear
<1> QED BY <1>5, <1>6, <1>8, <1>9, <1>10 DEF Next

\* A victim later than every other row is the last of them all.
LEMMA LatestIsLast ==
  ASSUME NEW V, NEW free, NEW t, Oldest(V, free, t), NEW n \in V,
         \A u \in free \ {n} : ~(t[n] <= t[u])
  PROVE  V = free
BY DEF Oldest

LEMMA NewRowKept ==
  ASSUME HistoryInv, Stamped, NEW c \in Contents, Insert(c), nextId \notin stored'
  PROVE  limits.bytes > 0 /\ Bytes(pins, content) + Size[c] > limits.bytes
<1> USE DEF HistoryInv
<1> DEFINE n == nextId
           S == stored \cup {n}
           t == [stamp EXCEPT ![n] = clock']
           d == [content EXCEPT ![n] = c]
<1>1. /\ n \in Ids /\ clock' = clock + 1 /\ limits' = limits
      /\ \E V1, V2 \in SUBSET (S \ pins) :
           /\ CountVictims(V1, S \ pins, t)
           /\ ByteVictims(V2, (S \ pins) \ V1, S \ V1, t, d)
           /\ stored' = S \ (V1 \cup V2)
  BY DEF Insert, Prune
<1>2. PICK V1, V2 \in SUBSET (S \ pins) :
        /\ CountVictims(V1, S \ pins, t)
        /\ ByteVictims(V2, (S \ pins) \ V1, S \ V1, t, d)
        /\ stored' = S \ (V1 \cup V2)
  BY <1>1
<1>3. n \notin stored /\ n \notin pins
  BY DEF Fresh, TypeOK
<1>4. \A u \in stored : u # n /\ u \in Ids /\ ~(t[n] <= t[u])
  <2>1. stamp \in [Ids -> Nat] /\ clock \in Nat BY HistoryBounds DEF TypeOK
  <2>2. t[n] = clock + 1 /\ \A u \in Ids \ {n} : t[u] = stamp[u] /\ stamp[u] <= clock
    BY <1>1, <2>1 DEF Stamped
  <2>3. \A u \in stored : u \in Ids \ {n} BY <1>3 DEF TypeOK
  <2>4. \A u \in stored : stamp[u] \in Nat BY <2>1, <2>3
  <2> HIDE DEF t
  <2> QED BY <2>1, <2>2, <2>3, <2>4
<1>5. IsFiniteSet(stored) /\ IsFiniteSet(S) /\ pins \subseteq stored
  <2>1. IsFiniteSet(Ids) BY HistoryBounds, FS_Interval DEF Ids
  <2>2. stored \subseteq Ids /\ S \subseteq Ids BY <1>1 DEF TypeOK
  <2> QED BY <2>1, <2>2, FS_Subset DEF TypeOK
<1> HIDE DEF t
<1>6. n \notin V1
  <2> SUFFICES ASSUME n \in V1 PROVE FALSE
    OBVIOUS
  <2>1. V1 = S \ pins
    <3>1. Oldest(V1, S \ pins, t) BY <1>2 DEF CountVictims
    <3>2. \A u \in (S \ pins) \ {n} : ~(t[n] <= t[u]) BY <1>4
    <3> QED BY <3>1, <3>2, LatestIsLast
  <2>2. Cardinality(V1) \in Nat /\ Cardinality(V1) # 0
    <3>1. IsFiniteSet(V1) BY <1>5, <2>1, FS_Subset
    <3> QED BY <3>1, FS_CardinalityType, FS_EmptySet
  <2>3. Cardinality(V1) = IF limits'.entries > 0 /\ Cardinality(V1) > limits'.entries
                          THEN Cardinality(V1) - limits'.entries ELSE 0
    BY <1>2, <2>1 DEF CountVictims
  <2>4. limits'.entries \in Nat BY <1>1, HistoryAssumption DEF TypeOK, Limits
  <2> QED BY <2>2, <2>3, <2>4
<1>7. n \in V2 BY <1>2, <1>6
<1>8. V2 = (S \ pins) \ V1
  <2>1. Oldest(V2, (S \ pins) \ V1, t) BY <1>2 DEF ByteVictims
  <2>2. \A u \in ((S \ pins) \ V1) \ {n} : ~(t[n] <= t[u]) BY <1>4
  <2> QED BY <1>7, <2>1, <2>2, LatestIsLast
<1>9. ((S \ V1) \ V2) \cup {n} = pins \cup {n} BY <1>2, <1>3, <1>5, <1>8
<1>10. \A u \in V2 : t[u] <= t[n]
  <2>1. \A u \in V2 : u = n \/ u \in stored BY <1>2
  <2>2. \A u \in S : t[u] \in Nat
    <3>1. stamp \in [Ids -> Nat] /\ clock \in Nat BY HistoryBounds DEF TypeOK
    <3>2. t \in [Ids -> Nat] BY <1>1, <3>1 DEF t
    <3> QED BY <1>1, <1>4, <3>2
  <2>3. \A u \in stored : t[u] \in Nat /\ t[n] \in Nat /\ ~(t[n] <= t[u]) BY <1>4, <2>2
  <2>4. \A u \in stored : t[u] <= t[n] BY <2>3
  <2>5. t[n] <= t[n] BY <2>2
  <2> QED BY <2>1, <2>4, <2>5
<1>11. limits.bytes > 0 /\ Bytes(pins \cup {n}, d) > limits.bytes
  <2>1. limits'.bytes > 0 /\ Bytes(((S \ V1) \ V2) \cup {n}, d) > limits'.bytes
    BY <1>2, <1>7, <1>10 DEF ByteVictims
  <2> QED BY <1>1, <1>9, <2>1
<1>12. Bytes(pins \cup {n}, d) = Bytes(pins, content) + Size[d[n]]
  <2>1. IsFiniteSet(pins) BY <1>5, FS_Subset
  <2>2. d[n] = c /\ \A i \in pins : d[i] = content[i]
    BY <1>1, <1>3, <1>5 DEF TypeOK
  <2>3. \A i \in pins \cup {n} : d[i] \in Contents BY <1>5, <2>2 DEF TypeOK
  <2>4. \A i \in pins \cup {n} : Size[d[i]] \in Nat BY <2>3, HistoryAssumption
  <2>5. \A i \in pins : content[i] = d[i] BY <2>2
  <2> HIDE DEF d, n
  <2>6. Beside(pins, n, content, d) BY <1>3, <2>4, <2>5 DEF Beside
  <2> QED BY <2>1, <2>6, BytesOfNew DEF BytesAdded
<1>13. d[n] = c BY <1>1 DEF TypeOK
<1> QED BY <1>11, <1>12, <1>13

LEMMA FreshSelectionKept ==
  ASSUME HistoryInv, Stamped, HandleSelection,
         Head(queue).content \notin Blanks \cup {guard}
  PROVE  LET c == Head(queue).content IN
         \/ \E i \in stored' : content'[i] = c
         \/ /\ limits.bytes > 0
            /\ Bytes(pins, content) + Size[c] > limits.bytes
<1> USE DEF HistoryInv
<1> DEFINE c == Head(queue).content
<1>1. c \in Contents BY DequeueFacts, EventsTyped DEF HandleSelection
<1>2. CASE UNCHANGED table /\ \E i \in stored : content[i] = c BY <1>2 DEF table
<1>3. CASE Insert(c) /\ nextId \notin stored' BY <1>1, <1>3, NewRowKept
<1>4. CASE Insert(c) /\ nextId \in stored'
  <2>1. content' = Kept([content EXCEPT ![nextId] = c], None) /\ nextId \in Ids
    BY <1>4 DEF Insert
  <2>2. content'[nextId] = c BY <1>4, <2>1 DEF Kept, TypeOK
  <2> QED BY <1>4, <2>2
<1> QED BY <1>2, <1>3, <1>4 DEF HandleSelection

\* Whatever pruneToLimit does to make room, the selection handleSelection just
\* inserted stays: its timestamp is the newest, so that it goes last, and then
\* only when the pinned rows leave no room for it.
THEOREM NewestKeptHolds == Spec => NewestKept
<1>1. Init => Stamped BY DEF Init, Stamped
<1>2. HistoryInv /\ Stamped /\ [Next]_vars =>
        [HandleSelection /\ Head(queue).content \notin Blanks \cup {guard} =>
           LET c == Head(queue).content IN
             \/ \E i \in stored' : content'[i] = c
             \/ /\ limits.bytes > 0
                /\ Bytes(pins, content) + Size[c] > limits.bytes]_vars
  BY FreshSelectionKept
<1> QED BY <1>1, <1>2, StampedNext, HistoryInvCorrect, PTL DEF Spec, NewestKept
=============================================================================
