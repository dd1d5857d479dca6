----------------------- MODULE WaylandSelection_proof -----------------------
(***************************************************************************)
(* Proofs about WaylandSelection for any selections, entries and losses:   *)
(* no copy is missed, what the shell copied can be pasted, and an image    *)
(* gets its own name, as long as the selection runs in ShellPlugins.       *)
(***************************************************************************)
EXTENDS ShellPlugins, QueueTheorems, TLAPS

-----------------------------------------------------------------------------
(* The inductive invariant.                                                *)

Selected(c) == Event("selection", c)
NoSelectionAfter(i) == \A j \in DOMAIN events : j > i => events[j].kind # "selection"

\* The last the shell hears of the selection, or has heard, is what it is.
LastWord ==
  Bound => \/ \E i \in DOMAIN events : events[i] = Selected(clip) /\ NoSelectionAfter(i)
           \/ current = clip /\ NoSelectionAfter(0)

\* The selection the shell holds is being read or was announced.
Held ==
  device /\ current # None =>
    \/ PickBestMimeType(current.types) = None
    \/ \E r \in reads \cup announced : r.clip = current

\* The source of the shell's own selection is there and about to stay.
Backed ==
  Bound /\ clip # None /\ clip.ours =>
    /\ clip.id \in sources
    /\ \A i \in DOMAIN events : events[i].kind = "cancelled" => events[i].of # clip.id

\* Only acts of copying that have happened are talked about.
Past ==
  /\ clip # None => clip.id <= clips
  /\ \A i \in DOMAIN events : events[i].kind = "cancelled" => events[i].of <= clips

\* Reads with the same number are of one selection, or crossed; and while a
\* content has the current number, the name kept is the one of its selection.
NamesInOrder ==
  /\ \A r \in reads :
       /\ r.clip \notin crossed /\ r.what = "content" /\ r.generation = generation
       /\ PickMetaMimeType(r.clip.types) # None
       => pendingMeta = r.clip.id
  /\ \A r, s \in reads :
       r.generation = s.generation /\ r.clip # s.clip => r.clip \in crossed

WaylandInv ==
  WaylandTypeOK /\ LastWord /\ Held /\ Backed /\ Past /\ NamesInOrder /\ NameIsOwn

-----------------------------------------------------------------------------
(* Type correctness.                                                       *)

LEMMA WaylandBounds ==
  /\ MaxClips \in Nat /\ MaxLosses \in Nat
  /\ None \notin Nat /\ None \notin Selections
  BY WaylandAssumption, Zenon

LEMMA RecordsTyped ==
  /\ \A m \in WaylandMessages :
       /\ m.kind \in {"selection", "cancelled", "send", "finished", "error"}
       /\ m.kind = "selection" => m.of \in Selections \cup {None}
       /\ m.kind \in {"cancelled", "send"} => m.of \in 1 .. MaxClips
  /\ \A c \in Selections \cup {None} : /\ Selected(c) \in WaylandMessages
                                       /\ Selected(c).kind = "selection" /\ Selected(c).of = c
  /\ \A k \in {"cancelled", "send"}, n \in 1 .. MaxClips :
       Event(k, n) \in WaylandMessages /\ Event(k, n).kind = k /\ Event(k, n).of = n
  /\ \A k \in {"finished", "error"} :
       Event(k, None) \in WaylandMessages /\ Event(k, None).kind = k
  /\ \A c \in Selections : c.id \in 1 .. MaxClips /\ c.ours \in BOOLEAN
  /\ \A c \in Selections, w \in {"name", "content"}, g \in Nat :
       /\ Read(c, w, g) \in OfferReads
       /\ Read(c, w, g).clip = c /\ Read(c, w, g).what = w /\ Read(c, w, g).generation = g
  /\ \A r \in OfferReads : r.clip \in Selections /\ r.generation \in Nat
  BY DEF WaylandMessages, Selected, Event, Selections, Read, OfferReads

LEMMA DispatchFacts ==
  ASSUME WaylandTypeOK, NEW kind, Dispatched(kind)
  PROVE  /\ events' \in Seq(WaylandMessages) /\ Head(events) \in WaylandMessages
         /\ Head(events) = events[1] /\ 1 \in DOMAIN events /\ Head(events).kind = kind
         /\ \A j \in DOMAIN events' : /\ j \in Nat \ {0} /\ j + 1 \in DOMAIN events
                                      /\ events'[j] = events[j + 1]
         /\ \A j \in DOMAIN events : /\ j \in Nat \ {0}
                                     /\ \/ j = 1
                                        \/ j - 1 \in DOMAIN events' /\ events'[j - 1] = events[j]
         /\ UNCHANGED <<clip, clips, losses, announced>>
<1>1. /\ events \in Seq(WaylandMessages) /\ events # <<>> /\ events' = Tail(events)
      /\ Head(events).kind = kind /\ UNCHANGED <<clip, clips, losses, announced>>
  BY DEF Dispatched, WaylandTypeOK, compositor
<1> QED BY <1>1, Popped

LEMMA AppendFacts ==
  ASSUME WaylandTypeOK, NEW e \in WaylandMessages, events' = Append(events, e)
  PROVE  /\ events' \in Seq(WaylandMessages)
         /\ \A j \in DOMAIN events : j \in DOMAIN events' /\ events'[j] = events[j]
         /\ \A k \in DOMAIN events' : k \in DOMAIN events \/ (k = Len(events) + 1 /\ events'[k] = e)
         /\ Len(events) \in Nat /\ DOMAIN events = 1 .. Len(events)
         /\ Len(events) + 1 \in DOMAIN events' /\ events'[Len(events) + 1] = e
<1>1. events \in Seq(WaylandMessages) BY DEF WaylandTypeOK
<1> QED BY <1>1, Appended

\* The messages that tell of a new selection c.
LEMMA NewClipFacts ==
  ASSUME WaylandTypeOK, NEW c \in Selections, NewClip(c)
  PROVE  /\ events' \in Seq(WaylandMessages)
         /\ ~Bound => events' = events
         /\ Bound =>
              /\ \A j \in DOMAIN events : j \in DOMAIN events' /\ events'[j] = events[j]
              /\ \E i \in DOMAIN events' :
                   /\ events'[i] = Selected(c)
                   /\ \A j \in DOMAIN events' : ~(j > i)
              /\ \A k \in DOMAIN events' :
                   \/ k \in DOMAIN events /\ events'[k] = events[k]
                   \/ events'[k] = Selected(c)
                   \/ clip # None /\ clip.ours /\ events'[k] = Event("cancelled", clip.id)
<1>1. events \in Seq(WaylandMessages) /\ clip \in Selections \cup {None}
  BY DEF WaylandTypeOK
<1>2. CASE ~Bound BY <1>1, <1>2 DEF NewClip
<1>3. CASE Bound
  <2> DEFINE d == Displaced
             s == Selected(c)
  <2>1. /\ d \in Seq(WaylandMessages)
        /\ \A j \in DOMAIN d : clip # None /\ clip.ours /\ d[j] = Event("cancelled", clip.id)
    <3>1. CASE clip # None /\ clip.ours
      <4>1. Event("cancelled", clip.id) \in WaylandMessages BY <1>1, <3>1, RecordsTyped
      <4>2. d = <<Event("cancelled", clip.id)>> BY <3>1 DEF Displaced
      <4> QED BY <3>1, <4>1, <4>2
    <3>2. CASE ~(clip # None /\ clip.ours)
      <4>1. d = <<>> BY <3>2 DEF Displaced
      <4> QED BY <4>1, EmptySeq
    <3> QED BY <3>1, <3>2
  <2>2. s \in WaylandMessages BY RecordsTyped
  <2> HIDE DEF d, s
  <2>3. events' = (events \o d) \o <<s>> BY <1>3 DEF NewClip, d, s, Selected
  <2> DEFINE q == events \o d
             n == Len(q) + 1
  <2>4. q \in Seq(WaylandMessages) BY <1>1, <2>1, Grown
  <2>5. events' = Append(q, s) BY <2>2, <2>3, <2>4, AppendIsConcat
  <2>6. \A j \in DOMAIN events : j \in DOMAIN q /\ q[j] = events[j]
    BY <1>1, <2>1, Grown
  <2>7. \A k \in DOMAIN q :
          \/ k \in DOMAIN events
          \/ clip # None /\ clip.ours /\ q[k] = Event("cancelled", clip.id)
    BY <1>1, <2>1, Grown
  <2> HIDE DEF q
  <2>8. /\ events' \in Seq(WaylandMessages)
        /\ \A j \in DOMAIN q : j \in DOMAIN events' /\ events'[j] = q[j]
        /\ n \in DOMAIN events' /\ events'[n] = s
        /\ \A k \in DOMAIN events' : k \in DOMAIN q \/ k = n
        /\ Len(q) \in Nat /\ DOMAIN q = 1 .. Len(q)
    BY <2>2, <2>4, <2>5, Appended
  <2>9. \A k \in DOMAIN events' : ~(k > n) BY <2>8
  <2> HIDE DEF n
  <2>10. \A k \in DOMAIN events' :
           \/ k \in DOMAIN events /\ events'[k] = events[k]
           \/ events'[k] = s
           \/ clip # None /\ clip.ours /\ events'[k] = Event("cancelled", clip.id)
    BY <2>6, <2>7, <2>8
  <2>11. \A j \in DOMAIN events : j \in DOMAIN events' /\ events'[j] = events[j]
    BY <2>6, <2>8
  <2>12. \E i \in DOMAIN events' : events'[i] = s /\ \A j \in DOMAIN events' : ~(j > i)
    BY <2>8, <2>9
  <2> QED BY <1>3, <2>8, <2>10, <2>11, <2>12 DEF s
<1> QED BY <1>2, <1>3

\* The acts of copying.
LEMMA CopyTyped ==
  ASSUME WaylandTypeOK, NEW c \in Selections, c.id = clips + 1, clips < MaxClips, NewClip(c),
         UNCHANGED <<connection, offered, writes, losses, announced>>,
         sources' = sources \/ sources' = sources \cup {clips + 1}
  PROVE  WaylandTypeOK'
<1>1. events' \in Seq(WaylandMessages) BY NewClipFacts
<1>2. clips + 1 \in 1 .. MaxClips /\ clips + 1 \in 0 .. MaxClips
  BY WaylandBounds DEF WaylandTypeOK
<1>3. clips' = clips + 1 /\ clip' = c BY DEF NewClip
<1> QED BY <1>1, <1>2, <1>3 DEF WaylandTypeOK, connection, offered

LEMMA OthersTyped ==
  ASSUME WaylandTypeOK, WaylandOthers
  PROVE  WaylandTypeOK'
<1>1. ASSUME NEW T \in Clips, OtherCopies(T) PROVE WaylandTypeOK'
  <2> DEFINE c == [id |-> clips + 1, types |-> T, ours |-> FALSE]
  <2>1. c \in Selections /\ c.id = clips + 1
    BY <1>1, WaylandBounds DEF OtherCopies, Selections, WaylandTypeOK
  <2>2. clips < MaxClips /\ NewClip(c)
        /\ UNCHANGED <<connection, offered, sources, writes, losses, announced>>
    BY <1>1 DEF OtherCopies
  <2> HIDE DEF c
  <2> QED BY <2>1, <2>2, CopyTyped
<1>2. ASSUME NEW e \in Entries, SetClipboardContent(e) PROVE WaylandTypeOK'
  <2>1. CASE Bound
    <3> DEFINE c == [id |-> clips + 1, types |-> DOMAIN BuildClipboardPayload(e), ours |-> TRUE]
    <3>1. c \in Selections /\ c.id = clips + 1
      BY <1>2, WaylandBounds DEF SetClipboardContent, Selections, WaylandTypeOK
    <3>2. clips < MaxClips /\ NewClip(c) /\ sources' = sources \cup {clips + 1}
          /\ UNCHANGED <<connection, offered, writes, losses, announced>>
      BY <1>2, <2>1 DEF SetClipboardContent
    <3> HIDE DEF c
    <3> QED BY <3>1, <3>2, CopyTyped
  <2>2. CASE ~Bound
    <3>1. clips + 1 \in 1 .. MaxClips /\ clips + 1 \in 0 .. MaxClips
      BY <1>2, WaylandBounds DEF SetClipboardContent, WaylandTypeOK
    <3> QED
      BY <1>2, <2>2, <3>1 DEF SetClipboardContent, WaylandTypeOK, connection, offered
  <2> QED BY <2>1, <2>2
<1>3. ASSUME NEW e \in WaylandMessages, events' = Append(events, e),
             clip' \in {clip, None}, losses' \in 0 .. MaxLosses,
             UNCHANGED <<connection, offered, sources, writes, clips, announced>>
      PROVE  WaylandTypeOK'
  <2>1. events' \in Seq(WaylandMessages) BY <1>3, AppendFacts
  <2> QED BY <1>3, <2>1 DEF WaylandTypeOK, connection, offered
<1>4. CASE OwnerExits
  <2>1. Event("selection", None) \in WaylandMessages BY RecordsTyped DEF Selected
  <2> QED BY <1>3, <1>4, <2>1 DEF OwnerExits, WaylandTypeOK
<1>5. CASE Paste
  <2>1. Event("send", clip.id) \in WaylandMessages
    BY <1>5, RecordsTyped DEF Paste, WaylandTypeOK
  <2> QED BY <1>3, <1>5, <2>1 DEF Paste, WaylandTypeOK, compositor
<1>6. ASSUME NEW k \in {"finished", "error"}, Loss(k) PROVE WaylandTypeOK'
  <2>1. Event(k, None) \in WaylandMessages BY RecordsTyped
  <2>2. losses' \in 0 .. MaxLosses BY <1>6, WaylandBounds DEF Loss, WaylandTypeOK
  <2> QED BY <1>3, <1>6, <2>1, <2>2 DEF Loss
<1> QED BY <1>1, <1>2, <1>4, <1>5, <1>6 DEF WaylandOthers

LEMMA PeersTyped ==
  ASSUME WaylandTypeOK, WaylandPeers
  PROVE  WaylandTypeOK'
<1>1. ASSUME NEW r \in reads, NameRead(r) PROVE WaylandTypeOK'
  <2>1. r \in OfferReads /\ r.clip \in Selections /\ r.clip.id \in 1 .. MaxClips
        /\ r.generation \in Nat
    BY RecordsTyped DEF WaylandTypeOK
  <2>2. Read(r.clip, "content", r.generation) \in OfferReads
    BY <2>1, RecordsTyped
  <2>3. reads' \subseteq OfferReads BY <1>1, <2>2 DEF NameRead, WaylandTypeOK
  <2> QED BY <1>1, <2>1, <2>3 DEF NameRead, WaylandTypeOK, connection, compositor
<1>2. ASSUME NEW r \in reads, ContentRead(r) PROVE WaylandTypeOK'
  <2>1. r.clip \in Selections BY RecordsTyped DEF WaylandTypeOK
  <2>2. NameFor(r) \in 1 .. MaxClips \cup {None} BY DEF NameFor, WaylandTypeOK
  <2> QED
    BY <1>2, <2>1, <2>2 DEF ContentRead, WaylandTypeOK, connection, compositor
<1>3. ASSUME NEW s \in writes, WriteDone(s) PROVE WaylandTypeOK'
  BY <1>3 DEF WriteDone, WaylandTypeOK, connection, offered, compositor
<1> QED BY <1>1, <1>2, <1>3 DEF WaylandPeers

LEMMA LoopTyped ==
  ASSUME WaylandTypeOK, WaylandLoop
  PROVE  WaylandTypeOK'
<1>1. CASE DeviceSelection
  <2> DEFINE c == Head(events).of
  <2>1. /\ events' \in Seq(WaylandMessages) /\ c \in Selections \cup {None}
        /\ UNCHANGED <<clip, clips, losses, announced>>
    BY <1>1, DispatchFacts, RecordsTyped DEF DeviceSelection
  <2>2. current' = c /\ UNCHANGED <<connection, pendingMeta, sources, writes>>
    BY <1>1 DEF DeviceSelection
  <2>3. \A w \in {"name", "content"} : c # None => Read(c, w, generation + 1) \in OfferReads
    BY <2>1, RecordsTyped DEF WaylandTypeOK
  <2>4. c # None => ReceiveSelection(c, reads) BY <1>1 DEF DeviceSelection
  <2>5. c = None => UNCHANGED <<generation, reads, crossed>> BY <1>1 DEF DeviceSelection
  <2> HIDE DEF c
  <2>6. crossed' \subseteq Selections
    <3>1. \A r \in reads : r.clip \in Selections BY RecordsTyped DEF WaylandTypeOK
    <3>2. c # None => Crossing(c, reads) \subseteq Selections BY <2>1, <3>1 DEF Crossing
    <3>3. crossed' = crossed \/ (c # None /\ crossed' = crossed \cup Crossing(c, reads))
      BY <2>4, <2>5 DEF ReceiveSelection
    <3> QED BY <3>2, <3>3 DEF WaylandTypeOK
  <2>7. generation' \in Nat /\ reads' \subseteq OfferReads
    <3>1. CASE UNCHANGED <<generation, reads>> BY <3>1 DEF WaylandTypeOK
    <3>2. CASE ~UNCHANGED <<generation, reads>>
      <4>1. /\ c # None /\ generation' = generation + 1
            /\ \E w \in {"name", "content"} : reads' = reads \cup {Read(c, w, generation + 1)}
        BY <2>4, <2>5, <3>2 DEF ReceiveSelection
      <4> QED BY <2>3, <4>1 DEF WaylandTypeOK
    <3> QED BY <3>1, <3>2
  <2> QED BY <2>1, <2>2, <2>6, <2>7 DEF WaylandTypeOK, connection
<1>2. CASE SourceSend
  <2>1. /\ events' \in Seq(WaylandMessages)
        /\ UNCHANGED <<clip, clips, losses, announced, connection, offered, sources>>
        /\ writes' \subseteq writes \cup sources
    BY <1>2, DispatchFacts DEF SourceSend
  <2> QED BY <2>1 DEF WaylandTypeOK, connection, offered
<1>3. CASE SourceCancelled
  <2>1. /\ events' \in Seq(WaylandMessages)
        /\ UNCHANGED <<clip, clips, losses, announced, connection, offered, writes>>
        /\ sources' \subseteq sources
    BY <1>3, DispatchFacts DEF SourceCancelled, CancelledOne
  <2> QED BY <2>1 DEF WaylandTypeOK, connection, offered
<1>4. CASE DeviceFinished \/ ConnectionBroken
  <2>1. /\ events' \in Seq(WaylandMessages)
        /\ UNCHANGED <<clip, clips, losses, announced>>
    BY <1>4, DispatchFacts DEF DeviceFinished, ConnectionBroken
  <2> QED
    BY <1>4, <2>1 DEF DeviceFinished, ConnectionBroken, WaylandTypeOK, offered
<1>5. CASE Reconnect
  <2>1. clip' \in Selections \cup {None} BY <1>5 DEF Reconnect, WaylandTypeOK
  <2>2. <<Event("selection", clip')>> \in Seq(WaylandMessages) /\ <<>> \in Seq(WaylandMessages)
    <3>1. Event("selection", clip') \in WaylandMessages BY <2>1, RecordsTyped DEF Selected
    <3> QED BY <3>1, EmptySeq
  <2>3. events' \in Seq(WaylandMessages) BY <1>5, <2>2 DEF Reconnect
  <2> QED BY <1>5, <2>1, <2>3 DEF Reconnect, WaylandTypeOK
<1> QED BY <1>1, <1>2, <1>3, <1>4, <1>5 DEF WaylandLoop

LEMMA WaylandNextTyped == WaylandTypeOK /\ [WaylandNext]_wayland => WaylandTypeOK'
<1>1. ASSUME WaylandTypeOK, UNCHANGED wayland PROVE WaylandTypeOK'
  BY <1>1 DEF wayland, connection, offered, compositor, WaylandTypeOK
<1> QED BY <1>1, LoopTyped, PeersTyped, OthersTyped DEF WaylandNext

LEMMA WaylandInitTyped == WaylandInit => WaylandTypeOK
<1> SUFFICES ASSUME WaylandInit PROVE WaylandTypeOK
  OBVIOUS
<1>1. <<>> \in Seq(WaylandMessages) BY EmptySeq
<1>2. clips \in 0 .. MaxClips /\ losses \in 0 .. MaxLosses BY WaylandBounds DEF WaylandInit
<1> QED BY <1>1, <1>2 DEF WaylandInit, WaylandTypeOK

-----------------------------------------------------------------------------
(* The selection and the events that tell of it.                           *)

Told == LastWord /\ Backed /\ Past

LEMMA CopyTold ==
  ASSUME WaylandTypeOK, Told, NEW c \in Selections, c.id = clips + 1, NewClip(c),
         UNCHANGED <<display, device, current>>,
         sources' = sources \/ sources' = sources \cup {clips + 1},
         c.ours => clips + 1 \in sources'
  PROVE  Told'
<1> USE DEF Told
<1>1. clips \in Nat /\ c # None /\ clips' = clips + 1 /\ clip' = c
  BY WaylandBounds DEF WaylandTypeOK, NewClip
<1>2. Selected(c).kind = "selection" /\ Selected(c).of = c BY DEF Selected, Event
<1>3. clip # None => /\ Event("cancelled", clip.id).kind = "cancelled"
                     /\ Event("cancelled", clip.id).of = clip.id
  BY DEF Event
<1>4. clip # None => clip.id \in Nat BY RecordsTyped, WaylandBounds DEF WaylandTypeOK
<1>5. \A i \in DOMAIN events' : events'[i].kind = "cancelled" =>
        /\ events'[i].of <= clips
        /\ events'[i].of \in Nat
  <2>1. \A i \in DOMAIN events : events[i].kind = "cancelled" => events[i].of \in Nat
    <3>1. \A i \in DOMAIN events : events[i] \in WaylandMessages
      BY ElementOfSeq, LenProperties DEF WaylandTypeOK
    <3> QED BY <3>1, RecordsTyped, WaylandBounds
  <2>2. CASE ~Bound
    <3>1. events' = events BY <2>2, NewClipFacts
    <3> QED BY <2>1, <3>1 DEF Past
  <2>3. CASE Bound
    <3>1. \A k \in DOMAIN events' :
            \/ k \in DOMAIN events /\ events'[k] = events[k]
            \/ events'[k] = Selected(c)
            \/ clip # None /\ clip.ours /\ events'[k] = Event("cancelled", clip.id)
      BY <2>3, NewClipFacts
    <3> QED BY <1>2, <1>3, <1>4, <2>1, <3>1 DEF Past
  <2> QED BY <2>2, <2>3
<1>6. Past' BY <1>1, <1>5 DEF Past
<1>7. Bound' => Bound
  <2>1. ASSUME ~Bound PROVE ~Bound'
    <3>1. events' = events BY <2>1, NewClipFacts
    <3> QED BY <2>1, <3>1 DEF Bound, Ended
  <2> QED BY <2>1
<1>8. Backed'
  BY <1>1, <1>5, <1>7 DEF Backed
<1>9. LastWord'
  <2> SUFFICES ASSUME Bound
               PROVE  \E i \in DOMAIN events' : events'[i] = Selected(c) /\ NoSelectionAfter(i)'
    BY <1>1, <1>7 DEF LastWord, Selected
  <2>1. PICK i \in DOMAIN events' :
          events'[i] = Selected(c) /\ \A j \in DOMAIN events' : ~(j > i)
    BY NewClipFacts
  <2> QED BY <2>1 DEF NoSelectionAfter
<1> QED BY <1>6, <1>8, <1>9

LEMMA Shifted ==
  ASSUME WaylandTypeOK, NEW kind, Dispatched(kind), NEW i \in Nat \ {0}, NoSelectionAfter(i)
  PROVE  NoSelectionAfter(i - 1)'
<1>1. \A j \in DOMAIN events' : /\ j \in Nat \ {0} /\ j + 1 \in DOMAIN events
                                /\ events'[j] = events[j + 1]
  BY DispatchFacts
<1> QED BY <1>1 DEF NoSelectionAfter

\* Handling a message that ends nothing.
LEMMA DispatchTold ==
  ASSUME WaylandTypeOK, Told, NEW kind, kind \notin {"finished", "error"}, Dispatched(kind),
         UNCHANGED <<display, device>>,
         IF kind = "selection" THEN current' = Head(events).of ELSE current' = current,
         IF kind = "cancelled" THEN sources' = sources \ {Head(events).of}
                               ELSE sources' = sources
  PROVE  Told'
<1> USE DEF Told
<1>1. /\ Head(events) = events[1] /\ 1 \in DOMAIN events /\ Head(events).kind = kind
      /\ \A j \in DOMAIN events' : /\ j \in Nat \ {0} /\ j + 1 \in DOMAIN events
                                   /\ events'[j] = events[j + 1]
      /\ \A j \in DOMAIN events : /\ j \in Nat \ {0}
                                  /\ \/ j = 1
                                     \/ j - 1 \in DOMAIN events' /\ events'[j - 1] = events[j]
      /\ UNCHANGED <<clip, clips, losses, announced>>
  BY DispatchFacts
<1>2. Bound' => Bound BY <1>1 DEF Bound, Ended
<1>3. Past' BY <1>1 DEF Past
<1>4. Backed' BY <1>1, <1>2 DEF Backed
<1>5. LastWord'
  <2> SUFFICES ASSUME Bound
               PROVE  \/ \E i \in DOMAIN events' :
                           events'[i] = Selected(clip') /\ NoSelectionAfter(i)'
                      \/ current' = clip' /\ NoSelectionAfter(0)'
    BY <1>2 DEF LastWord, Selected
  <2>1. CASE current = clip /\ NoSelectionAfter(0)
    <3>1. kind # "selection" BY <1>1, <2>1 DEF NoSelectionAfter
    <3>2. NoSelectionAfter(0)' BY <1>1, <2>1 DEF NoSelectionAfter
    <3> QED BY <1>1, <2>1, <3>1, <3>2
  <2>2. ASSUME NEW i \in DOMAIN events, events[i] = Selected(clip), NoSelectionAfter(i)
        PROVE  \/ \E k \in DOMAIN events' :
                    events'[k] = Selected(clip') /\ NoSelectionAfter(k)'
               \/ current' = clip' /\ NoSelectionAfter(0)'
    <3>1. i \in Nat \ {0} BY <1>1
    <3>2. NoSelectionAfter(i - 1)' BY <2>2, <3>1, Shifted
    <3>3. CASE i = 1
      <4>1. Head(events).of = clip /\ kind = "selection"
        BY <1>1, <2>2, <3>3 DEF Selected, Event
      <4>2. NoSelectionAfter(0)' BY <3>2, <3>3
      <4> QED BY <1>1, <4>1, <4>2
    <3>4. CASE i # 1
      <4>1. i - 1 \in DOMAIN events' /\ events'[i - 1] = Selected(clip') BY <1>1, <2>2, <3>4
      <4> QED BY <3>2, <4>1
    <3> QED BY <3>3, <3>4
  <2> QED BY <2>1, <2>2 DEF LastWord
<1> QED BY <1>3, <1>4, <1>5

LEMMA OthersTold ==
  ASSUME WaylandTypeOK, Told, WaylandOthers
  PROVE  Told'
<1> USE DEF Told
<1>1. ASSUME NEW T \in Clips, OtherCopies(T) PROVE Told'
  <2> DEFINE c == [id |-> clips + 1, types |-> T, ours |-> FALSE]
  <2>1. c \in Selections /\ c.id = clips + 1 /\ ~c.ours
    BY <1>1, WaylandBounds DEF OtherCopies, Selections, WaylandTypeOK
  <2>2. NewClip(c) /\ UNCHANGED <<display, device, current, sources>>
    BY <1>1 DEF OtherCopies, connection, offered
  <2> HIDE DEF c
  <2> QED BY <2>1, <2>2, CopyTold
<1>2. ASSUME NEW e \in Entries, SetClipboardContent(e) PROVE Told'
  <2>1. CASE Bound
    <3> DEFINE c == [id |-> clips + 1, types |-> DOMAIN BuildClipboardPayload(e), ours |-> TRUE]
    <3>1. c \in Selections /\ c.id = clips + 1
      BY <1>2, WaylandBounds DEF SetClipboardContent, Selections, WaylandTypeOK
    <3>2. NewClip(c) /\ sources' = sources \cup {clips + 1}
          /\ UNCHANGED <<display, device, current>>
      BY <1>2, <2>1 DEF SetClipboardContent, connection, offered
    <3> HIDE DEF c
    <3> QED BY <3>1, <3>2, CopyTold
  <2>2. CASE ~Bound
    <3>1. /\ clips' = clips + 1 /\ clips \in Nat
          /\ UNCHANGED <<clip, events, display, device, current>>
      BY <1>2, <2>2, WaylandBounds
         DEF SetClipboardContent, connection, offered, WaylandTypeOK
    <3>2. \A i \in DOMAIN events : events[i].kind = "cancelled" => events[i].of \in Nat
      <4>1. \A i \in DOMAIN events : events[i] \in WaylandMessages
        BY ElementOfSeq, LenProperties DEF WaylandTypeOK
      <4> QED BY <4>1, RecordsTyped, WaylandBounds
    <3>3. clip # None => clip.id \in Nat BY RecordsTyped, WaylandBounds DEF WaylandTypeOK
    <3>4. Past' BY <3>1, <3>2, <3>3 DEF Past
    <3>5. ~Bound' BY <2>2, <3>1 DEF Bound, Ended
    <3> QED BY <3>4, <3>5 DEF LastWord, Backed
  <2> QED BY <2>1, <2>2
<1>3. ASSUME NEW e \in WaylandMessages, events' = Append(events, e), e.kind # "cancelled",
             UNCHANGED <<clip, clips, sources, current, display, device>>
      PROVE  /\ Past' /\ Backed'
             /\ e.kind # "selection" => LastWord'
             /\ e.kind \in {"finished", "error"} => ~Bound'
  <2>1. /\ \A j \in DOMAIN events : j \in DOMAIN events' /\ events'[j] = events[j]
        /\ \A k \in DOMAIN events' : k \in DOMAIN events \/ (k = Len(events) + 1 /\ events'[k] = e)
        /\ Len(events) + 1 \in DOMAIN events' /\ events'[Len(events) + 1] = e
    BY <1>3, AppendFacts
  <2>2. Bound' => Bound BY <1>3, <2>1 DEF Bound, Ended
  <2>3. Past' BY <1>3, <2>1 DEF Past
  <2>4. Backed' BY <1>3, <2>1, <2>2 DEF Backed
  <2>5. ASSUME e.kind # "selection" PROVE LastWord'
    <3>1. \A i : NoSelectionAfter(i) => NoSelectionAfter(i)'
      BY <2>1, <2>5 DEF NoSelectionAfter
    <3> QED BY <1>3, <2>1, <2>2, <3>1 DEF LastWord, Selected
  <2>6. e.kind \in {"finished", "error"} => ~Bound' BY <2>1 DEF Bound, Ended
  <2> QED BY <2>3, <2>4, <2>5, <2>6
<1>4. CASE OwnerExits
  <2>1. /\ Selected(None) \in WaylandMessages /\ events' = Append(events, Selected(None))
        /\ clip' = None /\ UNCHANGED <<clips, sources, current, display, device>>
        /\ Selected(None).kind = "selection"
    BY <1>4, RecordsTyped DEF OwnerExits, Selected, connection, offered
  <2>2. /\ \A k \in DOMAIN events' : k \in DOMAIN events \/ k = Len(events) + 1
        /\ Len(events) + 1 \in DOMAIN events' /\ events'[Len(events) + 1] = Selected(None)
        /\ DOMAIN events = 1 .. Len(events) /\ Len(events) \in Nat
        /\ \A j \in DOMAIN events : events'[j] = events[j]
    BY <2>1, AppendFacts
  <2>3. \A j \in DOMAIN events' : ~(j > Len(events) + 1) BY <2>2
  <2>4. Past' /\ Backed' BY <2>1, <2>2 DEF Past, Backed
  <2>5. LastWord'
    <3>1. \E i \in DOMAIN events' :
            events'[i] = Selected(None) /\ \A j \in DOMAIN events' : ~(j > i)
      BY <2>2, <2>3
    <3> QED BY <2>1, <3>1 DEF LastWord, NoSelectionAfter, Selected
  <2> QED BY <2>4, <2>5
<1>5. CASE Paste
  <2>1. /\ Event("send", clip.id) \in WaylandMessages
        /\ Event("send", clip.id).kind = "send"
        /\ events' = Append(events, Event("send", clip.id))
        /\ UNCHANGED <<clip, clips, sources, current, display, device>>
    BY <1>5, RecordsTyped DEF Paste, WaylandTypeOK, connection, offered, compositor
  <2> QED BY <1>3, <2>1
<1>6. ASSUME NEW k \in {"finished", "error"}, Loss(k) PROVE Told'
  <2>1. /\ Event(k, None) \in WaylandMessages /\ Event(k, None).kind = k
        /\ events' = Append(events, Event(k, None))
        /\ UNCHANGED <<clip, clips, sources, current, display, device>>
    BY <1>6, RecordsTyped DEF Loss, connection, offered
  <2> QED BY <1>3, <2>1
<1> QED BY <1>1, <1>2, <1>4, <1>5, <1>6 DEF WaylandOthers

LEMMA LoopTold ==
  ASSUME WaylandTypeOK, Told, WaylandLoop
  PROVE  Told'
<1>1. CASE DeviceSelection \/ SourceSend \/ SourceCancelled
  BY <1>1, DispatchTold
     DEF DeviceSelection, SourceSend, SourceCancelled, CancelledOne, connection, offered
<1>2. CASE DeviceFinished \/ ConnectionBroken
  <2>1. ~Bound' BY <1>2 DEF DeviceFinished, ConnectionBroken, Bound
  <2>2. \E k : Dispatched(k) BY <1>2 DEF DeviceFinished, ConnectionBroken
  <2>3. Past' BY <2>2, DispatchFacts DEF Told, Past
  <2> QED BY <2>1, <2>3 DEF Told, LastWord, Backed
<1>3. CASE Reconnect
  <2>1. current' = None /\ clip' \in {clip, None} /\ (clip' # None => ~clip'.ours)
        /\ clips' = clips
    BY <1>3 DEF Reconnect
  <2>2. events' \in {<<>>, <<Selected(clip')>>} BY <1>3 DEF Reconnect, Selected
  <2>3. CASE events' = <<>>
    <3>1. Bound' => clip' = None BY <1>3, <2>3 DEF Reconnect, Bound
    <3> QED BY <2>1, <2>3, <3>1 DEF Told, LastWord, Backed, Past, NoSelectionAfter
  <2>4. CASE events' = <<Selected(clip')>>
    <3>1. DOMAIN events' = {1} /\ events'[1] = Selected(clip') /\ ~(1 > 1) BY <2>4
    <3>2. Selected(clip').kind = "selection" BY DEF Selected, Event
    <3> QED
      BY <2>1, <3>1, <3>2 DEF Told, LastWord, Backed, Past, NoSelectionAfter, Selected
  <2> QED BY <2>2, <2>3, <2>4
<1> QED BY <1>1, <1>2, <1>3 DEF WaylandLoop

LEMMA WaylandNextTold == WaylandTypeOK /\ Told /\ [WaylandNext]_wayland => Told'
<1>1. ASSUME Told, UNCHANGED <<display, device, current, events, clip, clips, sources>>
      PROVE  Told'
  BY <1>1 DEF Told, LastWord, Backed, Past, NoSelectionAfter, Bound, Ended, Selected
<1>2. ASSUME Told, WaylandPeers PROVE Told'
  <2>1. UNCHANGED <<display, device, current, events, clip, clips, sources>>
    BY <1>2
       DEF WaylandPeers, NameRead, ContentRead, WriteDone, connection, offered, compositor
  <2> QED BY <1>1, <1>2, <2>1
<1>3. ASSUME Told, UNCHANGED wayland PROVE Told'
  <2>1. UNCHANGED <<display, device, current, events, clip, clips, sources>>
    BY <1>3 DEF wayland, connection, offered, compositor
  <2> QED BY <1>1, <1>3, <2>1
<1> QED BY <1>2, <1>3, LoopTold, OthersTold DEF WaylandNext

-----------------------------------------------------------------------------
(* What is read and announced.                                             *)

Announcing == Held /\ NamesInOrder /\ NameIsOwn

\* Steps that leave the reads and the announced alone.
LEMMA ReadsKept ==
  ASSUME Announcing, UNCHANGED <<offered, announced>>, device' => device
  PROVE  Announcing'
BY DEF Announcing, Held, NamesInOrder, NameIsOwn, offered

\* A selection c that the device tells of is read at once.
LEMMA SelectionAnnounced ==
  ASSUME WaylandTypeOK, Announcing, NEW c \in Selections, current' = c,
         ReceiveSelection(c, reads), UNCHANGED <<device, pendingMeta, announced>>
  PROVE  Announcing'
<1> USE DEF Announcing
<1>1. generation \in Nat /\ \A r \in reads : r.generation \in Nat
  BY RecordsTyped DEF WaylandTypeOK
<1>2. NameIsOwn' BY DEF NameIsOwn, ReceiveSelection
<1>3. CASE PickBestMimeType(c.types) = None
  <2>1. UNCHANGED <<generation, reads, crossed>> BY <1>3 DEF ReceiveSelection
  <2> QED BY <1>2, <1>3, <2>1 DEF Held, NamesInOrder
<1>4. CASE PickBestMimeType(c.types) # None
  <2>1. PICK w \in {"name", "content"} :
          /\ w = "content" => PickMetaMimeType(c.types) = None
          /\ reads' = reads \cup {Read(c, w, generation + 1)}
          /\ generation' = generation + 1
          /\ crossed' = crossed \cup Crossing(c, reads)
    BY <1>4 DEF ReceiveSelection
  <2> DEFINE n == Read(c, w, generation + 1)
  <2>2. n.clip = c /\ n.what = w /\ n.generation = generation + 1
    BY <1>1, RecordsTyped
  <2> HIDE DEF n
  <2>3. reads' = reads \cup {n} BY <2>1 DEF n
  <2>4. Held' BY <2>2, <2>3 DEF Held
  <2>5. NamesInOrder'
    <3>1. /\ crossed \subseteq crossed'
          /\ \A r \in reads : r.generation = generation + 1 => {r.clip, c} \subseteq crossed'
      <4>1. \A r \in reads : r.generation = generation + 1 => {r.clip, c} \subseteq Crossing(c, reads)
        BY DEF Crossing
      <4> QED BY <2>1, <4>1
    <3>2. ASSUME NEW r \in reads', r.clip \notin crossed', r.what = "content",
                 r.generation = generation'
          PROVE  PickMetaMimeType(r.clip.types) = None
      <4>1. r \notin reads BY <2>1, <3>1, <3>2
      <4>2. r = n BY <2>3, <4>1
      <4> QED BY <2>1, <2>2, <3>2, <4>2
    <3>3. ASSUME NEW r \in reads', NEW s \in reads',
                 r.generation = s.generation, r.clip # s.clip
          PROVE  r.clip \in crossed'
      <4>1. CASE r \in reads /\ s \in reads
        <5>1. r.clip \in crossed BY <3>3, <4>1 DEF NamesInOrder
        <5> QED BY <3>1, <5>1
      <4>2. CASE r = n \/ s = n
        <5>1. r # s BY <3>3
        <5>2. \/ r = n /\ s \in reads
              \/ s = n /\ r \in reads
          BY <2>3, <4>2, <5>1
        <5> QED BY <2>1, <2>2, <3>1, <3>3, <5>2
      <4> QED BY <2>3, <3>3, <4>1, <4>2
    <3> QED BY <3>2, <3>3 DEF NamesInOrder
  <2> QED BY <1>2, <2>4, <2>5
<1> QED BY <1>3, <1>4

LEMMA LoopAnnounced ==
  ASSUME WaylandTypeOK, Announcing, WaylandLoop
  PROVE  Announcing'
<1>1. CASE DeviceSelection
  <2> DEFINE c == Head(events).of
  <2>1. /\ current' = c /\ c \in Selections \cup {None}
        /\ UNCHANGED <<device, pendingMeta, announced>>
        /\ IF c = None THEN UNCHANGED <<generation, reads, crossed>>
           ELSE ReceiveSelection(c, reads)
    BY <1>1, DispatchFacts, RecordsTyped DEF DeviceSelection, connection
  <2> HIDE DEF c
  <2>2. CASE c = None
    BY <2>1, <2>2 DEF Announcing, Held, NamesInOrder, NameIsOwn
  <2>3. CASE c # None BY <2>1, <2>3, SelectionAnnounced
  <2> QED BY <2>2, <2>3
<1>2. CASE SourceSend \/ SourceCancelled
  <2>1. UNCHANGED <<offered, announced, device>>
    BY <1>2 DEF SourceSend, SourceCancelled, Dispatched, connection
  <2> QED BY <2>1, ReadsKept
<1>3. CASE DeviceFinished \/ ConnectionBroken
  <2>1. UNCHANGED <<offered, announced>> /\ (device' => device)
    BY <1>3 DEF DeviceFinished, ConnectionBroken, Dispatched
  <2> QED BY <2>1, ReadsKept
<1>4. CASE Reconnect
  <2>1. current' = None /\ reads' = {} /\ UNCHANGED <<crossed, announced>>
    BY <1>4 DEF Reconnect
  <2> QED BY <2>1 DEF Announcing, Held, NamesInOrder, NameIsOwn
<1> QED BY <1>1, <1>2, <1>3, <1>4 DEF WaylandLoop

LEMMA PeersAnnounced ==
  ASSUME WaylandTypeOK, Announcing, WaylandPeers
  PROVE  Announcing'
<1> USE DEF Announcing
<1>1. ASSUME NEW r \in reads, NameRead(r) PROVE Announcing'
  <2> DEFINE n == Read(r.clip, "content", r.generation)
  <2>1. /\ r.what = "name" /\ r.clip \in Selections /\ r.generation \in Nat
        /\ pendingMeta' = r.clip.id /\ generation' = r.generation
        /\ UNCHANGED <<device, current, crossed, announced>>
    BY <1>1, RecordsTyped DEF NameRead, WaylandTypeOK, connection
  <2>2. n.clip = r.clip /\ n.what = "content" /\ n.generation = r.generation
    BY <2>1, RecordsTyped
  <2>3. reads' = (reads \ {r}) \cup (IF device /\ current = r.clip THEN {n} ELSE {})
    BY <1>1 DEF NameRead
  <2> HIDE DEF n
  <2>4. NameIsOwn' BY <2>1 DEF NameIsOwn
  <2>5. Held' BY <2>1, <2>2, <2>3 DEF Held
  <2>6. NamesInOrder'
    <3>1. \A s \in reads' : s \in reads \/ s = n BY <2>3
    <3>2. \A s \in reads' : \E t \in reads : t.clip = s.clip /\ t.generation = s.generation
      BY <2>2, <3>1
    <3>3. ASSUME NEW s \in reads', NEW t \in reads',
                 s.generation = t.generation, s.clip # t.clip
          PROVE  s.clip \in crossed
      BY <3>2, <3>3 DEF NamesInOrder
    <3>4. ASSUME NEW s \in reads', s.clip \notin crossed, s.generation = r.generation
          PROVE  s.clip = r.clip
      BY <3>2, <3>4 DEF NamesInOrder
    <3> QED BY <2>1, <3>3, <3>4 DEF NamesInOrder
  <2> QED BY <2>4, <2>5, <2>6
<1>2. ASSUME NEW r \in reads, ContentRead(r) PROVE Announcing'
  <2> DEFINE a == [clip |-> r.clip, name |-> NameFor(r)]
  <2>1. /\ r.what = "content" /\ reads' = reads \ {r} /\ announced' = announced \cup {a}
        /\ UNCHANGED <<device, current, crossed, generation, pendingMeta>>
    BY <1>2 DEF ContentRead, connection
  <2>2. a.clip = r.clip /\ a.name = NameFor(r) OBVIOUS
  <2> HIDE DEF a
  <2>3. Held' BY <2>1, <2>2 DEF Held
  <2>4. NamesInOrder' BY <2>1 DEF NamesInOrder
  <2>5. NameIsOwn'
    <3>1. r.clip \notin crossed /\ PickMetaMimeType(r.clip.types) # None =>
            NameFor(r) \in {r.clip.id, None}
      BY <2>1 DEF NamesInOrder, NameFor
    <3> QED BY <2>1, <2>2, <3>1 DEF NameIsOwn
  <2> QED BY <2>3, <2>4, <2>5
<1>3. ASSUME NEW s \in writes, WriteDone(s) PROVE Announcing'
  BY <1>3, ReadsKept DEF WriteDone, connection
<1> QED BY <1>1, <1>2, <1>3 DEF WaylandPeers

LEMMA WaylandNextAnnounced == WaylandTypeOK /\ Announcing /\ [WaylandNext]_wayland => Announcing'
<1>1. ASSUME Announcing, WaylandOthers PROVE Announcing'
  <2>1. UNCHANGED <<offered, announced, connection>>
    BY <1>1 DEF WaylandOthers, OtherCopies, SetClipboardContent, OwnerExits, Paste, Loss
  <2> QED BY <1>1, <2>1, ReadsKept DEF connection
<1>2. ASSUME Announcing, UNCHANGED wayland PROVE Announcing'
  BY <1>2, ReadsKept DEF wayland, connection
<1> QED BY <1>1, <1>2, LoopAnnounced, PeersAnnounced DEF WaylandNext

LEMMA WaylandInitInv == WaylandInit => WaylandInv
<1> SUFFICES ASSUME WaylandInit PROVE WaylandInv
  OBVIOUS
<1>1. DOMAIN events = {} /\ clip = None /\ current = None /\ reads = {} /\ announced = {}
  BY DEF WaylandInit
<1> QED
  BY <1>1, WaylandInitTyped
     DEF WaylandInv, LastWord, NoSelectionAfter, Held, Backed, Past, NamesInOrder, NameIsOwn

LEMMA WaylandNextInv == WaylandInv /\ [WaylandNext]_wayland => WaylandInv'
BY WaylandNextTyped, WaylandNextTold, WaylandNextAnnounced DEF WaylandInv, Told, Announcing

-----------------------------------------------------------------------------
(* Theorems.                                                               *)

LEMMA LeastIs ==
  ASSUME NEW S \in SUBSET Int, NEW i \in S, \A j \in S : i <= j
  PROVE  Min(S) = i
<1>1. Min(S) \in S /\ \A j \in S : Min(S) <= j BY DEF Min
<1>2. i <= Min(S) /\ Min(S) <= i BY <1>1
<1>3. i \in Int /\ Min(S) \in Int BY <1>1
<1> QED BY <1>2, <1>3

\* What is pasted is what is read back first: of the types that are offered for
\* an entry the one that the shell itself prefers carries the content.
LEMMA PasteReadsBack ==
  \A e \in Entries : LET P == BuildClipboardPayload(e)
                     IN P[PickBestMimeType(DOMAIN P)] = "content"
<1> SUFFICES ASSUME NEW e \in Entries
             PROVE  LET P == BuildClipboardPayload(e)
                    IN P[PickBestMimeType(DOMAIN P)] = "content"
  OBVIOUS
<1> DEFINE P == BuildClipboardPayload(e)
           hits == {i \in DOMAIN Priority : Priority[i] \in DOMAIN P}
<1>1. /\ e.type \in {"png", "html", "uris", "utf8", "plain", "x11"}
      /\ e.name \in {"none", "file", "gone"}
  BY WaylandAssumption
<1>2. /\ DOMAIN Priority = {1, 2, 3, 4, 5, 6}
      /\ Priority[1] = "png" /\ Priority[2] = "html" /\ Priority[3] = "uris"
      /\ Priority[4] = "utf8" /\ Priority[5] = "plain" /\ Priority[6] = "x11"
  BY DEF Priority
<1>3. "secret" \notin DOMAIN P BY <1>1 DEF BuildClipboardPayload, PlainTypes
<1>4. ASSUME NEW i \in hits, \A j \in hits : i <= j PROVE Min(hits) = i
  <2>1. hits \in SUBSET Int BY <1>2
  <2> HIDE DEF hits
  <2> QED BY <1>4, <2>1, LeastIs
<1>5. ASSUME NEW i \in hits, \A j \in hits : i <= j, P[Priority[i]] = "content"
      PROVE  P[PickBestMimeType(DOMAIN P)] = "content"
  BY <1>3, <1>4, <1>5 DEF PickBestMimeType, FirstOf
<1>6. CASE e.type \in {"utf8", "plain"}
  <2>1. P = [t \in {e.type} \cup PlainTypes |-> "content"]
    BY <1>6 DEF BuildClipboardPayload
  <2>2. hits = {4, 5, 6} BY <1>2, <1>6, <2>1 DEF PlainTypes
  <2> QED BY <1>2, <1>5, <2>1, <2>2 DEF PlainTypes
<1>7. CASE e.type = "html"
  <2>1. DOMAIN P = {"html"} \cup PlainTypes /\ P["html"] = "content"
    BY <1>7 DEF BuildClipboardPayload
  <2>2. hits = {2, 4, 5, 6} BY <1>2, <2>1 DEF PlainTypes
  <2> QED BY <1>2, <1>5, <2>1, <2>2
<1>8. CASE e.type = "uris"
  <2>1. DOMAIN P \in {{"uris"}, {"uris"} \cup PlainTypes} /\ P["uris"] = "content"
    BY <1>1, <1>8 DEF BuildClipboardPayload
  <2>2. hits \in {{3}, {3, 4, 5, 6}} BY <1>2, <2>1 DEF PlainTypes
  <2> QED BY <1>2, <1>5, <2>1, <2>2
<1>9. CASE e.type = "png"
  <2>1. /\ DOMAIN P \in {{"png"}, {"png", "uris"}, {"png", "suggested"}}
        /\ P["png"] = "content"
    BY <1>1, <1>9 DEF BuildClipboardPayload
  <2>2. hits \in {{1}, {1, 3}} BY <1>2, <2>1
  <2> QED BY <1>2, <1>5, <2>1, <2>2
<1>10. CASE e.type = "x11"
  <2>1. DOMAIN P = {"x11"} /\ P["x11"] = "content"
    BY <1>10 DEF BuildClipboardPayload
  <2>2. hits = {6} BY <1>2, <2>1
  <2> QED BY <1>2, <1>5, <2>1, <2>2
<1> QED BY <1>1, <1>6, <1>7, <1>8, <1>9, <1>10

LEMMA WaylandRuns == [Next]_vars => [WaylandNext]_wayland
  BY DEF Next, vars, wayland, input

\* The inductive invariant: from the events on their way, the reads under way
\* and the sources that are kept it says what becomes of every selection.
THEOREM WaylandInvCorrect == Spec => []WaylandInv
<1>1. Init => WaylandInv BY WaylandInitInv DEF Init
<1>2. WaylandInv /\ [Next]_vars => WaylandInv' BY WaylandNextInv, WaylandRuns
<1> QED BY <1>1, <1>2, PTL DEF Spec

\* The shell follows the compositor however devices are finished, connections
\* break and reads overlap: what is selected is held or told of, and what is
\* held is announced or being read.
THEOREM NoCopyMissedHolds == Spec => []NoCopyMissed
<1>1. ASSUME WaylandInv, Bound, clip # None
      PROVE  \/ Event("selection", clip) \in {events[i] : i \in DOMAIN events}
             \/ /\ current = clip
                /\ \/ PickBestMimeType(clip.types) = None
                   \/ \E r \in reads \cup announced : r.clip = clip
  <2>1. CASE \E i \in DOMAIN events : events[i] = Selected(clip)
    BY <2>1 DEF Selected
  <2>2. CASE current = clip
    BY <1>1, <2>2 DEF WaylandInv, Held, Bound
  <2> QED BY <1>1, <2>1, <2>2 DEF WaylandInv, LastWord
<1>2. WaylandInv => NoCopyMissed BY <1>1 DEF WaylandInv, NoCopyMissed
<1> QED BY <1>2, WaylandInvCorrect, PTL

\* The source of what the shell copied lives as long as it is selected, though
\* cancelled events of earlier sources arrive late, and the loopback guard gets
\* back what was copied, for every kind of entry.
THEOREM PasteIsBackedHolds == Spec => []PasteIsBacked
<1>1. WaylandInv => PasteIsBacked
  BY PasteReadsBack DEF WaylandInv, Backed, PasteIsBacked
<1> QED BY <1>1, WaylandInvCorrect, PTL

\* mMetaGeneration keeps names apart: an image gets the name that was read for
\* it, or none, in whatever order the names and contents of several selections
\* come, as long as no other gets the number of its read while it lasts.
THEOREM NameIsOwnHolds == Spec => []NameIsOwn
<1>1. WaylandInv => NameIsOwn BY DEF WaylandInv
<1> QED BY <1>1, WaylandInvCorrect, PTL
=============================================================================
