-------------------------- MODULE WaylandSelection --------------------------
(***************************************************************************)
(* WaylandDataControl: the clipboard of the compositor.  Selections of     *)
(* other programs are read through pipes, first the file name of an image  *)
(* and then the content, and announced to ClipboardManager; content of the *)
(* history becomes a data source that serves pastes.  The compositor is    *)
(* external; it may take the device away or the connection may break.      *)
(*                                                                         *)
(* A selection is a record of the act of copying; its data are left out.   *)
(* The offer and its types reach the shell together with the selection.    *)
(***************************************************************************)
EXTENDS Parts, FiniteSetsExt

CONSTANTS
  Clips,       \* what other programs copy: sets of MIME types
  Entries,     \* what the shell copies: a type and the name's kind
  MaxClips,    \* bound: acts of copying
  MaxLosses    \* bound: devices finished and connections broken

VARIABLES
  display,       \* mDisplay: connected, broken or none
  device,        \* mDevice is set
  reconnecting,  \* mReconnecting; the zero timer of reconnect() is set with it
  current,       \* mCurrentOffer
  generation,    \* mMetaGeneration
  pendingMeta,   \* mPendingMeta: the selection whose name it is
  reads,         \* mOfferReads
  sources,       \* mPendingSources
  writes,        \* mSourceWrites
  events,        \* what the compositor sent on this connection
  clip,          \* the selection of the compositor
  clips,         \* acts of copying so far
  losses,        \* losses so far
  stranded,      \* ghost: a reconnect failed, or lost the new device at once
  crossed,       \* ghost: the selections that got the same number while
                 \* one of them was being read
  announced      \* ghost: the selections announced, each with a name's owner

connection == <<display, device, reconnecting, stranded>>
offered    == <<current, generation, pendingMeta, reads, crossed>>
compositor == <<clip, clips, losses>>
wayland    == <<connection, offered, sources, writes, events, compositor, announced>>

Event(kind, x) == [kind |-> kind, of |-> x]

-----------------------------------------------------------------------------
(* MIME types.                                                             *)

Priority     == <<"png", "html", "uris", "utf8", "plain", "x11">>
MetaPriority == <<"suggested", "uris">>
PlainTypes   == {"utf8", "plain", "x11"}

FirstOf(order, T) ==
  LET hits == {i \in DOMAIN order : order[i] \in T}
  IN IF hits = {} THEN None ELSE order[Min(hits)]

\* The type that is read; a password is left alone.
PickBestMimeType(T) == IF "secret" \in T THEN None ELSE FirstOf(Priority, T)

\* The type that carries the file name of an image.
PickMetaMimeType(T) ==
  IF PickBestMimeType(T) = "png" THEN FirstOf(MetaPriority, T) ELSE None

\* What the shell offers for an entry, and what each type carries.  A uri-list
\* of a file gives its path, an image its file or the name of one that is gone.
BuildClipboardPayload(e) ==
  LET extra ==
        CASE e.type \in {"utf8", "plain"}            -> PlainTypes
          [] e.type = "html"                         -> PlainTypes
          [] e.type = "uris" /\ e.name = "file"      -> PlainTypes
          [] e.type = "png" /\ e.name = "file"       -> {"uris"}
          [] e.type = "png" /\ e.name = "gone"       -> {"suggested"}
          [] OTHER                                   -> {}
  IN [t \in {e.type} \cup extra |->
        IF t = e.type \/ e.type \in {"utf8", "plain"} THEN "content"
        ELSE IF e.type = "html" THEN "stripped" ELSE "name"]

Selections ==
  [id    : 1 .. MaxClips,
   types : Clips \cup {DOMAIN BuildClipboardPayload(e) : e \in Entries},
   ours  : BOOLEAN]

ASSUME WaylandAssumption ==
  /\ Entries \subseteq [type : {"png", "html", "uris", "utf8", "plain", "x11"},
                       name : {"none", "file", "gone"}]
  /\ {MaxClips, MaxLosses} \subseteq Nat
  /\ None \notin Nat /\ None \notin {"png", "html", "uris", "utf8", "plain", "x11"}
  /\ None \notin Selections

-----------------------------------------------------------------------------
(* The compositor.                                                         *)

\* The compositor knows the device and talks to it.
Ended == \E i \in DOMAIN events : events[i].kind \in {"finished", "error"}
Bound == display = "connected" /\ device /\ ~Ended

Displaced == IF clip # None /\ clip.ours
             THEN <<Event("cancelled", clip.id)>> ELSE <<>>

\* A new selection c, told to the shell.
NewClip(c) ==
  /\ clips' = clips + 1
  /\ clip' = c
  /\ events' = IF Bound THEN events \o Displaced \o <<Event("selection", c)>>
               ELSE events

OtherCopies(T) ==
  /\ clips < MaxClips
  /\ NewClip([id |-> clips + 1, types |-> T, ours |-> FALSE])
  /\ UNCHANGED <<connection, offered, sources, writes, losses, announced>>

\* The owner of the selection exits.
OwnerExits ==
  /\ clip # None /\ ~clip.ours /\ Bound
  /\ clip' = None
  /\ events' = Append(events, Event("selection", None))
  /\ UNCHANGED <<connection, offered, sources, writes, clips, losses, announced>>

\* A program pastes what the shell copied.
Paste ==
  /\ clip # None /\ clip.ours /\ Bound
  /\ Event("send", clip.id) \notin {events[i] : i \in DOMAIN events}
  /\ events' = Append(events, Event("send", clip.id))
  /\ UNCHANGED <<connection, offered, sources, writes, compositor, announced>>

\* The seat goes, which needs a device, or the connection breaks.
Loss(kind) ==
  /\ display = "connected" /\ ~Ended /\ losses < MaxLosses
  /\ kind = "finished" => device
  /\ losses' = losses + 1
  /\ events' = Append(events, Event(kind, None))
  /\ UNCHANGED <<connection, offered, sources, writes, clip, clips, announced>>

-----------------------------------------------------------------------------
(* The shell.                                                              *)

Read(c, what, g) == [clip |-> c, what |-> what, generation |-> g]

\* A name that comes late sets the generation back, so that a number is given
\* twice: c and the selections under way that have its number.
Crossing(c, R) ==
  LET same == {r.clip : r \in {s \in R : s.generation = generation + 1}}
  IN IF same = {} THEN {} ELSE same \cup {c}

ReceiveNameless(c, R) ==  \* fault: an image with a name is not read
  IF PickBestMimeType(c.types) = None \/ PickMetaMimeType(c.types) # None
  THEN UNCHANGED <<generation, reads, crossed>>
  ELSE /\ generation' = generation + 1
       /\ reads' = R \cup {Read(c, "content", generation + 1)}
       /\ crossed' = crossed \cup Crossing(c, R)

\* receiveSelection, with the reads R under way.
ReceiveSelection(c, R) ==
  IF PickBestMimeType(c.types) = None
  THEN UNCHANGED <<generation, reads, crossed>>
  ELSE LET first == IF PickMetaMimeType(c.types) = None THEN "content" ELSE "name"
       IN /\ generation' = generation + 1
          /\ reads' = R \cup {Read(c, first, generation + 1)}
          /\ crossed' = crossed \cup Crossing(c, R)

Dispatched(kind) ==
  /\ display = "connected" /\ events # <<>> /\ Head(events).kind = kind
  /\ events' = Tail(events)
  /\ UNCHANGED <<compositor, announced>>

DeviceSelection ==
  /\ Dispatched("selection")
  /\ LET c == Head(events).of IN
       /\ current' = c
       /\ IF c = None THEN UNCHANGED <<generation, reads, crossed>>
          ELSE ReceiveSelection(c, reads)
  /\ UNCHANGED <<connection, pendingMeta, sources, writes>>

\* A paste: the source serves it, through a pipe of its own.
SourceSend ==
  /\ Dispatched("send")
  /\ writes' = writes \cup ({Head(events).of} \cap sources)
  /\ UNCHANGED <<connection, offered, sources>>

CancelledAll(s) == {}  \* fault: a cancelled source takes the others with it
CancelledOne(s) == sources \ {s}

SourceCancelled ==
  /\ Dispatched("cancelled")
  /\ sources' = CancelledOne(Head(events).of)
  /\ UNCHANGED <<connection, offered, writes>>

FinishedQuietly ==  \* fault: no reconnect is scheduled
  /\ Dispatched("finished")
  /\ device' = FALSE
  /\ UNCHANGED <<display, reconnecting, stranded, offered, sources, writes>>

DeviceFinished ==
  /\ Dispatched("finished")
  /\ device' = FALSE
  /\ reconnecting' = TRUE
  /\ UNCHANGED <<display, stranded, offered, sources, writes>>

\* dispatchWayland fails.
ConnectionBroken ==
  /\ Dispatched("error")
  /\ display' = "broken"
  /\ reconnecting' = TRUE
  /\ UNCHANGED <<device, stranded, offered, sources, writes>>

\* shutdown, then connectAndBind: the compositor sends the selection to the new
\* device, cannot be reached, or takes the device away during the roundtrip,
\* when mReconnecting lets no further reconnect be scheduled.  What the old
\* connection owned is no longer selected.
Reconnect ==
  /\ reconnecting
  /\ reconnecting' = FALSE
  /\ reads' = {} /\ writes' = {} /\ sources' = {} /\ current' = None
  /\ clip' = IF clip # None /\ clip.ours THEN None ELSE clip
  /\ \/ /\ display' = "connected" /\ device' = TRUE
        /\ events' = IF clip' = None THEN <<>> ELSE <<Event("selection", clip')>>
        /\ stranded' = FALSE
     \/ /\ display' = "none" /\ device' = FALSE
        /\ events' = <<>> /\ stranded' = TRUE
     \/ /\ display' = "connected" /\ device' = FALSE
        /\ events' = <<>> /\ stranded' = TRUE
  /\ UNCHANGED <<generation, pendingMeta, crossed, clips, losses, announced>>

NameAnyway(r) == pendingMeta  \* fault: the generation is not compared
NameFor(r) == IF generation = r.generation THEN pendingMeta ELSE None

\* The name is complete; the content follows if the offer still stands.
NameRead(r) ==
  /\ r \in reads /\ r.what = "name"
  /\ pendingMeta' = r.clip.id
  /\ generation' = r.generation
  /\ reads' = (reads \ {r}) \cup
       (IF device /\ current = r.clip THEN {Read(r.clip, "content", r.generation)} ELSE {})
  /\ UNCHANGED <<connection, current, crossed, sources, writes, events, compositor, announced>>

\* The content is complete, or its writer gave up.
ContentRead(r) ==
  /\ r \in reads /\ r.what = "content"
  /\ reads' = reads \ {r}
  /\ announced' = announced \cup {[clip |-> r.clip, name |-> NameFor(r)]}
  /\ UNCHANGED <<connection, current, generation, pendingMeta, crossed, sources,
                 writes, events, compositor>>

WriteDone(s) ==
  /\ s \in writes
  /\ writes' = writes \ {s}
  /\ UNCHANGED <<connection, offered, sources, events, compositor, announced>>

\* The compositor ignores a request to a device it has finished.
SetClipboardContent(e) ==
  /\ device /\ clips < MaxClips
  /\ sources' = sources \cup {clips + 1}
  /\ IF Bound
     THEN NewClip([id |-> clips + 1, types |-> DOMAIN BuildClipboardPayload(e),
                   ours |-> TRUE])
     ELSE clips' = clips + 1 /\ UNCHANGED <<clip, events>>
  /\ UNCHANGED <<connection, offered, writes, losses, announced>>

-----------------------------------------------------------------------------
WaylandInit ==
  /\ display = "connected" /\ device = TRUE /\ reconnecting = FALSE
  /\ current = None /\ generation = 0 /\ pendingMeta = None /\ reads = {}
  /\ sources = {} /\ writes = {}
  /\ events = <<>> /\ clip = None /\ clips = 0 /\ losses = 0
  /\ stranded = FALSE /\ crossed = {} /\ announced = {}

WaylandLoop ==
  \/ DeviceSelection \/ SourceSend \/ SourceCancelled
  \/ DeviceFinished \/ ConnectionBroken \/ Reconnect

WaylandPeers ==
  \/ \E r \in reads : NameRead(r) \/ ContentRead(r)
  \/ \E s \in writes : WriteDone(s)

WaylandOthers ==
  \/ \E T \in Clips : OtherCopies(T)
  \/ \E e \in Entries : SetClipboardContent(e)
  \/ OwnerExits \/ Paste
  \/ Loss("finished") \/ Loss("error")

WaylandNext == WaylandLoop \/ WaylandPeers \/ WaylandOthers

-----------------------------------------------------------------------------
(* Properties.                                                             *)

WaylandMessages ==
  [kind : {"selection"}, of : Selections \cup {None}]
    \cup [kind : {"cancelled", "send"}, of : 1 .. MaxClips]
    \cup [kind : {"finished", "error"}, of : {None}]

OfferReads == [clip : Selections, what : {"name", "content"}, generation : Nat]

\* Type correctness of the shell's and the compositor's state.
WaylandTypeOK ==
  /\ display \in {"connected", "broken", "none"}
  /\ {device, reconnecting, stranded} \subseteq BOOLEAN /\ crossed \subseteq Selections
  /\ pendingMeta \in 1 .. MaxClips \cup {None}
  /\ sources \subseteq 1 .. MaxClips /\ writes \subseteq 1 .. MaxClips
  /\ clips \in 0 .. MaxClips /\ losses \in 0 .. MaxLosses
  /\ generation \in Nat
  /\ clip \in Selections \cup {None} /\ current \in Selections \cup {None}
  /\ events \in Seq(WaylandMessages)
  /\ reads \subseteq OfferReads
  /\ announced \subseteq [clip : Selections, name : 1 .. MaxClips \cup {None}]

\* Types are correct, and a selection the shell holds is announced or being
\* read, and the selection of the compositor is held or on its way, whatever
\* came, went or was reconnected in between: no copy is missed.
NoCopyMissed ==
  /\ WaylandTypeOK
  /\ Bound /\ clip # None =>
       \/ Event("selection", clip) \in {events[i] : i \in DOMAIN events}
       \/ /\ current = clip
          /\ \/ PickBestMimeType(clip.types) = None
             \/ \E r \in reads \cup announced : r.clip = clip

\* An image that has a name is announced with it or with none, never with that
\* of another selection, in whatever order names and contents of several of them
\* come, and although a late name sets the generation back; unless the number it
\* was read under was given to another selection meanwhile.
NameIsOwn ==
  \A a \in announced :
    a.clip \notin crossed /\ PickMetaMimeType(a.clip.types) # None =>
      a.name \in {a.clip.id, None}

\* What the shell copied can be pasted as long as it is selected, and read back
\* it is what was copied, so that the loopback guard knows it.
PasteIsBacked ==
  /\ Bound /\ clip # None /\ clip.ours => clip.id \in sources
  /\ \A e \in Entries : LET P == BuildClipboardPayload(e)
                        IN P[PickBestMimeType(DOMAIN P)] = "content"

\* After a finished device or a broken connection there is a device again; only
\* a reconnect that fails, or whose device is taken at once, ends that.
DeviceReturns == []<>(device /\ display = "connected") \/ <>[]stranded
=============================================================================
