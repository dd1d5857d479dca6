-------------------------- MODULE ClipboardHistory --------------------------
(***************************************************************************)
(* The clipboard history: the SQLite table, the list shown from it and the *)
(* event queue of the main thread that keeps the two together.             *)
(*                                                                         *)
(* ClipboardManager changes the list at once and the table either at once  *)
(* (remove, clear, prune, insert) or in a zero timer (pin, copy), or the   *)
(* other way round (reload after a clear).  Zero timers and the selections *)
(* posted by the Wayland thread share one FIFO, so user calls, selections  *)
(* and deferred halves interleave.  SQLite statements succeed here.  The   *)
(* order of the shown rows is in ClipboardRows.                            *)
(***************************************************************************)
EXTENDS Integers, FiniteSets, Sequences, FiniteSetsExt

CONSTANTS
  Contents,       \* what a selection may carry; the hash identifies it
  Blanks,         \* the contents that are empty or white space
  Size,           \* bytes of each content
  None,           \* no content
  EntryLimits,    \* values maxEntries may be given; 0 is unlimited
  ByteLimits,     \* values maxMegabytes may be given; 0 is unlimited
  PruneRounds,    \* maxIterations of the byte pruning loop
  MaxId,          \* bound: rows ever inserted
  MaxClock,       \* bound: timestamps ever taken
  MaxQueue        \* bound: events waiting for the main thread

ASSUME HistoryAssumption ==
  /\ Blanks \subseteq Contents /\ None \notin Contents
  /\ Size \in [Contents -> Nat]
  /\ EntryLimits \subseteq Nat /\ ByteLimits \subseteq Nat
  /\ {PruneRounds, MaxId, MaxClock, MaxQueue} \subseteq Nat

Ids == 1 .. MaxId
Limits == [entries : EntryLimits, bytes : ByteLimits]

Events ==
  [kind : {"selection"}, content : Contents]
    \cup [kind : {"pin"}, id : Ids, to : BOOLEAN]
    \cup [kind : {"bump"}, id : Ids]
    \cup [kind : {"reload"}]

VARIABLES
  stored,     \* ids of the rows of clipboard_entries
  pins,       \* the stored ids with pinned = 1
  content,    \* content of each stored row
  stamp,      \* timestamp of each stored row
  shown,      \* ids in mModel
  shownPins,  \* the shown ids that are pinned there
  queue,      \* the main thread's event queue
  guard,      \* the content LoopbackGuard is armed with
  limits,     \* mMaxEntries and mMaxMegabytes
  nextId,     \* the id AUTOINCREMENT gives next
  clock       \* the last timestamp taken; every one is new

table == <<stored, pins, content, stamp>>
list  == <<shown, shownPins>>
vars  == <<table, list, queue, guard, limits, nextId, clock>>

Init ==
  /\ stored = {} /\ pins = {}
  /\ content = [i \in Ids |-> None]
  /\ stamp = [i \in Ids |-> 0]
  /\ shown = {} /\ shownPins = {}
  /\ queue = <<>>
  /\ guard = None
  /\ limits \in Limits
  /\ nextId = 1
  /\ clock = 0

Post(e)     == Len(queue) < MaxQueue /\ queue' = Append(queue, e)
Dequeue(kind) == queue # <<>> /\ Head(queue).kind = kind /\ queue' = Tail(queue)

-----------------------------------------------------------------------------
(* pruneToLimit.                                                           *)

Bytes(S, c) == MapThenSumSet(LAMBDA i : Size[c[i]], S)

Newest(V, S, t) ==  \* fault: ORDER BY timestamp DESC
  V \subseteq S /\ \A v \in V, u \in S \ V : t[v] >= t[u]

\* V is what `ORDER BY timestamp ASC` takes first out of S.
Oldest(V, S, t) == V \subseteq S /\ \A v \in V, u \in S \ V : t[v] <= t[u]

\* V1 goes because there are more unpinned rows than maxEntries.
CountVictims(V1, free, t) ==
  /\ Oldest(V1, free, t)
  /\ Cardinality(V1) = IF limits'.entries > 0 /\ Cardinality(free) > limits'.entries
                       THEN Cardinality(free) - limits'.entries ELSE 0

\* V2 goes one by one, oldest first, while all rows, pinned ones included,
\* exceed the byte limit and rounds are left.
ByteVictims(V2, free, held, t, c) ==
  LET Over(S) == limits'.bytes > 0 /\ Bytes(S, c) > limits'.bytes IN
  /\ Oldest(V2, free, t)
  /\ Cardinality(V2) <= PruneRounds
  /\ Over(held \ V2) => V2 = free \/ Cardinality(V2) = PruneRounds
  /\ \A v \in V2 : (\A u \in V2 : t[u] <= t[v]) => Over((held \ V2) \cup {v})

PruneSilently(S, t, c, sh) ==  \* fault: the list is not told what was pruned
  \E V1, V2 \in SUBSET (S \ pins) :
    /\ CountVictims(V1, S \ pins, t)
    /\ ByteVictims(V2, (S \ pins) \ V1, S \ V1, t, c)
    /\ stored' = S \ (V1 \cup V2)
    /\ shown' = sh
    /\ shownPins' = shownPins

\* Table and list after pruning a table of rows S with pins, stamps t and
\* contents c, the list being sh before.
Prune(S, t, c, sh) ==
  \E V1, V2 \in SUBSET (S \ pins) :
    /\ CountVictims(V1, S \ pins, t)
    /\ ByteVictims(V2, (S \ pins) \ V1, S \ V1, t, c)
    /\ stored' = S \ (V1 \cup V2)
    /\ shown' = sh \ (V1 \cup V2)
    /\ shownPins' = shownPins \ (V1 \cup V2)

\* The content and timestamp of a deleted row are gone.
Kept(f, none) == [i \in Ids |-> IF i \in stored' THEN f[i] ELSE none]

-----------------------------------------------------------------------------
(* Selections.                                                             *)

\* selectionReceived, posted by the Wayland thread: another client's copy or
\* the echo of what this manager offered.
Arrive(c) ==
  /\ Post([kind |-> "selection", content |-> c])
  /\ UNCHANGED <<table, list, guard, limits, nextId, clock>>

\* insert, entryInserted, prepend and pruneIfNeeded are one call.
Insert(c) ==
  /\ nextId \in Ids /\ clock < MaxClock
  /\ nextId' = nextId + 1
  /\ clock' = clock + 1
  /\ UNCHANGED limits
  /\ LET t == [stamp EXCEPT ![nextId] = clock']
         n == [content EXCEPT ![nextId] = c]
     IN /\ Prune(stored \cup {nextId}, t, n, shown \cup {nextId})
        /\ stamp' = Kept(t, 0)
        /\ content' = Kept(n, None)
  /\ UNCHANGED pins

\* shouldSuppress disarms the guard whatever arrives; it suppresses a match
\* unless the window has passed.  A blank or a duplicate adds no row.
HandleSelection ==
  /\ Dequeue("selection")
  /\ guard' = None
  /\ LET c == Head(queue).content IN
       \/ guard = c /\ UNCHANGED <<table, list, limits, nextId, clock>>
       \/ /\ c \in Blanks \/ \E i \in stored : content[i] = c
          /\ UNCHANGED <<table, list, limits, nextId, clock>>
       \/ c \notin Blanks /\ (\A i \in stored : content[i] # c) /\ Insert(c)

-----------------------------------------------------------------------------
(* The deferred halves.                                                    *)

HandlePinSilent ==  \* fault: entryPinChanged does not reach the list
  /\ Dequeue("pin")
  /\ LET i == Head(queue).id
         Set(S, D) == IF i \notin D THEN S
                      ELSE IF Head(queue).to THEN S \cup {i} ELSE S \ {i}
     IN pins' = Set(pins, stored)
  /\ UNCHANGED <<stored, content, stamp, list, guard, limits, nextId, clock>>

\* setPin, and entryPinChanged back to the list.
HandlePin ==
  /\ Dequeue("pin")
  /\ LET i == Head(queue).id
         Set(S, D) == IF i \notin D THEN S
                      ELSE IF Head(queue).to THEN S \cup {i} ELSE S \ {i}
     IN pins' = Set(pins, stored) /\ shownPins' = Set(shownPins, shown)
  /\ UNCHANGED <<stored, content, stamp, shown, guard, limits, nextId, clock>>

\* bumpTimestamp
HandleBump ==
  /\ Dequeue("bump")
  /\ clock < MaxClock
  /\ clock' = clock + 1
  /\ LET i == Head(queue).id
     IN stamp' = IF i \in stored THEN [stamp EXCEPT ![i] = clock'] ELSE stamp
  /\ UNCHANGED <<stored, pins, content, list, guard, limits, nextId>>

\* loadAllEntries
HandleReload ==
  /\ Dequeue("reload")
  /\ shown' = stored
  /\ shownPins' = pins
  /\ UNCHANGED <<table, guard, limits, nextId, clock>>

-----------------------------------------------------------------------------
(* Calls of the drawer and of IPC.                                         *)

\* copyToClipboard: an id that is not stored fails; a repeat within 500 ms
\* changes nothing.  The bump is posted unless the entry is on top already.
Copy(i) ==
  /\ i \in stored
  /\ guard' = content[i]
  /\ Post([kind |-> "bump", id |-> i]) \/ UNCHANGED queue
  /\ UNCHANGED <<table, list, limits, nextId, clock>>

\* copySelection: the texts of shown entries, joined.
CopySelection(c) ==
  /\ shown # {} /\ c \in Contents \ Blanks
  /\ guard' = c
  /\ UNCHANGED <<table, list, queue, limits, nextId, clock>>

\* pin: the drawer toggles what the row shows.
Pin(i) ==
  /\ i \in shown
  /\ shownPins' = IF i \in shownPins THEN shownPins \ {i} ELSE shownPins \cup {i}
  /\ Post([kind |-> "pin", id |-> i, to |-> i \notin shownPins])
  /\ UNCHANGED <<table, shown, guard, limits, nextId, clock>>

\* Deletes rows D from the table and rows S from the list.
Delete(D, S) ==
  /\ stored' = stored \ D
  /\ pins' = pins \ D
  /\ content' = Kept(content, None)
  /\ stamp' = Kept(stamp, 0)
  /\ shown' = shown \ S
  /\ shownPins' = shownPins \ S
  /\ UNCHANGED <<guard, limits, nextId, clock>>

\* remove, of any id a caller has.
Remove(i) == Delete({i}, {i}) /\ UNCHANGED queue

RemoveManyAll(S) ==  \* fault: pinned entries are not skipped
  /\ S # {}
  /\ Delete(S, S)
  /\ UNCHANGED queue

RemoveManyHidesAll(S) ==  \* fault: removeByIds is given the unfiltered ids
  /\ S \ shownPins # {}
  /\ Delete((S \ shownPins) \ pins, S)
  /\ UNCHANGED queue

\* removeMany skips what the list shows pinned; the DELETE skips what the
\* table has pinned; the list drops all that was asked for.
RemoveMany(S) ==
  /\ S \ shownPins # {}
  /\ Delete((S \ shownPins) \ pins, S \ shownPins)
  /\ UNCHANGED queue

Clear(D) == Delete(D, {}) /\ Post([kind |-> "reload"])
ClearUnpinned == Clear(stored \ pins)
ClearAll == Clear(stored)

\* setMaxEntries and setMaxMegabytes; either prunes.
SetLimits(l) ==
  /\ l # limits
  /\ l.entries = limits.entries \/ l.bytes = limits.bytes
  /\ limits' = l
  /\ Prune(stored, stamp, content, shown)
  /\ content' = Kept(content, None)
  /\ stamp' = Kept(stamp, 0)
  /\ UNCHANGED <<pins, queue, guard, nextId, clock>>

\* The shell quits or crashes and starts again: the queue is lost, the list
\* is loaded from the table.
Restart ==
  /\ queue' = <<>>
  /\ guard' = None
  /\ limits' \in Limits
  /\ shown' = stored
  /\ shownPins' = pins
  /\ UNCHANGED <<table, nextId, clock>>

-----------------------------------------------------------------------------
Next ==
  \/ \E c \in Contents : Arrive(c) \/ CopySelection(c)
  \/ HandleSelection \/ HandlePin \/ HandleBump \/ HandleReload
  \/ \E i \in Ids : Copy(i) \/ Pin(i) \/ Remove(i)
  \/ \E S \in SUBSET Ids : RemoveMany(S)
  \/ ClearUnpinned \/ ClearAll
  \/ \E l \in Limits : SetLimits(l)
  \/ Restart

Spec == Init /\ [][Next]_vars

-----------------------------------------------------------------------------
(* Properties.                                                             *)

Pending(kind) == {k \in 1 .. Len(queue) : queue[k].kind = kind}
PendingPins(i) == {k \in Pending("pin") : queue[k].id = i}

\* Type correctness; pins are flags of existing rows.
TypeOK ==
  /\ stored \subseteq Ids /\ pins \subseteq stored
  /\ content \in [Ids -> Contents \cup {None}]
  /\ stamp \in [Ids -> 0 .. MaxClock]
  /\ shown \subseteq Ids /\ shownPins \subseteq shown
  /\ queue \in Seq(Events) /\ Len(queue) <= MaxQueue
  /\ guard \in Contents \cup {None}
  /\ limits \in Limits
  /\ nextId \in 1 .. MaxId + 1
  /\ clock \in 0 .. MaxClock
  /\ \A i \in stored : content[i] \in Contents \ Blanks

\* Types are correct and there are no ghosts: unless a reload is queued every
\* shown row is in the table, so copying or opening what is on screen finds it,
\* whatever was pruned, removed or cleared meanwhile.
ShownIsStored ==
  /\ TypeOK
  /\ Pending("reload") = {} => shown \subseteq stored

\* The pin shown for a row is the pin stored for it once no setPin for the row
\* is queued, however toggles, reloads and deletions were interleaved.
PinsSettle ==
  \A i \in shown \cap stored :
    PendingPins(i) = {} => (i \in shownPins <=> i \in pins)

\* An entry whose pin has been stored leaves the table only when it is removed
\* by id or the whole history is cleared: neither pruning, removeMany nor
\* clearUnpinned takes it.
SettledPinSurvives ==
  [][\A i \in shownPins \cap stored :
       PendingPins(i) = {} /\ i \notin stored' => Remove(i) \/ ClearAll]_vars

WithinLimit ==
  limits.entries = 0 \/ Cardinality(stored \ pins) <= limits.entries

\* Only an unpin sets the list and the limits aside.  A row that stays in the
\* table leaves the screen only through a removeMany that overtakes the row's
\* own queued unpin; the table outgrows maxEntries only when an unpin is stored
\* (which prunes nothing) or at a restart with other limits.
OnlyUnpinDisturbs ==
  [][/\ \A i \in stored \cap shown :
          i \in stored' \ shown' => \E k \in PendingPins(i) : ~queue[k].to
     /\ WithinLimit /\ ~WithinLimit' => (HandlePin /\ ~Head(queue).to) \/ Restart]_vars

\* A fresh selection is in the history when its handler returns, unless it was
\* taken for the manager's own echo, is blank, or does not fit beside what is
\* pinned: the pruning it triggers never sacrifices it to older rows.
NewestKept ==
  [][HandleSelection /\ Head(queue).content \notin Blanks \cup {guard} =>
       LET c == Head(queue).content IN
         \/ \E i \in stored' : content'[i] = c
         \/ /\ limits.bytes > 0
            /\ Bytes(pins, content) + Size[c] > limits.bytes]_vars
=============================================================================
