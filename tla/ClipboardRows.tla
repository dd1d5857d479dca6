---------------------------- MODULE ClipboardRows ----------------------------
(***************************************************************************)
(* ClipboardModel: the ordered rows of the clipboard list, pinned rows     *)
(* first and newest first within each group, and the index list of a       *)
(* search over them.  Which rows exist is decided in ClipboardHistory; an  *)
(* id that left may come back here as a new row.                           *)
(*                                                                         *)
(* Only the order of timestamps is used, so a reset may number them anew.  *)
(***************************************************************************)
EXTENDS Integers, Parts, SequencesExt

CONSTANTS
  RowIds,    \* rows that may exist
  Queries,   \* search texts with a word in them
  Blank,     \* a search text of white space only
  Off,       \* no search text
  Score,     \* match score of a row for a query; 0 is below the threshold
  MaxClock   \* bound: timestamps between two resets

ASSUME RowsAssumption ==
  /\ Blank \notin Queries /\ Off \notin Queries \cup {Blank}
  /\ Score \in [Queries -> [RowIds -> Nat]]
  /\ -1 \notin RowIds
  /\ MaxClock \in Nat /\ IsFiniteSet(RowIds) /\ MaxClock >= Cardinality(RowIds)

Row == [id : RowIds, pinned : BOOLEAN, stamp : 1 .. MaxClock]

VARIABLES
  entries,   \* mEntries
  query,     \* mFilterQuery; mFiltering is query # Off
  filtered,  \* mFiltered: positions in entries
  clock,     \* the last timestamp taken
  lastCopy,  \* mLastCopyId; -1 at the start
  running    \* the shell runs

rows == <<entries, query, filtered, clock, lastCopy, running>>

RowsInit ==
  /\ entries = <<>> /\ query = Off /\ filtered = <<>>
  /\ clock = 0
  /\ lastCopy = -1
  /\ running = TRUE

IdsOf(s) == {s[k].id : k \in DOMAIN s}
IndexById(i) == SelectInSeq(entries, LAMBDA e : e.id = i)

\* The comparator of setPinById, and of fetchAll's ORDER BY.
Above(a, b) == \/ a.pinned /\ ~b.pinned
               \/ a.pinned = b.pinned /\ a.stamp > b.stamp

\* find_if: the position of the first row that item goes before, or the end.
Passes(item, e) == \/ item.pinned /\ ~e.pinned
                   \/ item.pinned = e.pinned /\ item.stamp >= e.stamp
InsertPos(s, item) ==
  LET k == SelectInSeq(s, LAMBDA e : e.id # item.id /\ Passes(item, e))
  IN IF k = 0 THEN Len(s) + 1 ELSE k

\* stable_sort, of elements no two of which are equal for Before.
Sorted(S, Before(_, _)) ==
  CHOOSE s \in SetToSeqs(S) : \A j, k \in DOMAIN s : j < k => Before(s[j], s[k])

\* rebuildFilter: matching positions, pinned first, best first, stable.
Rebuild(s, q) ==
  LET Hit == {k \in DOMAIN s : Score[q][s[k].id] > 0}
      Better(j, k) ==
        LET a == Score[q][s[j].id] b == Score[q][s[k].id] IN
          \/ s[j].pinned /\ ~s[k].pinned
          \/ s[j].pinned = s[k].pinned /\ (a > b \/ (a = b /\ j < k))
  IN IF q = Off THEN <<>> ELSE IF q = Blank THEN [k \in DOMAIN s |-> k]
     ELSE Sorted(Hit, Better)

StaleFilter(s) ==  \* fault: the filter is not rebuilt
  /\ entries' = s
  /\ UNCHANGED <<query, filtered, running>>

\* Every mutation rebuilds the filter when one is on.
Store(s) ==
  /\ entries' = s
  /\ filtered' = IF query = Off THEN filtered ELSE Rebuild(s, query)
  /\ UNCHANGED <<query, running>>

\* idAtRow(0)
VisibleTop == IF query # Off
              THEN IF filtered = <<>> THEN {} ELSE {entries[filtered[1]].id}
              ELSE IF entries = <<>> THEN {} ELSE {entries[1].id}

-----------------------------------------------------------------------------
\* reset: whatever the table holds, in the order of fetchAll, when the shell
\* starts or a clear reloads the list.  age lists the ids oldest first.
Reset(age, P) ==
  LET Rows == {[id |-> age[k], pinned |-> age[k] \in P, stamp |-> k]
                 : k \in DOMAIN age}
  IN /\ entries' = Sorted(Rows, Above)
     /\ query' = Off
     /\ filtered' = <<>>
     /\ clock' = Len(age)
     /\ lastCopy' = IF running THEN lastCopy ELSE -1
     /\ running' = TRUE

\* prepend of an inserted row; AUTOINCREMENT never repeats a listed id. New
\* entries are unpinned.
Prepend(i) ==
  /\ running /\ i \notin IdsOf(entries) /\ clock < MaxClock
  /\ clock' = clock + 1
  /\ LET item == [id |-> i, pinned |-> FALSE, stamp |-> clock']
     IN Store(InsertAt(entries, InsertPos(entries, item), item))
  /\ UNCHANGED lastCopy

\* removeById and removeByIds
RemoveByIds(S) ==
  /\ running /\ S \cap IdsOf(entries) # {}
  /\ LET kept == Sorted({k \in DOMAIN entries : entries[k].id \notin S}, LAMBDA j, k : j < k)
     IN Store([j \in DOMAIN kept |-> entries[kept[j]]])
  /\ UNCHANGED <<clock, lastCopy>>

SetPinUnsorted(i, b) ==  \* fault: no sort after the flag changed
  /\ running /\ IndexById(i) # 0
  /\ Store([entries EXCEPT ![IndexById(i)].pinned = b])
  /\ UNCHANGED <<clock, lastCopy>>

\* setPinById
SetPin(i, b) ==
  /\ running /\ IndexById(i) # 0
  /\ LET s == [entries EXCEPT ![IndexById(i)].pinned = b]
     IN Store(Sorted(ToSet(s), Above))
  /\ UNCHANGED <<clock, lastCopy>>

\* setFilter
SetFilter(q) ==
  /\ running
  /\ query' = q
  /\ filtered' = Rebuild(entries, q)
  /\ UNCHANGED <<entries, clock, lastCopy, running>>

\* bumpToTop. While searching, the row is taken out before its place is
\* looked up. Otherwise its place dest is counted with the row still in the
\* list; when that place is behind the end, QList::insert asserts in a debug
\* build and appends in a release build.
BumpToTop(i) ==
  /\ IndexById(i) # 0 /\ clock < MaxClock
  /\ clock' = clock + 1
  /\ LET k    == IndexById(i)
         s    == [entries EXCEPT ![k].stamp = clock']
         item == s[k]
         rest == RemoveAt(s, k)
         dest == InsertPos(s, item)
     IN \/ query # Off /\ Store(InsertAt(rest, InsertPos(rest, item), item))
        \/ query = Off /\ dest = k /\ Store(s)
        \/ query = Off /\ dest \in DOMAIN s \ {k} /\ Store(InsertAt(rest, dest, item))
        \/ query = Off /\ dest > Len(s) /\ Store(Append(rest, item))
        \/ /\ query = Off /\ dest > Len(s)
           /\ running' = FALSE
           /\ UNCHANGED <<entries, query, filtered>>

\* persistToHistory on a duplicate.
Duplicate(i) == running /\ BumpToTop(i) /\ UNCHANGED lastCopy

\* copyToClipboard bumps unless the row is the topmost visible one. A repeat
\* within 500 ms does nothing.
Copy(i) ==
  /\ running
  /\ i \in IdsOf(entries)
  /\ lastCopy' = i
  /\ IF i \in VisibleTop THEN UNCHANGED <<entries, query, filtered, clock, running>>
                         ELSE BumpToTop(i)

RowsNext ==
  \/ \E n \in 0 .. Cardinality(RowIds) : \E age \in [1 .. n -> RowIds] :
       IsInjective(age) /\ \E P \in SUBSET ToSet(age) : Reset(age, P)
  \/ \E i \in RowIds : Prepend(i) \/ Duplicate(i) \/ Copy(i)
  \/ \E i \in RowIds, b \in BOOLEAN : SetPin(i, b)
  \/ \E S \in SUBSET RowIds : RemoveByIds(S)
  \/ \E q \in Queries \cup {Blank, Off} : SetFilter(q)


-----------------------------------------------------------------------------
(* Properties.                                                             *)

\* Type correctness; no id and no timestamp is listed twice.
RowsTypeOK ==
  /\ entries \in Seq(Row)
  /\ \A j, k \in DOMAIN entries :
       j # k => entries[j].id # entries[k].id /\ entries[j].stamp # entries[k].stamp
  /\ query \in Queries \cup {Blank, Off}
  /\ filtered \in Seq(Nat)
  /\ clock \in 0 .. MaxClock
  /\ lastCopy \in RowIds \cup {-1}
  /\ running \in BOOLEAN

\* Types are correct, and while a search is on, the visible rows are the
\* matching rows of the current list, each once and in range, whatever was
\* inserted, moved, pinned or removed since the search text was typed: pinned
\* matches first, then the better match, then the row higher in the list.
\* A blank search shows the list as it is.
FilterCurrent ==
  /\ RowsTypeOK
  /\ query = Off => filtered = <<>>
  /\ IsInjective(filtered)
  /\ query \in Queries =>
       LET row(j)   == entries[filtered[j]]
           score(j) == Score[query][row(j).id]
       IN /\ ToSet(filtered) = {k \in DOMAIN entries : Score[query][entries[k].id] > 0}
          /\ \A j, k \in DOMAIN filtered : j < k =>
               \/ row(j).pinned /\ ~row(k).pinned
               \/ /\ row(j).pinned = row(k).pinned
                  /\ \/ score(j) > score(k)
                     \/ score(j) = score(k) /\ filtered[j] < filtered[k]
  /\ query = Blank => filtered = [k \in DOMAIN entries |-> k]

Ordered == \A j, k \in DOMAIN entries : j < k => Above(entries[j], entries[k])

\* Row i comes first among the rows that are pinned as it is.
Leads(i) == \E k \in DOMAIN entries :
  /\ entries[k].id = i
  /\ \A j \in 1 .. k - 1 : entries[j].pinned # entries[k].pinned

\* Pinned first and newest first is lost in one way only: bumping, with no
\* search on, a row that leads its group already.  A new row, a row bumped
\* during a search and a bumped row that was not the leader lead their group
\* afterwards, even in a list that lost its order.
DisorderOnlyByLeader ==
  [][\A i \in RowIds :
       /\ Ordered /\ ~Ordered' => \E j \in RowIds : query = Off /\ Leads(j) /\ BumpToTop(j)
       /\ (\/ Prepend(i)
           \/ BumpToTop(i) /\ running' /\ (query # Off \/ ~Leads(i))) => Leads(i)']_rows

\* tst_clipboardmodel.cpp bumpToTopMovesToFront: a bumped row is at the front.
BumpMovesToFront == [][\A i \in RowIds : Duplicate(i) /\ running' => Leads(i)']_rows
=============================================================================
