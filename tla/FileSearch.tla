----------------------------- MODULE FileSearch -----------------------------
(***************************************************************************)
(* The search of the file dialog: a text field behind a debounce timer,    *)
(* DirectoryWalker (a list of all files below the directory, cached under  *)
(* a key) and SearchEngine (ranks the list; its results are a singleton's  *)
(* and outlive the dialog).  fileDirs is empty, so that the roots and the  *)
(* key stand for the current folder; what is ranked how is left out.       *)
(*                                                                         *)
(* Generation numbers are compared for equality with the last one only, so *)
(* a job carries whether it is still the latest of its kind.               *)
(***************************************************************************)
EXTENDS JobExecutor, FiniteSets

CONSTANTS
  Home, Folders,   \* folders; the dialog opens in Home
  EmptyFolders,    \* folders without files
  Texts,           \* what may be typed
  Blank            \* a text of white space

ASSUME FileSearchAssumption ==
  /\ Home \in Folders /\ EmptyFolders \subseteq Folders
  /\ None \notin Folders /\ "" \notin Texts
  /\ "search" \in Users /\ MaxCalls \in [Users -> Nat]

VARIABLES
  visible,     \* searchVisible
  text,        \* the search field
  debounced,   \* debouncedValue
  timer,       \* the debounce timer runs
  history,     \* folders visited
  at,          \* historyIndex
  disk,        \* external: the version of the files on disk
  walkedKey,   \* walkedCacheKey
  entries,     \* searchedEntries: folder and version they were read from
  walking,     \* the walker's walking
  results,     \* fileResults: the entries and the text they are for
  abandoned    \* ghost: the dialog was closed during its last walk

dialog   == <<visible, text, debounced, timer, history, at>>
cache    == <<walkedKey, entries, walking, results, abandoned>>
fileSearch == <<dialog, disk, cache>>

FileSearchInit ==
  /\ visible = FALSE /\ text = "" /\ debounced = "" /\ timer = FALSE
  /\ history = <<Home>> /\ at = 1
  /\ disk = 0
  /\ walkedKey = None /\ entries = None /\ walking = FALSE
  /\ results = None
  /\ abandoned = FALSE

Folder == history[at]
Value  == IF visible THEN text ELSE ""

\* Jobs and replies of kind k are superseded.
Outdated(q, k) ==
  [i \in DOMAIN q |-> IF q[i].kind = k THEN [q[i] EXCEPT !.latest = FALSE] ELSE q[i]]

Walk         == [kind |-> "walk", folder |-> Folder, latest |-> TRUE]
Search(e, t) == [kind |-> "search", entries |-> e, text |-> t, latest |-> TRUE]

KeyThoughBusy(key, walks) == Folder  \* fault: stored though no walk starts
KeyForgotten(key, walks) == key  \* fault: walkedCacheKey is not stored
Key(key, walks) == IF walks THEN Folder ELSE key

\* runFileSearch, with searchedEntries e, walkedCacheKey key, the walker busy
\* or not, and the queues J and R.
RunFileSearch(e, key, busy, J, R) ==
  /\ entries' = e
  /\ IF visible /\ text # ""
     THEN LET walks == ~busy /\ (key # Folder \/ e = None) IN
          /\ jobs' = Outdated(J, "search")
                       \o (IF walks THEN <<Walk>> ELSE <<>>) \o <<Search(e, text)>>
          /\ replies' = Outdated(R, "found")
          /\ walkedKey' = Key(key, walks)
          /\ walking' = (busy \/ walks)
          /\ UNCHANGED results
     ELSE /\ jobs' = J /\ replies' = R
          /\ walkedKey' = key /\ walking' = busy
          /\ results' = None

-----------------------------------------------------------------------------
(* The dialog.                                                             *)

Type(t) ==
  /\ visible /\ t # text
  /\ Call("search", <<>>) /\ UNCHANGED replies
  /\ text' = t
  /\ timer' = TRUE
  /\ UNCHANGED <<visible, debounced, history, at, disk, cache>>

ClearSearch ==
  /\ text' = "" /\ results' = None
  /\ timer' = (timer \/ Value # "")
  /\ UNCHANGED <<walkedKey, entries, walking, abandoned>>

ToggleSearch ==
  /\ Call("search", <<>>) /\ UNCHANGED replies
  /\ visible' = ~visible
  /\ IF visible THEN ClearSearch ELSE UNCHANGED <<text, timer, cache>>
  /\ UNCHANGED <<debounced, history, at, disk>>

NavigateTo(f) ==
  /\ Call("search", <<>>) /\ UNCHANGED replies
  /\ ClearSearch
  /\ history' = Append(SubSeq(history, 1, at), f)
  /\ at' = Len(history')
  /\ UNCHANGED <<visible, debounced, disk>>

\* goBack and goForward leave the search as it is.
GoTo(i) ==
  /\ i \in DOMAIN history /\ i \in {at - 1, at + 1}
  /\ Call("search", <<>>) /\ UNCHANGED replies
  /\ at' = i
  /\ UNCHANGED <<visible, text, debounced, timer, history, disk, cache>>

\* The files changed, and the user refreshes.
Refresh ==
  /\ CallOf("search")
  /\ disk' = disk + 1
  /\ \/ text # "" /\ RunFileSearch(entries, None, walking, jobs, replies)
     \/ /\ text = ""
        /\ walkedKey' = None
        /\ UNCHANGED <<jobs, replies, entries, walking, results>>
  /\ UNCHANGED <<dialog, abandoned>>

\* The timer fires; a new value runs the search.
Debounce ==
  /\ timer
  /\ timer' = FALSE
  /\ debounced' = Value
  /\ IF Value # debounced
     THEN RunFileSearch(entries, walkedKey, walking, jobs, replies)
     ELSE UNCHANGED <<jobs, replies, walkedKey, entries, walking, results>>
  /\ UNCHANGED <<calls, user, visible, text, history, at, disk, abandoned>>

\* The dialog closes and opens again: the field, the timer and the walker are
\* new, the walker's jobs have lost their receiver; the rest is kept.
Reopen ==
  /\ CallOf("search")
  /\ text' = "" /\ debounced' = "" /\ timer' = FALSE
  /\ walking' = FALSE
  /\ abandoned' = (abandoned \/ walking)
  /\ jobs' = Outdated(jobs, "walk") /\ replies' = Outdated(replies, "walked")
  /\ results' = None
  /\ history' = Append(SubSeq(history, 1, at), Home)
  /\ at' = Len(history')
  /\ UNCHANGED <<visible, disk, walkedKey, entries>>

-----------------------------------------------------------------------------
(* The worker thread, and what it sends back.                              *)

WalkDirs ==
  /\ LET j == Head(jobs) IN
       Run("walk", [kind |-> "walked", latest |-> j.latest,
                    entries |-> IF j.folder \in EmptyFolders THEN None
                                ELSE [folder |-> j.folder, disk |-> disk]])
  /\ UNCHANGED fileSearch

SearchFiles ==
  /\ LET j == Head(jobs) IN
       Run("search", [kind |-> "found", entries |-> j.entries, text |-> j.text,
                      latest |-> j.latest])
  /\ UNCHANGED fileSearch

\* walkFinished, and what the dialog makes of it.
WalkFinished ==
  /\ Due("walked")
  /\ LET r == Head(replies) IN
       IF ~r.latest
       THEN replies' = Tail(replies) /\ UNCHANGED <<jobs, cache>>
       ELSE /\ abandoned' = FALSE
            /\ IF visible /\ text # ""
               THEN RunFileSearch(r.entries, walkedKey, FALSE, jobs, Tail(replies))
               ELSE /\ replies' = Tail(replies)
                    /\ entries' = r.entries /\ walking' = FALSE
                    /\ UNCHANGED <<jobs, walkedKey, results>>
  /\ UNCHANGED <<calls, user, dialog, disk>>

AcceptAny(r) == TRUE  \* fault: the generation is not compared
Accept(r) == r.latest

\* setEntries, or clear when the text has no word.
Found ==
  /\ Deliver("found")
  /\ LET r == Head(replies) IN
       results' = IF ~Accept(r) THEN results
                  ELSE IF r.text = Blank THEN None
                  ELSE [entries |-> r.entries, text |-> r.text]
  /\ UNCHANGED <<jobs, dialog, disk, walkedKey, entries, walking, abandoned>>

-----------------------------------------------------------------------------
FileSearchCall ==
  \/ \E t \in Texts \cup {""} : Type(t)
  \/ ToggleSearch \/ Refresh \/ Reopen
  \/ \E f \in Folders : NavigateTo(f)
  \/ \E i \in 1 .. MaxCalls["search"] + 1 : GoTo(i)

FileSearchWork  == WalkDirs \/ SearchFiles
FileSearchReply == WalkFinished \/ Found

-----------------------------------------------------------------------------
(* Properties.                                                             *)

Entries == {None} \cup [folder : Folders, disk : 0 .. MaxCalls["search"]]

\* Type correctness of the dialog, the walker and the results.
FileSearchTypeOK ==
  /\ {visible, timer, walking, abandoned} \subseteq BOOLEAN
  /\ {text, debounced} \subseteq Texts \cup {""}
  /\ history \in Seq(Folders) /\ at \in DOMAIN history
  /\ disk \in 0 .. MaxCalls["search"]
  /\ walkedKey \in Folders \cup {None}
  /\ entries \in Entries
  /\ results \in {None} \cup [entries : Entries, text : Texts]

\* Types are correct; the cached list is of the folder its key names and as
\* fresh as the last refresh, and walking tells whether a list is on its way,
\* whatever was navigated, refreshed or typed during the walk; only closing the
\* dialog during a walk leaves a key without its list.
CacheMatchesKey ==
  /\ FileSearchTypeOK
  /\ walkedKey # None /\ ~walking /\ ~abandoned =>
       entries = None \/ entries = [folder |-> walkedKey, disk |-> disk]
  /\ walking <=> \E q \in {jobs, replies} : \E i \in DOMAIN q :
                   q[i].kind \in {"walk", "walked"} /\ q[i].latest

\* What replaces the results is the answer to the last search asked for, never
\* that of an earlier one that was still on its way.
LastSearchWins ==
  [][Found /\ results' # results =>
       ~ \E i \in DOMAIN jobs \cup DOMAIN replies :
           \/ i \in DOMAIN jobs /\ jobs[i].kind = "search"
           \/ i \in DOMAIN replies \ {1} /\ replies[i].kind = "found"]_<<fileSearch, executor>>

\* The walker comes to rest, unless the search stays in a folder without files:
\* each walk of it finds nothing and starts the next.
WalksEnd == []<>~walking \/ <>[](Folder \in EmptyFolders /\ text # "")
=============================================================================
