--------------------------- MODULE ShellJobs_proof ---------------------------
(***************************************************************************)
(* Proofs about ShellJobs, the users of JobExecutor, for any folders,      *)
(* texts, displays and numbers of calls.                                   *)
(***************************************************************************)
EXTENDS ShellJobs, QueueTheorems, WellFoundedInduction, TLAPS

-----------------------------------------------------------------------------
(* What waits in the two queues.                                           *)

SearchJobs ==
  [kind : {"walk"}, folder : Folders, latest : BOOLEAN]
    \cup [kind : {"search"}, entries : Entries, text : Texts, latest : BOOLEAN]
SearchReplies ==
  [kind : {"walked"}, entries : Entries, latest : BOOLEAN]
    \cup [kind : {"found"}, entries : Entries, text : Texts, latest : BOOLEAN]

Values == UNION {[S -> Percents] : S \in SUBSET Displays}

BrightnessJobs == [kind : {"scan"}] \cup [kind : {"write"}, worker : Workers]
BrightnessReplies ==
  [kind : {"screens"}]
    \cup [kind : {"published"}, scan : Scans, unread : SUBSET Displays, value : Values]
    \cup [kind : {"written"}, worker : Workers, value : Percents, ok : BOOLEAN,
          reached : BOOLEAN]

AllJobs    == SearchJobs \cup BrightnessJobs
AllReplies == SearchReplies \cup BrightnessReplies

QueuesTyped == jobs \in Seq(AllJobs) /\ replies \in Seq(AllReplies)

OfSearch     == {"walk", "search", "walked", "found"}
OfBrightness == {"scan", "write", "screens", "published", "written"}

-----------------------------------------------------------------------------
(* The inductive invariant of the search, over the queues J and R, the key *)
(* and the list e of the cache, whether a walk is on its way (busy),       *)
(* whether a walk was abandoned (closed) and the files d on disk.          *)

Walks(x) == x.kind \in {"walk", "walked"} /\ x.latest

\* At most one walk is the latest, and busy tells of it.
OneWalk(J, R, busy) ==
  /\ \A i, j \in DOMAIN J : Walks(J[i]) /\ Walks(J[j]) => i = j
  /\ \A i, j \in DOMAIN R : Walks(R[i]) /\ Walks(R[j]) => i = j
  /\ \A i \in DOMAIN J, j \in DOMAIN R : ~(Walks(J[i]) /\ Walks(R[j]))
  /\ busy <=> (\E i \in DOMAIN J : Walks(J[i])) \/ \E i \in DOMAIN R : Walks(R[i])

\* A list is what a walk of the key's folder finds now.
Fresh(e, key, d) == e = None \/ e = [folder |-> key, disk |-> d]

\* The latest walk is of the key's folder, and so is the list in the cache.
WalkOfKey(J, R, key, d) ==
  key # None =>
    /\ \A i \in DOMAIN J : J[i].kind = "walk" /\ J[i].latest => J[i].folder = key
    /\ \A i \in DOMAIN R : R[i].kind = "walked" /\ R[i].latest => Fresh(R[i].entries, key, d)

Cached(J, R, key, e, busy, closed, d) ==
  /\ OneWalk(J, R, busy)
  /\ WalkOfKey(J, R, key, d)
  /\ key # None /\ ~busy /\ ~closed => Fresh(e, key, d)

\* No search follows the latest one.
LatestIsLast(J, R) ==
  /\ \A i, j \in DOMAIN J : J[i].kind = "search" /\ J[i].latest /\ i < j => J[j].kind # "search"
  /\ \A i, j \in DOMAIN R : R[i].kind = "found" /\ R[i].latest /\ i < j => R[j].kind # "found"
  /\ \A i \in DOMAIN R, j \in DOMAIN J :
       R[i].kind = "found" /\ R[i].latest => J[j].kind # "search"

SearchInv ==
  /\ FileSearchTypeOK
  /\ QueuesTyped
  /\ calls \in Nat /\ disk <= calls
  /\ Cached(jobs, replies, walkedKey, entries, walking, abandoned, disk)
  /\ LatestIsLast(jobs, replies)

-----------------------------------------------------------------------------
(* The inductive invariant of the brightness.                              *)

Writes(i, w) == jobs[i].kind = "write" /\ jobs[i].worker = w
Wrote(i, w)  == replies[i].kind = "written" /\ replies[i].worker = w

\* A worker's flag stands for one job or one reply, and a job finds a value.
OneWrite(w) ==
  /\ \A i, j \in DOMAIN jobs : Writes(i, w) /\ Writes(j, w) => i = j
  /\ \A i, j \in DOMAIN replies : Wrote(i, w) /\ Wrote(j, w) => i = j
  /\ \A i \in DOMAIN jobs, j \in DOMAIN replies : ~(Writes(i, w) /\ Wrote(j, w))
  /\ w \in inFlight <=>
       (\E i \in DOMAIN jobs : Writes(i, w)) \/ \E i \in DOMAIN replies : Wrote(i, w)
  /\ \A i \in DOMAIN jobs : Writes(i, w) => pending[w] # None

\* A listed display's pending value has a write in flight.
Carried(w) == w[2] = published[w[1]] /\ pending[w] # None => w \in inFlight

\* Scans are published in order; a worker is in use only once published.
ScansInOrder ==
  /\ \A i \in DOMAIN replies : replies[i].kind = "published" =>
       /\ replies[i].scan <= scans
       /\ \A d \in Displays : published[d] < replies[i].scan
       /\ \A w \in Workers : pending[w] # None \/ w \in inFlight => w[2] < replies[i].scan
       /\ \A d \in Displays : asked[d] # None => asked[d][1][2] < replies[i].scan
  /\ \A i, j \in DOMAIN replies :
       replies[i].kind = "published" /\ replies[j].kind = "published" /\ i < j =>
         replies[i].scan < replies[j].scan
  /\ \A d \in Displays : published[d] <= scans
  /\ \A w \in Workers : pending[w] # None \/ w \in inFlight =>
       w[2] <= scans /\ (published[w[1]] = 0 \/ w[2] <= published[w[1]])
  /\ \A d \in Displays : asked[d] # None =>
       asked[d][1][2] <= scans /\ asked[d][1][1] = d

\* The workers of a display write in the order of their scans.
WritesInOrder ==
  \A i, j \in DOMAIN jobs : \A v, w \in Workers :
    Writes(i, v) /\ Writes(j, w) /\ v[1] = w[1] /\ i < j => v[2] < w[2]

\* A scan is yet to come or to be published.
Rescans ==
  \/ \E i \in DOMAIN jobs : jobs[i].kind = "scan"
  \/ \E i \in DOMAIN replies : replies[i].kind \in {"screens", "published"}

\* What was last asked of a display is pending in its worker, or was written
\* after all else; no value came to a later worker, nor will an earlier one write.
AskedLast(d) ==
  asked[d] # None =>
    /\ \A w \in Workers : w[1] = d /\ pending[w] # None => w[2] <= asked[d][1][2]
    /\ published[d] = 0 \/ asked[d][1][2] <= published[d]
    /\ \/ pending[asked[d][1]] = asked[d][2]
       \/ /\ pending[asked[d][1]] = None /\ level[d] = Raw(d, asked[d][2])
          /\ \A i \in DOMAIN jobs : \A w \in Workers : Writes(i, w) => w[1] # d

AskedIsLast == \A d \in Displays : AskedLast(d)

\* Reply i tells that d has the brightness v.
Tells(i, d, v) ==
  \/ /\ replies[i].kind = "written" /\ replies[i].ok /\ replies[i].reached
     /\ replies[i].worker[1] = d /\ replies[i].value = v
  \/ /\ replies[i].kind = "published" /\ d \in DOMAIN replies[i].value \ replies[i].unread
     /\ replies[i].value[d] = v

\* Reply i may be overtaken by a write of d, or by a change of the screens.
Overtakes(i, d) ==
  \/ replies[i].kind = "written" /\ replies[i].ok /\ replies[i].worker[1] = d
  \/ replies[i].kind = "screens"

\* The last to tell of a display's brightness tells what it is.
LastTells ==
  \A d \in Displays, v \in Percents : \A i \in DOMAIN replies :
    Tells(i, d, v) /\ (\A j \in DOMAIN replies : i < j => ~Overtakes(j, d)) => ShownTrue(d, v)

\* If none is left to tell, it is what is shown.
ShownIsLevel ==
  ~Rescans => \A d \in Listed \ guessed, v \in Percents :
    v = current[WorkerOf(d)] /\ (\A i \in DOMAIN replies : ~Overtakes(i, d)) => ShownTrue(d, v)

\* There are no more scans than calls and the first one.
ScanJobs    == Cardinality(OfKind(jobs, "scan"))
ScreensCome == Cardinality(OfKind(replies, "screens"))
ScansCounted ==
  scans + ScanJobs + ScreensCome <= IF user = "brightness" THEN calls + 1 ELSE 0

BrightnessTyped ==
  /\ BrightnessTypeOK
  /\ QueuesTyped
  /\ user \in Users /\ calls \in Nat /\ calls <= MaxCalls[user]
  /\ ScansCounted

BrightnessInv ==
  /\ BrightnessTyped
  /\ \A w \in Workers : OneWrite(w) /\ Carried(w)
  /\ ScansInOrder
  /\ WritesInOrder
  /\ AskedIsLast
  /\ LastTells
  /\ ShownIsLevel

-----------------------------------------------------------------------------
(* The search: the queues.                                                 *)

LEMMA SearchBounds ==
  /\ None \notin Folders /\ Home \in Folders
  /\ MaxCalls["search"] \in Nat
  BY FileSearchAssumption, Zenon

LEMMA SearchRecords ==
  /\ \A x \in AllJobs : x.kind \in {"walk", "search", "scan", "write"}
  /\ \A x \in AllReplies : x.kind \in {"walked", "found", "screens", "published", "written"}
  /\ \A x \in AllJobs : x.kind \in {"walk", "search"} =>
       /\ [x EXCEPT !.latest = FALSE] \in AllJobs
       /\ [x EXCEPT !.latest = FALSE].kind = x.kind
       /\ ~[x EXCEPT !.latest = FALSE].latest
       /\ x.latest \in BOOLEAN
  /\ \A x \in AllReplies : x.kind \in {"walked", "found"} =>
       /\ [x EXCEPT !.latest = FALSE] \in AllReplies
       /\ [x EXCEPT !.latest = FALSE].kind = x.kind
       /\ ~[x EXCEPT !.latest = FALSE].latest
       /\ x.latest \in BOOLEAN
  /\ \A x \in AllJobs : x.kind = "walk" => x.folder \in Folders
  /\ \A x \in AllJobs : x.kind = "search" => x.entries \in Entries /\ x.text \in Texts
  /\ \A x \in AllReplies : x.kind \in {"walked", "found"} => x.entries \in Entries
  /\ \A x \in AllReplies : x.kind = "found" => x.text \in Texts
  BY DEF AllJobs, AllReplies, SearchJobs, SearchReplies, BrightnessJobs, BrightnessReplies

\* A newer call outdates the jobs or replies of its kind, and nothing else.
LEMMA OutdatedFacts ==
  ASSUME NEW S \in {AllJobs, AllReplies}, NEW q \in Seq(S), NEW k \in OfSearch
  PROVE  /\ Outdated(q, k) \in Seq(S)
         /\ DOMAIN Outdated(q, k) = DOMAIN q
         /\ \A i \in DOMAIN q : /\ Outdated(q, k)[i].kind = q[i].kind
                                /\ q[i].kind # k => Outdated(q, k)[i] = q[i]
                                /\ q[i].kind = k => ~Outdated(q, k)[i].latest
         /\ Kept(q, Outdated(q, k), 0, OfBrightness)
<1> DEFINE o(x) == IF x.kind = k THEN [x EXCEPT !.latest = FALSE] ELSE x
<1>1. \A x \in S : /\ o(x) \in S /\ o(x).kind = x.kind
                   /\ x.kind # k => o(x) = x
                   /\ x.kind = k => ~o(x).latest
  BY SearchRecords DEF OfSearch
<1>2. /\ \A i \in DOMAIN q : q[i] \in S /\ i \in Nat /\ i + 0 = i /\ i - 0 = i
      /\ DOMAIN q = 1 .. Len(q) /\ Len(q) \in Nat
  BY LenProperties, ElementOfSeq
<1> DEFINE p == Outdated(q, k)
<1>3. p = [i \in DOMAIN q |-> o(q[i])] BY DEF Outdated
<1> HIDE DEF o, p
<1>4. p \in [1 .. Len(q) -> S] BY <1>1, <1>2, <1>3
<1>5. p \in Seq(S) BY <1>2, <1>4, SeqDef
<1>6. \A i \in DOMAIN q : p[i] = o(q[i]) BY <1>3
<1>7. DOMAIN p = DOMAIN q BY <1>3
<1>8. \A i \in DOMAIN q : /\ p[i].kind = q[i].kind
                          /\ q[i].kind # k => p[i] = q[i]
                          /\ q[i].kind = k => ~p[i].latest
  BY <1>1, <1>2, <1>6
<1>9. k \notin OfBrightness BY DEF OfSearch, OfBrightness
<1>10. Kept(q, p, 0, OfBrightness) BY <1>2, <1>7, <1>8, <1>9 DEF Kept
<1> QED BY <1>5, <1>7, <1>8, <1>10 DEF p

\* The jobs after a search s, and before it a walk w if any, were posted to J.
Posts(J, w, s, walks) ==
  Outdated(J, "search") \o (IF walks THEN <<w>> ELSE <<>>) \o <<s>>

PostedTo(J, w, s, walks, q) ==
  /\ q \in Seq(AllJobs) /\ Kept(J, q, 0, OfBrightness)
  /\ \A i \in DOMAIN J : /\ i \in DOMAIN q /\ q[i].kind = J[i].kind
                         /\ J[i].kind # "search" => q[i] = J[i]
                         /\ J[i].kind = "search" => ~q[i].latest
  /\ \A i \in DOMAIN q \ DOMAIN J : \/ walks /\ i = Len(J) + 1 /\ q[i] = w
                                    \/ q[i] = s /\ \A j \in DOMAIN q : ~(i < j)
  /\ walks => /\ Len(J) + 1 \in DOMAIN q /\ q[Len(J) + 1] = w
              /\ Len(J) + 1 \notin DOMAIN J

LEMMA Posted ==
  ASSUME NEW J \in Seq(AllJobs), NEW w \in AllJobs, NEW s \in AllJobs, NEW walks \in BOOLEAN,
         w.kind = "walk", s.kind = "search",
         NEW q, q = Posts(J, w, s, walks)
  PROVE  PostedTo(J, w, s, walks, q)
<1> DEFINE o == Outdated(J, "search")
           m == IF walks THEN <<w>> ELSE <<>>
           p == o \o m
           n == Len(p) + 1
<1>1. /\ o \in Seq(AllJobs) /\ DOMAIN o = DOMAIN J
      /\ \A i \in DOMAIN J : /\ o[i].kind = J[i].kind
                             /\ J[i].kind # "search" => o[i] = J[i]
                             /\ J[i].kind = "search" => ~o[i].latest
      /\ Kept(J, o, 0, OfBrightness)
  BY OutdatedFacts DEF OfSearch
<1>2. /\ DOMAIN J = 1 .. Len(J) /\ Len(J) \in Nat /\ DOMAIN o = 1 .. Len(o) /\ Len(o) \in Nat
  BY <1>1, LenProperties
<1>3. Len(o) = Len(J) BY <1>1, <1>2
<1> HIDE DEF o
<1>4. m \in Seq(AllJobs) BY EmptySeq
<1>5. /\ walks => DOMAIN m = {1} /\ m[1] = w
      /\ ~walks => DOMAIN m = {}
  OBVIOUS
<1> HIDE DEF m
<1>6. /\ p \in Seq(AllJobs)
      /\ \A i \in DOMAIN J : i \in DOMAIN p /\ p[i] = o[i]
      /\ \A i \in DOMAIN p : i \in DOMAIN J \/ (walks /\ i = Len(J) + 1 /\ p[i] = w)
      /\ walks => Len(J) + 1 \in DOMAIN p /\ p[Len(J) + 1] = w
  <2>1. /\ o \o m \in Seq(AllJobs)
        /\ \A j \in DOMAIN o : j \in DOMAIN (o \o m) /\ (o \o m)[j] = o[j]
        /\ \A j \in DOMAIN m : Len(o) + j \in DOMAIN (o \o m) /\ (o \o m)[Len(o) + j] = m[j]
        /\ \A k \in DOMAIN (o \o m) :
             \/ k \in DOMAIN o
             \/ k - Len(o) \in DOMAIN m /\ (o \o m)[k] = m[k - Len(o)]
        /\ DOMAIN (o \o m) = 1 .. Len(o) + Len(m)
    BY <1>1, <1>4, Grown
  <2>2. DOMAIN p \subseteq Int /\ Len(m) \in Nat BY <2>1, <1>2, <1>4, LenProperties
  <2> HIDE DEF p
  <2>3. /\ \A j \in DOMAIN o : j \in DOMAIN p /\ p[j] = o[j]
        /\ \A j \in DOMAIN m : Len(o) + j \in DOMAIN p /\ p[Len(o) + j] = m[j]
        /\ \A k \in DOMAIN p : k \in DOMAIN o \/ (k - Len(o) \in DOMAIN m /\ p[k] = m[k - Len(o)])
    BY <2>1 DEF p
  <2>4. \A k \in DOMAIN p : k \in DOMAIN J \/ (walks /\ k = Len(J) + 1 /\ p[k] = w)
    <3> SUFFICES ASSUME NEW k \in DOMAIN p, k \notin DOMAIN J
                 PROVE  walks /\ k = Len(J) + 1 /\ p[k] = w
      OBVIOUS
    <3>1. k - Len(J) \in DOMAIN m /\ p[k] = m[k - Len(J)] BY <1>1, <1>3, <2>3
    <3>2. k \in Int BY <2>2
    <3> QED BY <1>2, <1>5, <3>1, <3>2
  <2> QED BY <1>1, <1>3, <1>5, <2>1, <2>3, <2>4 DEF p
<1>7. q = Append(p, s) BY <1>6, AppendIsConcat DEF o, m, Posts
<1> HIDE DEF p
<1>8. /\ q \in Seq(AllJobs)
      /\ \A j \in DOMAIN p : j \in DOMAIN q /\ q[j] = p[j]
      /\ n \in DOMAIN q /\ q[n] = s
      /\ \A k \in DOMAIN q : k \in DOMAIN p \/ k = n
      /\ Len(p) \in Nat /\ DOMAIN p = 1 .. Len(p)
  <2>1. p \in Seq(AllJobs) BY <1>6
  <2>2. /\ Append(p, s) \in Seq(AllJobs)
        /\ \A j \in DOMAIN p : j \in DOMAIN Append(p, s) /\ Append(p, s)[j] = p[j]
        /\ Len(p) + 1 \in DOMAIN Append(p, s) /\ Append(p, s)[Len(p) + 1] = s
        /\ \A k \in DOMAIN Append(p, s) : k \in DOMAIN p \/ k = Len(p) + 1
        /\ Len(p) \in Nat /\ DOMAIN p = 1 .. Len(p)
    BY <2>1, Appended
  <2> QED BY <1>7, <2>2, Zenon
<1>9. \A j \in DOMAIN q : ~(n < j) BY <1>8
<1> HIDE DEF n
<1>10. \A i \in DOMAIN J : /\ i \in DOMAIN q /\ q[i].kind = J[i].kind
                           /\ J[i].kind # "search" => q[i] = J[i]
                           /\ J[i].kind = "search" => ~q[i].latest
  BY <1>1, <1>6, <1>8
<1>11. \A i \in DOMAIN q \ DOMAIN J : \/ walks /\ i = Len(J) + 1 /\ q[i] = w
                                      \/ q[i] = s /\ \A j \in DOMAIN q : ~(i < j)
  BY <1>6, <1>8, <1>9
<1>12. walks => /\ Len(J) + 1 \in DOMAIN q /\ q[Len(J) + 1] = w
                /\ Len(J) + 1 \notin DOMAIN J
  <2>1. Len(J) + 1 \notin DOMAIN J BY <1>2
  <2> QED BY <1>6, <1>8, <2>1, Zenon
<1>13. Kept(J, q, 0, OfBrightness)
  <2>1. \A i \in DOMAIN J : i + 0 = i /\ i - 0 = i BY <1>2
  <2>2. \A i \in DOMAIN q : q[i].kind \in OfBrightness => i \in DOMAIN J
    BY <1>11 DEF OfBrightness
  <2>3. \A i \in DOMAIN J : J[i].kind \in OfBrightness => q[i] = J[i]
    BY <1>10 DEF OfBrightness
  <2> QED BY <1>10, <2>1, <2>2, <2>3 DEF Kept
<1> QED BY <1>8, <1>10, <1>11, <1>12, <1>13 DEF PostedTo

\* runFileSearch keeps the list with its key, and one latest walk and search.
LEMMA RunSearches ==
  ASSUME FileSearchTypeOK, NEW J \in Seq(AllJobs), NEW R \in Seq(AllReplies),
         NEW e \in Entries, NEW key \in Folders \cup {None}, NEW busy \in BOOLEAN,
         NEW closed \in BOOLEAN, NEW d,
         RunFileSearch(e, key, busy, J, R),
         Cached(J, R, key, e, busy, closed, d), LatestIsLast(J, R)
  PROVE  /\ jobs' \in Seq(AllJobs) /\ replies' \in Seq(AllReplies)
         /\ entries' \in Entries /\ walkedKey' \in Folders \cup {None} /\ walking' \in BOOLEAN
         /\ results' \in {None} \cup [entries : Entries, text : Texts]
         /\ Kept(J, jobs', 0, OfBrightness) /\ Kept(R, replies', 0, OfBrightness)
         /\ Cached(jobs', replies', walkedKey', entries', walking', closed, d)
         /\ LatestIsLast(jobs', replies')
<1>1. entries' = e BY DEF RunFileSearch
<1>2. CASE ~(visible /\ text # "")
  <2>1. jobs' = J /\ replies' = R /\ walkedKey' = key /\ walking' = busy /\ results' = None
    BY <1>2 DEF RunFileSearch
  <2> QED BY <1>1, <2>1, SameKept
<1>3. CASE visible /\ text # ""
  <2> DEFINE w == Walk
             s == Search(e, text)
  <2>1. PICK walks \in BOOLEAN : walks <=> ~busy /\ (key # Folder \/ e = None)
    OBVIOUS
  <2>2. /\ jobs' = Outdated(J, "search") \o (IF walks THEN <<w>> ELSE <<>>) \o <<s>>
        /\ replies' = Outdated(R, "found")
        /\ walkedKey' = IF walks THEN Folder ELSE key
        /\ walking' = (busy \/ walks)
        /\ UNCHANGED results
    BY <1>3, <2>1 DEF RunFileSearch, Key
  <2>3. Folder \in Folders /\ text \in Texts
    BY <1>3, ElementOfSeq, LenProperties DEF FileSearchTypeOK, Folder
  <2>4. /\ w \in AllJobs /\ w.kind = "walk" /\ w.folder = Folder /\ Walks(w)
        /\ s \in AllJobs /\ s.kind = "search"
    BY <2>3 DEF Walk, Search, Walks, AllJobs, SearchJobs
  <2> HIDE DEF w, s
  <2>5. PICK q : q = jobs' OBVIOUS
  <2>6. /\ q \in Seq(AllJobs) /\ Kept(J, q, 0, OfBrightness)
        /\ \A i \in DOMAIN J : /\ i \in DOMAIN q /\ q[i].kind = J[i].kind
                               /\ J[i].kind # "search" => q[i] = J[i]
                               /\ J[i].kind = "search" => ~q[i].latest
        /\ \A i \in DOMAIN q \ DOMAIN J : \/ walks /\ i = Len(J) + 1 /\ q[i] = w
                                          \/ q[i] = s /\ \A j \in DOMAIN q : ~(i < j)
        /\ walks => /\ Len(J) + 1 \in DOMAIN q /\ q[Len(J) + 1] = w
                    /\ Len(J) + 1 \notin DOMAIN J
    <3>1. q = Posts(J, w, s, walks) BY <2>2, <2>5 DEF Posts
    <3>2. PostedTo(J, w, s, walks, q) BY <2>4, <3>1, Posted, Zenon
    <3> QED BY <3>2 DEF PostedTo
  <2>7. PICK r : r = replies' OBVIOUS
  <2>8. /\ r \in Seq(AllReplies) /\ Kept(R, r, 0, OfBrightness)
        /\ DOMAIN r = DOMAIN R
        /\ \A i \in DOMAIN R : /\ r[i].kind = R[i].kind
                               /\ R[i].kind # "found" => r[i] = R[i]
                               /\ R[i].kind = "found" => ~r[i].latest
    BY <2>2, <2>7, OutdatedFacts DEF OfSearch
  <2>9. \A i \in DOMAIN J : Walks(q[i]) <=> Walks(J[i]) BY <2>6 DEF Walks
  <2>10. \A i \in DOMAIN R : Walks(r[i]) <=> Walks(R[i]) BY <2>8 DEF Walks
  <2>11. \A i \in DOMAIN q \ DOMAIN J : Walks(q[i]) => walks /\ i = Len(J) + 1 /\ q[i] = w
    BY <2>4, <2>6 DEF Walks
  <2>12. OneWalk(q, r, busy \/ walks)
    <3>1. walks => /\ \A i \in DOMAIN J : ~Walks(J[i])
                   /\ \A i \in DOMAIN R : ~Walks(R[i])
      BY <2>1 DEF Cached, OneWalk
    <3>2. CASE walks
      <4>1. \A i \in DOMAIN q : Walks(q[i]) <=> i = Len(J) + 1
        BY <2>4, <2>6, <2>9, <2>11, <3>1, <3>2
      <4>2. \A i \in DOMAIN r : ~Walks(r[i]) BY <2>8, <2>10, <3>1, <3>2
      <4> QED BY <2>6, <3>2, <4>1, <4>2 DEF OneWalk
    <3>3. CASE ~walks
      <4>1. \A i \in DOMAIN q : Walks(q[i]) => i \in DOMAIN J BY <2>11, <3>3
      <4>2. OneWalk(J, R, busy) BY DEF Cached
      <4> QED BY <2>6, <2>8, <2>9, <2>10, <3>3, <4>1, <4>2 DEF OneWalk
    <3> QED BY <3>2, <3>3
  <2>13. WalkOfKey(q, r, walkedKey', d)
    <3>1. CASE walks
      <4>1. \A i \in DOMAIN J : ~Walks(J[i]) BY <2>1, <3>1 DEF Cached, OneWalk
      <4>2. \A i \in DOMAIN R : ~Walks(R[i]) BY <2>1, <3>1 DEF Cached, OneWalk
      <4>3. \A i \in DOMAIN q : q[i].kind = "walk" /\ q[i].latest => q[i] = w
        BY <2>9, <2>11, <4>1 DEF Walks
      <4>4. \A i \in DOMAIN r : ~(r[i].kind = "walked" /\ r[i].latest)
        BY <2>8, <2>10, <4>2 DEF Walks
      <4> QED BY <2>2, <2>4, <3>1, <4>3, <4>4 DEF WalkOfKey
    <3>2. CASE ~walks
      <4>1. WalkOfKey(J, R, key, d) BY DEF Cached
      <4>2. \A i \in DOMAIN q : q[i].kind = "walk" => i \in DOMAIN J /\ q[i] = J[i]
        BY <2>4, <2>6, <3>2
      <4>3. \A i \in DOMAIN r : r[i].kind = "walked" => i \in DOMAIN R /\ r[i] = R[i]
        BY <2>8
      <4> QED BY <2>2, <3>2, <4>1, <4>2, <4>3 DEF WalkOfKey
    <3> QED BY <3>1, <3>2
  <2>14. walkedKey' # None /\ ~(busy \/ walks) /\ ~closed => Fresh(e, walkedKey', d)
    BY <2>2 DEF Cached
  <2>15. LatestIsLast(q, r)
    <3>1. \A i \in DOMAIN q : q[i].kind = "search" /\ q[i].latest =>
            \A j \in DOMAIN q : ~(i < j)
      BY <2>4, <2>6
    <3>2. \A i \in DOMAIN r : ~(r[i].kind = "found" /\ r[i].latest) BY <2>8
    <3> QED BY <3>1, <3>2 DEF LatestIsLast
  <2>16. results' \in {None} \cup [entries : Entries, text : Texts]
    BY <2>2 DEF FileSearchTypeOK
  <2> QED
    BY <1>1, <2>2, <2>3, <2>5, <2>6, <2>7, <2>8, <2>12, <2>13, <2>14, <2>15, <2>16 DEF Cached
<1> QED BY <1>2, <1>3

-----------------------------------------------------------------------------
(* The search: its steps.                                                  *)

\* What each step of the search does to the invariant and to the messages of
\* the brightness.
SearchGoal ==
  /\ SearchInv'
  /\ \E m, n \in {0, 1} : /\ Kept(jobs, jobs', m, OfBrightness)
                          /\ Kept(replies, replies', n, OfBrightness)

\* A new folder in the history.
LEMMA Visited ==
  ASSUME FileSearchTypeOK, NEW f \in Folders,
         history' = Append(SubSeq(history, 1, at), f), at' = Len(history')
  PROVE  history' \in Seq(Folders) /\ at' \in DOMAIN history'
<1>1. history \in Seq(Folders) /\ at \in 1 .. Len(history) /\ Len(history) \in Nat
  BY LenProperties DEF FileSearchTypeOK
<1> DEFINE h == SubSeq(history, 1, at)
<1>2. h \in Seq(Folders) BY <1>1, SubSeqProperties
<1>3. history' = Append(h, f) OBVIOUS
<1> HIDE DEF h
<1>4. /\ Append(h, f) \in Seq(Folders) /\ Len(h) + 1 \in DOMAIN Append(h, f)
      /\ Len(Append(h, f)) = Len(h) + 1
  BY <1>2, Appended
<1> QED BY <1>3, <1>4

LEMMA SameJobs == ASSUME QueuesTyped, jobs' = jobs \o <<>> PROVE jobs' = jobs
  BY ConcatEmptySeq DEF QueuesTyped

LEMMA DiskBounds ==
  ASSUME SearchInv
  PROVE  /\ disk \in Nat /\ calls \in Nat /\ calls + 1 \in Nat
         /\ disk <= calls /\ disk <= calls + 1
<1>1. disk \in 0 .. MaxCalls["search"] BY DEF SearchInv, FileSearchTypeOK
<1>2. disk \in Nat BY <1>1, SearchBounds
<1> QED BY <1>2 DEF SearchInv

\* Steps of the dialog that leave the search alone, or clear it.
LEMMA DialogStep ==
  ASSUME SearchInv, jobs' = jobs, replies' = replies,
         UNCHANGED <<disk, walkedKey, entries, walking, abandoned>>,
         results' \in {results, None}, calls' \in {calls, calls + 1},
         visible' \in BOOLEAN, timer' \in BOOLEAN,
         text' \in Texts \cup {""}, debounced' \in Texts \cup {""},
         history' \in Seq(Folders) /\ at' \in DOMAIN history'
  PROVE  SearchGoal
<1>1. FileSearchTypeOK' BY DEF SearchInv, FileSearchTypeOK
<1>2. calls' \in Nat /\ disk' <= calls' BY DiskBounds
<1>3. SearchInv' BY <1>1, <1>2 DEF SearchInv, QueuesTyped
<1>4. Kept(jobs, jobs', 0, OfBrightness) /\ Kept(replies, replies', 0, OfBrightness)
  BY SameKept DEF SearchInv, QueuesTyped
<1> QED BY <1>3, <1>4 DEF SearchGoal

LEMMA DialogSteps ==
  ASSUME SearchInv,
         \/ \E t \in Texts \cup {""} : Type(t)
         \/ ToggleSearch
         \/ \E f \in Folders : NavigateTo(f)
         \/ \E i : GoTo(i)
  PROVE  SearchGoal
<1>0. /\ visible \in BOOLEAN /\ timer \in BOOLEAN
      /\ text \in Texts \cup {""} /\ debounced \in Texts \cup {""}
      /\ history \in Seq(Folders) /\ at \in DOMAIN history
      /\ QueuesTyped
  BY DEF SearchInv, FileSearchTypeOK
<1>1. ASSUME NEW t \in Texts \cup {""}, Type(t) PROVE SearchGoal
  <2>1. /\ jobs' = jobs /\ replies' = replies /\ calls' = calls + 1
        /\ UNCHANGED <<visible, debounced, history, at, disk, cache>>
        /\ text' = t /\ timer' = TRUE
    BY <1>0, <1>1, SameJobs DEF Type, Call, CallOf
  <2> QED BY <1>0, <2>1, DialogStep DEF cache
<1>2. CASE ToggleSearch
  <2>1. /\ jobs' = jobs /\ replies' = replies /\ calls' = calls + 1
        /\ visible' = ~visible /\ UNCHANGED <<debounced, history, at, disk>>
        /\ UNCHANGED <<walkedKey, entries, walking, abandoned>>
        /\ results' \in {results, None} /\ text' \in {text, ""}
    BY <1>0, <1>2, SameJobs DEF ToggleSearch, Call, CallOf, ClearSearch, cache
  <2>2. timer' \in BOOLEAN BY <1>0, <1>2 DEF ToggleSearch, ClearSearch
  <2>3. visible' \in BOOLEAN BY <1>0, <2>1
  <2> QED BY <1>0, <2>1, <2>2, <2>3, DialogStep
<1>3. ASSUME NEW f \in Folders, NavigateTo(f) PROVE SearchGoal
  <2>1. /\ jobs' = jobs /\ replies' = replies /\ calls' = calls + 1
        /\ UNCHANGED <<visible, debounced, disk>>
        /\ UNCHANGED <<walkedKey, entries, walking, abandoned>>
        /\ results' = None /\ text' = ""
        /\ history' = Append(SubSeq(history, 1, at), f) /\ at' = Len(history')
    BY <1>0, <1>3, SameJobs DEF NavigateTo, Call, CallOf, ClearSearch
  <2>2. timer' \in BOOLEAN BY <1>0, <1>3 DEF NavigateTo, ClearSearch
  <2>3. history' \in Seq(Folders) /\ at' \in DOMAIN history'
    BY <2>1, Visited DEF SearchInv
  <2> QED BY <1>0, <2>1, <2>2, <2>3, DialogStep
<1>4. ASSUME NEW i, GoTo(i) PROVE SearchGoal
  <2>1. /\ jobs' = jobs /\ replies' = replies /\ calls' = calls + 1 /\ at' \in DOMAIN history
        /\ UNCHANGED <<visible, text, debounced, timer, history, disk, cache>>
    BY <1>0, <1>4, SameJobs DEF GoTo, Call, CallOf
  <2> QED BY <1>0, <2>1, DialogStep DEF cache
<1> QED BY <1>1, <1>2, <1>3, <1>4

\* Steps that run the search, or leave the queues J and R alone.
LEMMA SearchStep ==
  ASSUME SearchInv,
         NEW J \in Seq(AllJobs), NEW R \in Seq(AllReplies), NEW e \in Entries,
         NEW key \in Folders \cup {None}, NEW busy \in BOOLEAN, NEW closed \in BOOLEAN,
         Cached(J, R, key, e, busy, closed, disk'), LatestIsLast(J, R),
         \/ RunFileSearch(e, key, busy, J, R)
         \/ /\ jobs' = J /\ replies' = R /\ entries' = e /\ walkedKey' = key /\ walking' = busy
            /\ UNCHANGED results,
         abandoned' = closed, UNCHANGED <<visible, text, history, at>>,
         timer' \in BOOLEAN, debounced' \in Texts \cup {""},
         disk' \in 0 .. MaxCalls["search"], calls' \in Nat, disk' <= calls'
  PROVE  /\ SearchInv'
         /\ Kept(J, jobs', 0, OfBrightness) /\ Kept(R, replies', 0, OfBrightness)
<1>1. FileSearchTypeOK BY DEF SearchInv
<1>2. /\ jobs' \in Seq(AllJobs) /\ replies' \in Seq(AllReplies)
      /\ entries' \in Entries /\ walkedKey' \in Folders \cup {None} /\ walking' \in BOOLEAN
      /\ results' \in {None} \cup [entries : Entries, text : Texts]
      /\ Kept(J, jobs', 0, OfBrightness) /\ Kept(R, replies', 0, OfBrightness)
      /\ Cached(jobs', replies', walkedKey', entries', walking', closed, disk')
      /\ LatestIsLast(jobs', replies')
  <2>1. CASE RunFileSearch(e, key, busy, J, R) BY <1>1, <2>1, RunSearches
  <2>2. CASE ~RunFileSearch(e, key, busy, J, R)
    <3>1. /\ jobs' = J /\ replies' = R /\ entries' = e /\ walkedKey' = key /\ walking' = busy
          /\ results' = results
      BY <2>2
    <3>2. Kept(J, J, 0, OfBrightness) /\ Kept(R, R, 0, OfBrightness) BY SameKept
    <3>3. results \in {None} \cup [entries : Entries, text : Texts]
      BY <1>1 DEF FileSearchTypeOK
    <3> QED BY <3>1, <3>2, <3>3
  <2> QED BY <2>1, <2>2
<1>3. FileSearchTypeOK' BY <1>1, <1>2 DEF FileSearchTypeOK
<1>4. SearchInv' BY <1>2, <1>3 DEF SearchInv, QueuesTyped
<1> QED BY <1>2, <1>4

LEMMA RefreshStep == ASSUME SearchInv, Refresh PROVE SearchGoal
<1>1. /\ disk' = disk + 1 /\ calls' = calls + 1 /\ calls < MaxCalls["search"]
      /\ UNCHANGED <<visible, text, debounced, timer, history, at, abandoned>>
  BY DEF Refresh, CallOf, dialog
<1>2. disk' \in 0 .. MaxCalls["search"] /\ calls' \in Nat /\ disk' <= calls'
  BY <1>1, SearchBounds, DiskBounds
<1>3. Cached(jobs, replies, None, entries, walking, abandoned, disk')
  BY DEF SearchInv, Cached, WalkOfKey
<1>4. \/ RunFileSearch(entries, None, walking, jobs, replies)
      \/ /\ jobs' = jobs /\ replies' = replies /\ entries' = entries /\ walkedKey' = None
         /\ walking' = walking /\ UNCHANGED results
  BY DEF Refresh
<1>5. /\ jobs \in Seq(AllJobs) /\ replies \in Seq(AllReplies) /\ entries \in Entries
      /\ walking \in BOOLEAN /\ abandoned \in BOOLEAN /\ timer \in BOOLEAN
      /\ debounced \in Texts \cup {""} /\ LatestIsLast(jobs, replies)
  BY DEF SearchInv, QueuesTyped, FileSearchTypeOK
<1>6. /\ SearchInv' /\ Kept(jobs, jobs', 0, OfBrightness)
      /\ Kept(replies, replies', 0, OfBrightness)
  <2>1. None \in Folders \cup {None} OBVIOUS
  <2>2. /\ UNCHANGED <<visible, text, history, at>> /\ abandoned' = abandoned
        /\ timer' \in BOOLEAN /\ debounced' \in Texts \cup {""}
    BY <1>1, <1>5
  <2>3. CASE RunFileSearch(entries, None, walking, jobs, replies)
    BY <1>2, <1>3, <1>5, <2>1, <2>2, <2>3, SearchStep
  <2>4. CASE ~RunFileSearch(entries, None, walking, jobs, replies)
    <3>1. /\ jobs' = jobs /\ replies' = replies /\ entries' = entries /\ walkedKey' = None
          /\ walking' = walking /\ UNCHANGED results
      BY <1>4, <2>4
    <3> QED BY <1>2, <1>3, <1>5, <2>1, <2>2, <3>1, SearchStep
  <2> QED BY <2>3, <2>4
<1> QED BY <1>6 DEF SearchGoal

LEMMA DebounceStep == ASSUME SearchInv, Debounce PROVE SearchGoal
<1>1. /\ timer' = FALSE /\ debounced' \in {text, ""}
      /\ UNCHANGED <<visible, text, history, at, disk, abandoned, calls>>
  BY DEF Debounce, Value
<1>2. \/ RunFileSearch(entries, walkedKey, walking, jobs, replies)
      \/ /\ jobs' = jobs /\ replies' = replies /\ entries' = entries
         /\ walkedKey' = walkedKey /\ walking' = walking /\ UNCHANGED results
  BY DEF Debounce
<1>3. /\ jobs \in Seq(AllJobs) /\ replies \in Seq(AllReplies) /\ entries \in Entries
      /\ walking \in BOOLEAN /\ abandoned \in BOOLEAN /\ text \in Texts \cup {""}
      /\ walkedKey \in Folders \cup {None} /\ LatestIsLast(jobs, replies)
      /\ disk \in 0 .. MaxCalls["search"] /\ calls \in Nat /\ disk <= calls
      /\ Cached(jobs, replies, walkedKey, entries, walking, abandoned, disk)
  BY DEF SearchInv, QueuesTyped, FileSearchTypeOK
<1>4. /\ SearchInv' /\ Kept(jobs, jobs', 0, OfBrightness)
      /\ Kept(replies, replies', 0, OfBrightness)
  BY <1>1, <1>2, <1>3, SearchStep
<1> QED BY <1>4 DEF SearchGoal

\* The first reply, of the search, is taken.
LEMMA ReplyTaken ==
  ASSUME SearchInv, replies # <<>>, Head(replies).kind \in OfSearch
  PROVE  /\ Head(replies) \in AllReplies /\ Head(replies) = replies[1] /\ 1 \in DOMAIN replies
         /\ Tail(replies) \in Seq(AllReplies)
         /\ \A i \in DOMAIN Tail(replies) : /\ i \in Nat \ {0} /\ i + 1 \in DOMAIN replies
                                            /\ Tail(replies)[i] = replies[i + 1]
         /\ \A i \in DOMAIN replies : /\ i \in Nat \ {0}
                                      /\ \/ i = 1
                                         \/ /\ i - 1 \in DOMAIN Tail(replies)
                                            /\ Tail(replies)[i - 1] = replies[i]
         /\ Kept(replies, Tail(replies), 1, OfBrightness)
         /\ LatestIsLast(jobs, Tail(replies))
<1>1. replies \in Seq(AllReplies) BY DEF SearchInv, QueuesTyped
<1> DEFINE r == Tail(replies)
<1>2. /\ Head(replies) \in AllReplies /\ Head(replies) = replies[1] /\ 1 \in DOMAIN replies
      /\ r \in Seq(AllReplies)
      /\ \A i \in DOMAIN r : i \in Nat \ {0} /\ i + 1 \in DOMAIN replies /\ r[i] = replies[i + 1]
      /\ \A i \in DOMAIN replies : /\ i \in Nat \ {0}
                                   /\ i = 1 \/ (i - 1 \in DOMAIN r /\ r[i - 1] = replies[i])
  BY <1>1, Popped
<1>3. Kept(replies, r, 1, OfBrightness)
  BY <1>1, TailKept DEF OfSearch, OfBrightness
<1> HIDE DEF r
<1>4. \A i, j \in DOMAIN r : i < j => i + 1 < j + 1 BY <1>2
<1>5. LatestIsLast(jobs, r) BY <1>2, <1>4 DEF SearchInv, LatestIsLast
<1> QED BY <1>2, <1>3, <1>5 DEF r

LEMMA WalkFinishedStep == ASSUME SearchInv, WalkFinished PROVE SearchGoal
<1> DEFINE r == Head(replies)
           R == Tail(replies)
<1>1. /\ replies # <<>> /\ r.kind = "walked"
      /\ UNCHANGED <<calls, user, visible, text, debounced, timer, history, at, disk>>
  BY DEF WalkFinished, Due, dialog
<1>2. /\ r \in AllReplies /\ r = replies[1] /\ 1 \in DOMAIN replies
      /\ R \in Seq(AllReplies)
      /\ \A i \in DOMAIN R : /\ i \in Nat \ {0} /\ i + 1 \in DOMAIN replies
                             /\ R[i] = replies[i + 1]
      /\ \A i \in DOMAIN replies : /\ i \in Nat \ {0}
                                   /\ \/ i = 1
                                      \/ i - 1 \in DOMAIN R /\ R[i - 1] = replies[i]
      /\ Kept(replies, R, 1, OfBrightness)
      /\ LatestIsLast(jobs, R)
  BY <1>1, ReplyTaken DEF OfSearch
<1>3. r.entries \in Entries /\ r.latest \in BOOLEAN BY <1>1, <1>2, SearchRecords
<1>4. ~r.latest => /\ replies' = R /\ UNCHANGED <<jobs, cache>>
  BY DEF WalkFinished
<1>5. r.latest => /\ abandoned' = FALSE
                  /\ \/ RunFileSearch(r.entries, walkedKey, FALSE, jobs, R)
                     \/ /\ jobs' = jobs /\ replies' = R /\ entries' = r.entries
                        /\ walkedKey' = walkedKey /\ walking' = FALSE /\ UNCHANGED results
  BY DEF WalkFinished
<1>6. /\ jobs \in Seq(AllJobs) /\ entries \in Entries
      /\ walking \in BOOLEAN /\ abandoned \in BOOLEAN /\ text \in Texts \cup {""}
      /\ walkedKey \in Folders \cup {None} /\ timer \in BOOLEAN
      /\ debounced \in Texts \cup {""}
      /\ disk \in 0 .. MaxCalls["search"] /\ calls \in Nat /\ disk <= calls
      /\ Cached(jobs, replies, walkedKey, entries, walking, abandoned, disk)
  BY DEF SearchInv, QueuesTyped, FileSearchTypeOK
<1>7. FALSE \in BOOLEAN OBVIOUS
<1> HIDE DEF r, R
<1>8. ~r.latest => Cached(jobs, R, walkedKey, entries, walking, abandoned, disk)
  <2> SUFFICES ASSUME ~r.latest
               PROVE  Cached(jobs, R, walkedKey, entries, walking, abandoned, disk)
    OBVIOUS
  <2>1. \A i, j \in DOMAIN R : i + 1 = j + 1 => i = j BY <1>2
  <2>2. ~Walks(replies[1]) BY <1>2 DEF Walks
  <2>3. (\E i \in DOMAIN replies : Walks(replies[i])) <=> \E i \in DOMAIN R : Walks(R[i])
    BY <1>2, <2>2
  <2>4. OneWalk(jobs, R, walking)
    <3>1. \A i \in DOMAIN R : i + 1 \in DOMAIN replies /\ R[i] = replies[i + 1]
      BY <1>2
    <3>2. OneWalk(jobs, replies, walking) BY <1>6 DEF Cached
    <3>3. \A i, j \in DOMAIN R : Walks(R[i]) /\ Walks(R[j]) => i = j
      BY <2>1, <3>1, <3>2 DEF OneWalk
    <3>4. \A i \in DOMAIN jobs, j \in DOMAIN R : ~(Walks(jobs[i]) /\ Walks(R[j]))
      BY <3>1, <3>2 DEF OneWalk
    <3> QED BY <2>3, <3>2, <3>3, <3>4 DEF OneWalk
  <2>5. WalkOfKey(jobs, R, walkedKey, disk)
    <3>1. WalkOfKey(jobs, replies, walkedKey, disk) BY <1>6 DEF Cached
    <3>2. \A i \in DOMAIN R : i + 1 \in DOMAIN replies /\ R[i] = replies[i + 1] BY <1>2
    <3> QED BY <3>1, <3>2 DEF WalkOfKey
  <2> QED BY <1>6, <2>4, <2>5 DEF Cached
<1>9. r.latest => Cached(jobs, R, walkedKey, r.entries, FALSE, FALSE, disk)
  <2> SUFFICES ASSUME r.latest
               PROVE  Cached(jobs, R, walkedKey, r.entries, FALSE, FALSE, disk)
    OBVIOUS
  <2>1. Walks(replies[1]) BY <1>1, <1>2 DEF Walks
  <2>2. \A i \in DOMAIN R : i + 1 # 1 BY <1>2
  <2>3. /\ \A i \in DOMAIN R : ~Walks(R[i])
        /\ \A i \in DOMAIN jobs : ~Walks(jobs[i])
    BY <1>2, <1>6, <2>1, <2>2 DEF Cached, OneWalk
  <2>4. OneWalk(jobs, R, FALSE) BY <2>3 DEF OneWalk
  <2>5. WalkOfKey(jobs, R, walkedKey, disk) BY <2>3 DEF WalkOfKey, Walks
  <2>6. walkedKey # None => Fresh(r.entries, walkedKey, disk)
    BY <1>1, <1>2, <1>6 DEF Cached, WalkOfKey
  <2> QED BY <2>4, <2>5, <2>6 DEF Cached
<1>10. CASE r.latest
  <2>1. SearchInv' /\ Kept(jobs, jobs', 0, OfBrightness) /\ Kept(R, replies', 0, OfBrightness)
    BY <1>1, <1>2, <1>3, <1>5, <1>6, <1>7, <1>9, <1>10, SearchStep
  <2>2. Kept(replies, replies', 1, OfBrightness)
    <3>1. \A i \in DOMAIN R : i + 0 = i /\ i - 0 = i BY <1>2
    <3>2. \A i \in DOMAIN replies' : i + 0 = i
      BY <2>1, LenProperties DEF SearchInv, QueuesTyped
    <3> QED BY <1>2, <2>1, <3>1, <3>2 DEF Kept
  <2> QED BY <2>1, <2>2 DEF SearchGoal
<1>11. CASE ~r.latest
  <2>1. /\ jobs' = jobs /\ replies' = R
        /\ UNCHANGED <<entries, walkedKey, walking, results, abandoned>>
    BY <1>4, <1>11 DEF cache
  <2>2. SearchInv' /\ Kept(jobs, jobs', 0, OfBrightness) /\ Kept(R, replies', 0, OfBrightness)
    <3>1. R \in Seq(AllReplies) /\ LatestIsLast(jobs, R) BY <1>2
    <3>2. Cached(jobs, R, walkedKey, entries, walking, abandoned, disk') BY <1>1, <1>8, <1>11
    <3> QED BY <1>1, <1>6, <2>1, <3>1, <3>2, SearchStep
  <2>3. Kept(replies, replies', 1, OfBrightness) BY <1>2, <2>1
  <2> QED BY <2>2, <2>3 DEF SearchGoal
<1> QED BY <1>10, <1>11

\* A new dialog: the walker's jobs have lost their receiver.
LEMMA ReopenStep == ASSUME SearchInv, Reopen PROVE SearchGoal
<1> DEFINE J == Outdated(jobs, "walk")
           R == Outdated(replies, "walked")
<1>1. /\ jobs' = J /\ replies' = R /\ walking' = FALSE
      /\ abandoned' = (abandoned \/ walking) /\ results' = None
      /\ calls' = calls + 1
      /\ UNCHANGED <<visible, disk, walkedKey, entries>>
      /\ text' = "" /\ debounced' = "" /\ timer' = FALSE
      /\ history' = Append(SubSeq(history, 1, at), Home) /\ at' = Len(history')
  BY DEF Reopen, CallOf
<1>2. /\ J \in Seq(AllJobs) /\ DOMAIN J = DOMAIN jobs
      /\ \A i \in DOMAIN jobs : /\ J[i].kind = jobs[i].kind
                                /\ jobs[i].kind # "walk" => J[i] = jobs[i]
                                /\ jobs[i].kind = "walk" => ~J[i].latest
      /\ Kept(jobs, J, 0, OfBrightness)
  BY OutdatedFacts DEF OfSearch, SearchInv, QueuesTyped
<1>3. /\ R \in Seq(AllReplies) /\ DOMAIN R = DOMAIN replies
      /\ \A i \in DOMAIN replies : /\ R[i].kind = replies[i].kind
                                   /\ replies[i].kind # "walked" => R[i] = replies[i]
                                   /\ replies[i].kind = "walked" => ~R[i].latest
      /\ Kept(replies, R, 0, OfBrightness)
  BY OutdatedFacts DEF OfSearch, SearchInv, QueuesTyped
<1> HIDE DEF J, R
<1>4. /\ \A i \in DOMAIN J : ~Walks(J[i])
      /\ \A i \in DOMAIN R : ~Walks(R[i])
  <2>1. /\ \A i \in DOMAIN jobs : jobs[i].kind # "walked"
        /\ \A i \in DOMAIN replies : replies[i].kind # "walk"
    BY SearchRecords, ElementOfSeq, LenProperties DEF SearchInv, QueuesTyped
  <2> QED BY <1>2, <1>3, <2>1 DEF Walks
<1>6. Cached(J, R, walkedKey, entries, FALSE, abandoned \/ walking, disk)
  <2>1. OneWalk(J, R, FALSE) BY <1>4 DEF OneWalk
  <2>2. WalkOfKey(J, R, walkedKey, disk) BY <1>4 DEF WalkOfKey, Walks
  <2> QED BY <2>1, <2>2 DEF SearchInv, Cached
<1>7. LatestIsLast(J, R)
  <2>1. \A i \in DOMAIN J : J[i].kind = "search" <=> jobs[i].kind = "search" BY <1>2
  <2>2. \A i \in DOMAIN J : J[i].kind = "search" => J[i] = jobs[i] BY <1>2
  <2>3. \A i \in DOMAIN R : R[i].kind = "found" <=> replies[i].kind = "found" BY <1>3
  <2>4. \A i \in DOMAIN R : R[i].kind = "found" => R[i] = replies[i] BY <1>3
  <2> QED BY <1>2, <1>3, <2>1, <2>2, <2>3, <2>4 DEF SearchInv, LatestIsLast
<1>8. FileSearchTypeOK'
  <2>1. history' \in Seq(Folders) /\ at' \in DOMAIN history'
    BY <1>1, Visited, SearchBounds DEF SearchInv
  <2> QED BY <1>1, <2>1 DEF SearchInv, FileSearchTypeOK
<1>9. calls' \in Nat /\ disk' <= calls' BY <1>1, DiskBounds
<1>10. SearchInv' BY <1>1, <1>2, <1>3, <1>6, <1>7, <1>8, <1>9 DEF SearchInv, QueuesTyped
<1> QED BY <1>1, <1>2, <1>3, <1>10 DEF SearchGoal

\* The worker thread takes the first job, of the search, and sends a reply.
LEMMA WorkStep ==
  ASSUME SearchInv, NEW k, NEW r \in AllReplies, Run(k, r), UNCHANGED fileSearch,
         \/ /\ k = "walk" /\ r.kind = "walked" /\ r.latest = Head(jobs).latest
            /\ r.entries = None \/ r.entries = [folder |-> Head(jobs).folder, disk |-> disk]
         \/ /\ k = "search" /\ r.kind = "found" /\ r.latest = Head(jobs).latest
  PROVE  SearchGoal
<1> DEFINE J == Tail(jobs)
           R == Append(replies, r)
           n == Len(replies) + 1
<1>1. /\ jobs # <<>> /\ Head(jobs).kind = k /\ jobs' = J /\ replies' = R
      /\ calls' = calls
      /\ jobs \in Seq(AllJobs) /\ replies \in Seq(AllReplies)
  BY DEF Run, SearchInv, QueuesTyped
<1>2. /\ J \in Seq(AllJobs) /\ Head(jobs) = jobs[1] /\ 1 \in DOMAIN jobs
      /\ \A i \in DOMAIN J : i \in Nat \ {0} /\ i + 1 \in DOMAIN jobs /\ J[i] = jobs[i + 1]
      /\ \A i \in DOMAIN jobs : /\ i \in Nat \ {0}
                                /\ i = 1 \/ (i - 1 \in DOMAIN J /\ J[i - 1] = jobs[i])
  BY <1>1, Popped
<1>3. /\ R \in Seq(AllReplies)
      /\ \A i \in DOMAIN replies : i \in DOMAIN R /\ R[i] = replies[i]
      /\ n \in DOMAIN R /\ R[n] = r
      /\ \A i \in DOMAIN R : i \in DOMAIN replies \/ i = n
      /\ \A i \in DOMAIN replies : i < n
      /\ n \notin DOMAIN replies
  BY <1>1, Appended
<1>4. Kept(jobs, J, 1, OfBrightness) BY <1>1, TailKept DEF OfBrightness
<1>5. Kept(replies, R, 0, OfBrightness) BY <1>1, AppendKept DEF OfBrightness
<1>6. \A i, j \in DOMAIN J : (i + 1 = j + 1 => i = j) /\ (i < j => i + 1 < j + 1)
                             /\ 1 < j + 1
  BY <1>2
<1>7. \A i \in DOMAIN R : ~(n < i)
  <2>1. \A i \in DOMAIN replies : i \in Nat BY <1>1, LenProperties
  <2> QED BY <1>1, <1>3, <2>1, LenProperties
<1> HIDE DEF J, R, n
<1>8. \A i \in DOMAIN J : i + 1 # 1 BY <1>2
<1>9. Cached(jobs, replies, walkedKey, entries, walking, abandoned, disk)
  BY DEF SearchInv
<1>10. Walks(r) <=> Walks(jobs[1]) BY <1>1, <1>2 DEF Walks
<1>11. OneWalk(J, R, walking)
  <2>1. OneWalk(jobs, replies, walking) BY <1>9 DEF Cached
  <2>2. \A i, j \in DOMAIN J : Walks(J[i]) /\ Walks(J[j]) => i = j
    BY <1>2, <1>6, <2>1 DEF OneWalk
  <2>3. \A i, j \in DOMAIN R : Walks(R[i]) /\ Walks(R[j]) => i = j
    BY <1>2, <1>3, <1>10, <2>1 DEF OneWalk
  <2>4. \A i \in DOMAIN J, j \in DOMAIN R : ~(Walks(J[i]) /\ Walks(R[j]))
    BY <1>2, <1>3, <1>8, <1>10, <2>1 DEF OneWalk
  <2>5. walking <=> (\E i \in DOMAIN J : Walks(J[i])) \/ \E i \in DOMAIN R : Walks(R[i])
    <3>1. (\E i \in DOMAIN jobs : Walks(jobs[i])) <=>
            Walks(jobs[1]) \/ \E i \in DOMAIN J : Walks(J[i])
      BY <1>2
    <3>2. (\E i \in DOMAIN R : Walks(R[i])) <=>
            Walks(r) \/ \E i \in DOMAIN replies : Walks(replies[i])
      BY <1>3
    <3> QED BY <1>10, <2>1, <3>1, <3>2 DEF OneWalk
  <2> QED BY <2>2, <2>3, <2>4, <2>5 DEF OneWalk
<1>12. WalkOfKey(J, R, walkedKey, disk)
  BY <1>1, <1>2, <1>3, <1>9 DEF Cached, WalkOfKey, Fresh
<1>13. LatestIsLast(J, R)
  <2>1. LatestIsLast(jobs, replies) BY DEF SearchInv
  <2>2. \A i, j \in DOMAIN J :
          J[i].kind = "search" /\ J[i].latest /\ i < j => J[j].kind # "search"
    BY <1>2, <1>6, <2>1 DEF LatestIsLast
  <2>3. r.kind = "found" =>
          \A i \in DOMAIN replies : ~(replies[i].kind = "found" /\ replies[i].latest)
    BY <1>1, <1>2, <2>1 DEF LatestIsLast
  <2>4. r.kind = "found" /\ r.latest => \A j \in DOMAIN J : J[j].kind # "search"
    <3> SUFFICES ASSUME r.kind = "found", r.latest, NEW j \in DOMAIN J
                 PROVE  J[j].kind # "search"
      OBVIOUS
    <3>1. jobs[1].kind = "search" /\ jobs[1].latest BY <1>1, <1>2
    <3>2. 1 \in DOMAIN jobs /\ j + 1 \in DOMAIN jobs /\ J[j] = jobs[j + 1] /\ 1 < j + 1
      BY <1>2, <1>6
    <3> QED BY <2>1, <3>1, <3>2 DEF LatestIsLast
  <2>5. \A i, j \in DOMAIN R :
          R[i].kind = "found" /\ R[i].latest /\ i < j => R[j].kind # "found"
    BY <1>3, <1>7, <2>1, <2>3 DEF LatestIsLast
  <2>6. \A i \in DOMAIN R, j \in DOMAIN J :
          R[i].kind = "found" /\ R[i].latest => J[j].kind # "search"
    BY <1>2, <1>3, <2>1, <2>4 DEF LatestIsLast
  <2> QED BY <2>2, <2>5, <2>6 DEF LatestIsLast
<1>14. FileSearchTypeOK' BY DEF SearchInv, FileSearchTypeOK, fileSearch, dialog, cache
<1>15. SearchInv'
  BY <1>1, <1>2, <1>3, <1>9, <1>11, <1>12, <1>13, <1>14
     DEF SearchInv, QueuesTyped, Cached, fileSearch, cache
<1> QED BY <1>1, <1>4, <1>5, <1>15 DEF SearchGoal

LEMMA FoundStep == ASSUME SearchInv, Found PROVE SearchGoal
<1> DEFINE r == Head(replies)
           R == Tail(replies)
<1>1. /\ replies # <<>> /\ r.kind = "found" /\ replies' = R /\ calls' = calls
      /\ UNCHANGED <<jobs, dialog, disk, walkedKey, entries, walking, abandoned>>
      /\ results' \in {results, None, [entries |-> r.entries, text |-> r.text]}
  BY DEF Found, Deliver, Due
<1>2. /\ r \in AllReplies /\ r = replies[1]
      /\ R \in Seq(AllReplies)
      /\ \A i \in DOMAIN R : /\ i \in Nat \ {0} /\ i + 1 \in DOMAIN replies
                             /\ R[i] = replies[i + 1]
      /\ \A i \in DOMAIN replies : /\ i \in Nat \ {0}
                                   /\ i = 1 \/ (i - 1 \in DOMAIN R /\ R[i - 1] = replies[i])
      /\ Kept(replies, R, 1, OfBrightness)
      /\ LatestIsLast(jobs, R)
  BY <1>1, ReplyTaken DEF OfSearch
<1>3. r.entries \in Entries /\ r.text \in Texts BY <1>1, <1>2, SearchRecords
<1> HIDE DEF r, R
<1>4. results' \in {None} \cup [entries : Entries, text : Texts]
  <2>1. results \in {None} \cup [entries : Entries, text : Texts]
    BY DEF SearchInv, FileSearchTypeOK
  <2>2. [entries |-> r.entries, text |-> r.text] \in [entries : Entries, text : Texts]
    BY <1>3
  <2> QED BY <1>1, <2>1, <2>2
<1>5. Cached(jobs, R, walkedKey, entries, walking, abandoned, disk)
  <2>1. \A i, j \in DOMAIN R : i + 1 = j + 1 => i = j BY <1>2
  <2>2. ~Walks(replies[1]) BY <1>1, <1>2 DEF Walks
  <2>3. (\E i \in DOMAIN replies : Walks(replies[i])) <=> \E i \in DOMAIN R : Walks(R[i])
    BY <1>2, <2>2
  <2>4. \A i \in DOMAIN R : i + 1 \in DOMAIN replies /\ R[i] = replies[i + 1] BY <1>2
  <2>5. /\ OneWalk(jobs, replies, walking) /\ WalkOfKey(jobs, replies, walkedKey, disk)
        /\ walkedKey # None /\ ~walking /\ ~abandoned => Fresh(entries, walkedKey, disk)
    BY DEF SearchInv, Cached
  <2>6. \A i, j \in DOMAIN R : Walks(R[i]) /\ Walks(R[j]) => i = j
    BY <2>1, <2>4, <2>5 DEF OneWalk
  <2>7. \A i \in DOMAIN jobs, j \in DOMAIN R : ~(Walks(jobs[i]) /\ Walks(R[j]))
    BY <2>4, <2>5 DEF OneWalk
  <2>8. OneWalk(jobs, R, walking) BY <2>3, <2>5, <2>6, <2>7 DEF OneWalk
  <2>9. WalkOfKey(jobs, R, walkedKey, disk) BY <2>4, <2>5 DEF WalkOfKey
  <2> QED BY <2>5, <2>8, <2>9 DEF Cached
<1>6. FileSearchTypeOK' BY <1>1, <1>4 DEF SearchInv, FileSearchTypeOK, dialog
<1>7. SearchInv' BY <1>1, <1>2, <1>5, <1>6 DEF SearchInv, QueuesTyped
<1>8. Kept(jobs, jobs', 0, OfBrightness) BY <1>1, SameKept DEF SearchInv, QueuesTyped
<1> QED BY <1>1, <1>2, <1>7, <1>8 DEF SearchGoal

LEMMA SearchSteps ==
  ASSUME SearchInv,
         FileSearchCall \/ FileSearchWork \/ FileSearchReply \/ Debounce
  PROVE  SearchGoal
<1>1. CASE WalkDirs
  <2> DEFINE j == Head(jobs)
             r == [kind |-> "walked", latest |-> j.latest,
                   entries |-> IF j.folder \in EmptyFolders THEN None
                               ELSE [folder |-> j.folder, disk |-> disk]]
  <2>1. jobs # <<>> /\ j.kind = "walk" /\ Run("walk", r) /\ UNCHANGED fileSearch
    BY <1>1 DEF WalkDirs, Run
  <2>2. j \in AllJobs BY <2>1, Popped DEF SearchInv, QueuesTyped
  <2>3. j.folder \in Folders /\ j.latest \in BOOLEAN BY <2>1, <2>2, SearchRecords
  <2> HIDE DEF j
  <2>4. r.entries \in Entries BY <2>3 DEF Entries, SearchInv, FileSearchTypeOK
  <2>5. r \in AllReplies BY <2>3, <2>4 DEF AllReplies, SearchReplies
  <2>6. /\ r.kind = "walked" /\ r.latest = j.latest
        /\ r.entries = None \/ r.entries = [folder |-> j.folder, disk |-> disk]
    OBVIOUS
  <2> HIDE DEF r
  <2> QED BY <2>1, <2>5, <2>6, WorkStep DEF j
<1>2. CASE SearchFiles
  <2> DEFINE j == Head(jobs)
             r == [kind |-> "found", entries |-> j.entries, text |-> j.text,
                   latest |-> j.latest]
  <2>1. jobs # <<>> /\ j.kind = "search" /\ Run("search", r) /\ UNCHANGED fileSearch
    BY <1>2 DEF SearchFiles, Run
  <2>2. j \in AllJobs BY <2>1, Popped DEF SearchInv, QueuesTyped
  <2>3. j.entries \in Entries /\ j.text \in Texts /\ j.latest \in BOOLEAN
    BY <2>1, <2>2, SearchRecords
  <2> HIDE DEF j
  <2>4. r \in AllReplies BY <2>3 DEF AllReplies, SearchReplies
  <2>5. r.kind = "found" /\ r.latest = j.latest OBVIOUS
  <2> HIDE DEF r
  <2> QED BY <2>1, <2>4, <2>5, WorkStep DEF j
<1> QED
  BY <1>1, <1>2, DialogSteps, RefreshStep, ReopenStep, DebounceStep, WalkFinishedStep,
     FoundStep
     DEF FileSearchCall, FileSearchWork, FileSearchReply

\* What the brightness does to the queues leaves the search's messages alone.
LEMMA SearchUndisturbed ==
  ASSUME SearchInv, QueuesTyped', UNCHANGED fileSearch, calls' \in {calls, calls + 1},
         NEW m \in {0, 1}, NEW n \in {0, 1},
         Kept(jobs, jobs', m, OfSearch), Kept(replies, replies', n, OfSearch)
  PROVE  SearchInv'
<1>1. PICK J, R : J = jobs' /\ R = replies' OBVIOUS
<1>2. /\ Cached(jobs, replies, walkedKey, entries, walking, abandoned, disk)
      /\ LatestIsLast(jobs, replies)
  BY DEF SearchInv
<1>3. /\ DOMAIN jobs \subseteq Nat /\ DOMAIN J \subseteq Nat
      /\ DOMAIN replies \subseteq Nat /\ DOMAIN R \subseteq Nat
  BY <1>1, LenProperties DEF SearchInv, QueuesTyped
<1>4. /\ \A i \in DOMAIN J : J[i].kind \in OfSearch => i + m \in DOMAIN jobs /\ J[i] = jobs[i + m]
      /\ \A i \in DOMAIN jobs : jobs[i].kind \in OfSearch =>
           i - m \in DOMAIN J /\ J[i - m] = jobs[i]
  BY <1>1 DEF Kept
<1>5. /\ \A i \in DOMAIN R : R[i].kind \in OfSearch =>
           i + n \in DOMAIN replies /\ R[i] = replies[i + n]
      /\ \A i \in DOMAIN replies : replies[i].kind \in OfSearch =>
           i - n \in DOMAIN R /\ R[i - n] = replies[i]
  BY <1>1 DEF Kept
<1>6. \A x : (Walks(x) => x.kind \in OfSearch)
             /\ (x.kind \in {"walk", "walked", "search", "found"} => x.kind \in OfSearch)
  BY DEF Walks, OfSearch
<1>7. /\ \A i, j \in DOMAIN J : (i + m = j + m => i = j) /\ (i < j => i + m < j + m)
      /\ \A i, j \in DOMAIN R : (i + n = j + n => i = j) /\ (i < j => i + n < j + n)
  BY <1>3
<1>8. OneWalk(J, R, walking)
  <2>1. OneWalk(jobs, replies, walking) BY <1>2 DEF Cached
  <2>2. \A i \in DOMAIN J : Walks(J[i]) => i + m \in DOMAIN jobs /\ J[i] = jobs[i + m]
    BY <1>4, <1>6
  <2>3. \A i \in DOMAIN R : Walks(R[i]) => i + n \in DOMAIN replies /\ R[i] = replies[i + n]
    BY <1>5, <1>6
  <2>4. (\E i \in DOMAIN jobs : Walks(jobs[i])) <=> \E i \in DOMAIN J : Walks(J[i])
    BY <1>4, <1>6, <2>2
  <2>5. (\E i \in DOMAIN replies : Walks(replies[i])) <=> \E i \in DOMAIN R : Walks(R[i])
    BY <1>5, <1>6, <2>3
  <2>6. \A i, j \in DOMAIN J : Walks(J[i]) /\ Walks(J[j]) => i = j
    BY <1>7, <2>1, <2>2 DEF OneWalk
  <2>7. \A i, j \in DOMAIN R : Walks(R[i]) /\ Walks(R[j]) => i = j
    BY <1>7, <2>1, <2>3 DEF OneWalk
  <2>8. \A i \in DOMAIN J, j \in DOMAIN R : ~(Walks(J[i]) /\ Walks(R[j]))
    BY <2>1, <2>2, <2>3 DEF OneWalk
  <2> QED BY <2>1, <2>4, <2>5, <2>6, <2>7, <2>8 DEF OneWalk
<1>9. WalkOfKey(J, R, walkedKey, disk)
  <2>1. WalkOfKey(jobs, replies, walkedKey, disk) BY <1>2 DEF Cached
  <2>2. \A i \in DOMAIN J : J[i].kind = "walk" => i + m \in DOMAIN jobs /\ J[i] = jobs[i + m]
    BY <1>4, <1>6
  <2>3. \A i \in DOMAIN R : R[i].kind = "walked" => i + n \in DOMAIN replies /\ R[i] = replies[i + n]
    BY <1>5, <1>6
  <2> QED BY <2>1, <2>2, <2>3 DEF WalkOfKey
<1>10. LatestIsLast(J, R)
  <2>1. \A i \in DOMAIN J : J[i].kind = "search" => i + m \in DOMAIN jobs /\ J[i] = jobs[i + m]
    BY <1>4, <1>6
  <2>2. \A i \in DOMAIN R : R[i].kind = "found" => i + n \in DOMAIN replies /\ R[i] = replies[i + n]
    BY <1>5, <1>6
  <2> QED BY <1>2, <1>7, <2>1, <2>2 DEF LatestIsLast
<1>11. FileSearchTypeOK' BY DEF SearchInv, FileSearchTypeOK, fileSearch, dialog, cache
<1>12. calls' \in Nat /\ disk' <= calls' BY DiskBounds DEF fileSearch
<1> QED
  BY <1>1, <1>2, <1>8, <1>9, <1>10, <1>11, <1>12 DEF SearchInv, Cached, fileSearch, cache

-----------------------------------------------------------------------------
(* The brightness: types.                                                  *)

LEMMA BrightnessBounds ==
  /\ MaxPercent \in Nat \ {0} /\ HardwareMax \in [Displays -> Nat]
  /\ Fallback \in Percents /\ 0 \in Percents /\ None \notin Percents
  /\ None \notin Displays /\ Internal \subseteq Displays
  /\ IsFiniteSet(Displays)
  /\ MaxCalls["brightness"] \in Nat
  /\ Scans \subseteq Nat \ {0}
  /\ \A n \in Nat : n + 1 <= MaxCalls["brightness"] + 1 => n + 1 \in Scans
<1>1. /\ MaxPercent \in Nat \ {0} /\ HardwareMax \in [Displays -> Nat]
      /\ Fallback \in 0 .. MaxPercent /\ None \notin Nat
      /\ None \notin Displays /\ Internal \subseteq Displays
      /\ IsFiniteSet(Displays)
      /\ MaxCalls["brightness"] \in Nat
  BY BrightnessAssumption, Zenon
<1>2. Percents \subseteq Nat /\ 0 \in Percents BY <1>1 DEF Percents
<1>3. Scans \subseteq Nat \ {0}
      /\ \A n \in Nat : n + 1 <= MaxCalls["brightness"] + 1 => n + 1 \in Scans
  BY <1>1 DEF Scans
<1> QED BY <1>1, <1>2, <1>3 DEF Percents

LEMMA BrightnessRecords ==
  /\ \A x \in AllJobs : x.kind = "write" => x.worker \in Workers
  /\ \A x \in AllReplies : x.kind = "written" =>
       /\ x.worker \in Workers /\ x.value \in Percents
       /\ x.ok \in BOOLEAN /\ x.reached \in BOOLEAN
  /\ \A x \in AllReplies : x.kind = "published" =>
       /\ x.scan \in Scans /\ x.unread \subseteq Displays
       /\ DOMAIN x.value \subseteq Displays
       /\ \A d \in DOMAIN x.value : x.value[d] \in Percents
  /\ \A w \in Workers : /\ w[1] \in Displays /\ w[2] \in Scans /\ w = <<w[1], w[2]>>
                        /\ Write(w) \in AllJobs
                        /\ Write(w).kind = "write" /\ Write(w).worker = w
  /\ Scan \in AllJobs /\ Scan.kind = "scan"
<1>1. \A x \in AllReplies : x.kind = "published" => x.value \in Values
  BY DEF AllReplies, SearchReplies, BrightnessReplies
<1>2. \A v \in Values : /\ DOMAIN v \subseteq Displays
                        /\ \A d \in DOMAIN v : v[d] \in Percents
  BY DEF Values
<1> QED
  BY <1>1, <1>2 DEF AllJobs, AllReplies, SearchJobs, SearchReplies, BrightnessJobs,
                    BrightnessReplies, Workers, Write, Scan

\* What a quotient is.
LEMMA Division ==
  ASSUME NEW a \in Nat, NEW b \in Nat, b # 0
  PROVE  /\ a \div b \in Nat
         /\ b * (a \div b) <= a
         /\ a < b * (a \div b) + b
<1>1. a \div b \in Nat OBVIOUS
<1>2. b * (a \div b) <= a OBVIOUS
<1>3. a < b * (a \div b) + b OBVIOUS
<1> QED BY <1>1, <1>2, <1>3

LEMMA ProductLeq ==
  ASSUME NEW a \in Nat, NEW b \in Nat, NEW c \in Nat
  PROVE  /\ a * c \in Nat
         /\ a <= b => a * c <= b * c
         /\ c # 0 /\ a * c <= b * c => a <= b
<1>1. a * c \in Nat OBVIOUS
<1>2. ASSUME a <= b PROVE a * c <= b * c BY <1>2
<1>3. ASSUME c # 0, b < a PROVE b * c < a * c BY <1>3
<1> QED BY <1>1, <1>2, <1>3

\* A level is written and read in hardware units.
LEMMA Converted ==
  ASSUME NEW d \in Displays
  PROVE  /\ \A p \in Percents : Raw(d, p) \in Nat
         /\ HardwareMax[d] # 0 =>
              \A l \in 0 .. HardwareMax[d] : Percent(d, l) \in Percents
         /\ HardwareMax[d] \in Nat
<1> DEFINE h == HardwareMax[d]
<1>1. h \in Nat /\ MaxPercent \in Nat \ {0} BY BrightnessBounds
<1>2. ASSUME NEW p \in Percents PROVE Raw(d, p) \in Nat
  <2>1. p \in Nat BY <1>1 DEF Percents
  <2>2. p * h \in Nat BY <1>1, <2>1, ProductLeq
  <2>3. (p * h) \div MaxPercent \in Nat BY <1>1, <2>2, Division
  <2> QED BY <2>1, <2>3 DEF Raw
<1>3. ASSUME h # 0, NEW l \in 0 .. h PROVE Percent(d, l) \in Percents
  <2> DEFINE v == (l * MaxPercent) \div h
  <2>1. l \in Nat /\ l <= h BY <1>1
  <2>2. l * MaxPercent \in Nat /\ l * MaxPercent <= h * MaxPercent
    BY <1>1, <2>1, ProductLeq
  <2>3. v \in Nat /\ h * v <= l * MaxPercent BY <1>1, <1>3, <2>2, Division
  <2> HIDE DEF v
  <2>4. v * h <= MaxPercent * h BY <1>1, <2>1, <2>2, <2>3
  <2>5. v <= MaxPercent BY <1>1, <1>3, <2>3, <2>4, ProductLeq
  <2> QED BY <1>1, <2>3, <2>5 DEF v, Percent, Percents
<1> QED BY <1>1, <1>2, <1>3

\* A backlight is read as what was written to it, or as less.
LEMMA ReadBack ==
  ASSUME NEW d \in Internal, NEW p \in Percents, HardwareMax[d] # 0
  PROVE  LET v == Percent(d, Raw(d, p)) IN
         /\ v \in Nat /\ v <= p
         /\ HardwareMax[d] >= MaxPercent => p <= v + 1
<1> DEFINE h == HardwareMax[d]
           a == (p * h) \div MaxPercent
           v == (a * MaxPercent) \div h
<1>1. h \in Nat \ {0} /\ MaxPercent \in Nat \ {0} /\ p \in Nat
  BY BrightnessBounds DEF Percents
<1> HIDE DEF h
<1>2. p * h \in Nat BY <1>1, ProductLeq
<1>3. a \in Nat /\ MaxPercent * a <= p * h /\ p * h < MaxPercent * a + MaxPercent
  BY <1>1, <1>2, Division
<1> HIDE DEF a
<1>4. a * MaxPercent \in Nat BY <1>1, <1>3, ProductLeq
<1>5. v \in Nat /\ h * v <= a * MaxPercent /\ a * MaxPercent < h * v + h
  BY <1>1, <1>4, Division
<1> HIDE DEF v
<1>6. v <= p
  <2>1. v * h <= p * h BY <1>1, <1>2, <1>3, <1>4, <1>5
  <2> QED BY <1>1, <1>5, <2>1, ProductLeq
<1>7. ASSUME h >= MaxPercent PROVE p <= v + 1
  <2>1. (v + 2) * h = h * v + h + h BY <1>1, <1>5
  <2>2. p * h < (v + 2) * h BY <1>1, <1>2, <1>3, <1>4, <1>5, <1>7, <2>1
  <2>3. ~(v + 2 <= p) BY <1>1, <1>5, <2>2, ProductLeq
  <2> QED BY <1>1, <1>5, <2>3
<1>8. Percent(d, Raw(d, p)) = v BY DEF Percent, Raw, v, a, h
<1> QED BY <1>5, <1>6, <1>7, <1>8 DEF h

LEMMA LevelTyped ==
  ASSUME level \in Levels, NEW d \in Displays
  PROVE  /\ level[d] \in 0 .. HardwareMax[d]
         /\ \A l \in 0 .. HardwareMax[d] : [level EXCEPT ![d] = l] \in Levels
<1>1. \A e \in Displays : HardwareMax[e] \in Nat BY BrightnessBounds
<1>2. /\ level \in [Displays -> UNION {0 .. HardwareMax[e] : e \in Displays}]
      /\ \A e \in Displays : level[e] <= HardwareMax[e]
  BY DEF Levels
<1>3. \A e \in Displays : level[e] \in Nat
  <2>1. \A n \in UNION {0 .. HardwareMax[e] : e \in Displays} : n \in Nat BY <1>1
  <2> QED BY <1>2, <2>1
<1>4. level[d] \in 0 .. HardwareMax[d] BY <1>1, <1>2, <1>3
<1>5. ASSUME NEW l \in 0 .. HardwareMax[d] PROVE [level EXCEPT ![d] = l] \in Levels
  <2>1. l \in UNION {0 .. HardwareMax[e] : e \in Displays} OBVIOUS
  <2>2. l <= HardwareMax[d] BY <1>1
  <2> QED BY <1>2, <2>1, <2>2 DEF Levels
<1> QED BY <1>4, <1>5

LEMMA ListedWorker ==
  ASSUME BrightnessTypeOK, NEW d \in Listed
  PROVE  /\ d \in Displays /\ WorkerOf(d) \in Workers
         /\ WorkerOf(d)[1] = d /\ WorkerOf(d)[2] = published[d]
  BY DEF BrightnessTypeOK, Listed, WorkerOf, Workers

\* A non-empty set of displays has a first.
LEMMA FirstIn ==
  ASSUME NEW S \in SUBSET Displays
  PROVE  First(S) \in (IF S = {} THEN {None} ELSE S)
<1>1. CASE S = {} BY <1>1 DEF First
<1>2. CASE S # {}
  <2> DEFINE P == {Place[d] : d \in S}
  <2>1. Place \in [Displays -> Nat] BY BrightnessAssumption, Zenon
  <2>2. P \subseteq Nat /\ P # {} BY <1>2, <2>1
  <2>3. \E x \in P : \A y \in P : ~(<<y, x>> \in OpToRel(<, Nat))
    BY <2>2, WFMin, NatLessThanWellFounded
  <2>4. \E x \in P : \A y \in P : ~(y < x) BY <2>2, <2>3 DEF OpToRel
  <2>5. \E d \in S : \A e \in S : ~(Place[e] < Place[d]) BY <2>4
  <2>6. \A d \in S : Place[d] \in Nat BY <2>1
  <2>7. \E d \in S : \A e \in S : Place[d] <= Place[e] BY <2>5, <2>6
  <2> QED BY <1>2, <2>7 DEF First
<1> QED BY <1>1, <1>2

-----------------------------------------------------------------------------
(* The brightness: the queues.                                             *)

\* The worker thread runs the first job.
LEMMA RunFacts ==
  ASSUME QueuesTyped, NEW k, NEW r \in AllReplies, Run(k, r)
  PROVE  /\ Head(jobs) \in AllJobs /\ Head(jobs) = jobs[1] /\ Head(jobs).kind = k
         /\ 1 \in DOMAIN jobs
         /\ \A i \in DOMAIN jobs' : /\ i \in Nat \ {0} /\ i + 1 \in DOMAIN jobs
                                    /\ jobs'[i] = jobs[i + 1]
         /\ \A i \in DOMAIN jobs : /\ i \in Nat \ {0}
                                   /\ i = 1 \/ (i - 1 \in DOMAIN jobs' /\ jobs'[i - 1] = jobs[i])
         /\ \A i \in DOMAIN replies : i \in DOMAIN replies' /\ replies'[i] = replies[i]
         /\ Len(replies) + 1 \in DOMAIN replies' /\ replies'[Len(replies) + 1] = r
         /\ \A i \in DOMAIN replies' : i \in DOMAIN replies \/ i = Len(replies) + 1
         /\ \A i \in DOMAIN replies : i \in Nat /\ i < Len(replies) + 1
         /\ Len(replies) + 1 \notin DOMAIN replies /\ Len(replies) \in Nat
         /\ QueuesTyped' /\ UNCHANGED <<calls, user>>
         /\ ScanJobs' = ScanJobs - (IF k = "scan" THEN 1 ELSE 0)
         /\ ScreensCome' = ScreensCome + (IF r.kind = "screens" THEN 1 ELSE 0)
         /\ ScanJobs \in Nat /\ ScreensCome \in Nat /\ ScanJobs' \in Nat /\ ScreensCome' \in Nat
<1>1. /\ jobs # <<>> /\ Head(jobs).kind = k /\ jobs' = Tail(jobs)
      /\ replies' = Append(replies, r) /\ UNCHANGED <<calls, user>>
      /\ jobs \in Seq(AllJobs) /\ replies \in Seq(AllReplies)
  BY DEF Run, QueuesTyped
<1>2. /\ jobs' \in Seq(AllJobs) /\ Head(jobs) = jobs[1] /\ 1 \in DOMAIN jobs
      /\ Head(jobs) \in AllJobs
      /\ \A i \in DOMAIN jobs' : /\ i \in Nat \ {0} /\ i + 1 \in DOMAIN jobs
                                 /\ jobs'[i] = jobs[i + 1]
      /\ \A i \in DOMAIN jobs : /\ i \in Nat \ {0}
                                /\ i = 1 \/ (i - 1 \in DOMAIN jobs' /\ jobs'[i - 1] = jobs[i])
  BY <1>1, Popped
<1>3. /\ replies' \in Seq(AllReplies)
      /\ \A i \in DOMAIN replies : i \in DOMAIN replies' /\ replies'[i] = replies[i]
      /\ Len(replies) + 1 \in DOMAIN replies' /\ replies'[Len(replies) + 1] = r
      /\ \A i \in DOMAIN replies' : i \in DOMAIN replies \/ i = Len(replies) + 1
      /\ Len(replies) \in Nat /\ DOMAIN replies = 1 .. Len(replies)
  BY <1>1, Appended
<1>4. /\ \A i \in DOMAIN replies : i \in Nat /\ i < Len(replies) + 1
      /\ Len(replies) + 1 \notin DOMAIN replies
  BY <1>3
<1>5. ScanJobs' = ScanJobs - (IF k = "scan" THEN 1 ELSE 0)
  BY <1>1, CountTail DEF ScanJobs
<1>6. ScreensCome' = ScreensCome + (IF r.kind = "screens" THEN 1 ELSE 0)
  BY <1>1, CountAppend DEF ScreensCome
<1>7. ScanJobs \in Nat /\ ScreensCome \in Nat /\ ScanJobs' \in Nat /\ ScreensCome' \in Nat
  BY <1>1, <1>2, <1>3, CountFinite DEF ScanJobs, ScreensCome
<1> QED BY <1>1, <1>2, <1>3, <1>4, <1>5, <1>6, <1>7 DEF QueuesTyped

\* The main thread takes the first reply.
LEMMA DeliverFacts ==
  ASSUME QueuesTyped, NEW k, Deliver(k)
  PROVE  /\ Head(replies) \in AllReplies /\ Head(replies) = replies[1] /\ Head(replies).kind = k
         /\ 1 \in DOMAIN replies
         /\ \A i \in DOMAIN replies' : /\ i \in Nat \ {0} /\ i + 1 \in DOMAIN replies
                                       /\ replies'[i] = replies[i + 1]
         /\ \A i \in DOMAIN replies :
              /\ i \in Nat \ {0}
              /\ i = 1 \/ (i - 1 \in DOMAIN replies' /\ replies'[i - 1] = replies[i])
         /\ \A i, j \in DOMAIN replies' : (i + 1 = j + 1 => i = j) /\ (i < j => i + 1 < j + 1)
                                          /\ 1 < j + 1
         /\ replies' \in Seq(AllReplies) /\ UNCHANGED <<calls, user>>
         /\ ScreensCome' = ScreensCome - (IF k = "screens" THEN 1 ELSE 0)
         /\ k # "screens" => ScreensCome' = ScreensCome
         /\ ScanJobs \in Nat /\ ScreensCome \in Nat /\ ScreensCome' \in Nat
<1>1. /\ replies # <<>> /\ Head(replies).kind = k /\ replies' = Tail(replies)
      /\ UNCHANGED <<calls, user>> /\ jobs \in Seq(AllJobs) /\ replies \in Seq(AllReplies)
  BY DEF Deliver, Due, QueuesTyped
<1>2. /\ replies' \in Seq(AllReplies) /\ Head(replies) = replies[1] /\ 1 \in DOMAIN replies
      /\ Head(replies) \in AllReplies
      /\ \A i \in DOMAIN replies' : /\ i \in Nat \ {0} /\ i + 1 \in DOMAIN replies
                                    /\ replies'[i] = replies[i + 1]
      /\ \A i \in DOMAIN replies :
           /\ i \in Nat \ {0}
           /\ i = 1 \/ (i - 1 \in DOMAIN replies' /\ replies'[i - 1] = replies[i])
  BY <1>1, Popped
<1>3. \A i, j \in DOMAIN replies' : (i + 1 = j + 1 => i = j) /\ (i < j => i + 1 < j + 1)
                                    /\ 1 < j + 1
  BY <1>2
<1>4. ScreensCome' = ScreensCome - (IF k = "screens" THEN 1 ELSE 0)
  BY <1>1, CountTail DEF ScreensCome
<1>5. ScanJobs \in Nat /\ ScreensCome \in Nat /\ ScreensCome' \in Nat
  BY <1>1, <1>2, CountFinite DEF ScanJobs, ScreensCome
<1>6. k # "screens" => ScreensCome' = ScreensCome BY <1>4, <1>5
<1> QED BY <1>1, <1>2, <1>3, <1>4, <1>5, <1>6

\* A job is posted.
LEMMA PostFacts ==
  ASSUME QueuesTyped, NEW e \in AllJobs, jobs' = Append(jobs, e)
  PROVE  /\ jobs' \in Seq(AllJobs)
         /\ \A i \in DOMAIN jobs : i \in DOMAIN jobs' /\ jobs'[i] = jobs[i]
         /\ Len(jobs) + 1 \in DOMAIN jobs' /\ jobs'[Len(jobs) + 1] = e
         /\ \A i \in DOMAIN jobs' : i \in DOMAIN jobs \/ i = Len(jobs) + 1
         /\ \A i \in DOMAIN jobs : i \in Nat /\ i < Len(jobs) + 1
         /\ Len(jobs) + 1 \notin DOMAIN jobs /\ Len(jobs) \in Nat
         /\ ScanJobs' = ScanJobs + (IF e.kind = "scan" THEN 1 ELSE 0)
         /\ ScanJobs \in Nat /\ ScanJobs' \in Nat
<1>1. jobs \in Seq(AllJobs) BY DEF QueuesTyped
<1>2. /\ jobs' \in Seq(AllJobs)
      /\ \A i \in DOMAIN jobs : i \in DOMAIN jobs' /\ jobs'[i] = jobs[i]
      /\ Len(jobs) + 1 \in DOMAIN jobs' /\ jobs'[Len(jobs) + 1] = e
      /\ \A i \in DOMAIN jobs' : i \in DOMAIN jobs \/ i = Len(jobs) + 1
      /\ Len(jobs) \in Nat /\ DOMAIN jobs = 1 .. Len(jobs)
  BY <1>1, Appended
<1>3. /\ \A i \in DOMAIN jobs : i \in Nat /\ i < Len(jobs) + 1
      /\ Len(jobs) + 1 \notin DOMAIN jobs
  BY <1>2
<1>4. ScanJobs' = ScanJobs + (IF e.kind = "scan" THEN 1 ELSE 0)
  BY <1>1, CountAppend DEF ScanJobs
<1>5. ScanJobs \in Nat /\ ScanJobs' \in Nat
  BY <1>1, <1>2, CountFinite DEF ScanJobs
<1> QED BY <1>2, <1>3, <1>4, <1>5

\* The displays of D, one after the other, are all of them, each once.
LEMMA InTurnFacts ==
  ASSUME NEW D \in SUBSET Displays, NEW ds \in InTurn(D)
  PROVE  /\ ds \in Seq(D)
         /\ \A i, j \in DOMAIN ds : ds[i] = ds[j] => i = j
         /\ \A d \in D : \E i \in DOMAIN ds : ds[i] = d
<1> DEFINE N == 1 .. Cardinality(D)
<1>1. ds \in [N -> D] /\ \A i, j \in N : i # j => ds[i] # ds[j]
  BY DEF InTurn, SetToSeqs
<1>2. IsFiniteSet(D) /\ Cardinality(D) \in Nat
  BY BrightnessBounds, FS_Subset, FS_CardinalityType
<1>3. IsFiniteSet(N) /\ Cardinality(N) = Cardinality(D)
  BY <1>2, FS_Interval
<1>4. ds \in Injection(N, D) BY <1>1 DEF Injection, IsInjective
<1>5. ds \in Seq(D) BY <1>1, <1>2, SeqDef
<1> HIDE DEF N
<1>6. ds \in Surjection(N, D) BY <1>2, <1>3, <1>4, FS_Injection
<1>7. DOMAIN ds = N BY <1>1
<1>8. \A d \in D : \E i \in N : ds[i] = d BY <1>6 DEF Surjection
<1> QED BY <1>1, <1>5, <1>7, <1>8

\* The values set are posted, one write for each worker that has none in flight.
Set(targets) == DOMAIN targets \cap Listed
Added        == DOMAIN jobs' \ DOMAIN jobs

LEMMA SetFacts ==
  ASSUME BrightnessTypeOK, QueuesTyped, NEW targets, SetBrightness(targets)
  PROVE  /\ jobs' \in Seq(AllJobs) /\ replies' = replies
         /\ \A i \in DOMAIN jobs : /\ i \in DOMAIN jobs' /\ jobs'[i] = jobs[i]
                                   /\ \A j \in Added : ~(j < i) /\ i # j
         /\ \A i \in Added : \E d \in Set(targets) :
              WorkerOf(d) \notin inFlight /\ jobs'[i] = Write(WorkerOf(d))
         /\ \A i, j \in Added : jobs'[i] = jobs'[j] => i = j
         /\ \A d \in Set(targets) : WorkerOf(d) \notin inFlight =>
              \E i \in Added : jobs'[i] = Write(WorkerOf(d))
         /\ ScanJobs' = ScanJobs
<1> DEFINE D == {d \in Set(targets) : WorkerOf(d) \notin inFlight}
<1>1. PICK ds \in InTurn(D) : jobs' = jobs \o Dispatched(ds)
  BY DEF SetBrightness, Call, Set
<1>2. /\ jobs \in Seq(AllJobs) /\ replies' = replies
  BY DEF QueuesTyped, SetBrightness
<1>3. \A d \in D : d \in Displays /\ WorkerOf(d) \in Workers /\ WorkerOf(d)[1] = d
  BY ListedWorker DEF Set
<1>4. \A d \in D : d \in Set(targets) /\ WorkerOf(d) \notin inFlight OBVIOUS
<1>5. \A d \in Set(targets) : WorkerOf(d) \notin inFlight => d \in D OBVIOUS
<1> HIDE DEF D
<1>6. /\ ds \in Seq(D)
      /\ \A i, j \in DOMAIN ds : ds[i] = ds[j] => i = j
      /\ \A d \in D : \E i \in DOMAIN ds : ds[i] = d
  BY <1>1, <1>3, InTurnFacts
<1>7. DOMAIN ds = 1 .. Len(ds) /\ Len(ds) \in Nat /\ \A i \in DOMAIN ds : ds[i] \in D
  BY <1>6, LenProperties, ElementOfSeq
<1> DEFINE t == Dispatched(ds)
<1>8. t = [i \in DOMAIN ds |-> Write(WorkerOf(ds[i]))] BY DEF Dispatched
<1> HIDE DEF t
<1>9. \A i \in DOMAIN ds : Write(WorkerOf(ds[i])) \in AllJobs
  BY <1>3, <1>7, BrightnessRecords
<1>10. t \in [1 .. Len(ds) -> AllJobs] BY <1>7, <1>8, <1>9
<1>11. t \in Seq(AllJobs) /\ DOMAIN t = DOMAIN ds BY <1>7, <1>10, SeqDef
<1>12. \A i \in DOMAIN t : ds[i] \in D /\ t[i] = Write(WorkerOf(ds[i])) BY <1>7, <1>8, <1>11
<1>13. \A i, j \in DOMAIN t : t[i] = t[j] => i = j
  <2>1. \A i \in DOMAIN t : t[i].worker[1] = ds[i]
    BY <1>3, <1>12, BrightnessRecords
  <2> QED BY <1>6, <1>11, <2>1
<1>14. jobs' = jobs \o t BY <1>1 DEF t
<1> DEFINE n == Len(jobs)
<1>15. /\ jobs' \in Seq(AllJobs)
       /\ \A j \in DOMAIN jobs : j \in DOMAIN jobs' /\ jobs'[j] = jobs[j]
       /\ \A j \in DOMAIN t : n + j \in DOMAIN jobs' /\ jobs'[n + j] = t[j]
       /\ \A k \in DOMAIN jobs' : \/ k \in DOMAIN jobs
                                  \/ k - n \in DOMAIN t /\ jobs'[k] = t[k - n]
       /\ n \in Nat /\ DOMAIN jobs = 1 .. n
       /\ DOMAIN jobs' = 1 .. n + Len(t)
  BY <1>2, <1>11, <1>14, Grown
<1>16. DOMAIN jobs' \subseteq Nat /\ DOMAIN t \subseteq Nat \ {0}
  BY <1>7, <1>11, <1>15, LenProperties
<1> HIDE DEF n
<1>17. \A k \in Added : k - n \in DOMAIN t /\ jobs'[k] = t[k - n] BY <1>15 DEF Added
<1>18. \A j \in DOMAIN t : n + j \in Added
  BY <1>15, <1>16 DEF Added
<1>19. \A i, j \in Added : jobs'[i] = jobs'[j] => i = j
  <2>1. \A i, j \in Added : i - n = j - n => i = j BY <1>15, <1>16 DEF Added
  <2> QED BY <1>13, <1>17, <2>1
<1>20. \A i \in DOMAIN jobs : \A j \in Added : ~(j < i) /\ i # j
  BY <1>15, <1>16 DEF Added
<1>21. \A i \in Added : \E d \in Set(targets) :
         WorkerOf(d) \notin inFlight /\ jobs'[i] = Write(WorkerOf(d))
  BY <1>4, <1>12, <1>17
<1>22. \A d \in Set(targets) : WorkerOf(d) \notin inFlight =>
         \E i \in Added : jobs'[i] = Write(WorkerOf(d))
  BY <1>5, <1>6, <1>11, <1>12, <1>15, <1>18
<1>23. ScanJobs' = ScanJobs
  <2>1. \A i \in DOMAIN t : t[i].kind \notin {"scan"} BY <1>12 DEF Write
  <2>2. Kept(jobs, jobs', 0, {"scan"}) BY <1>2, <1>11, <1>14, <2>1, ConcatKept
  <2>3. jobs \in Seq(AllJobs) /\ jobs' \in Seq(AllJobs) BY <1>2, <1>15
  <2> QED BY <2>2, <2>3, CountKept DEF ScanJobs
<1> QED BY <1>2, <1>15, <1>19, <1>20, <1>21, <1>22, <1>23

-----------------------------------------------------------------------------
(* The brightness: its steps keep the types.                               *)

LEMMA SetTyped ==
  ASSUME BrightnessTyped, NEW targets \in Targets, SetBrightness(targets)
  PROVE  BrightnessTyped'
<1>1. BrightnessTypeOK /\ QueuesTyped BY DEF BrightnessTyped
<1>2. /\ jobs' \in Seq(AllJobs) /\ replies' = replies /\ ScanJobs' = ScanJobs
  BY <1>1, SetFacts
<1>3. /\ user = "brightness" /\ calls < MaxCalls[user] /\ calls' = calls + 1 /\ user' = user
      /\ pending' = Stored(Set(targets), targets)
      /\ inFlight' = inFlight \cup {WorkerOf(d) : d \in Set(targets)}
      /\ asked' = [d \in Displays |-> IF d \in Set(targets) THEN <<WorkerOf(d), targets[d]>>
                                      ELSE asked[d]]
      /\ UNCHANGED <<published, current, primary, scans, connected, level, guessed>>
  BY DEF SetBrightness, Call, CallOf, Set
<1>4. \A d \in Set(targets) : targets[d] \in Percents /\ WorkerOf(d) \in Workers
  BY <1>1, ListedWorker DEF Targets, Set
<1>5. \A w \in Workers : w[1] \in Displays BY BrightnessRecords
<1>6. pending' \in [Workers -> Percents \cup {None}]
  BY <1>1, <1>3, <1>4 DEF Stored, BrightnessTypeOK
<1>7. inFlight' \subseteq Workers BY <1>1, <1>3, <1>4 DEF BrightnessTypeOK
<1>8. asked' \in [Displays -> {None} \cup (Workers \X Percents)]
  BY <1>1, <1>3, <1>4 DEF BrightnessTypeOK
<1>9. BrightnessTypeOK'
  BY <1>1, <1>3, <1>6, <1>7, <1>8 DEF BrightnessTypeOK, Listed
<1>10. calls' \in Nat /\ calls' <= MaxCalls[user']
  <2>1. calls \in Nat /\ calls < MaxCalls["brightness"] /\ user' = "brightness"
    BY <1>3 DEF BrightnessTyped
  <2> QED BY <1>3, <2>1, BrightnessBounds
<1>11. ScansCounted'
  <2>1. ScreensCome' = ScreensCome BY <1>2 DEF ScreensCome
  <2>2. scans + ScanJobs + ScreensCome <= calls + 1
    BY <1>3 DEF BrightnessTyped, ScansCounted
  <2>3. calls \in Nat /\ scans \in Nat /\ ScanJobs \in Nat /\ ScreensCome \in Nat
    BY <1>1, BrightnessBounds, CountFinite
       DEF BrightnessTyped, BrightnessTypeOK, QueuesTyped, ScanJobs, ScreensCome
  <2> QED BY <1>2, <1>3, <2>1, <2>2, <2>3 DEF ScansCounted
<1> QED BY <1>2, <1>3, <1>9, <1>10, <1>11 DEF BrightnessTyped, QueuesTyped

\* The types of what is not typed by the queues.
LEMMA CountedTyped ==
  ASSUME BrightnessTyped
  PROVE  /\ scans \in Nat /\ calls \in Nat /\ calls + 1 \in Nat
         /\ ScanJobs \in Nat /\ ScreensCome \in Nat
         /\ user = "brightness" =>
              /\ scans + ScanJobs + ScreensCome <= calls + 1
              /\ calls <= MaxCalls["brightness"]
         /\ user # "brightness" => ScanJobs = 0 /\ ScreensCome = 0 /\ scans = 0
<1>1. scans \in Nat /\ calls \in Nat
  BY BrightnessBounds DEF BrightnessTyped, BrightnessTypeOK
<1>2. ScanJobs \in Nat /\ ScreensCome \in Nat
  BY CountFinite DEF BrightnessTyped, QueuesTyped, ScanJobs, ScreensCome
<1>3. user = "brightness" => /\ scans + ScanJobs + ScreensCome <= calls + 1
                             /\ calls <= MaxCalls["brightness"]
  BY DEF BrightnessTyped, ScansCounted
<1>4. user # "brightness" => scans + ScanJobs + ScreensCome <= 0
  BY DEF BrightnessTyped, ScansCounted
<1>5. user # "brightness" => ScanJobs = 0 /\ ScreensCome = 0 /\ scans = 0
  BY <1>1, <1>2, <1>4
<1> QED BY <1>1, <1>2, <1>3, <1>5

LEMMA PlugTyped ==
  ASSUME BrightnessTyped, NEW d \in Displays, NEW l \in 0 .. HardwareMax[d],
         PlugOrUnplug(d, l)
  PROVE  BrightnessTyped'
<1> DEFINE s == [kind |-> "screens"]
<1>1. /\ user = "brightness" /\ calls < MaxCalls[user] /\ calls' = calls + 1 /\ user' = user
      /\ jobs' = jobs \o <<>> /\ replies' = Append(replies, s)
      /\ connected' \subseteq connected \cup {d} /\ level' = [level EXCEPT ![d] = l]
      /\ asked' = [asked EXCEPT ![d] = None]
      /\ UNCHANGED <<published, pending, inFlight, current, primary, scans, guessed>>
  BY DEF PlugOrUnplug, Call, CallOf
<1>2. jobs' = jobs BY <1>1, SameJobs DEF BrightnessTyped
<1>3. s \in AllReplies /\ s.kind = "screens" BY DEF AllReplies, BrightnessReplies
<1> HIDE DEF s
<1>4. replies' \in Seq(AllReplies) BY <1>1, <1>3, Appended DEF BrightnessTyped, QueuesTyped
<1>5. ScreensCome' = ScreensCome + 1
  BY <1>1, <1>3, CountAppend DEF BrightnessTyped, QueuesTyped, ScreensCome
<1>6. ScanJobs' = ScanJobs BY <1>2 DEF ScanJobs
<1>7. BrightnessTypeOK'
  <2>1. BrightnessTypeOK BY DEF BrightnessTyped
  <2>2. level' \in Levels BY <1>1, <2>1, LevelTyped DEF BrightnessTypeOK
  <2>3. asked' \in [Displays -> {None} \cup (Workers \X Percents)]
    BY <1>1, <2>1 DEF BrightnessTypeOK
  <2> QED BY <1>1, <2>1, <2>2, <2>3 DEF BrightnessTypeOK, Listed
<1>8. calls' \in Nat /\ calls' <= MaxCalls[user']
  <2>1. calls \in Nat /\ calls < MaxCalls["brightness"] /\ user' = "brightness"
    BY <1>1 DEF BrightnessTyped
  <2> QED BY <1>1, <2>1, BrightnessBounds
<1>9. ScansCounted' BY <1>1, <1>5, <1>6, CountedTyped DEF ScansCounted
<1> QED BY <1>1, <1>2, <1>4, <1>7, <1>8, <1>9 DEF BrightnessTyped, QueuesTyped

LEMMA ScanTyped ==
  ASSUME BrightnessTyped, ScanDisplays
  PROVE  BrightnessTyped'
<1>1. PICK found \in SUBSET Displays, unread \in SUBSET Displays, blank \in SUBSET Displays :
        /\ Run("scan", [kind |-> "published", scan |-> scans + 1, unread |-> unread,
                        value |-> [d \in found |-> IF d \in blank THEN 0
                                                   ELSE IF d \in unread THEN Fallback
                                                   ELSE Percent(d, level[d])]])
        /\ blank \subseteq unread /\ \A d \in found : HardwareMax[d] = 0 => d \in unread
        /\ scans' = scans + 1
        /\ UNCHANGED <<published, pending, inFlight, current, primary, connected,
                       level, guessed, asked>>
  BY DEF ScanDisplays
<1> DEFINE v == [d \in found |-> IF d \in blank THEN 0 ELSE IF d \in unread THEN Fallback
                                 ELSE Percent(d, level[d])]
           r == [kind |-> "published", scan |-> scans + 1, unread |-> unread, value |-> v]
<1>2. QueuesTyped /\ BrightnessTypeOK BY DEF BrightnessTyped
<1>3. jobs # <<>> /\ Head(jobs).kind = "scan" BY <1>1 DEF Run
<1>4. scans + 1 \in Scans
  <2>1. 1 \in OfKind(jobs, "scan") BY <1>2, <1>3, Popped DEF QueuesTyped, OfKind
  <2>2. ScanJobs # 0
    BY <1>2, <2>1, CountFinite, FS_EmptySet DEF QueuesTyped, ScanJobs
  <2>3. user = "brightness" BY <2>2, CountedTyped
  <2>4. scans + ScanJobs <= MaxCalls["brightness"] + 1
    BY <2>3, CountedTyped, BrightnessBounds
  <2> QED BY <2>2, <2>4, CountedTyped, BrightnessBounds
<1>5. v \in [found -> Percents]
  <2>1. ASSUME NEW d \in found, d \notin unread PROVE Percent(d, level[d]) \in Percents
    <3>1. level[d] \in 0 .. HardwareMax[d]
      BY <1>2, BrightnessBounds, LevelTyped DEF BrightnessTypeOK
    <3> QED BY <1>1, <2>1, <3>1, Converted
  <2> QED BY <2>1, BrightnessBounds
<1>6. r \in AllReplies
  <2>1. v \in Values BY <1>5 DEF Values
  <2> HIDE DEF v
  <2> QED BY <1>4, <2>1 DEF AllReplies, BrightnessReplies
<1>7. r.kind = "published" OBVIOUS
<1>8. Run("scan", r) BY <1>1
<1> HIDE DEF r
<1>9. /\ QueuesTyped' /\ UNCHANGED <<calls, user>>
      /\ ScanJobs' = ScanJobs - 1 /\ ScreensCome' = ScreensCome
      /\ ScanJobs' \in Nat /\ ScreensCome' \in Nat
  BY <1>2, <1>6, <1>7, <1>8, RunFacts, CountedTyped, SMTT(30)
<1>10. BrightnessTypeOK' BY <1>1, <1>2, <1>4 DEF BrightnessTypeOK, Listed
<1>11. ScansCounted' BY <1>1, <1>9, CountedTyped DEF ScansCounted
<1> QED BY <1>9, <1>10, <1>11 DEF BrightnessTyped

\* What a write does: to the worker, to the display, and to what was asked.
Written(w, p, ok, reached) ==
  /\ Run("write", [kind |-> "written", worker |-> w, value |-> p, ok |-> ok,
                   reached |-> reached])
  /\ reached => ok /\ Raw(w[1], p) <= HardwareMax[w[1]]
  /\ pending' = [pending EXCEPT ![w] = None]
  /\ \E l \in 0 .. HardwareMax[w[1]] :
       /\ level' = [level EXCEPT ![w[1]] = l]
       /\ reached => l = Raw(w[1], p)
       /\ ~ok => l = level[w[1]]
  /\ asked' = IF ~reached /\ asked[w[1]] = <<w, p>> THEN [asked EXCEPT ![w[1]] = None]
              ELSE asked
  /\ UNCHANGED <<published, inFlight, current, primary, scans, connected, guessed>>

LEMMA WriteIs ==
  ASSUME BrightnessTyped, WriteBrightness
  PROVE  \E ok, reached \in BOOLEAN :
           LET w == Head(jobs).worker
           IN Written(w, IF pending[w] = None THEN 0 ELSE pending[w], ok, reached)
<1> DEFINE w == Head(jobs).worker
           p == IF pending[w] = None THEN 0 ELSE pending[w]
<1>1. PICK ok \in BOOLEAN, reached \in BOOLEAN :
        /\ Run("write", [kind |-> "written", worker |-> w, value |-> p, ok |-> ok,
                         reached |-> reached])
        /\ reached => ok /\ Raw(w[1], p) <= HardwareMax[w[1]]
        /\ pending' = [pending EXCEPT ![w] = None]
        /\ level' \in {[level EXCEPT ![w[1]] = l] :
                       l \in IF reached THEN {Raw(w[1], p)}
                            ELSE IF ~ok THEN {level[w[1]]}
                            ELSE IF w[1] \in Internal THEN {level[w[1]], 0}
                            ELSE {n \in 0 .. HardwareMax[w[1]] :
                                    Raw(w[1], p) > HardwareMax[w[1]]}}
        /\ asked' = IF ~reached /\ asked[w[1]] = <<w, p>> THEN [asked EXCEPT ![w[1]] = None]
                    ELSE asked
        /\ UNCHANGED <<published, inFlight, current, primary, scans, connected, guessed>>
  BY DEF WriteBrightness
<1>2. w \in Workers /\ w[1] \in Displays
  <2>1. Head(jobs) \in AllJobs /\ Head(jobs).kind = "write"
    BY <1>1, Popped DEF Run, QueuesTyped, BrightnessTyped
  <2> QED BY <2>1, BrightnessRecords
<1>3. p \in Percents BY <1>2, BrightnessBounds DEF BrightnessTypeOK, BrightnessTyped
<1> HIDE DEF p, w
<1>4. level[w[1]] \in 0 .. HardwareMax[w[1]]
  BY <1>2, LevelTyped DEF BrightnessTyped, BrightnessTypeOK
<1>5. HardwareMax[w[1]] \in Nat /\ Raw(w[1], p) \in Nat BY <1>2, <1>3, Converted
<1>6. \E l \in 0 .. HardwareMax[w[1]] :
        /\ level' = [level EXCEPT ![w[1]] = l]
        /\ reached => l = Raw(w[1], p)
        /\ ~ok => l = level[w[1]]
  <2>1. CASE reached BY <1>1, <1>5, <2>1
  <2>2. CASE ~reached /\ ~ok BY <1>1, <1>4, <2>2
  <2>3. CASE ~reached /\ ok /\ w[1] \in Internal BY <1>1, <1>4, <1>5, <2>3
  <2>4. CASE ~reached /\ ok /\ w[1] \notin Internal BY <1>1, <2>4
  <2> QED BY <2>1, <2>2, <2>3, <2>4
<1>7. Written(w, p, ok, reached) BY <1>1, <1>6 DEF Written
<1> QED BY <1>7 DEF p, w

LEMMA WriteTyped ==
  ASSUME BrightnessTyped, WriteBrightness
  PROVE  BrightnessTyped'
<1> DEFINE x == Head(jobs).worker
           y == IF pending[x] = None THEN 0 ELSE pending[x]
<1>w. PICK w, p : w = x /\ p = y OBVIOUS
<1>1. PICK ok \in BOOLEAN, reached \in BOOLEAN : Written(w, p, ok, reached) BY <1>w, WriteIs
<1> DEFINE r == [kind |-> "written", worker |-> w, value |-> p, ok |-> ok,
                 reached |-> reached]
<1>2. QueuesTyped /\ BrightnessTypeOK BY DEF BrightnessTyped
<1>3. Head(jobs) \in AllJobs /\ Head(jobs).kind = "write"
  BY <1>1, <1>2, Popped DEF Run, QueuesTyped, Written
<1>4. w \in Workers /\ w[1] \in Displays BY <1>w, <1>3, BrightnessRecords
<1>5. p \in Percents BY <1>w, <1>2, <1>4, BrightnessBounds DEF BrightnessTypeOK
<1>6. r \in AllReplies /\ r.kind = "written"
  BY <1>4, <1>5 DEF AllReplies, BrightnessReplies
<1>7. Run("write", r) BY <1>1 DEF Written
<1> HIDE DEF r
<1>8. /\ QueuesTyped' /\ UNCHANGED <<calls, user>>
      /\ ScanJobs' = ScanJobs /\ ScreensCome' = ScreensCome
  BY <1>2, <1>6, <1>7, RunFacts
<1>9. pending' \in [Workers -> Percents \cup {None}]
  BY <1>1, <1>2 DEF BrightnessTypeOK, Written
<1>10. level' \in Levels
  <2>1. level \in Levels BY <1>2 DEF BrightnessTypeOK
  <2>2. \A l \in 0 .. HardwareMax[w[1]] : [level EXCEPT ![w[1]] = l] \in Levels
    BY <1>4, <2>1, LevelTyped
  <2> QED BY <1>1, <2>2 DEF Written
<1>11. asked' \in [Displays -> {None} \cup (Workers \X Percents)]
  BY <1>1, <1>2 DEF BrightnessTypeOK, Written
<1>12. BrightnessTypeOK'
  BY <1>1, <1>2, <1>9, <1>10, <1>11 DEF BrightnessTypeOK, Listed, Written
<1>13. ScansCounted' BY <1>1, <1>8 DEF ScansCounted, BrightnessTyped, Written
<1> QED BY <1>8, <1>12, <1>13 DEF BrightnessTyped

LEMMA PublishTyped ==
  ASSUME BrightnessTyped, PublishDisplays
  PROVE  BrightnessTyped'
<1> DEFINE r == Head(replies)
           found == DOMAIN r.value
<1>1. /\ Deliver("published")
      /\ published' = [d \in Displays |-> IF d \in found THEN r.scan ELSE 0]
      /\ current' = [w \in Workers |-> IF w[1] \in found /\ w[2] = r.scan
                                       THEN r.value[w[1]] ELSE Fallback]
      /\ guessed' = r.unread /\ primary' = PrimaryOf(found)
      /\ UNCHANGED <<jobs, pending, inFlight, scans, connected, level, asked>>
  BY DEF PublishDisplays
<1>2. QueuesTyped /\ BrightnessTypeOK BY DEF BrightnessTyped
<1>3. /\ r \in AllReplies /\ r.kind = "published"
      /\ replies' \in Seq(AllReplies) /\ UNCHANGED <<calls, user>>
      /\ ScreensCome' = ScreensCome
      /\ ScreensCome \in Nat
  BY <1>1, <1>2, DeliverFacts, CountedTyped
<1>4. /\ r.scan \in Scans /\ r.unread \subseteq Displays /\ found \subseteq Displays
      /\ \A d \in found : r.value[d] \in Percents
  BY <1>3, BrightnessRecords
<1> HIDE DEF r, found
<1>5. published' \in [Displays -> Scans \cup {0}] BY <1>1, <1>4
<1>6. current' \in [Workers -> Percents]
  <2>1. Fallback \in Percents BY BrightnessBounds DEF Percents
  <2>2. \A w \in Workers : w[1] \in found => r.value[w[1]] \in Percents
    BY <1>4 DEF found
  <2> QED BY <1>1, <2>1, <2>2
<1>7. Listed' = found BY <1>1, <1>4, BrightnessBounds DEF Listed
<1>8. primary' \in (IF Listed' = {} THEN {None} ELSE Listed')
  <2>1. /\ First(found) \in (IF found = {} THEN {None} ELSE found)
        /\ First(found \cap Internal) \in
             (IF found \cap Internal = {} THEN {None} ELSE found \cap Internal)
    BY <1>4, FirstIn
  <2>2. primary' \in (IF found = {} THEN {None} ELSE found)
    BY <1>1, <2>1 DEF PrimaryOf
  <2> QED BY <1>7, <2>2
<1>9. BrightnessTypeOK'
  BY <1>1, <1>2, <1>4, <1>5, <1>6, <1>8 DEF BrightnessTypeOK
<1>10. ScansCounted'
  <2>1. ScanJobs' = ScanJobs BY <1>1 DEF ScanJobs
  <2> QED BY <1>1, <1>3, <2>1 DEF ScansCounted, BrightnessTyped
<1> QED BY <1>1, <1>3, <1>9, <1>10 DEF BrightnessTyped, QueuesTyped

LEMMA EndWriteTyped ==
  ASSUME BrightnessTyped, NEW w \in Workers, EndWrite(w)
  PROVE  BrightnessTyped'
<1> DEFINE r == Head(replies)
<1>1. /\ Deliver("written") /\ r.worker = w
      /\ current' = current \/ (w[1] \in Listed /\ current' = Shown(w, r.value))
      /\ guessed' \subseteq guessed \cup {w[1]}
      /\ inFlight' \subseteq inFlight
      /\ jobs' = jobs \/ jobs' = Append(jobs, Write(w))
      /\ UNCHANGED <<published, pending, primary, scans, connected, level, asked>>
  BY DEF EndWrite
<1>2. QueuesTyped /\ BrightnessTypeOK BY DEF BrightnessTyped
<1>3. /\ r \in AllReplies /\ r.kind = "written"
      /\ replies' \in Seq(AllReplies) /\ UNCHANGED <<calls, user>>
      /\ ScreensCome' = ScreensCome
  BY <1>1, <1>2, DeliverFacts, CountedTyped
<1>4. r.value \in Percents BY <1>3, BrightnessRecords
<1> HIDE DEF r
<1>5. jobs' \in Seq(AllJobs) /\ ScanJobs' = ScanJobs
  <2>1. CASE jobs' = jobs BY <1>2, <2>1 DEF QueuesTyped, ScanJobs
  <2>2. CASE jobs' = Append(jobs, Write(w))
    <3>1. Write(w) \in AllJobs /\ Write(w).kind = "write" BY BrightnessRecords
    <3> QED BY <1>2, <2>2, <3>1, PostFacts
  <2> QED BY <1>1, <2>1, <2>2
<1>6. current' \in [Workers -> Percents]
  BY <1>1, <1>2, <1>4 DEF Shown, BrightnessTypeOK
<1>7. BrightnessTypeOK'
  <2>1. w[1] \in Displays BY BrightnessRecords
  <2> QED BY <1>1, <1>2, <1>6, <2>1 DEF BrightnessTypeOK, Listed
<1>8. ScansCounted' BY <1>1, <1>3, <1>5 DEF ScansCounted, BrightnessTyped
<1> QED BY <1>3, <1>5, <1>7, <1>8 DEF BrightnessTyped, QueuesTyped

LEMMA ScreensTyped ==
  ASSUME BrightnessTyped, OnScreensChanged
  PROVE  BrightnessTyped'
<1>1. /\ Deliver("screens") /\ jobs' = Append(jobs, Scan) /\ UNCHANGED brightness
  BY DEF OnScreensChanged
<1>2. QueuesTyped /\ BrightnessTypeOK BY DEF BrightnessTyped
<1>3. /\ replies' \in Seq(AllReplies) /\ UNCHANGED <<calls, user>>
      /\ ScreensCome' = ScreensCome - 1 /\ ScreensCome' \in Nat
  BY <1>1, <1>2, DeliverFacts
<1>4. jobs' \in Seq(AllJobs) /\ ScanJobs' = ScanJobs + 1
  BY <1>1, <1>2, BrightnessRecords, PostFacts
<1>5. BrightnessTypeOK' BY <1>1, <1>2 DEF BrightnessTypeOK, Listed, brightness
<1>6. ScansCounted'
  <2>1. scans' = scans BY <1>1 DEF brightness
  <2> QED BY <1>3, <1>4, <2>1, CountedTyped, SMTT(30) DEF ScansCounted
<1> QED BY <1>3, <1>4, <1>5, <1>6 DEF BrightnessTyped, QueuesTyped

LEMMA BrightnessStepsTyped ==
  ASSUME BrightnessTyped, BrightnessCall \/ BrightnessWork \/ BrightnessReply
  PROVE  BrightnessTyped'
  BY SetTyped, PlugTyped, ScanTyped, WriteTyped, PublishTyped, EndWriteTyped, ScreensTyped
     DEF BrightnessCall, BrightnessWork, BrightnessReply

-----------------------------------------------------------------------------
(* The brightness: what the moves of the queues alone keep.                *)

AllWrites == (\A w \in Workers : OneWrite(w)) /\ WritesInOrder

LEMMA WritesKept ==
  ASSUME QueuesTyped, QueuesTyped', AllWrites, NEW m \in {0, 1}, NEW n \in {0, 1},
         Kept(jobs, jobs', m, {"write"}), Kept(replies, replies', n, {"written"}),
         UNCHANGED <<pending, inFlight>>
  PROVE  AllWrites'
<1>1. \A i \in DOMAIN jobs', w \in Workers : Writes(i, w)' =>
        i + m \in DOMAIN jobs /\ Writes(i + m, w)
  BY DEF Kept, Writes
<1>2. \A i \in DOMAIN jobs, w \in Workers : Writes(i, w) =>
        i - m \in DOMAIN jobs' /\ Writes(i - m, w)'
  BY DEF Kept, Writes
<1>3. \A i \in DOMAIN replies', w \in Workers : Wrote(i, w)' =>
        i + n \in DOMAIN replies /\ Wrote(i + n, w)
  BY DEF Kept, Wrote
<1>4. \A i \in DOMAIN replies, w \in Workers : Wrote(i, w) =>
        i - n \in DOMAIN replies' /\ Wrote(i - n, w)'
  BY DEF Kept, Wrote
<1>5. /\ \A i, j \in DOMAIN jobs' : (i + m = j + m => i = j) /\ (i < j => i + m < j + m)
      /\ \A i, j \in DOMAIN replies' : i + n = j + n => i = j
  BY LenProperties DEF QueuesTyped
<1>6. ASSUME NEW w \in Workers PROVE OneWrite(w)'
  <2>1. OneWrite(w) BY DEF AllWrites
  <2>2. \A i, j \in DOMAIN jobs' : Writes(i, w)' /\ Writes(j, w)' => i = j
    BY <1>1, <1>5, <2>1 DEF OneWrite
  <2>3. \A i, j \in DOMAIN replies' : Wrote(i, w)' /\ Wrote(j, w)' => i = j
    BY <1>3, <1>5, <2>1 DEF OneWrite
  <2>4. \A i \in DOMAIN jobs', j \in DOMAIN replies' : ~(Writes(i, w)' /\ Wrote(j, w)')
    BY <1>1, <1>3, <2>1 DEF OneWrite
  <2>5. w \in inFlight' <=> \/ \E i \in DOMAIN jobs' : Writes(i, w)'
                            \/ \E i \in DOMAIN replies' : Wrote(i, w)'
    BY <1>1, <1>2, <1>3, <1>4, <2>1 DEF OneWrite
  <2>6. \A i \in DOMAIN jobs' : Writes(i, w)' => pending'[w] # None
    BY <1>1, <2>1 DEF OneWrite
  <2> QED BY <2>2, <2>3, <2>4, <2>5, <2>6 DEF OneWrite
<1>7. WritesInOrder'
  <2>1. \A i, j \in DOMAIN jobs' : \A v, w \in Workers :
          Writes(i, v)' /\ Writes(j, w)' /\ v[1] = w[1] /\ i < j => v[2] < w[2]
    BY <1>1, <1>5 DEF AllWrites, WritesInOrder
  <2> QED BY <2>1 DEF WritesInOrder
<1> QED BY <1>6, <1>7 DEF AllWrites

\* Workers come into use, and are asked, only when they are listed.
LEMMA ScansKept ==
  ASSUME BrightnessTypeOK, QueuesTyped, QueuesTyped', ScansInOrder, NEW n \in {0, 1},
         Kept(replies, replies', n, {"published"}),
         UNCHANGED <<published, scans>>,
         \A w \in Workers : pending'[w] # None \/ w \in inFlight' =>
           pending[w] # None \/ w \in inFlight \/ w[2] = published[w[1]],
         \A d \in Displays : asked'[d] # None =>
           asked'[d] = asked[d] \/ (asked'[d][1][1] = d /\ asked'[d][1][2] = published[d])
  PROVE  ScansInOrder'
<1>1. /\ \A i \in DOMAIN replies' : replies'[i].kind = "published" =>
           i + n \in DOMAIN replies /\ replies'[i] = replies[i + n]
      /\ \A i, j \in DOMAIN replies' : i < j => i + n < j + n
  BY LenProperties DEF Kept, QueuesTyped
<1>2. \A w \in Workers : w[1] \in Displays /\ w[2] \in Nat
  BY BrightnessRecords, BrightnessBounds
<1>3. /\ scans \in Nat
      /\ \A d \in Displays : published[d] \in Nat /\ published[d] <= scans
  <2>1. Scans \cup {0} \subseteq Nat BY BrightnessBounds
  <2>2. scans \in Scans \cup {0} /\ published \in [Displays -> Scans \cup {0}]
    BY DEF BrightnessTypeOK
  <2>3. \A d \in Displays : published[d] \in Nat BY <2>1, <2>2
  <2> QED BY <2>1, <2>2, <2>3 DEF ScansInOrder
<1>4. ASSUME NEW i \in DOMAIN replies', replies'[i].kind = "published"
      PROVE  /\ replies'[i].scan <= scans
             /\ \A d \in Displays : published[d] < replies'[i].scan
             /\ \A w \in Workers : pending'[w] # None \/ w \in inFlight' =>
                  w[2] < replies'[i].scan
             /\ \A d \in Displays : asked'[d] # None => asked'[d][1][2] < replies'[i].scan
  <2>1. /\ replies'[i].scan <= scans
        /\ \A d \in Displays : published[d] < replies'[i].scan
        /\ \A w \in Workers : pending[w] # None \/ w \in inFlight => w[2] < replies'[i].scan
        /\ \A d \in Displays : asked[d] # None => asked[d][1][2] < replies'[i].scan
    BY <1>1, <1>4 DEF ScansInOrder
  <2> QED BY <1>2, <2>1
<1>5. \A i, j \in DOMAIN replies' :
        replies'[i].kind = "published" /\ replies'[j].kind = "published" /\ i < j =>
          replies'[i].scan < replies'[j].scan
  BY <1>1 DEF ScansInOrder
<1>6. \A w \in Workers : pending'[w] # None \/ w \in inFlight' =>
        w[2] <= scans /\ (published[w[1]] = 0 \/ w[2] <= published[w[1]])
  BY <1>2, <1>3 DEF ScansInOrder
<1>7. \A d \in Displays : asked'[d] # None =>
        asked'[d][1][2] <= scans /\ asked'[d][1][1] = d
  BY <1>3 DEF ScansInOrder
<1> QED BY <1>3, <1>4, <1>5, <1>6, <1>7 DEF ScansInOrder

\* What is asked of each display, typed.
LEMMA AskedTyped ==
  ASSUME BrightnessTypeOK, ScansInOrder, NEW d \in Displays, asked[d] # None
  PROVE  /\ asked[d][1] \in Workers /\ asked[d][1][1] = d /\ asked[d][1][2] \in Nat
         /\ asked[d][2] \in Percents /\ asked[d][2] # None
         /\ asked[d] = <<asked[d][1], asked[d][2]>>
<1>1. asked[d] \in Workers \X Percents BY DEF BrightnessTypeOK
<1>2. asked[d][1][1] = d BY DEF ScansInOrder
<1> QED BY <1>1, <1>2, BrightnessRecords, BrightnessBounds

\* What a step that neither takes nor sets a value of d keeps.
LEMMA AskedKept ==
  ASSUME NEW d \in Displays, AskedLast(d),
         asked'[d] = asked[d], level'[d] = level[d], pending' = pending,
         asked[d] # None => \/ published'[d] = published[d]
                            \/ published'[d] = 0 \/ asked[d][1][2] <= published'[d],
         \A i \in DOMAIN jobs' : \A w \in Workers :
           w[1] = d /\ Writes(i, w)' => \E j \in DOMAIN jobs : Writes(j, w)
  PROVE  AskedLast(d)'
<1> SUFFICES ASSUME asked[d] # None PROVE AskedLast(d)' BY DEF AskedLast
<1>1. \/ pending[asked[d][1]] = asked[d][2]
      \/ /\ pending[asked[d][1]] = None /\ level[d] = Raw(d, asked[d][2])
         /\ \A i \in DOMAIN jobs' : \A w \in Workers : Writes(i, w)' => w[1] # d
  BY DEF AskedLast
<1>2. /\ \A w \in Workers : w[1] = d /\ pending[w] # None => w[2] <= asked[d][1][2]
      /\ published'[d] = 0 \/ asked[d][1][2] <= published'[d]
  BY DEF AskedLast
<1> QED BY <1>1, <1>2 DEF AskedLast

LEMMA ShownKept ==
  ASSUME NEW d \in Displays, NEW v, ShownTrue(d, v), level'[d] = level[d],
         Settled(d)' => Settled(d) /\ asked'[d] = asked[d]
  PROVE  ShownTrue(d, v)'
  BY DEF ShownTrue

LEMMA ShownUnchanged ==
  ASSUME NEW d \in Displays, NEW v, ShownTrue(d, v), UNCHANGED <<level, pending, asked>>
  PROVE  ShownTrue(d, v)'
<1>1. Settled(d)' => Settled(d) /\ asked'[d] = asked[d] BY DEF Settled
<1> QED BY <1>1, ShownKept

\* A reply that is taken overtakes none of those after it.
LEMMA LastTellsTail ==
  ASSUME QueuesTyped, LastTells, NEW k, Deliver(k), UNCHANGED <<level, pending, asked>>
  PROVE  LastTells'
<1>1. /\ \A i \in DOMAIN replies' : /\ i \in Nat \ {0} /\ i + 1 \in DOMAIN replies
                                    /\ replies'[i] = replies[i + 1]
      /\ \A i \in DOMAIN replies :
           /\ i \in Nat \ {0}
           /\ i = 1 \/ (i - 1 \in DOMAIN replies' /\ replies'[i - 1] = replies[i])
  BY DeliverFacts
<1>2. ASSUME NEW d \in Displays, NEW v \in Percents, NEW i \in DOMAIN replies',
             Tells(i, d, v)', \A j \in DOMAIN replies' : i < j => ~Overtakes(j, d)'
      PROVE  ShownTrue(d, v)'
  <2>1. i + 1 \in DOMAIN replies /\ Tells(i + 1, d, v) BY <1>1, <1>2 DEF Tells
  <2>2. ASSUME NEW j \in DOMAIN replies, i + 1 < j
        PROVE  ~Overtakes(j, d)
    <3>1. /\ j - 1 \in DOMAIN replies' /\ i < j - 1 /\ replies'[j - 1] = replies[j]
      BY <1>1, <2>2
    <3> QED BY <1>2, <3>1 DEF Overtakes
  <2>3. ShownTrue(d, v) BY <2>1, <2>2 DEF LastTells
  <2> QED BY <2>3, ShownUnchanged
<1> QED BY <1>2 DEF LastTells

LEMMA LastTellsKept ==
  ASSUME QueuesTyped, QueuesTyped', LastTells, NEW n \in {0, 1},
         Kept(replies, replies', n, OfBrightness), UNCHANGED <<level, pending, asked>>
  PROVE  LastTells'
<1>1. /\ \A i \in DOMAIN replies' : replies'[i].kind \in OfBrightness =>
           i + n \in DOMAIN replies /\ replies'[i] = replies[i + n]
      /\ \A i \in DOMAIN replies : replies[i].kind \in OfBrightness =>
           i - n \in DOMAIN replies' /\ replies'[i - n] = replies[i]
      /\ DOMAIN replies \subseteq Nat /\ DOMAIN replies' \subseteq Nat
  BY LenProperties DEF Kept, QueuesTyped
<1>2. ASSUME NEW d \in Displays, NEW v \in Percents, NEW i \in DOMAIN replies',
             Tells(i, d, v)', \A j \in DOMAIN replies' : i < j => ~Overtakes(j, d)'
      PROVE  ShownTrue(d, v)'
  <2>1. replies'[i].kind \in OfBrightness BY <1>2 DEF Tells, OfBrightness
  <2>2. i + n \in DOMAIN replies /\ Tells(i + n, d, v) BY <1>1, <1>2, <2>1 DEF Tells
  <2>3. ASSUME NEW j \in DOMAIN replies, i + n < j, Overtakes(j, d)
        PROVE  FALSE
    <3>1. replies[j].kind \in OfBrightness BY <2>3 DEF Overtakes, OfBrightness
    <3>2. /\ j - n \in DOMAIN replies' /\ i < j - n /\ replies'[j - n] = replies[j]
      BY <1>1, <2>3, <3>1
    <3> QED BY <1>2, <2>3, <3>2 DEF Overtakes
  <2>4. ShownTrue(d, v) BY <2>2, <2>3 DEF LastTells
  <2> QED BY <2>4, ShownUnchanged
<1> QED BY <1>2 DEF LastTells

-----------------------------------------------------------------------------
(* The brightness: its steps keep the invariant.                           *)

\* What a step of the brightness has to keep, and what it leaves to the search.
BrightnessGoal ==
  /\ BrightnessInv'
  /\ \E m, n \in {0, 1} : Kept(jobs, jobs', m, OfSearch) /\ Kept(replies, replies', n, OfSearch)

LEMMA InvParts ==
  ASSUME BrightnessInv
  PROVE  /\ BrightnessTyped /\ BrightnessTypeOK /\ QueuesTyped
         /\ AllWrites /\ (\A w \in Workers : Carried(w))
         /\ ScansInOrder /\ AskedIsLast /\ LastTells /\ ShownIsLevel
         /\ jobs \in Seq(AllJobs) /\ replies \in Seq(AllReplies)
  BY DEF BrightnessInv, BrightnessTyped, AllWrites, QueuesTyped

LEMMA Kinds ==
  /\ \A k \in {"scan", "write", "screens", "published", "written"} : k \notin OfSearch
  /\ \A k \in {"walk", "search", "walked", "found"} : k \notin OfBrightness
  /\ {"write"} \subseteq OfBrightness /\ {"written"} \subseteq OfBrightness
  /\ {"published"} \subseteq OfBrightness
  BY DEF OfSearch, OfBrightness

LEMMA PlugStep ==
  ASSUME BrightnessInv, NEW d \in Displays, NEW l \in 0 .. HardwareMax[d],
         PlugOrUnplug(d, l)
  PROVE  BrightnessGoal
<1> DEFINE s == [kind |-> "screens"]
<1>1. /\ jobs' = jobs \o <<>> /\ replies' = Append(replies, s)
      /\ level' = [level EXCEPT ![d] = l] /\ asked' = [asked EXCEPT ![d] = None]
      /\ UNCHANGED <<published, pending, inFlight, current, primary, scans, guessed>>
  BY DEF PlugOrUnplug, Call
<1>2. BrightnessTyped' /\ QueuesTyped' BY InvParts, PlugTyped DEF BrightnessTyped
<1>3. jobs' = jobs BY <1>1, SameJobs, InvParts
<1>4. s \in AllReplies /\ s.kind = "screens" BY DEF AllReplies, BrightnessReplies
<1> HIDE DEF s
<1>5. /\ Kept(replies, replies', 0, {"written"}) /\ Kept(replies, replies', 0, {"published"})
      /\ Kept(replies, replies', 0, OfSearch)
  BY <1>1, <1>4, InvParts, AppendKept, Kinds
<1>6. Kept(jobs, jobs', 0, {"write"}) /\ Kept(jobs, jobs', 0, OfSearch)
  BY <1>3, InvParts, SameKept
<1>7. AllWrites' BY <1>1, <1>2, <1>5, <1>6, InvParts, WritesKept
<1>f. \A e \in Displays : /\ asked'[e] # None => e # d
                          /\ e # d => asked'[e] = asked[e] /\ level'[e] = level[e]
  BY <1>1, InvParts DEF BrightnessTypeOK
<1>8. ScansInOrder' BY <1>1, <1>f, <1>2, <1>5, InvParts, ScansKept
<1>9. \A w \in Workers : Carried(w)' BY <1>1, InvParts DEF Carried
<1>a. AskedIsLast'
  <2>1. ASSUME NEW e \in Displays PROVE AskedLast(e)'
    <3>1. CASE e = d BY <1>f, <3>1 DEF AskedLast
    <3>2. CASE e # d
      <4>1. \A i \in DOMAIN jobs' : \A w \in Workers :
              w[1] = e /\ Writes(i, w)' => \E j \in DOMAIN jobs : Writes(j, w)
        BY <1>3 DEF Writes
      <4>2. AskedLast(e) BY InvParts DEF AskedIsLast
      <4>3. asked'[e] = asked[e] /\ level'[e] = level[e] BY <1>f, <3>2
      <4> QED BY <1>1, <4>1, <4>2, <4>3, AskedKept
    <3> QED BY <3>1, <3>2
  <2> QED BY <2>1 DEF AskedIsLast
<1>10. /\ Len(replies) + 1 \in DOMAIN replies' /\ replies'[Len(replies) + 1] = s
       /\ \A i \in DOMAIN replies' : i \in DOMAIN replies \/ i = Len(replies) + 1
       /\ \A i \in DOMAIN replies : i < Len(replies) + 1
  BY <1>1, <1>4, InvParts, Appended
<1>11. Rescans' BY <1>4, <1>10 DEF Rescans
<1>12. LastTells'
  <2>1. ASSUME NEW e \in Displays, NEW v \in Percents, NEW i \in DOMAIN replies',
               Tells(i, e, v)', \A j \in DOMAIN replies' : i < j => ~Overtakes(j, e)'
        PROVE  FALSE
    <3>1. i # Len(replies) + 1 BY <1>4, <1>10, <2>1 DEF Tells
    <3>2. i < Len(replies) + 1 BY <1>10, <3>1
    <3> QED BY <1>4, <1>10, <2>1, <3>2 DEF Overtakes
  <2> QED BY <2>1 DEF LastTells
<1>13. BrightnessInv'
  BY <1>2, <1>7, <1>8, <1>9, <1>a, <1>11, <1>12 DEF BrightnessInv, AllWrites, ShownIsLevel
<1> QED BY <1>5, <1>6, <1>13 DEF BrightnessGoal

LEMMA ScanStep ==
  ASSUME BrightnessInv, ScanDisplays
  PROVE  BrightnessGoal
<1>1. PICK found \in SUBSET Displays, unread \in SUBSET Displays, blank \in SUBSET Displays :
        /\ Run("scan", [kind |-> "published", scan |-> scans + 1, unread |-> unread,
                        value |-> [d \in found |-> IF d \in blank THEN 0
                                                   ELSE IF d \in unread THEN Fallback
                                                   ELSE Percent(d, level[d])]])
        /\ blank \subseteq unread /\ \A d \in found : HardwareMax[d] = 0 => d \in unread
        /\ scans' = scans + 1
        /\ UNCHANGED <<published, pending, inFlight, current, primary, connected,
                       level, guessed, asked>>
  BY DEF ScanDisplays
<1> DEFINE v == [d \in found |-> IF d \in blank THEN 0 ELSE IF d \in unread THEN Fallback
                                 ELSE Percent(d, level[d])]
           r == [kind |-> "published", scan |-> scans + 1, unread |-> unread, value |-> v]
           n == Len(replies) + 1
<1>2. BrightnessTyped' /\ QueuesTyped' BY InvParts, ScanTyped DEF BrightnessTyped
<1>3. Run("scan", r) BY <1>1
<1>4. /\ r.kind = "published" /\ r.scan = scans + 1 /\ r.unread = unread
      /\ \A d \in DOMAIN r.value \ r.unread :
           r.value[d] = Percent(d, level[d]) /\ HardwareMax[d] # 0
  BY <1>1
<1> HIDE DEF r, v
<1>5. /\ jobs # <<>> /\ Head(jobs).kind = "scan" /\ jobs' = Tail(jobs)
      /\ replies' = Append(replies, r)
  BY <1>3 DEF Run
<1>6. /\ n \in DOMAIN replies' /\ replies'[n] = r
      /\ \A i \in DOMAIN replies : i \in DOMAIN replies' /\ replies'[i] = replies[i]
      /\ \A i \in DOMAIN replies' : i \in DOMAIN replies \/ i = n
      /\ \A i \in DOMAIN replies : i \in Nat /\ i < n
      /\ n \in Nat
  <2>1. /\ Len(replies) + 1 \in DOMAIN replies'
        /\ replies' \in Seq(AllReplies) /\ Len(replies) \in Nat
        /\ DOMAIN replies = 1 .. Len(replies) /\ Len(replies') = Len(replies) + 1
    BY <1>2, <1>5, InvParts, LenProperties, AppendProperties DEF QueuesTyped
  <2>2. /\ replies'[Len(replies) + 1] = r
        /\ \A i \in DOMAIN replies : i \in DOMAIN replies' /\ replies'[i] = replies[i]
        /\ \A i \in DOMAIN replies' : i \in DOMAIN replies \/ i = Len(replies) + 1
    BY <1>5, InvParts, <2>1
  <2> QED BY <2>1, <2>2
<1> HIDE DEF n
<1>7. Kept(jobs, jobs', 1, {"write"}) /\ Kept(jobs, jobs', 1, OfSearch)
  BY <1>5, InvParts, TailKept, Kinds
<1>8. Kept(replies, replies', 0, {"written"}) /\ Kept(replies, replies', 0, OfSearch)
  <2>1. \A i \in DOMAIN replies : i + 0 = i /\ i - 0 = i BY <1>6
  <2> QED BY <1>4, <1>6, <2>1, Kinds DEF Kept
<1>9. AllWrites' BY <1>1, <1>2, <1>7, <1>8, InvParts, WritesKept
<1>10. \A w \in Workers : Carried(w)' BY <1>1, InvParts DEF Carried
<1>11. ScansInOrder'
  <2>1. ScansInOrder /\ scans \in Nat BY InvParts, CountedTyped
  <2>2. /\ \A d \in Displays : published[d] \in Nat
        /\ \A w \in Workers : w[1] \in Displays /\ w[2] \in Nat
        /\ \A d \in Displays : asked[d] # None => asked[d][1][2] \in Nat
    <3>1. Scans \cup {0} \subseteq Nat BY BrightnessBounds
    <3>2. /\ published \in [Displays -> Scans \cup {0}]
          /\ asked \in [Displays -> {None} \cup (Workers \X Percents)]
      BY InvParts DEF BrightnessTypeOK
    <3>3. \A w \in Workers : w[1] \in Displays /\ w[2] \in Nat
      BY <3>1, BrightnessRecords
    <3>4. \A d \in Displays : asked[d] # None => asked[d][1] \in Workers BY <3>2
    <3> QED BY <3>1, <3>2, <3>3, <3>4
  <2>3. \A i \in DOMAIN replies : replies[i].kind = "published" =>
          /\ replies[i].scan \in Nat /\ replies[i].scan <= scans
    <3>1. \A i \in DOMAIN replies : replies[i] \in AllReplies BY InvParts, ElementOfSeq
    <3> QED BY <2>1, <3>1, BrightnessRecords, BrightnessBounds DEF ScansInOrder
  <2>4. /\ \A d \in Displays : published[d] < scans + 1 /\ published[d] <= scans + 1
        /\ \A w \in Workers : pending[w] # None \/ w \in inFlight =>
             /\ w[2] < scans + 1 /\ w[2] <= scans + 1
             /\ published[w[1]] = 0 \/ w[2] <= published[w[1]]
        /\ \A d \in Displays : asked[d] # None =>
             asked[d][1][2] < scans + 1 /\ asked[d][1][2] <= scans + 1 /\ asked[d][1][1] = d
    BY <2>1, <2>2 DEF ScansInOrder
  <2>5. \A i \in DOMAIN replies : replies[i].kind = "published" =>
          replies[i].scan < scans + 1 /\ replies[i].scan <= scans + 1
    BY <2>1, <2>3
  <2>6. \A i \in DOMAIN replies' : replies'[i].kind = "published" =>
          /\ replies'[i].scan <= scans + 1
          /\ \A d \in Displays : published[d] < replies'[i].scan
          /\ \A w \in Workers : pending[w] # None \/ w \in inFlight => w[2] < replies'[i].scan
          /\ \A d \in Displays : asked[d] # None => asked[d][1][2] < replies'[i].scan
    BY <1>4, <1>6, <2>1, <2>4, <2>5 DEF ScansInOrder
  <2>7. \A i, j \in DOMAIN replies' :
          replies'[i].kind = "published" /\ replies'[j].kind = "published" /\ i < j =>
            replies'[i].scan < replies'[j].scan
    <3> SUFFICES ASSUME NEW i \in DOMAIN replies', NEW j \in DOMAIN replies',
                        replies'[i].kind = "published", replies'[j].kind = "published", i < j
                 PROVE  replies'[i].scan < replies'[j].scan
      OBVIOUS
    <3>1. i \in DOMAIN replies BY <1>6
    <3>2. CASE j \in DOMAIN replies BY <1>6, <2>1, <3>1, <3>2 DEF ScansInOrder
    <3>3. CASE j = n BY <1>4, <1>6, <2>5, <3>1, <3>3
    <3> QED BY <1>6, <3>2, <3>3
  <2> QED BY <1>1, <2>4, <2>6, <2>7 DEF ScansInOrder
<1>12. Rescans' BY <1>4, <1>6 DEF Rescans
<1>a. AskedIsLast'
  <2>1. \A i \in DOMAIN jobs' : \A w \in Workers :
          Writes(i, w)' => \E j \in DOMAIN jobs : Writes(j, w)
    BY <1>5, InvParts, Popped DEF Writes
  <2>2. \A d \in Displays : AskedLast(d)' BY <1>1, <2>1, InvParts, AskedKept DEF AskedIsLast
  <2> QED BY <2>2 DEF AskedIsLast
<1>13. LastTells'
  <2>1. ASSUME NEW d \in Displays, NEW p \in Percents, NEW i \in DOMAIN replies',
               Tells(i, d, p)', \A j \in DOMAIN replies' : i < j => ~Overtakes(j, d)'
        PROVE  ShownTrue(d, p)'
    <3>1. CASE i = n
      <4>1. p = Percent(d, level[d]) /\ HardwareMax[d] # 0
        BY <1>4, <1>6, <2>1, <3>1 DEF Tells
      <4>2. ShownTrue(d, p) BY <4>1 DEF ShownTrue
      <4> QED BY <1>1, <4>2, ShownUnchanged
    <3>2. CASE i \in DOMAIN replies
      <4>1. Tells(i, d, p) BY <1>6, <2>1, <3>2 DEF Tells
      <4>2. \A j \in DOMAIN replies : i < j => ~Overtakes(j, d)
        BY <1>6, <2>1 DEF Overtakes
      <4>3. ShownTrue(d, p) BY <3>2, <4>1, <4>2, InvParts DEF LastTells
      <4> QED BY <1>1, <4>3, ShownUnchanged
    <3> QED BY <1>6, <3>1, <3>2
  <2> QED BY <2>1 DEF LastTells
<1>14. BrightnessInv'
  BY <1>2, <1>9, <1>10, <1>11, <1>12, <1>13, <1>a DEF BrightnessInv, AllWrites, ShownIsLevel
<1> QED BY <1>7, <1>8, <1>14 DEF BrightnessGoal

\* The first job writes: no other job or reply is of its worker.
LEMMA WriteStep ==
  ASSUME BrightnessInv, WriteBrightness
  PROVE  BrightnessGoal
<1> DEFINE x == Head(jobs).worker
           y == IF pending[x] = None THEN 0 ELSE pending[x]
<1>w. PICK w, p : /\ w = Head(jobs).worker /\ w = x
                  /\ p = (IF pending[w] = None THEN 0 ELSE pending[w]) /\ p = y
  OBVIOUS
<1>0. PICK ok \in BOOLEAN, reached \in BOOLEAN : Written(w, p, ok, reached)
  BY <1>w, InvParts, WriteIs
<1> HIDE DEF x, y
<1>1. /\ Run("write", [kind |-> "written", worker |-> w, value |-> p, ok |-> ok,
                       reached |-> reached])
      /\ reached => ok
      /\ pending' = [pending EXCEPT ![w] = None]
      /\ asked' = IF ~reached /\ asked[w[1]] = <<w, p>> THEN [asked EXCEPT ![w[1]] = None]
                  ELSE asked
      /\ UNCHANGED <<published, inFlight, current, primary, scans, connected, guessed>>
  BY <1>0 DEF Written
<1>l. PICK l : /\ level' = [level EXCEPT ![w[1]] = l]
               /\ reached => l = Raw(w[1], p)
               /\ ~ok => l = level[w[1]]
  BY <1>0 DEF Written
<1>2. PICK r : r = [kind |-> "written", worker |-> w, value |-> p, ok |-> ok,
                    reached |-> reached]
  OBVIOUS
<1>3. BrightnessTyped' /\ QueuesTyped' BY InvParts, WriteTyped DEF BrightnessTyped
<1>4. /\ r.kind = "written" /\ r.worker = w /\ r.value = p /\ r.ok = ok
      /\ r.reached = reached
  BY <1>2
<1>5. Run("write", r) BY <1>1, <1>2
<1>6. /\ jobs # <<>> /\ Head(jobs).kind = "write" /\ jobs' = Tail(jobs)
      /\ replies' = Append(replies, r)
  BY <1>5 DEF Run
<1>7. /\ Head(jobs) = jobs[1] /\ 1 \in DOMAIN jobs /\ Head(jobs) \in AllJobs
      /\ \A i \in DOMAIN jobs' : /\ i \in Nat \ {0} /\ i + 1 \in DOMAIN jobs
                                 /\ jobs'[i] = jobs[i + 1]
      /\ \A i \in DOMAIN jobs :
           i = 1 \/ (i - 1 \in DOMAIN jobs' /\ jobs'[i - 1] = jobs[i])
  BY <1>6, InvParts, Popped
<1>8. /\ w \in Workers /\ w[1] \in Displays /\ w[2] \in Nat
  BY <1>w, <1>6, <1>7, BrightnessRecords, BrightnessBounds
<1>9. Writes(1, w) /\ OneWrite(w) BY <1>w, <1>6, <1>7, <1>8 DEF Writes, BrightnessInv
<1>10. /\ pending[w] # None /\ p = pending[w] /\ w \in inFlight
       /\ \A i \in DOMAIN replies : ~Wrote(i, w)
       /\ \A i \in DOMAIN jobs' : ~Writes(i, w)'
  <2>1. pending[w] # None /\ w \in inFlight /\ \A i \in DOMAIN replies : ~Wrote(i, w)
    BY <1>7, <1>9 DEF OneWrite
  <2>2. \A i \in DOMAIN jobs' : i + 1 # 1 BY <1>7
  <2>3. \A i \in DOMAIN jobs' : ~Writes(i, w)'
    BY <1>7, <1>9, <2>2 DEF OneWrite, Writes
  <2> QED BY <1>w, <2>1, <2>3
<1>11. PICK n : /\ n \in DOMAIN replies' /\ replies'[n] = r
                /\ \A i \in DOMAIN replies : i \in DOMAIN replies' /\ replies'[i] = replies[i]
                /\ \A i \in DOMAIN replies' : i \in DOMAIN replies \/ i = n
                /\ \A i \in DOMAIN replies : i \in Nat /\ i < n /\ i # n
                /\ n \in Nat /\ n \notin DOMAIN replies
  <2>1. /\ Len(replies) + 1 \in DOMAIN replies'
        /\ replies' \in Seq(AllReplies) /\ Len(replies) \in Nat
        /\ DOMAIN replies = 1 .. Len(replies) /\ Len(replies') = Len(replies) + 1
    BY <1>3, <1>6, InvParts, LenProperties, AppendProperties DEF QueuesTyped
  <2>2. /\ replies'[Len(replies) + 1] = r
        /\ \A i \in DOMAIN replies : i \in DOMAIN replies' /\ replies'[i] = replies[i]
        /\ \A i \in DOMAIN replies' : i \in DOMAIN replies \/ i = Len(replies) + 1
    BY <1>6, InvParts, <2>1
  <2> QED BY <2>1, <2>2
<1>12. Kept(jobs, jobs', 1, OfSearch) BY <1>6, InvParts, TailKept, Kinds
<1>13. Kept(replies, replies', 0, OfSearch) /\ Kept(replies, replies', 0, {"published"})
  <2>1. \A i \in DOMAIN replies : i + 0 = i /\ i - 0 = i BY <1>11
  <2> QED BY <1>4, <1>11, <2>1, Kinds DEF Kept
<1>14. pending'[w] = None /\ \A v \in Workers : v # w => pending'[v] = pending[v]
  BY <1>w, <1>1, <1>8, InvParts DEF BrightnessTypeOK
<1>15. ASSUME NEW v \in Workers PROVE OneWrite(v)'
  <2>1. OneWrite(v) BY DEF BrightnessInv
  <2>2. CASE v = w
    <3>1. \A i, j \in DOMAIN replies' : Wrote(i, w)' /\ Wrote(j, w)' => i = j
      BY <1>10, <1>11 DEF Wrote
    <3>2. Wrote(n, w)' BY <1>4, <1>11 DEF Wrote
    <3> QED BY <1>1, <1>10, <1>11, <2>2, <3>1, <3>2 DEF OneWrite
  <2>3. CASE v # w
    <3>1. \A i \in DOMAIN jobs' : Writes(i, v)' => i + 1 \in DOMAIN jobs /\ Writes(i + 1, v)
      BY <1>7 DEF Writes
    <3>2. \A i \in DOMAIN jobs : Writes(i, v) => i - 1 \in DOMAIN jobs' /\ Writes(i - 1, v)'
      BY <1>w, <1>7, <2>3 DEF Writes
    <3>3. \A i \in DOMAIN replies' : Wrote(i, v)' => i \in DOMAIN replies /\ Wrote(i, v)
      BY <1>4, <1>11, <2>3 DEF Wrote
    <3>4. \A i \in DOMAIN replies : Wrote(i, v) => i \in DOMAIN replies' /\ Wrote(i, v)'
      BY <1>11 DEF Wrote
    <3>5. \A i, j \in DOMAIN jobs' : i + 1 = j + 1 => i = j BY <1>7
    <3>6. \A i, j \in DOMAIN jobs' : Writes(i, v)' /\ Writes(j, v)' => i = j
      BY <2>1, <3>1, <3>5 DEF OneWrite
    <3>7. \A i, j \in DOMAIN replies' : Wrote(i, v)' /\ Wrote(j, v)' => i = j
      BY <2>1, <3>3 DEF OneWrite
    <3>8. \A i \in DOMAIN jobs', j \in DOMAIN replies' : ~(Writes(i, v)' /\ Wrote(j, v)')
      BY <2>1, <3>1, <3>3 DEF OneWrite
    <3>9. v \in inFlight' <=> \/ \E i \in DOMAIN jobs' : Writes(i, v)'
                              \/ \E i \in DOMAIN replies' : Wrote(i, v)'
      BY <1>1, <2>1, <3>1, <3>2, <3>3, <3>4 DEF OneWrite
    <3>10. \A i \in DOMAIN jobs' : Writes(i, v)' => pending'[v] # None
      BY <1>14, <2>1, <2>3, <3>1 DEF OneWrite
    <3> QED BY <3>6, <3>7, <3>8, <3>9, <3>10 DEF OneWrite
  <2> QED BY <2>2, <2>3
<1>16. \A v \in Workers : Carried(v)' BY <1>1, <1>14, InvParts DEF Carried
<1>17. ScansInOrder'
  <2>1. \A v \in Workers : pending'[v] # None \/ v \in inFlight' =>
          pending[v] # None \/ v \in inFlight
    BY <1>1, <1>14
  <2>2. \A d \in Displays : asked'[d] # None => asked'[d] = asked[d]
    BY <1>1, InvParts DEF BrightnessTypeOK
  <2> QED BY <1>1, <1>3, <1>13, <2>1, <2>2, InvParts, ScansKept
<1>18. WritesInOrder'
  <2>1. \A i \in DOMAIN jobs', v \in Workers : Writes(i, v)' => Writes(i + 1, v)
    BY <1>7 DEF Writes
  <2>2. \A i, j \in DOMAIN jobs' : i < j => i + 1 < j + 1 BY <1>7
  <2>3. \A i, j \in DOMAIN jobs' : \A u, v \in Workers :
          Writes(i, u)' /\ Writes(j, v)' /\ u[1] = v[1] /\ i < j => u[2] < v[2]
    BY <1>7, <2>1, <2>2 DEF BrightnessInv, WritesInOrder
  <2> QED BY <2>3 DEF WritesInOrder
<1>19. ~Rescans' => ~Rescans
  <2>1. \A i \in DOMAIN jobs : jobs[i].kind = "scan" =>
          i - 1 \in DOMAIN jobs' /\ jobs'[i - 1].kind = "scan"
    BY <1>6, <1>7
  <2> QED BY <1>11, <2>1 DEF Rescans
<1>20. Listed' = Listed /\ \A d \in Displays : WorkerOf(d)' = WorkerOf(d)
  BY <1>1 DEF Listed, WorkerOf
<1>21. /\ reached => level'[w[1]] = Raw(w[1], p)
       /\ \A d \in Displays : d # w[1] \/ ~ok => level'[d] = level[d]
       /\ \A d \in Displays : asked'[d] # None => asked'[d] = asked[d]
       /\ asked[w[1]] = <<w, p>> /\ asked'[w[1]] # None => reached
  <2>1. level \in [Displays -> UNION {0 .. HardwareMax[d] : d \in Displays}]
        /\ asked \in [Displays -> {None} \cup (Workers \X Percents)]
    BY InvParts DEF BrightnessTypeOK, Levels
  <2>2. /\ reached => level'[w[1]] = Raw(w[1], p)
        /\ \A d \in Displays : d # w[1] \/ ~ok => level'[d] = level[d]
    <3>2. DOMAIN level = Displays BY <2>1
    <3>3. level'[w[1]] = l BY <1>8, <1>l, <3>2
    <3>4. \A d \in Displays : d # w[1] => level'[d] = level[d] BY <1>l, <3>2
    <3>5. \A d \in Displays : ~ok => level'[d] = level[d] BY <1>l, <3>3, <3>4
    <3> QED BY <1>l, <3>3, <3>4, <3>5
  <2>5. asked' = asked \/ asked' = [asked EXCEPT ![w[1]] = None] BY <1>1
  <2>3. \A d \in Displays : asked'[d] # None => asked'[d] = asked[d]
    BY <1>8, <2>1, <2>5
  <2>4. asked[w[1]] = <<w, p>> /\ asked'[w[1]] # None => reached
    <3> SUFFICES ASSUME asked[w[1]] = <<w, p>>, ~reached
                 PROVE  asked'[w[1]] = None
      OBVIOUS
    <3>1. asked' = [asked EXCEPT ![w[1]] = None] BY <1>1
    <3> QED BY <1>8, <2>1, <3>1
  <2> QED BY <2>2, <2>3, <2>4
\* While the first job is of d, what was asked of d is pending.
<1>f. ASSUME NEW d \in Displays, asked[d] # None
      PROVE  /\ asked[d][1] \in Workers /\ asked[d][1][1] = d /\ asked[d][1][2] \in Nat
             /\ asked[d][2] # None
             /\ d = w[1] => pending[asked[d][1]] = asked[d][2]
             /\ asked[d][1] = w => asked[d] = <<w, p>> /\ asked[d][2] = p
  <2>1. /\ asked[d][1] \in Workers /\ asked[d][1][1] = d /\ asked[d][1][2] \in Nat
        /\ asked[d][2] # None /\ asked[d] = <<asked[d][1], asked[d][2]>>
    BY <1>f, InvParts, AskedTyped
  <2>2. \/ pending[asked[d][1]] = asked[d][2]
        \/ \A i \in DOMAIN jobs : \A v \in Workers : Writes(i, v) => v[1] # d
    BY <1>f, InvParts DEF AskedIsLast, AskedLast
  <2>3. d = w[1] => pending[asked[d][1]] = asked[d][2] BY <1>7, <1>8, <1>9, <2>2
  <2>4. asked[d][1] = w => asked[d][2] = p BY <1>10, <2>1, <2>3
  <2> QED BY <2>1, <2>3, <2>4
<1>22. AskedIsLast'
  <2> SUFFICES ASSUME NEW d \in Displays, asked'[d] # None
               PROVE  AskedLast(d)'
    BY DEF AskedIsLast, AskedLast
  <2>1. asked'[d] = asked[d] /\ asked[d] # None BY <1>21
  <2> DEFINE a == asked[d][1]
  <2>2. /\ a \in Workers /\ a[1] = d /\ a[2] \in Nat
        /\ d = w[1] => pending[a] = asked[d][2]
        /\ a = w => asked[d] = <<w, p>> /\ asked[d][2] = p
    BY <1>f, <2>1
  <2>3. /\ \A v \in Workers : v[1] = d /\ pending[v] # None => v[2] <= a[2]
        /\ published[d] = 0 \/ a[2] <= published[d]
        /\ \/ pending[a] = asked[d][2]
           \/ /\ pending[a] = None /\ level[d] = Raw(d, asked[d][2])
              /\ \A i \in DOMAIN jobs : \A v \in Workers : Writes(i, v) => v[1] # d
    BY <2>1, InvParts DEF AskedIsLast, AskedLast
  <2> HIDE DEF a
  <2>4. \A v \in Workers : v[1] = d /\ pending'[v] # None => v[2] <= a[2]
    BY <1>14, <2>3
  <2>5. \A i \in DOMAIN jobs' : \A v \in Workers :
          Writes(i, v)' => i + 1 \in DOMAIN jobs /\ Writes(i + 1, v) /\ 1 < i + 1
    BY <1>7 DEF Writes
  <2>6. \/ pending'[a] = asked[d][2]
        \/ /\ pending'[a] = None /\ level'[d] = Raw(d, asked[d][2])
           /\ \A i \in DOMAIN jobs' : \A v \in Workers : Writes(i, v)' => v[1] # d
    <3>1. CASE d # w[1]
      <4>1. pending'[a] = pending[a] /\ level'[d] = level[d] BY <1>14, <1>21, <2>2, <3>1
      <4> QED BY <2>3, <2>5, <4>1
    <3>2. CASE d = w[1] /\ a # w BY <1>14, <2>2, <3>2
    <3>3. CASE d = w[1] /\ a = w
      <4>1. pending'[a] = None /\ level'[d] = Raw(d, asked[d][2])
        BY <1>14, <1>21, <2>1, <2>2, <3>3
      <4>2. ASSUME NEW i \in DOMAIN jobs', NEW v \in Workers, Writes(i, v)', v[1] = d
            PROVE  FALSE
        <5>1. i + 1 \in DOMAIN jobs /\ Writes(i + 1, v) /\ 1 < i + 1 BY <2>5, <4>2
        <5>2. w[2] < v[2]
          BY <1>7, <1>8, <1>9, <3>3, <4>2, <5>1 DEF BrightnessInv, WritesInOrder
        <5>3. pending[v] # None BY <5>1 DEF BrightnessInv, OneWrite
        <5>4. v[2] <= w[2] BY <2>3, <3>3, <4>2, <5>3
        <5>5. v[2] \in Nat BY BrightnessRecords, BrightnessBounds
        <5> QED BY <1>8, <5>2, <5>4, <5>5
      <4> QED BY <4>1, <4>2
    <3> QED BY <3>1, <3>2, <3>3
  <2> QED BY <1>1, <2>1, <2>3, <2>4, <2>6 DEF AskedLast, a
\* What is shown of a display that is not written stays true, and what was
\* written is.
<1>s. ASSUME NEW d \in Displays, NEW v, d # w[1] \/ ~ok, ShownTrue(d, v)
      PROVE  ShownTrue(d, v)'
  <2>1. level'[d] = level[d] BY <1>21, <1>s
  <2>2. ASSUME Settled(d)' PROVE Settled(d) /\ asked'[d] = asked[d]
    <3>1. asked'[d] # None /\ asked'[d] = asked[d] /\ pending'[asked[d][1]] = None
      BY <1>21, <2>2 DEF Settled
    <3>2. asked[d][1] # w BY <1>1, <1>21, <1>f, <1>s, <3>1
    <3>3. pending[asked[d][1]] = None BY <1>14, <1>f, <3>1, <3>2
    <3> QED BY <3>1, <3>3 DEF Settled
  <2> QED BY <1>s, <2>1, <2>2, ShownKept
<1>t. reached => ShownTrue(w[1], p)'
  <2> SUFFICES ASSUME reached, Settled(w[1])' PROVE p = asked'[w[1]][2]
    BY <1>21 DEF ShownTrue
  <2>1. asked'[w[1]] # None /\ asked'[w[1]] = asked[w[1]] /\ pending'[asked[w[1]][1]] = None
    BY <1>8, <1>21 DEF Settled
  <2>2. asked[w[1]][1] = w BY <1>8, <1>14, <1>f, <2>1
  <2> QED BY <1>8, <1>f, <2>1, <2>2
<1>23. \A d \in Displays, i \in DOMAIN replies :
         (\A j \in DOMAIN replies' : i < j => ~Overtakes(j, d)') =>
           (d # w[1] \/ ~ok) /\ \A j \in DOMAIN replies : i < j => ~Overtakes(j, d)
  <2> SUFFICES ASSUME NEW d \in Displays, NEW i \in DOMAIN replies,
                      \A j \in DOMAIN replies' : i < j => ~Overtakes(j, d)'
               PROVE  (d # w[1] \/ ~ok) /\ \A j \in DOMAIN replies : i < j => ~Overtakes(j, d)
    OBVIOUS
  <2>1. ~Overtakes(n, d)' BY <1>11
  <2>2. d # w[1] \/ ~ok BY <1>4, <1>11, <2>1 DEF Overtakes
  <2> QED BY <1>11, <2>2 DEF Overtakes
<1>24. LastTells'
  <2>1. ASSUME NEW d \in Displays, NEW q \in Percents, NEW i \in DOMAIN replies',
               Tells(i, d, q)', \A j \in DOMAIN replies' : i < j => ~Overtakes(j, d)'
        PROVE  ShownTrue(d, q)'
    <3>1. CASE i = n
      <4>1. reached /\ d = w[1] /\ q = p BY <1>4, <1>11, <2>1, <3>1 DEF Tells
      <4> QED BY <1>t, <4>1
    <3>2. CASE i \in DOMAIN replies
      <4>1. Tells(i, d, q) BY <1>11, <2>1, <3>2 DEF Tells
      <4>2. ShownTrue(d, q) BY <1>23, <2>1, <3>2, <4>1, InvParts DEF LastTells
      <4> QED BY <1>23, <1>s, <2>1, <3>2, <4>2
    <3> QED BY <1>11, <3>1, <3>2
  <2> QED BY <2>1 DEF LastTells
<1>25. ShownIsLevel'
  <2> SUFFICES ASSUME ~Rescans, NEW d \in Listed \ guessed, NEW v \in Percents,
                      v = current[WorkerOf(d)], \A i \in DOMAIN replies' : ~Overtakes(i, d)'
               PROVE  ShownTrue(d, v)'
    BY <1>1, <1>19, <1>20, ListedWorker, InvParts DEF ShownIsLevel
  <2>1. d # w[1] \/ ~ok BY <1>4, <1>11 DEF Overtakes
  <2>2. \A i \in DOMAIN replies : ~Overtakes(i, d) BY <1>11 DEF Overtakes
  <2>3. d \in Displays BY ListedWorker, InvParts
  <2>4. ShownTrue(d, v) BY <2>2, InvParts DEF ShownIsLevel
  <2> QED BY <1>s, <2>1, <2>3, <2>4
<1>26. BrightnessInv'
  BY <1>3, <1>15, <1>16, <1>17, <1>18, <1>22, <1>24, <1>25 DEF BrightnessInv
<1> QED BY <1>12, <1>13, <1>26 DEF BrightnessGoal

\* The displays found get workers of a scan later than any worker in use.
LEMMA PublishStep ==
  ASSUME BrightnessInv, PublishDisplays
  PROVE  BrightnessGoal
<1> DEFINE r == Head(replies)
           found == DOMAIN r.value
<1>1. /\ Deliver("published")
      /\ published' = [d \in Displays |-> IF d \in found THEN r.scan ELSE 0]
      /\ current' = [w \in Workers |-> IF w[1] \in found /\ w[2] = r.scan
                                       THEN r.value[w[1]] ELSE Fallback]
      /\ guessed' = r.unread
      /\ UNCHANGED <<jobs, pending, inFlight, scans, connected, level, asked>>
  BY DEF PublishDisplays
<1>2. BrightnessTyped' /\ QueuesTyped' BY InvParts, PublishTyped DEF BrightnessTyped
<1>3. /\ r \in AllReplies /\ r = replies[1] /\ r.kind = "published" /\ 1 \in DOMAIN replies
      /\ \A i \in DOMAIN replies' : /\ i \in Nat \ {0} /\ i + 1 \in DOMAIN replies
                                    /\ replies'[i] = replies[i + 1]
      /\ \A i \in DOMAIN replies :
           /\ i \in Nat \ {0}
           /\ i = 1 \/ (i - 1 \in DOMAIN replies' /\ replies'[i - 1] = replies[i])
      /\ \A i, j \in DOMAIN replies' : (i < j => i + 1 < j + 1) /\ 1 < j + 1
  BY <1>1, InvParts, DeliverFacts
<1>4. /\ r.scan \in Scans /\ r.scan \in Nat \ {0} /\ found \subseteq Displays
      /\ \A d \in found : r.value[d] \in Percents
  BY <1>3, BrightnessRecords, BrightnessBounds
<1>5. Kept(replies, replies', 1, {"written"}) /\ Kept(replies, replies', 1, OfSearch)
  <2>1. replies # <<>> /\ replies' = Tail(replies) BY <1>1 DEF Deliver, Due
  <2> QED BY <1>3, <2>1, InvParts, TailKept, Kinds
<1>6. Kept(jobs, jobs', 0, {"write"}) /\ Kept(jobs, jobs', 0, OfSearch)
  BY <1>1, InvParts, SameKept
<1> HIDE DEF r, found
<1>7. AllWrites' BY <1>1, <1>2, <1>5, <1>6, InvParts, WritesKept
<1>8. /\ r.scan <= scans
      /\ \A d \in Displays : published[d] < r.scan
      /\ \A w \in Workers : pending[w] # None \/ w \in inFlight => w[2] < r.scan
      /\ \A d \in Displays : asked[d] # None => asked[d][1][2] < r.scan
  BY <1>3, InvParts DEF ScansInOrder
<1>9. \A w \in Workers : w[1] \in Displays /\ w[2] \in Nat \ {0}
  BY BrightnessRecords, BrightnessBounds
<1>10. ASSUME NEW w \in Workers PROVE Carried(w)'
  <2>1. w[2] = published'[w[1]] => w[2] = r.scan BY <1>1, <1>9
  <2>2. pending[w] # None => w[2] # r.scan BY <1>4, <1>8, <1>9
  <2> QED BY <1>1, <2>1, <2>2 DEF Carried
<1>11. ScansInOrder'
  <2>1. scans \in Nat BY InvParts, CountedTyped
  <2>2. \A i \in DOMAIN replies' : replies'[i].kind = "published" =>
          /\ replies'[i].scan <= scans
          /\ \A w \in Workers : pending[w] # None \/ w \in inFlight => w[2] < replies'[i].scan
          /\ \A d \in Displays : asked[d] # None => asked[d][1][2] < replies'[i].scan
          /\ r.scan < replies'[i].scan
    BY <1>3, InvParts DEF ScansInOrder
  <2>3. \A i \in DOMAIN replies' : replies'[i].kind = "published" =>
          replies'[i].scan \in Nat \ {0}
    <3>1. \A i \in DOMAIN replies' : replies'[i] \in AllReplies
      BY <1>2, ElementOfSeq DEF QueuesTyped
    <3> QED BY <3>1, BrightnessRecords, BrightnessBounds
  <2>4. \A i \in DOMAIN replies' : replies'[i].kind = "published" =>
          \A d \in Displays : published'[d] < replies'[i].scan
    BY <1>1, <2>2, <2>3
  <2>5. \A i, j \in DOMAIN replies' :
          replies'[i].kind = "published" /\ replies'[j].kind = "published" /\ i < j =>
            replies'[i].scan < replies'[j].scan
    BY <1>3, InvParts DEF ScansInOrder
  <2>6. \A d \in Displays : published'[d] <= scans BY <1>1, <1>8, <2>1
  <2>7. \A w \in Workers : pending[w] # None \/ w \in inFlight =>
          w[2] <= scans /\ (published'[w[1]] = 0 \/ w[2] <= published'[w[1]])
    <3>1. \A w \in Workers : pending[w] # None \/ w \in inFlight =>
            w[2] <= scans /\ w[2] <= r.scan
      BY <1>4, <1>8, <1>9, <2>1
    <3> QED BY <1>1, <1>9, <3>1
  <2>8. \A d \in Displays : asked[d] # None =>
          asked[d][1][2] <= scans /\ asked[d][1][1] = d
    BY InvParts DEF ScansInOrder
  <2> QED BY <1>1, <2>2, <2>4, <2>5, <2>6, <2>7, <2>8 DEF ScansInOrder
<1>12. \A d \in Listed' : /\ d \in Displays /\ d \in found /\ WorkerOf(d)' = <<d, r.scan>>
                          /\ <<d, r.scan>> \in Workers
  BY <1>1, <1>4 DEF Listed, WorkerOf, Workers
<1>13. AskedIsLast'
  <2>1. ASSUME NEW d \in Displays PROVE AskedLast(d)'
    <3>1. asked[d] # None => published'[d] = 0 \/ asked[d][1][2] <= published'[d]
      <4>1. published'[d] = 0 \/ published'[d] = r.scan BY <1>1
      <4>2. asked[d] # None => asked[d][1][2] \in Nat BY InvParts, AskedTyped
      <4> QED BY <1>4, <1>8, <4>1, <4>2
    <3>2. \A i \in DOMAIN jobs' : \A w \in Workers :
            w[1] = d /\ Writes(i, w)' => \E j \in DOMAIN jobs : Writes(j, w)
      BY <1>1 DEF Writes
    <3>3. AskedLast(d) BY InvParts DEF AskedIsLast
    <3> QED BY <1>1, <3>1, <3>2, <3>3, AskedKept
  <2> QED BY <2>1 DEF AskedIsLast
<1>14. LastTells' BY <1>1, InvParts, LastTellsTail
<1>15. ShownIsLevel'
  <2> SUFFICES ASSUME NEW d \in Listed', d \notin r.unread, NEW v \in Percents,
                      v = current'[<<d, r.scan>>],
                      \A i \in DOMAIN replies' : ~Overtakes(i, d)'
               PROVE  ShownTrue(d, v)'
    <3>1. guessed' = r.unread BY <1>1
    <3>2. \A d \in Listed' : WorkerOf(d)' = <<d, r.scan>> BY <1>12
    <3> QED BY <3>1, <3>2 DEF ShownIsLevel
  <2>1. v = r.value[d] BY <1>1, <1>12
  <2>2. Tells(1, d, v) BY <1>3, <1>12, <2>1 DEF Tells, found
  <2>3. \A j \in DOMAIN replies : 1 < j => ~Overtakes(j, d) BY <1>3 DEF Overtakes
  <2>4. d \in Displays BY <1>12
  <2>5. ShownTrue(d, v) BY <1>3, <2>2, <2>3, <2>4, InvParts DEF LastTells
  <2> QED BY <1>1, <2>4, <2>5, ShownUnchanged
<1>16. BrightnessInv'
  BY <1>2, <1>7, <1>10, <1>11, <1>13, <1>14, <1>15 DEF BrightnessInv, AllWrites
<1> QED BY <1>5, <1>6, <1>16 DEF BrightnessGoal

LEMMA ScreensStep ==
  ASSUME BrightnessInv, OnScreensChanged
  PROVE  BrightnessGoal
<1>1. /\ Deliver("screens") /\ jobs' = Append(jobs, Scan) /\ UNCHANGED brightness
  BY DEF OnScreensChanged
<1>2. BrightnessTyped' /\ QueuesTyped' BY InvParts, ScreensTyped DEF BrightnessTyped
<1>3. /\ Kept(replies, replies', 1, {"written"}) /\ Kept(replies, replies', 1, {"published"})
      /\ Kept(replies, replies', 1, OfSearch)
  <2>1. replies # <<>> /\ Head(replies).kind = "screens" /\ replies' = Tail(replies)
    BY <1>1 DEF Deliver, Due
  <2> QED BY <2>1, InvParts, TailKept, Kinds
<1>4. Kept(jobs, jobs', 0, {"write"}) /\ Kept(jobs, jobs', 0, OfSearch)
  BY <1>1, InvParts, AppendKept, BrightnessRecords, Kinds
<1>5. AllWrites' BY <1>1, <1>2, <1>3, <1>4, InvParts, WritesKept DEF brightness
<1>6. \A w \in Workers : Carried(w)' BY <1>1, InvParts DEF Carried, brightness
<1>7. ScansInOrder' BY <1>1, <1>2, <1>3, InvParts, ScansKept DEF brightness
<1>8. Rescans'
  <2>1. Len(jobs) + 1 \in DOMAIN jobs' /\ jobs'[Len(jobs) + 1] = Scan
    BY <1>1, InvParts, PostFacts, BrightnessRecords
  <2> QED BY <2>1, BrightnessRecords DEF Rescans
<1>9. LastTells' BY <1>1, InvParts, LastTellsTail DEF brightness
<1>a. AskedIsLast'
  <2>1. \A i \in DOMAIN jobs' : \A w \in Workers :
          Writes(i, w)' => \E j \in DOMAIN jobs : Writes(j, w)
    BY <1>1, InvParts, Appended, BrightnessRecords DEF Writes
  <2>2. UNCHANGED <<published, pending, level, asked>> BY <1>1 DEF brightness
  <2>3. \A d \in Displays : AskedLast(d)' BY <2>1, <2>2, InvParts, AskedKept DEF AskedIsLast
  <2> QED BY <2>3 DEF AskedIsLast
<1>10. BrightnessInv'
  BY <1>2, <1>5, <1>6, <1>7, <1>8, <1>9, <1>a DEF BrightnessInv, AllWrites, ShownIsLevel
<1> QED BY <1>3, <1>4, <1>10 DEF BrightnessGoal

\* The first reply ends a write: its worker has no job, and may get the next.
LEMMA EndWriteStep ==
  ASSUME BrightnessInv, NEW w \in Workers, EndWrite(w)
  PROVE  BrightnessGoal
<1> DEFINE r == Head(replies)
           shows == r.ok /\ w[1] \in Listed
<1>1. /\ Deliver("written") /\ r.worker = w
      /\ current' = IF shows THEN Shown(w, r.value) ELSE current
      /\ guessed' = IF ~shows THEN guessed
                    ELSE IF r.reached THEN guessed \ {w[1]} ELSE guessed \cup {w[1]}
      /\ inFlight' = IF Again(w) THEN inFlight ELSE inFlight \ {w}
      /\ jobs' = IF Again(w) THEN Append(jobs, Write(w)) ELSE jobs
      /\ UNCHANGED <<published, pending, primary, scans, connected, level, asked>>
  BY DEF EndWrite
<1>2. BrightnessTyped' /\ QueuesTyped' BY InvParts, EndWriteTyped DEF BrightnessTyped
<1>3. /\ r \in AllReplies /\ r = replies[1] /\ r.kind = "written" /\ 1 \in DOMAIN replies
      /\ \A i \in DOMAIN replies' : /\ i \in Nat \ {0} /\ i + 1 \in DOMAIN replies
                                    /\ replies'[i] = replies[i + 1]
      /\ \A i \in DOMAIN replies :
           /\ i \in Nat \ {0}
           /\ i = 1 \/ (i - 1 \in DOMAIN replies' /\ replies'[i - 1] = replies[i])
      /\ \A i, j \in DOMAIN replies' : (i + 1 = j + 1 => i = j) /\ 1 < j + 1
  BY <1>1, InvParts, DeliverFacts
<1>4. /\ r.value \in Percents /\ w[1] \in Displays /\ w[2] \in Nat \ {0}
      /\ \A v \in Workers : /\ v[1] \in Displays /\ v[2] \in Nat
                            /\ v = <<v[1], v[2]>>
  BY <1>3, BrightnessRecords, BrightnessBounds
<1>5. Kept(replies, replies', 1, {"published"}) /\ Kept(replies, replies', 1, OfSearch)
  <2>1. replies # <<>> /\ replies' = Tail(replies) BY <1>1 DEF Deliver, Due
  <2> QED BY <1>3, <2>1, InvParts, TailKept, Kinds
<1> HIDE DEF r
<1>6. PICK n : /\ \A i \in DOMAIN jobs : /\ i \in DOMAIN jobs' /\ jobs'[i] = jobs[i]
                                         /\ ~(n < i) /\ i # n
               /\ \A i \in DOMAIN jobs' :
                    i \in DOMAIN jobs \/ (Again(w) /\ i = n /\ jobs'[i] = Write(w))
               /\ Again(w) => n \in DOMAIN jobs' /\ jobs'[n] = Write(w)
               /\ ~(n < n)
  <2>1. DOMAIN jobs = 1 .. Len(jobs) /\ Len(jobs) \in Nat BY InvParts, LenProperties
  <2>2. /\ \A i \in DOMAIN jobs : ~(Len(jobs) + 1 < i) /\ i # Len(jobs) + 1
        /\ ~(Len(jobs) + 1 < Len(jobs) + 1)
    BY <2>1
  <2>3. CASE ~Again(w) BY <1>1, <2>2, <2>3
  <2>4. CASE Again(w)
    <3>1. jobs' = Append(jobs, Write(w)) BY <1>1, <2>4
    <3>2. /\ \A i \in DOMAIN jobs : i \in DOMAIN jobs' /\ jobs'[i] = jobs[i]
          /\ Len(jobs) + 1 \in DOMAIN jobs' /\ jobs'[Len(jobs) + 1] = Write(w)
          /\ \A i \in DOMAIN jobs' : i \in DOMAIN jobs \/ i = Len(jobs) + 1
      BY <3>1, InvParts, PostFacts, BrightnessRecords
    <3> QED BY <2>2, <2>4, <3>2
  <2> QED BY <2>3, <2>4
<1>7. Kept(jobs, jobs', 0, OfSearch)
  <2>1. CASE ~Again(w) BY <1>1, <2>1, InvParts, SameKept
  <2>2. CASE Again(w)
    BY <1>1, <2>2, InvParts, AppendKept, BrightnessRecords, Kinds
  <2> QED BY <2>1, <2>2
<1>8. Write(w).kind = "write" /\ Write(w).worker = w BY BrightnessRecords
<1>9. OneWrite(w) /\ Wrote(1, w) BY <1>1, <1>3 DEF BrightnessInv, Wrote, r
<1>10. /\ w \in inFlight /\ \A i \in DOMAIN jobs : ~Writes(i, w)
       /\ \A i \in DOMAIN replies' : ~Wrote(i, w)'
  <2>1. w \in inFlight /\ \A i \in DOMAIN jobs : ~Writes(i, w)
    BY <1>3, <1>9 DEF OneWrite
  <2>2. \A i \in DOMAIN replies' : i + 1 # 1 BY <1>3
  <2>3. \A i \in DOMAIN replies' : ~Wrote(i, w)'
    BY <1>3, <1>9, <2>2 DEF OneWrite, Wrote
  <2> QED BY <2>1, <2>3
<1>11. Again(w) => /\ pending[w] # None /\ w[1] \in Listed /\ WorkerOf(w[1]) = w
                   /\ w[2] = published[w[1]] /\ published[w[1]] # 0
  <2>1. Again(w) => pending[w] # None /\ w[1] \in Listed /\ WorkerOf(w[1]) = w BY DEF Again
  <2>2. w[1] \in Listed => WorkerOf(w[1])[2] = published[w[1]] /\ published[w[1]] # 0
    BY DEF Listed, WorkerOf
  <2> QED BY <2>1, <2>2
<1>12. \A i \in DOMAIN jobs', v \in Workers : Writes(i, v)' =>
         (i \in DOMAIN jobs /\ Writes(i, v)) \/ (i = n /\ v = w /\ Again(w))
  BY <1>6, <1>8 DEF Writes
<1>13. \A i \in DOMAIN jobs, v \in Workers : Writes(i, v) => i \in DOMAIN jobs' /\ Writes(i, v)'
  BY <1>6 DEF Writes
<1>14. ASSUME NEW v \in Workers PROVE OneWrite(v)'
  <2>1. OneWrite(v) BY DEF BrightnessInv
  <2>2. \A i, j \in DOMAIN jobs' : Writes(i, v)' /\ Writes(j, v)' => i = j
    BY <1>10, <1>12, <2>1 DEF OneWrite
  <2>3. \A i \in DOMAIN replies' : Wrote(i, v)' => i + 1 \in DOMAIN replies /\ Wrote(i + 1, v)
    BY <1>3 DEF Wrote
  <2>4. \A i, j \in DOMAIN replies' : Wrote(i, v)' /\ Wrote(j, v)' => i = j
    BY <1>3, <2>1, <2>3 DEF OneWrite
  <2>5. \A i \in DOMAIN jobs', j \in DOMAIN replies' : ~(Writes(i, v)' /\ Wrote(j, v)')
    BY <1>10, <1>12, <2>1, <2>3 DEF OneWrite
  <2>6. \A i \in DOMAIN jobs' : Writes(i, v)' => pending'[v] # None
    BY <1>1, <1>11, <1>12, <2>1 DEF OneWrite
  <2>7. v \in inFlight' <=> \/ \E i \in DOMAIN jobs' : Writes(i, v)'
                            \/ \E i \in DOMAIN replies' : Wrote(i, v)'
    <3>1. CASE v = w
      <4>1. CASE Again(w)
        <5>1. n \in DOMAIN jobs' /\ Writes(n, w)' BY <1>6, <1>8, <4>1 DEF Writes
        <5> QED BY <1>1, <1>10, <3>1, <4>1, <5>1
      <4>2. CASE ~Again(w) BY <1>1, <1>10, <1>12, <3>1, <4>2
      <4> QED BY <4>1, <4>2
    <3>2. CASE v # w
      <4>1. v \in inFlight' <=> v \in inFlight BY <1>1, <3>2
      <4>2. \A i \in DOMAIN replies : Wrote(i, v) => i - 1 \in DOMAIN replies' /\ Wrote(i - 1, v)'
        BY <1>1, <1>3, <3>2 DEF Wrote, r
      <4> QED BY <1>12, <1>13, <2>1, <2>3, <3>2, <4>1, <4>2 DEF OneWrite
    <3> QED BY <3>1, <3>2
  <2> QED BY <2>2, <2>4, <2>5, <2>6, <2>7 DEF OneWrite
<1>15. ASSUME NEW v \in Workers PROVE Carried(v)'
  <2>1. Carried(v) BY InvParts
  <2>2. CASE v = w
    <3>1. w[2] = published[w[1]] /\ pending[w] # None => Again(w)
      BY <1>4 DEF Again, Listed, WorkerOf
    <3> QED BY <1>1, <1>10, <2>2, <3>1 DEF Carried
  <2>3. CASE v # w BY <1>1, <2>1, <2>3 DEF Carried
  <2> QED BY <2>2, <2>3
<1>16. ScansInOrder' BY <1>1, <1>2, <1>5, InvParts, ScansKept
<1>17. WritesInOrder'
  <2>1. ASSUME NEW i \in DOMAIN jobs', NEW j \in DOMAIN jobs', NEW u \in Workers, NEW v \in Workers,
               Writes(i, u)', Writes(j, v)', u[1] = v[1], i < j
        PROVE  u[2] < v[2]
    <3>1. i \in DOMAIN jobs /\ Writes(i, u) BY <1>6, <1>12, <2>1
    <3>2. CASE j \in DOMAIN jobs /\ Writes(j, v)
      BY <2>1, <3>1, <3>2 DEF BrightnessInv, WritesInOrder
    <3>3. CASE v = w /\ Again(w)
      <4>1. u \in inFlight BY <3>1 DEF BrightnessInv, OneWrite
      <4>2. u[2] <= w[2] BY <1>11, <2>1, <3>3, <4>1 DEF BrightnessInv, ScansInOrder
      <4>3. u # w BY <1>10, <3>1
      <4>4. u[2] # w[2] BY <1>4, <2>1, <3>3, <4>3
      <4> QED BY <1>4, <3>3, <4>2, <4>4
    <3> QED BY <1>12, <2>1, <3>2, <3>3
  <2> QED BY <2>1 DEF WritesInOrder
<1>18. ~Rescans' => ~Rescans
  <2>1. \A i \in DOMAIN replies : replies[i].kind \in {"screens", "published"} =>
          i - 1 \in DOMAIN replies' /\ replies'[i - 1] = replies[i]
    BY <1>3 DEF r
  <2> QED BY <1>6, <2>1 DEF Rescans
<1>19. /\ Listed' = Listed /\ \A d \in Displays : WorkerOf(d)' = WorkerOf(d)
       /\ \A d \in Listed : /\ d \in Displays /\ WorkerOf(d) \in Workers
                            /\ WorkerOf(d)[1] = d
  BY <1>1, ListedWorker, InvParts DEF Listed, WorkerOf
<1>20. AskedIsLast'
  <2>1. ASSUME NEW d \in Displays PROVE AskedLast(d)'
    <3>1. AskedLast(d) BY InvParts DEF AskedIsLast
    <3>2. CASE ~(Again(w) /\ w[1] = d)
      <4>1. \A i \in DOMAIN jobs' : \A v \in Workers :
              v[1] = d /\ Writes(i, v)' => \E j \in DOMAIN jobs : Writes(j, v)
        BY <1>12, <3>2
      <4> QED BY <1>1, <3>1, <4>1, AskedKept
    <3>3. CASE Again(w) /\ w[1] = d /\ asked[d] # None
      <4>1. /\ asked[d][1] \in Workers /\ asked[d][1][1] = d /\ asked[d][1][2] \in Nat
        BY <3>3, InvParts, AskedTyped
      <4>2. w[2] <= asked[d][1][2] /\ asked[d][1][2] <= w[2]
        BY <1>11, <3>1, <3>3 DEF AskedLast
      <4>3. asked[d][1] = w BY <1>4, <3>3, <4>1, <4>2
      <4>4. pending[asked[d][1]] = asked[d][2] BY <1>11, <3>1, <3>3, <4>3 DEF AskedLast
      <4> QED BY <1>1, <3>1, <4>4 DEF AskedLast
    <3>4. CASE asked[d] = None BY <1>1, <3>4 DEF AskedLast
    <3> QED BY <3>2, <3>3, <3>4
  <2> QED BY <2>1 DEF AskedIsLast
<1>21. LastTells' BY <1>1, InvParts, LastTellsTail
<1>22. ShownIsLevel'
  <2> SUFFICES ASSUME ~Rescans, NEW d \in Listed, d \notin guessed', NEW x \in Percents,
                      x = current'[WorkerOf(d)],
                      \A i \in DOMAIN replies' : ~Overtakes(i, d)'
               PROVE  ShownTrue(d, x)
    <3>1. \A d \in Displays, x \in Percents : ShownTrue(d, x) => ShownTrue(d, x)'
      BY <1>1, ShownUnchanged
    <3> QED BY <1>1, <1>18, <1>19, <3>1 DEF ShownIsLevel
  <2>1. \A j \in DOMAIN replies : 1 < j => ~Overtakes(j, d) BY <1>3 DEF Overtakes
  <2>2. current \in [Workers -> Percents] BY InvParts DEF BrightnessTypeOK
  <2>3. CASE shows /\ d = w[1]
    <3>1. x = r.value
      BY <1>1, <1>19, <2>2, <2>3 DEF Shown
    <3>2. r.reached BY <1>1, <2>3
    <3>3. Tells(1, d, x) BY <1>1, <1>3, <2>3, <3>1, <3>2 DEF Tells
    <3> QED BY <1>3, <1>19, <2>1, <3>3, InvParts DEF LastTells
  <2>4. CASE ~(shows /\ d = w[1])
    <3>1. current'[WorkerOf(d)] = current[WorkerOf(d)]
      <4>1. CASE ~shows BY <1>1, <4>1
      <4>2. CASE shows
        <5>1. w[1] # d /\ WorkerOf(d) # w /\ WorkerOf(d) # WorkerOf(w[1])
          BY <1>19, <2>4, <4>2
        <5> QED BY <1>1, <1>19, <2>2, <4>2, <5>1 DEF Shown
      <4> QED BY <4>1, <4>2
    <3>2. d \notin guessed BY <1>1, <2>4
    <3>3. ~Overtakes(1, d) BY <1>1, <1>3, <2>4 DEF Overtakes
    <3>4. \A j \in DOMAIN replies : ~Overtakes(j, d) BY <1>3, <2>1, <3>3
    <3> QED BY <3>1, <3>2, <3>4, InvParts DEF ShownIsLevel
  <2> QED BY <2>3, <2>4
<1>23. BrightnessInv'
  BY <1>2, <1>14, <1>15, <1>16, <1>17, <1>20, <1>21, <1>22 DEF BrightnessInv
<1> QED BY <1>5, <1>7, <1>23 DEF BrightnessGoal

\* The workers of the displays set are the listed ones.
LEMMA SetStep ==
  ASSUME BrightnessInv, NEW targets \in Targets, SetBrightness(targets)
  PROVE  BrightnessGoal
<1> DEFINE S == Set(targets)
<1>1. /\ pending' = Stored(S, targets)
      /\ inFlight' = inFlight \cup {WorkerOf(d) : d \in S}
      /\ asked' = [d \in Displays |-> IF d \in S THEN <<WorkerOf(d), targets[d]>>
                                      ELSE asked[d]]
      /\ UNCHANGED <<published, current, primary, scans, connected, level, guessed>>
  BY DEF SetBrightness, Set
<1>2. BrightnessTyped' /\ QueuesTyped' BY InvParts, SetTyped DEF BrightnessTyped
<1>3. /\ jobs' \in Seq(AllJobs) /\ replies' = replies
      /\ \A i \in DOMAIN jobs : /\ i \in DOMAIN jobs' /\ jobs'[i] = jobs[i]
                                /\ \A j \in Added : ~(j < i) /\ i # j
      /\ \A i \in Added : \E d \in S : WorkerOf(d) \notin inFlight /\ jobs'[i] = Write(WorkerOf(d))
      /\ \A i, j \in Added : jobs'[i] = jobs'[j] => i = j
      /\ \A d \in S : WorkerOf(d) \notin inFlight => \E i \in Added : jobs'[i] = Write(WorkerOf(d))
  BY InvParts, SetFacts
<1>4. \A d \in S : /\ d \in Displays /\ d \in Listed /\ targets[d] \in Percents
                   /\ WorkerOf(d) \in Workers
                   /\ WorkerOf(d)[1] = d /\ WorkerOf(d)[2] = published[d] /\ published[d] # 0
  BY InvParts, ListedWorker DEF Targets, Set, Listed
<1> HIDE DEF S
<1>5. \A w \in Workers : /\ w[1] \in Displays /\ w[2] \in Nat /\ w = <<w[1], w[2]>>
                         /\ Write(w).kind = "write" /\ Write(w).worker = w
  BY BrightnessRecords, BrightnessBounds
<1>6. /\ \A i \in DOMAIN jobs' : i \in DOMAIN jobs \/ i \in Added
      /\ \A i \in Added : i \in DOMAIN jobs' /\ i \notin DOMAIN jobs
      /\ \A i \in DOMAIN jobs' : ~(i < i)
      /\ \A i, j \in DOMAIN jobs' : i < j \/ i = j \/ j < i
  BY <1>3, LenProperties DEF Added
<1>7. \A w \in Workers : /\ w[1] \in S /\ w = WorkerOf(w[1]) => pending'[w] = targets[w[1]]
                         /\ ~(w[1] \in S /\ w = WorkerOf(w[1])) => pending'[w] = pending[w]
  BY <1>1 DEF Stored
<1>8. \A w \in Workers : w \in inFlight' <=> w \in inFlight \/ (w[1] \in S /\ w = WorkerOf(w[1]))
  BY <1>1, <1>4
<1>9. /\ Listed' = Listed /\ \A d \in Displays : WorkerOf(d)' = WorkerOf(d)
      /\ \A d \in Listed : /\ d \in Displays /\ WorkerOf(d) \in Workers
                           /\ WorkerOf(d)[1] = d /\ WorkerOf(d)[2] = published[d]
  BY <1>1, ListedWorker, InvParts DEF Listed, WorkerOf
\* A job that is added is a write of a listed worker that had none.
<1>10. \A i \in Added, w \in Workers : Writes(i, w)' =>
         w \notin inFlight /\ w[1] \in S /\ w = WorkerOf(w[1]) /\ jobs'[i] = Write(w)
  <2> SUFFICES ASSUME NEW i \in Added, NEW w \in Workers, Writes(i, w)'
               PROVE  w \notin inFlight /\ w[1] \in S /\ w = WorkerOf(w[1]) /\ jobs'[i] = Write(w)
    OBVIOUS
  <2>1. PICK d \in S : WorkerOf(d) \notin inFlight /\ jobs'[i] = Write(WorkerOf(d)) BY <1>3
  <2>2. w = WorkerOf(d) BY <1>4, <1>5, <2>1 DEF Writes
  <2> QED BY <1>4, <2>1, <2>2
<1>11. \A i \in DOMAIN jobs, w \in Workers : Writes(i, w)' <=> Writes(i, w)
  BY <1>3 DEF Writes
<1>12. ASSUME NEW w \in Workers PROVE OneWrite(w)'
  <2>1. OneWrite(w) BY DEF BrightnessInv
  <2>2. \A i, j \in DOMAIN jobs' : Writes(i, w)' /\ Writes(j, w)' => i = j
    <3> SUFFICES ASSUME NEW i \in DOMAIN jobs', NEW j \in DOMAIN jobs', Writes(i, w)', Writes(j, w)'
                 PROVE  i = j
      OBVIOUS
    <3>1. CASE w \in inFlight BY <1>6, <1>10, <1>11, <2>1, <3>1 DEF OneWrite
    <3>2. CASE w \notin inFlight
      <4>1. i \in Added /\ j \in Added BY <1>6, <1>11, <2>1, <3>2 DEF OneWrite
      <4> QED BY <1>3, <1>10, <4>1
    <3> QED BY <3>1, <3>2
  <2>3. \A i, j \in DOMAIN replies' : Wrote(i, w)' /\ Wrote(j, w)' => i = j
    BY <1>3, <2>1 DEF OneWrite, Wrote
  <2>4. \A i \in DOMAIN jobs', j \in DOMAIN replies' : ~(Writes(i, w)' /\ Wrote(j, w)')
    <3>1. \A j \in DOMAIN replies' : Wrote(j, w)' => j \in DOMAIN replies /\ Wrote(j, w)
      BY <1>3 DEF Wrote
    <3> QED BY <1>6, <1>10, <1>11, <2>1, <3>1 DEF OneWrite
  <2>5. w \in inFlight' <=> \/ \E i \in DOMAIN jobs' : Writes(i, w)'
                            \/ \E i \in DOMAIN replies' : Wrote(i, w)'
    <3>1. (\E i \in DOMAIN replies' : Wrote(i, w)') <=> \E i \in DOMAIN replies : Wrote(i, w)
      BY <1>3 DEF Wrote
    <3>2. CASE w \in inFlight BY <1>3, <1>8, <1>11, <2>1, <3>1, <3>2 DEF OneWrite
    <3>3. CASE w \notin inFlight /\ w[1] \in S /\ w = WorkerOf(w[1])
      <4>1. PICK i \in Added : jobs'[i] = Write(w) BY <1>3, <3>3
      <4>2. i \in DOMAIN jobs' /\ Writes(i, w)' BY <1>5, <1>6, <4>1 DEF Writes
      <4> QED BY <1>8, <3>3, <4>2
    <3>4. CASE w \notin inFlight /\ ~(w[1] \in S /\ w = WorkerOf(w[1]))
      BY <1>6, <1>8, <1>10, <1>11, <2>1, <3>1, <3>4 DEF OneWrite
    <3> QED BY <3>2, <3>3, <3>4
  <2>6. \A i \in DOMAIN jobs' : Writes(i, w)' => pending'[w] # None
    <3>1. w[1] \in S => targets[w[1]] # None BY <1>4, BrightnessBounds
    <3> QED BY <1>6, <1>7, <1>10, <1>11, <2>1, <3>1 DEF OneWrite
  <2> QED BY <2>2, <2>3, <2>4, <2>5, <2>6 DEF OneWrite
<1>13. ASSUME NEW w \in Workers PROVE Carried(w)'
  <2>1. Carried(w) BY InvParts
  <2>2. w[2] = published[w[1]] => w = WorkerOf(w[1]) BY <1>5 DEF WorkerOf
  <2> QED BY <1>1, <1>7, <1>8, <2>1, <2>2 DEF Carried
<1>14. ScansInOrder'
  <2>1. Kept(replies, replies', 0, {"published"}) BY <1>3, InvParts, SameKept
  <2>2. \A w \in Workers : pending'[w] # None \/ w \in inFlight' =>
          pending[w] # None \/ w \in inFlight \/ w[2] = published[w[1]]
    BY <1>4, <1>7, <1>8
  <2>3. \A d \in Displays : asked'[d] # None =>
          asked'[d] = asked[d] \/ (asked'[d][1][1] = d /\ asked'[d][1][2] = published[d])
    BY <1>1, <1>4
  <2> QED BY <1>1, <1>2, <2>1, <2>2, <2>3, InvParts, ScansKept
<1>15. WritesInOrder'
  <2>1. ASSUME NEW i \in DOMAIN jobs', NEW j \in DOMAIN jobs', NEW u \in Workers, NEW v \in Workers,
               Writes(i, u)', Writes(j, v)', u[1] = v[1], i < j
        PROVE  u[2] < v[2]
    <3>1. CASE i \in DOMAIN jobs /\ j \in DOMAIN jobs
      BY <1>11, <2>1, <3>1 DEF BrightnessInv, WritesInOrder
    <3>2. CASE i \in DOMAIN jobs /\ j \in Added
      <4>1. Writes(i, u) /\ v \notin inFlight /\ v[1] \in S /\ v = WorkerOf(v[1])
        BY <1>10, <1>11, <2>1, <3>2
      <4>2. u \in inFlight BY <3>2, <4>1 DEF BrightnessInv, OneWrite
      <4>3. v[2] = published[v[1]] /\ published[v[1]] # 0 BY <1>4, <4>1
      <4>4. u[2] <= v[2] BY <2>1, <4>2, <4>3 DEF BrightnessInv, ScansInOrder
      <4>5. u[2] # v[2] BY <1>5, <2>1, <4>1, <4>2
      <4> QED BY <1>5, <4>4, <4>5
    <3>3. CASE i \in Added /\ j \in Added
      <4>1. u = v BY <1>10, <2>1, <3>3
      <4> QED BY <1>3, <1>6, <1>10, <2>1, <3>3, <4>1
    <3>4. CASE i \in Added /\ j \in DOMAIN jobs BY <1>3, <2>1, <3>4
    <3> QED BY <1>6, <3>1, <3>2, <3>3, <3>4
  <2> QED BY <2>1 DEF WritesInOrder
<1>16. ~Rescans' => ~Rescans BY <1>3 DEF Rescans
<1>17. AskedIsLast'
  <2>1. ASSUME NEW d \in Displays, asked'[d] # None PROVE AskedLast(d)'
    <3>1. CASE d \in S
      <4>1. asked'[d] = <<WorkerOf(d), targets[d]>> BY <1>1, <1>4, <3>1
      <4>2. pending'[WorkerOf(d)] = targets[d] BY <1>4, <1>7, <3>1
      <4>3. ASSUME NEW v \in Workers, v[1] = d, pending'[v] # None
            PROVE  v[2] <= published[d]
        <5>1. pending[v] # None => v[2] <= published[d]
          BY <1>4, <3>1, <4>3, InvParts DEF ScansInOrder
        <5>2. v = WorkerOf(d) => v[2] = published[d] BY <1>4, <3>1
        <5> QED BY <1>5, <1>7, <4>3, <5>1, <5>2
      <4>4. published[d] <= published[d] BY <1>4, <1>5, <3>1
      <4> QED BY <1>1, <1>4, <3>1, <4>1, <4>2, <4>3, <4>4 DEF AskedLast
    <3>2. CASE d \notin S
      <4>1. asked'[d] = asked[d] BY <1>1, <3>2
      <4>2. asked[d][1] \in Workers /\ asked[d][1][1] = d
        BY <2>1, <4>1, InvParts, AskedTyped
      <4>3. /\ pending'[asked[d][1]] = pending[asked[d][1]]
            /\ \A v \in Workers : v[1] = d => pending'[v] = pending[v]
        BY <1>7, <3>2, <4>2
      <4>4. \A i \in DOMAIN jobs' : \A v \in Workers :
              Writes(i, v)' /\ v[1] = d => i \in DOMAIN jobs /\ Writes(i, v)
        BY <1>6, <1>10, <1>11, <3>2
      <4> QED BY <1>1, <2>1, <4>1, <4>3, <4>4, InvParts DEF AskedIsLast, AskedLast
    <3> QED BY <3>1, <3>2
  <2>2. \A d \in Displays : AskedLast(d)' BY <2>1 DEF AskedLast
  <2> QED BY <2>2 DEF AskedIsLast
\* What is shown stays true: what was set is pending yet.
<1>s. ASSUME NEW d \in Displays, NEW v, ShownTrue(d, v) PROVE ShownTrue(d, v)'
  <2>1. ASSUME Settled(d)' PROVE Settled(d) /\ asked'[d] = asked[d]
    <3>1. d \notin S
      <4>1. d \in S => pending'[WorkerOf(d)] # None BY <1>4, <1>7, BrightnessBounds
      <4>2. d \in S => asked'[d][1] = WorkerOf(d) BY <1>1
      <4> QED BY <2>1, <4>1, <4>2 DEF Settled
    <3>2. asked'[d] = asked[d] /\ asked[d] # None BY <1>1, <2>1, <3>1 DEF Settled
    <3>3. asked[d][1] \in Workers /\ asked[d][1][1] = d BY <3>2, InvParts, AskedTyped
    <3>4. pending'[asked[d][1]] = pending[asked[d][1]] BY <1>7, <3>1, <3>3
    <3> QED BY <2>1, <3>2, <3>4 DEF Settled
  <2>2. level'[d] = level[d] BY <1>1
  <2> QED BY <1>s, <2>1, <2>2, ShownKept
<1>18. LastTells'
  <2>1. ASSUME NEW d \in Displays, NEW v \in Percents, NEW i \in DOMAIN replies',
               Tells(i, d, v)', \A j \in DOMAIN replies' : i < j => ~Overtakes(j, d)'
        PROVE  ShownTrue(d, v)'
    <3>1. /\ i \in DOMAIN replies /\ Tells(i, d, v)
          /\ \A j \in DOMAIN replies : i < j => ~Overtakes(j, d)
      BY <1>3, <2>1 DEF Tells, Overtakes
    <3>2. ShownTrue(d, v) BY <3>1, InvParts DEF LastTells
    <3> QED BY <1>s, <3>2
  <2> QED BY <2>1 DEF LastTells
<1>19. ShownIsLevel'
  <2> SUFFICES ASSUME ~Rescans, NEW d \in Listed \ guessed, NEW v \in Percents,
                      v = current[WorkerOf(d)], \A i \in DOMAIN replies' : ~Overtakes(i, d)'
               PROVE  ShownTrue(d, v)'
    BY <1>1, <1>9, <1>16 DEF ShownIsLevel
  <2>1. \A i \in DOMAIN replies : ~Overtakes(i, d) BY <1>3 DEF Overtakes
  <2>2. ShownTrue(d, v) BY <2>1, InvParts DEF ShownIsLevel
  <2> QED BY <1>9, <1>s, <2>2
<1>20. BrightnessInv'
  BY <1>2, <1>12, <1>13, <1>14, <1>15, <1>17, <1>18, <1>19 DEF BrightnessInv
<1>21. Kept(replies, replies', 0, OfSearch) BY <1>3, InvParts, SameKept
<1>22. Kept(jobs, jobs', 0, OfSearch)
  <2>1. \A i \in DOMAIN jobs : i + 0 = i /\ i - 0 = i BY InvParts, LenProperties
  <2>2. \A i \in Added : jobs'[i].kind = "write" BY <1>3, <1>4, <1>5
  <2> QED BY <1>3, <1>6, <2>1, <2>2, Kinds DEF Kept
<1> QED BY <1>20, <1>21, <1>22 DEF BrightnessGoal

LEMMA BrightnessSteps ==
  ASSUME BrightnessInv, BrightnessCall \/ BrightnessWork \/ BrightnessReply
  PROVE  BrightnessGoal
  BY SetStep, PlugStep, ScanStep, WriteStep, PublishStep, EndWriteStep, ScreensStep
     DEF BrightnessCall, BrightnessWork, BrightnessReply

\* What the search does to the queues leaves the brightness's messages alone.
LEMMA BrightnessUndisturbed ==
  ASSUME BrightnessInv, QueuesTyped', UNCHANGED <<brightness, user>>,
         calls' \in Nat, calls <= calls', calls' <= MaxCalls[user],
         NEW m \in {0, 1}, NEW n \in {0, 1},
         Kept(jobs, jobs', m, OfBrightness), Kept(replies, replies', n, OfBrightness)
  PROVE  BrightnessInv'
<1>1. /\ Kept(jobs, jobs', m, {"write"}) /\ Kept(replies, replies', n, {"written"})
      /\ Kept(replies, replies', n, {"published"})
  BY Kinds, KeptLess
<1>2. UNCHANGED <<published, pending, inFlight, current, primary, scans,
                  connected, level, guessed, asked>>
  BY DEF brightness
<1>3. AllWrites' BY <1>1, <1>2, InvParts, WritesKept
<1>4. ScansInOrder' BY <1>1, <1>2, InvParts, ScansKept
<1>5. LastTells' BY <1>2, InvParts, LastTellsKept
<1>6. \A w \in Workers : Carried(w)' BY <1>2, InvParts DEF Carried
<1>7. /\ \A i \in DOMAIN jobs' : jobs'[i].kind \in OfBrightness =>
           i + m \in DOMAIN jobs /\ jobs'[i] = jobs[i + m]
      /\ \A i \in DOMAIN jobs : jobs[i].kind \in OfBrightness =>
           i - m \in DOMAIN jobs' /\ jobs'[i - m] = jobs[i]
      /\ \A i \in DOMAIN replies : replies[i].kind \in OfBrightness =>
           i - n \in DOMAIN replies' /\ replies'[i - n] = replies[i]
  BY DEF Kept
<1>8. {"scan", "write", "screens", "published", "written"} = OfBrightness BY DEF OfBrightness
<1>9. ~Rescans' => ~Rescans
  <2>1. \A i \in DOMAIN jobs : jobs[i].kind = "scan" =>
          i - m \in DOMAIN jobs' /\ jobs'[i - m].kind = "scan"
    BY <1>7, <1>8
  <2>2. \A i \in DOMAIN replies : replies[i].kind \in {"screens", "published"} =>
          i - n \in DOMAIN replies' /\ replies'[i - n].kind \in {"screens", "published"}
    BY <1>7, <1>8
  <2> QED BY <2>1, <2>2 DEF Rescans
<1>10. Listed' = Listed /\ \A d : WorkerOf(d)' = WorkerOf(d) BY <1>2 DEF Listed, WorkerOf
<1>11. AskedIsLast'
  <2>1. \A i \in DOMAIN jobs' : \A w \in Workers :
          Writes(i, w)' => \E j \in DOMAIN jobs : Writes(j, w)
    BY <1>7, <1>8 DEF Writes
  <2>2. \A d \in Displays : AskedLast(d)' BY <1>2, <2>1, InvParts, AskedKept DEF AskedIsLast
  <2> QED BY <2>2 DEF AskedIsLast
<1>12. ShownIsLevel'
  <2>1. \A d, i : i \in DOMAIN replies /\ Overtakes(i, d) =>
          i - n \in DOMAIN replies' /\ Overtakes(i - n, d)'
    BY <1>7, <1>8 DEF Overtakes
  <2> SUFFICES ASSUME ~Rescans, NEW d \in Listed \ guessed, NEW v \in Percents,
                      v = current[WorkerOf(d)], \A i \in DOMAIN replies' : ~Overtakes(i, d)'
               PROVE  ShownTrue(d, v)'
    BY <1>2, <1>9, <1>10 DEF ShownIsLevel
  <2>2. ShownTrue(d, v) BY <2>1, InvParts DEF ShownIsLevel
  <2>3. d \in Displays BY ListedWorker, InvParts
  <2> QED BY <1>2, <2>2, <2>3, ShownUnchanged
<1>13. BrightnessTyped'
  <2>1. BrightnessTypeOK' BY <1>2, InvParts DEF BrightnessTypeOK, Listed
  <2>2. ScanJobs' = ScanJobs /\ ScreensCome' = ScreensCome
    <3>1. "scan" \in OfBrightness /\ "screens" \in OfBrightness BY DEF OfBrightness
    <3>2. jobs' \in Seq(AllJobs) /\ replies' \in Seq(AllReplies) BY DEF QueuesTyped
    <3> QED BY <3>1, <3>2, InvParts, CountKept DEF ScanJobs, ScreensCome
  <2>3. ScansCounted'
    <3>1. calls \in Nat /\ user' = user BY InvParts, CountedTyped
    <3>2. \A a, b \in Nat : a <= b => a + 1 <= b + 1 /\ b + 1 \in Nat OBVIOUS
    <3>3. calls + 1 <= calls' + 1 /\ calls' + 1 \in Nat BY <3>1, <3>2
    <3> QED BY <1>2, <2>2, <3>1, <3>3, InvParts, CountedTyped DEF ScansCounted
  <2>4. user' \in Users /\ user' = user BY DEF BrightnessInv, BrightnessTyped
  <2> QED BY <2>1, <2>3, <2>4 DEF BrightnessTyped
<1> QED
  BY <1>3, <1>4, <1>5, <1>6, <1>11, <1>12, <1>13 DEF BrightnessInv, AllWrites

-----------------------------------------------------------------------------
(* The two together.                                                       *)

JobsInv == SearchInv /\ BrightnessInv

\* A step of the search is one of its calls, or leaves the calls as they are.
LEMMA SearchCalls ==
  ASSUME JobsInv, FileSearchCall \/ FileSearchWork \/ FileSearchReply \/ Debounce
  PROVE  /\ user' = user /\ calls' \in Nat /\ calls <= calls' /\ calls' <= MaxCalls[user]
<1>1. calls \in Nat /\ calls <= MaxCalls[user] BY DEF JobsInv, BrightnessInv, BrightnessTyped
<1>2. CASE CallOf("search")
  <2>1. user' = user /\ user = "search" /\ calls' = calls + 1 /\ calls < MaxCalls["search"]
    BY <1>2 DEF CallOf
  <2> QED BY <1>1, <2>1, SearchBounds
<1>3. CASE UNCHANGED <<calls, user>> BY <1>1, <1>3
<1>4. FileSearchCall => CallOf("search")
  BY DEF FileSearchCall, Type, ToggleSearch, Refresh, Reopen, NavigateTo, GoTo, Call
<1>5. FileSearchWork => UNCHANGED <<calls, user>>
  BY DEF FileSearchWork, WalkDirs, SearchFiles, Run
<1>6. FileSearchReply => UNCHANGED <<calls, user>>
  BY DEF FileSearchReply, WalkFinished, Found, Deliver
<1>7. Debounce => UNCHANGED <<calls, user>> BY DEF Debounce
<1> QED BY <1>2, <1>3, <1>4, <1>5, <1>6, <1>7

\* So is a step of the brightness.
LEMMA BrightnessCalls ==
  ASSUME BrightnessCall \/ BrightnessWork \/ BrightnessReply
  PROVE  calls' \in {calls, calls + 1}
  BY DEF BrightnessCall, BrightnessWork, BrightnessReply, SetBrightness, PlugOrUnplug,
         ScanDisplays, WriteBrightness, PublishDisplays, EndWrite, OnScreensChanged,
         Call, CallOf, Run, Deliver

LEMMA InitInv == Init => JobsInv
<1> SUFFICES ASSUME Init PROVE JobsInv OBVIOUS
<1>1. /\ user \in Users /\ replies = <<>> /\ calls = 0
      /\ jobs = IF user = "brightness" THEN <<Scan>> ELSE <<>>
      /\ BrightnessInit /\ FileSearchInit
  BY DEF Init
<1>2. QueuesTyped /\ replies \in Seq(AllReplies) /\ jobs \in Seq(AllJobs)
  <2>1. <<Scan>> \in Seq(AllJobs) BY BrightnessRecords
  <2> QED BY <1>1, <2>1 DEF QueuesTyped
<1>3. /\ DOMAIN replies = {} /\ \A i \in DOMAIN jobs : i = 1 /\ jobs[i].kind = "scan"
      /\ user # "brightness" => DOMAIN jobs = {}
      /\ user = "brightness" => 1 \in DOMAIN jobs
  BY <1>1, BrightnessRecords
<1>4. SearchInv
  <2>1. FileSearchTypeOK
    <3>1. history = <<Home>> /\ at = 1 /\ disk = 0 BY <1>1 DEF FileSearchInit
    <3>2. history \in Seq(Folders) /\ at \in DOMAIN history BY <3>1, SearchBounds
    <3>3. disk \in 0 .. MaxCalls["search"] BY <3>1, SearchBounds
    <3> QED BY <1>1, <3>2, <3>3 DEF FileSearchInit, FileSearchTypeOK, Entries
  <2>2. calls \in Nat /\ disk <= calls
    <3>1. disk = 0 BY <1>1 DEF FileSearchInit
    <3> QED BY <1>1, <3>1
  <2>3. walking = FALSE /\ walkedKey = None BY <1>1 DEF FileSearchInit
  <2>4. Cached(jobs, replies, walkedKey, entries, walking, abandoned, disk)
    BY <1>3, <2>3 DEF Cached, OneWalk, WalkOfKey, Walks
  <2>5. LatestIsLast(jobs, replies) BY <1>3 DEF LatestIsLast
  <2> QED BY <1>2, <2>1, <2>2, <2>4, <2>5 DEF SearchInv
<1>5. BrightnessInv
  <2>1. /\ published = [d \in Displays |-> 0] /\ pending = [w \in Workers |-> None]
        /\ inFlight = {} /\ current = [w \in Workers |-> Fallback]
        /\ primary = None /\ scans = 0 /\ connected = Displays
        /\ level \in Levels /\ guessed = {}
        /\ asked = [d \in Displays |-> None]
    BY <1>1 DEF BrightnessInit
  <2>2. Listed = {} BY <2>1 DEF Listed
  <2>3. BrightnessTypeOK BY <2>1, <2>2, BrightnessBounds DEF BrightnessTypeOK
  <2>4. ScansCounted
    <3>1. OfKind(replies, "screens") = {} BY <1>3 DEF OfKind
    <3>2. OfKind(jobs, "scan") = IF user = "brightness" THEN {1} ELSE {}
      BY <1>3 DEF OfKind
    <3>3. ScreensCome = 0 /\ ScanJobs = IF user = "brightness" THEN 1 ELSE 0
      BY <3>1, <3>2, FS_EmptySet, FS_Singleton DEF ScreensCome, ScanJobs
    <3> QED BY <1>1, <2>1, <3>3 DEF ScansCounted
  <2>5. calls \in Nat /\ calls <= MaxCalls[user]
    <3>1. MaxCalls \in [Users -> Nat] BY BrightnessAssumption, Zenon
    <3>2. MaxCalls[user] \in Nat BY <1>1, <3>1
    <3> QED BY <1>1, <3>2
  <2>6. BrightnessTyped BY <1>1, <1>2, <2>3, <2>4, <2>5 DEF BrightnessTyped
  <2>7. \A w \in Workers : OneWrite(w) /\ Carried(w)
    BY <1>3, <2>1 DEF OneWrite, Carried, Writes
  <2>8. ScansInOrder
    <3>1. \A w \in Workers : pending[w] = None /\ w \notin inFlight BY <2>1
    <3> QED BY <1>3, <2>1, <3>1 DEF ScansInOrder
  <2>9. WritesInOrder /\ LastTells BY <1>3 DEF WritesInOrder, Writes, LastTells
  <2>10. AskedIsLast /\ ShownIsLevel
    BY <2>1, <2>2 DEF AskedIsLast, AskedLast, ShownIsLevel
  <2> QED BY <2>6, <2>7, <2>8, <2>9, <2>10 DEF BrightnessInv
<1> QED BY <1>4, <1>5 DEF JobsInv

LEMMA NextInv == JobsInv /\ [Next]_vars => JobsInv'
<1> SUFFICES ASSUME JobsInv, [Next]_vars PROVE JobsInv' OBVIOUS
<1>1. SearchInv /\ BrightnessInv BY DEF JobsInv
<1>2. CASE /\ BrightnessCall \/ BrightnessWork \/ BrightnessReply
           /\ UNCHANGED fileSearch
  <2>1. BrightnessGoal BY <1>1, <1>2, BrightnessSteps
  <2>2. QueuesTyped' BY <2>1 DEF BrightnessGoal, BrightnessInv, BrightnessTyped
  <2>3. SearchInv' BY <1>1, <1>2, <2>1, <2>2, BrightnessCalls, SearchUndisturbed DEF BrightnessGoal
  <2> QED BY <2>1, <2>3 DEF JobsInv, BrightnessGoal
<1>3. CASE /\ FileSearchCall \/ FileSearchWork \/ FileSearchReply \/ Debounce
           /\ UNCHANGED brightness
  <2>1. SearchGoal BY <1>1, <1>3, SearchSteps
  <2>2. QueuesTyped' BY <2>1 DEF SearchGoal, SearchInv
  <2>3. BrightnessInv' BY <1>1, <1>3, <2>1, <2>2, SearchCalls, BrightnessUndisturbed DEF SearchGoal
  <2> QED BY <2>1, <2>3 DEF JobsInv, SearchGoal
<1>4. CASE UNCHANGED vars
  <2>1. UNCHANGED <<brightness, fileSearch, jobs, replies, calls, user>>
    BY <1>4 DEF vars, executor
  <2>2. QueuesTyped' BY <1>1, <2>1 DEF SearchInv, QueuesTyped
  <2>3. /\ Kept(jobs, jobs', 0, OfSearch) /\ Kept(replies, replies', 0, OfSearch)
        /\ Kept(jobs, jobs', 0, OfBrightness) /\ Kept(replies, replies', 0, OfBrightness)
    BY <1>1, <2>1, InvParts, SameKept
  <2>4. SearchInv' BY <1>1, <2>1, <2>2, <2>3, SearchUndisturbed
  <2>5. calls \in Nat /\ calls <= calls' /\ calls' <= MaxCalls[user]
    BY <1>1, <2>1 DEF BrightnessInv, BrightnessTyped
  <2>6. BrightnessInv' BY <1>1, <2>1, <2>2, <2>3, <2>5, BrightnessUndisturbed
  <2> QED BY <2>4, <2>6 DEF JobsInv
<1> QED BY <1>2, <1>3, <1>4 DEF Next, Calls, Work, Reply, Timer, SearchWork, SearchReply

\* In every behaviour of the two users of the worker thread the queues hold
\* what JobsInv says: what the next four theorems rest on.
THEOREM JobsInvCorrect == Spec => []JobsInv
  BY InitInv, NextInv, PTL DEF Spec

\* No brightness that was set is forgotten (setBrightness, dispatchWrite and
\* the queued call of a write): a listed display's pending value has a write in
\* flight, which is one job or one reply, and a write job finds a value.
THEOREM NothingForgottenHolds == Spec => []NothingForgotten
<1>1. JobsInv => NothingForgotten
  <2> SUFFICES ASSUME JobsInv PROVE NothingForgotten OBVIOUS
  <2>1. BrightnessTypeOK /\ \A w \in Workers : OneWrite(w) /\ Carried(w)
    BY InvParts DEF JobsInv, BrightnessInv
  <2>2. ASSUME NEW w \in Workers
        PROVE  /\ w[2] = published[w[1]] /\ pending[w] # None => w \in inFlight
               /\ w \in inFlight <=>
                    Cardinality(Holds(jobs, "write", w))
                      + Cardinality(Holds(replies, "written", w)) = 1
               /\ Cardinality(Holds(jobs, "write", w))
                    + Cardinality(Holds(replies, "written", w)) <= 1
               /\ Holds(jobs, "write", w) # {} => pending[w] # None
    <3> DEFINE J == Holds(jobs, "write", w)
               R == Holds(replies, "written", w)
    <3>1. OneWrite(w) /\ Carried(w) BY <2>1
    <3>2. /\ J = {i \in DOMAIN jobs : Writes(i, w)}
          /\ R = {i \in DOMAIN replies : Wrote(i, w)}
      BY DEF Holds, Writes, Wrote
    <3> HIDE DEF J, R
    <3>3. /\ \A i, j \in J : i = j
          /\ \A i, j \in R : i = j
          /\ J = {} \/ R = {}
          /\ w \in inFlight <=> J # {} \/ R # {}
          /\ J # {} => pending[w] # None
      BY <3>1, <3>2 DEF OneWrite
    <3>4. /\ Cardinality(J) = IF J = {} THEN 0 ELSE 1
          /\ Cardinality(R) = IF R = {} THEN 0 ELSE 1
      BY <3>3, CountOne
    <3>5. w[2] = published[w[1]] /\ pending[w] # None => w \in inFlight
      BY <3>1 DEF Carried
    <3> QED BY <3>3, <3>4, <3>5 DEF J, R
  <2> QED BY <2>1, <2>2 DEF NothingForgotten
<1> QED BY <1>1, JobsInvCorrect, PTL

\* Once nothing waits for either thread, a display has the brightness last asked
\* of it, but for a value left behind in a worker that a scan replaced, for a
\* write that failed or did not reach it, and for a display plugged in since; a
\* listed display, if it was read or its last write reached it, shows what was
\* written or what is read of it; and a backlight no more than was asked, and no
\* less than one percent below if it has that many steps (publishDisplays,
\* dispatchWrite, the reads and writes of sysfs and DDC).
THEOREM QuietAgreesHolds == Spec => []QuietAgrees
<1>1. JobsInv => QuietAgrees
  <2> SUFFICES ASSUME JobsInv, Quiet PROVE QuietAgrees BY DEF QuietAgrees
  <2>1. DOMAIN jobs = {} /\ DOMAIN replies = {} BY DEF Quiet
  <2>2. ~Rescans BY <2>1 DEF Rescans
  <2>3. AskedIsLast /\ ShownIsLevel /\ BrightnessTypeOK /\ ScansInOrder
    BY InvParts DEF JobsInv
  <2>4. ASSUME NEW d \in Displays, Settled(d)
        PROVE  level[d] = Raw(d, asked[d][2]) /\ asked[d][2] \in Percents
    <3>1. asked[d][2] \in Percents /\ asked[d][2] # None BY <2>3, <2>4, AskedTyped DEF Settled
    <3>2. AskedLast(d) BY <2>3 DEF AskedIsLast
    <3> QED BY <2>4, <3>1, <3>2 DEF AskedLast, Settled
  <2>5. ASSUME NEW d \in Listed \ guessed, NEW v, v = current[WorkerOf(d)]
        PROVE  /\ ShownTrue(d, v)
               /\ d \in Internal /\ Settled(d) =>
                    /\ v <= asked[d][2]
                    /\ HardwareMax[d] >= MaxPercent => asked[d][2] <= v + 1
    <3>1. d \in Displays /\ WorkerOf(d) \in Workers BY <2>3, ListedWorker
    <3>2. v \in Percents BY <2>3, <2>5, <3>1 DEF BrightnessTypeOK
    <3>3. ShownTrue(d, v) BY <2>1, <2>2, <2>3, <2>5, <3>2 DEF ShownIsLevel
    <3>4. ASSUME d \in Internal, Settled(d)
          PROVE  /\ v <= asked[d][2]
                 /\ HardwareMax[d] >= MaxPercent => asked[d][2] <= v + 1
      <4>1. level[d] = Raw(d, asked[d][2]) /\ asked[d][2] \in Percents BY <2>4, <3>1, <3>4
      <4>2. CASE HardwareMax[d] # 0 /\ v = Percent(d, level[d])
        BY <3>4, <4>1, <4>2, ReadBack
      <4>3. CASE v = asked[d][2] BY <4>1, <4>3, BrightnessBounds DEF Percents
      <4> QED BY <3>3, <3>4, <4>2, <4>3 DEF ShownTrue
    <3> QED BY <3>3, <3>4
  <2> QED BY <2>4, <2>5 DEF QuietAgrees
<1> QED BY <1>1, JobsInvCorrect, PTL

\* The list in the cache is of the folder its key names and as fresh as the
\* last refresh, and walking tells of the walk on its way (runFileSearch,
\* walkFinished and the closing of the dialog).
THEOREM CacheMatchesKeyHolds == Spec => []CacheMatchesKey
<1>1. JobsInv => CacheMatchesKey
  <2> SUFFICES ASSUME JobsInv PROVE CacheMatchesKey OBVIOUS
  <2>1. FileSearchTypeOK /\ QueuesTyped
        /\ Cached(jobs, replies, walkedKey, entries, walking, abandoned, disk)
    BY DEF JobsInv, SearchInv
  <2>2. walkedKey # None /\ ~walking /\ ~abandoned =>
          entries = None \/ entries = [folder |-> walkedKey, disk |-> disk]
    BY <2>1 DEF Cached, Fresh
  <2>3. walking <=> \/ \E i \in DOMAIN jobs : Walks(jobs[i])
                    \/ \E i \in DOMAIN replies : Walks(replies[i])
    BY <2>1 DEF Cached, OneWalk
  <2>4. walking <=> \E q \in {jobs, replies} : \E i \in DOMAIN q :
                      q[i].kind \in {"walk", "walked"} /\ q[i].latest
    BY <2>3 DEF Walks
  <2> QED BY <2>1, <2>2, <2>4 DEF CacheMatchesKey
<1> QED BY <1>1, JobsInvCorrect, PTL

\* What replaces the results is the answer to the last search that was asked
\* for (setEntries takes the latest search's answer alone).
THEOREM LastSearchWinsHolds == Spec => LastSearchWins
<1> DEFINE Wins ==
  Found /\ results' # results =>
    ~ \E i \in DOMAIN jobs \cup DOMAIN replies :
        \/ i \in DOMAIN jobs /\ jobs[i].kind = "search"
        \/ i \in DOMAIN replies \ {1} /\ replies[i].kind = "found"
<1>1. JobsInv => Wins
  <2> SUFFICES ASSUME JobsInv, Found, results' # results
               PROVE  /\ \A i \in DOMAIN jobs : jobs[i].kind # "search"
                      /\ \A i \in DOMAIN replies \ {1} : replies[i].kind # "found"
    OBVIOUS
  <2>1. QueuesTyped /\ LatestIsLast(jobs, replies) BY DEF JobsInv, SearchInv
  <2>2. Deliver("found") /\ Head(replies).latest BY DEF Found, Accept
  <2>3. /\ 1 \in DOMAIN replies /\ Head(replies) = replies[1] /\ replies[1].kind = "found"
        /\ \A i \in DOMAIN replies : i \in Nat \ {0}
    BY <2>1, <2>2, DeliverFacts
  <2>4. \A i \in DOMAIN replies \ {1} : 1 < i BY <2>3
  <2> QED BY <2>1, <2>2, <2>3, <2>4 DEF LatestIsLast
<1>2. JobsInv /\ [Next]_vars => [Wins]_<<fileSearch, executor>> BY <1>1
<1> QED BY <1>2, JobsInvCorrect, PTL DEF Spec, LastSearchWins
=============================================================================
