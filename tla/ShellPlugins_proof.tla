------------------------- MODULE ShellPlugins_proof -------------------------
(***************************************************************************)
(* Proofs about the other plugins, as they run in ShellPlugins. Lyrics,    *)
(* for any songs and delays: the word highlighted is the one at the        *)
(* position, and lyrics that are shown are those of the track fetched.     *)
(* Audio devices, for any nodes: what is shown is what PipeWire last said. *)
(* Keyboard locks, for any keyboards: what is shown is the lock, unless a  *)
(* press of a keyboard without a LED is open to doubt. Clipboard rows, for *)
(* any rows and queries: what is found is up to date, and only a bump of   *)
(* the leader leaves the order. Sound cards, for any devices, ids and      *)
(* changes: once all is handled the cards shown are those PipeWire has, as *)
(* it has them. Colour roles, for any variants, hues and contrasts: no     *)
(* role's tone waits for itself.                                           *)
(***************************************************************************)
EXTENDS ShellPlugins, QueueTheorems, FiniteSetTheorems, WellFoundedInduction, TLAPS

-----------------------------------------------------------------------------
(* Lyrics: the inductive invariant.                                        *)

Now   == position + offset
Shown == Boundaries[wordLines]

\* What the scheduler knows of the boundaries passed.  Without a timer there is
\* nothing more to come; until a timer fires nothing more is passed.
Scheduled ==
  /\ farAhead => timer = None
  /\ timer # None => playing /\ Shown # {}
  /\ Shown # {} => boundaryPos \subseteq Passed(Shown, Now) /\ highlight = WordAt(boundaryPos)
  /\ Shown # {} /\ timer = None /\ ~farAhead =>
       boundaryPos = Passed(Shown, Now) /\ (playing => boundaryPos = Shown)
  /\ timer \notin {None, 0} =>
       boundaryPos = Passed(Shown, Now) /\ \A k \in Shown \ boundaryPos : k.time >= Now + timer

\* What the state of the provider says about the track last fetched.
Provided ==
  /\ wordLines = lyrics
  /\ state = "Loading" => fetched \in requests
  /\ ~overtaken => /\ state = "Ready" => lyrics = fetched
                   /\ state = "NotFound" => fetched \in Tracks /\ Songs[fetched].kind = "none"

LyricsInv == LyricsTypeOK /\ Scheduled /\ Provided

-----------------------------------------------------------------------------
(* Lyrics: the boundaries passed and the next one.                         *)

LEMMA LyricsBounds ==
  /\ None \notin Tracks /\ None \notin Nat /\ Offsets \subseteq Int /\ Offsets # {}
  /\ MaxDelay \in Nat /\ MaxPosition \in Nat /\ MaxActs \in Nat
  /\ \A t \in Tracks : \A b \in Boundaries[t] : b.time \in Int
  /\ Boundaries[None] = {}
BY LyricsAssumption DEF Boundaries

LEMMA SmallestOf ==
  ASSUME NEW S \in SUBSET Nat, S # {}
  PROVE  Min(S) \in S /\ \A y \in S : Min(S) <= y
<1>1. PICK x \in S : \A y \in S : x <= y BY LeastExists
<1> QED BY <1>1 DEF Min

\* The song of a track, or no song at all.
Song(b) == \E t \in Tracks \cup {None} : b = Boundaries[t]

LEMMA SongFacts ==
  ASSUME NEW b, Song(b)
  PROVE  /\ b \subseteq UNION {Boundaries[t] : t \in Tracks}
         /\ \A k \in b : k.time \in Int
BY LyricsBounds DEF Song

\* What is ahead, once something is.
LEMMA AheadFacts ==
  ASSUME NEW b, Song(b), NEW p \in Int, Passed(b, p) # b
  PROVE  /\ Ahead(b, p) \in Nat \ {0}
         /\ \A k \in b \ Passed(b, p) : k.time >= p + Ahead(b, p)
<1> DEFINE S == {k.time - p : k \in b \ Passed(b, p)}
<1>1. \A k \in b \ Passed(b, p) : k.time \in Int /\ k.time - p \in Nat \ {0}
  BY SongFacts DEF Passed
<1>2. S \in SUBSET Nat /\ S # {} /\ 0 \notin S BY <1>1 DEF Passed
<1>3. Min(S) \in S /\ \A y \in S : Min(S) <= y BY <1>2, SmallestOf
<1>4. Ahead(b, p) = Min(S) BY DEF Ahead
<1>5. Ahead(b, p) \in Nat \ {0} BY <1>2, <1>3, <1>4
<1>6. ASSUME NEW k \in b \ Passed(b, p) PROVE k.time >= p + Ahead(b, p)
  <2>1. k.time - p \in S /\ k.time \in Int BY <1>1
  <2>2. Ahead(b, p) <= k.time - p BY <1>3, <1>4, <2>1
  <2> QED BY <1>5, <2>1, <2>2
<1> QED BY <1>5, <1>6

\* Where scheduleNext and reschedule leave the timer.
TimerFor(b, p, plays) ==
  /\ timer' \in 0 .. MaxDelay \cup {None} /\ farAhead' \in BOOLEAN
  /\ farAhead' => timer' = None
  /\ timer' # None => plays /\ b # {} /\ timer' # 0
  /\ timer' = None /\ ~farAhead' /\ plays => Passed(b, p) = b
  /\ timer' # None => \A k \in b \ Passed(b, p) : k.time >= p + timer'

LEMMA ScheduleNextFacts ==
  ASSUME NEW b, Song(b), NEW p \in Int, ScheduleNext(b, p)
  PROVE  boundaryPos' = Passed(b, p) /\ TimerFor(b, p, TRUE)
<1>1. boundaryPos' = Passed(b, p) BY DEF ScheduleNext
<1>2. CASE Passed(b, p) = b
  BY <1>2 DEF ScheduleNext, TimerFor
<1>3. CASE Passed(b, p) # b
  <2>1. /\ Ahead(b, p) \in Nat \ {0} /\ MaxDelay \in Nat /\ None \notin Nat
        /\ \A k \in b \ Passed(b, p) : k.time >= p + Ahead(b, p)
    BY <1>3, AheadFacts, LyricsBounds
  <2>2. /\ Ahead(b, p) > MaxDelay => farAhead' = TRUE
        /\ ~(Ahead(b, p) > MaxDelay) => farAhead' = FALSE
    BY <1>3, <2>1 DEF ScheduleNext
  <2>3. timer' = IF Ahead(b, p) > MaxDelay THEN None ELSE Ahead(b, p)
    BY <1>3 DEF ScheduleNext
  <2>4. b # {} BY <1>3 DEF Passed
  <2>5. CASE Ahead(b, p) > MaxDelay
    <3>1. timer' = None BY <2>3, <2>5
    <3>2. farAhead' = TRUE BY <2>2, <2>5
    <3>3. timer' \in 0 .. MaxDelay \cup {None} BY <3>1
    <3> QED BY <1>1, <3>1, <3>2, <3>3 DEF TimerFor
  <2>6. CASE ~(Ahead(b, p) > MaxDelay)
    <3>1. timer' = Ahead(b, p) BY <2>3, <2>6
    <3>2. farAhead' = FALSE BY <2>2, <2>6
    <3>3. Ahead(b, p) \in 1 .. MaxDelay /\ Ahead(b, p) # None BY <2>1, <2>6
    <3>4. timer' \in 0 .. MaxDelay /\ timer' # 0 /\ timer' # None BY <3>1, <3>3
    <3>5. \A k \in b \ Passed(b, p) : k.time >= p + timer' BY <2>1, <3>1
    <3> QED BY <1>1, <2>4, <3>2, <3>4, <3>5 DEF TimerFor
  <2> QED BY <2>5, <2>6
<1> QED BY <1>1, <1>2, <1>3

LEMMA RescheduleFacts ==
  ASSUME NEW b, Song(b), NEW p \in Int, NEW plays \in BOOLEAN, Reschedule(b, p, plays)
  PROVE  /\ timer' \in 0 .. MaxDelay \cup {None} /\ farAhead' \in BOOLEAN
         /\ b = {} => timer' = None /\ ~farAhead' /\ UNCHANGED <<boundaryPos, highlight>>
         /\ b # {} => /\ boundaryPos' = Passed(b, p) /\ highlight' = WordAt(Passed(b, p))
                      /\ TimerFor(b, p, plays)
<1>1. CASE b = {} BY <1>1 DEF Reschedule
<1>2. CASE b # {} /\ plays
  <2>1. ScheduleNext(b, p) /\ highlight' = WordAt(Passed(b, p)) BY <1>2 DEF Reschedule
  <2> QED BY <1>2, <2>1, ScheduleNextFacts DEF TimerFor
<1>3. CASE b # {} /\ ~plays BY <1>3 DEF Reschedule, TimerFor
<1> QED BY <1>1, <1>2, <1>3

-----------------------------------------------------------------------------
(* Lyrics: every step keeps the invariant.                                 *)

LyricsTimes == UNION {Boundaries[t] : t \in Tracks}

\* What the types say of the scheduler's variables.
SchedulerTyped ==
  /\ wordLines \in Tracks \cup {None} /\ boundaryPos \subseteq LyricsTimes
  /\ position \in 0 .. MaxPosition /\ offset \in Offsets /\ playing \in BOOLEAN
  /\ timer \in 0 .. MaxDelay \cup {None} /\ farAhead \in BOOLEAN

ProviderTyped ==
  /\ state \in {"Idle", "Loading", "Ready", "NotFound", "Error"}
  /\ {lyrics, fetched} \subseteq Tracks \cup {None}
  /\ overtaken \in BOOLEAN /\ requests \subseteq Tracks /\ cached \subseteq Tracks
  /\ acts \in 0 .. MaxActs

LEMMA LyricsTyped == LyricsTypeOK <=> SchedulerTyped /\ ProviderTyped
BY DEF LyricsTypeOK, SchedulerTyped, ProviderTyped, LyricsTimes

LEMMA NowTyped ==
  ASSUME SchedulerTyped
  PROVE  Now \in Int /\ Song(Shown)
BY LyricsBounds DEF SchedulerTyped, Now, Shown, Song

LEMMA Rescheduled ==
  ASSUME SchedulerTyped,
         wordLines' \in Tracks \cup {None}, position' \in 0 .. MaxPosition,
         offset' \in Offsets, playing' \in BOOLEAN,
         Reschedule(Boundaries[wordLines'], position' + offset', playing')
  PROVE  SchedulerTyped' /\ Scheduled'
<1>1. /\ Shown' = Boundaries[wordLines'] /\ Now' = position' + offset'
      /\ Now' \in Int /\ Song(Shown')
  BY LyricsBounds DEF Shown, Now, Song
<1>2. /\ timer' \in 0 .. MaxDelay \cup {None} /\ farAhead' \in BOOLEAN
      /\ Shown' = {} => timer' = None /\ ~farAhead' /\ UNCHANGED <<boundaryPos, highlight>>
      /\ Shown' # {} => /\ boundaryPos' = Passed(Shown', Now')
                        /\ highlight' = WordAt(Passed(Shown', Now'))
                        /\ TimerFor(Shown', Now', playing')
  BY <1>1, RescheduleFacts
<1>3. boundaryPos' \subseteq LyricsTimes
  BY <1>1, <1>2, SongFacts DEF SchedulerTyped, LyricsTimes, Passed
<1>4. SchedulerTyped' BY <1>2, <1>3 DEF SchedulerTyped, LyricsTimes
<1>5. Scheduled'
  <2>1. CASE Shown' = {} BY <1>2, <2>1 DEF Scheduled
  <2>2. CASE Shown' # {} BY <1>2, <2>2 DEF Scheduled, TimerFor
  <2> QED BY <2>1, <2>2
<1> QED BY <1>4, <1>5

\* clear and reset leave nothing scheduled.
LEMMA Emptied ==
  ASSUME wordLines' \in Tracks \cup {None}, Boundaries[wordLines'] = {}, boundaryPos' = {},
         timer' = None, farAhead' = FALSE, position' \in 0 .. MaxPosition,
         offset' \in Offsets, playing' \in BOOLEAN
  PROVE  SchedulerTyped' /\ Scheduled'
BY DEF SchedulerTyped, LyricsTimes, Scheduled, Shown

\* Another word or a later time leaves what was passed passed.
LEMMA PassedGrows ==
  ASSUME NEW b, Song(b), NEW p \in Int
  PROVE  Passed(b, p) \subseteq Passed(b, p + 1)
BY SongFacts DEF Passed

LEMMA TickKeeps == ASSUME SchedulerTyped, Scheduled, Tick PROVE SchedulerTyped' /\ Scheduled'
<1>1. /\ playing /\ position' = position + 1 /\ position' \in 0 .. MaxPosition
      /\ timer' = IF timer \in {None, 0} THEN timer ELSE timer - 1
      /\ wordLines' = wordLines /\ boundaryPos' = boundaryPos /\ highlight' = highlight
      /\ offset' = offset /\ playing' = playing /\ farAhead' = farAhead
  BY LyricsBounds DEF Tick, SchedulerTyped
<1>2. /\ Now \in Int /\ Song(Shown) /\ Shown' = Shown /\ Now' = Now + 1
  <2>1. Shown' = Shown BY <1>1 DEF Shown
  <2>2. position \in Int /\ offset \in Int BY LyricsBounds DEF SchedulerTyped
  <2>3. Now' = Now + 1 BY <1>1, <2>2 DEF Now
  <2> QED BY <2>1, <2>3, NowTyped
<1>3. Passed(Shown, Now) \subseteq Passed(Shown, Now') /\ Passed(Shown, Now') \subseteq Shown
  BY <1>2, PassedGrows DEF Passed
<1>4. /\ timer' \in 0 .. MaxDelay \cup {None} /\ (timer' = None <=> timer = None)
      /\ timer' \notin {None, 0} =>
           timer \notin {None, 0} /\ timer \in Nat /\ timer' \in Nat \ {0} /\ timer = timer' + 1
  BY <1>1, LyricsBounds DEF SchedulerTyped
<1>5. SchedulerTyped' BY <1>1, <1>4 DEF SchedulerTyped, LyricsTimes
<1>6. timer' \notin {None, 0} =>
        boundaryPos = Passed(Shown, Now') /\ \A k \in Shown \ boundaryPos : k.time >= Now' + timer'
  <2> SUFFICES ASSUME timer' \notin {None, 0}
               PROVE  boundaryPos = Passed(Shown, Now')
                      /\ \A k \in Shown \ boundaryPos : k.time >= Now' + timer'
    OBVIOUS
  <2>1. boundaryPos = Passed(Shown, Now) /\ \A k \in Shown \ boundaryPos : k.time >= Now + timer
    BY <1>4 DEF Scheduled
  <2>2. \A k \in Shown : k.time \in Int BY <1>2, SongFacts
  <2>3. \A k \in Shown \ boundaryPos : k.time >= Now' + timer' /\ ~(k.time <= Now')
    BY <1>2, <1>4, <2>1, <2>2
  <2>4. Passed(Shown, Now') \subseteq boundaryPos BY <2>3 DEF Passed
  <2> QED BY <1>3, <2>1, <2>3, <2>4
<1>7. Scheduled' BY <1>1, <1>2, <1>3, <1>4, <1>6 DEF Scheduled
<1> QED BY <1>5, <1>7

\* The timer has fired: the last word passed since is highlighted.
LEMMA OnWordTimerKeeps ==
  ASSUME SchedulerTyped, Scheduled, OnWordTimer PROVE SchedulerTyped' /\ Scheduled'
<1>1. /\ timer = 0 /\ playing /\ ScheduleNext(Shown, Now)
      /\ highlight' = IF Passed(Shown, Now) \ boundaryPos # {}
                      THEN WordAt(Passed(Shown, Now)) ELSE highlight
      /\ wordLines' = wordLines /\ position' = position /\ offset' = offset
      /\ playing' = playing
  BY DEF OnWordTimer, Shown, Now
<1>2. Now \in Int /\ Song(Shown) /\ Now' = Now /\ Shown' = Shown
  BY <1>1, NowTyped DEF Now, Shown
<1>3. boundaryPos' = Passed(Shown, Now) /\ TimerFor(Shown, Now, TRUE)
  BY <1>1, <1>2, ScheduleNextFacts
<1>4. Shown # {} /\ boundaryPos \subseteq Passed(Shown, Now) /\ highlight = WordAt(boundaryPos)
  BY <1>1, LyricsBounds DEF Scheduled
<1>5. highlight' = WordAt(Passed(Shown, Now))
  <2>1. CASE Passed(Shown, Now) \ boundaryPos # {} BY <1>1, <2>1
  <2>2. CASE Passed(Shown, Now) \ boundaryPos = {}
    <3>1. boundaryPos = Passed(Shown, Now) BY <1>4, <2>2
    <3> QED BY <1>1, <1>4, <2>2, <3>1
  <2> QED BY <2>1, <2>2
<1>6. boundaryPos' \subseteq LyricsTimes BY <1>2, <1>3, SongFacts DEF LyricsTimes, Passed
<1>7. SchedulerTyped' BY <1>1, <1>3, <1>6 DEF SchedulerTyped, TimerFor, LyricsTimes
<1>8. Scheduled' BY <1>1, <1>2, <1>3, <1>4, <1>5 DEF Scheduled, TimerFor
<1> QED BY <1>7, <1>8

\* What a fetch and a reply do to the two halves.
LEMMA Applied ==
  ASSUME SchedulerTyped, NEW t \in Tracks, Apply(t), UNCHANGED <<position, offset, playing>>
  PROVE  /\ SchedulerTyped' /\ Scheduled'
         /\ state' = "Ready" /\ lyrics' = t /\ wordLines' = t
<1>1. /\ wordLines' = t /\ position' = position /\ offset' = offset /\ playing' = playing
      /\ Reschedule(Boundaries[t], position + offset, playing)
  BY DEF Apply, SetWordLines
<1> QED BY <1>1, Rescheduled DEF SchedulerTyped, Apply

LEMMA UnappliedKeeps ==
  ASSUME SchedulerTyped, Scheduled, Unapplied, UNCHANGED <<position, offset, playing>>
  PROVE  SchedulerTyped' /\ Scheduled'
BY DEF SchedulerTyped, Scheduled, Unapplied, Shown, Now, LyricsTimes

LEMMA FetchFacts ==
  ASSUME ProviderTyped, NEW t \in Tracks, Fetch(t)
  PROVE  /\ fetched' = t /\ requests' \subseteq Tracks /\ overtaken' = FALSE
         /\ t \notin cached => t \in requests'
BY DEF Fetch, ProviderTyped

LEMMA ActFacts == ASSUME ProviderTyped, Act PROVE acts' \in 0 .. MaxActs
BY LyricsBounds DEF ProviderTyped, Act

LEMMA LyricsTogether ==
  ASSUME SchedulerTyped', ProviderTyped', Scheduled', Provided'
  PROVE  LyricsInv'
BY DEF LyricsInv, LyricsTypeOK, SchedulerTyped, ProviderTyped, LyricsTimes

LEMMA LyricsApart ==
  ASSUME LyricsInv PROVE SchedulerTyped /\ ProviderTyped /\ Scheduled /\ Provided
BY LyricsTyped DEF LyricsInv

LEMMA ChoosePlayerKeeps ==
  ASSUME LyricsInv, NEW t \in Tracks, ChoosePlayer(t)
  PROVE  LyricsInv'
<1>1. /\ SchedulerTyped /\ ProviderTyped /\ Scheduled /\ Provided
      /\ Act /\ Fetch(t) /\ UNCHANGED <<position, offset, playing, cached>>
  BY LyricsApart DEF ChoosePlayer
<1>2. acts' \in 0 .. MaxActs /\ fetched' = t /\ requests' \subseteq Tracks /\ overtaken' = FALSE
      /\ (t \notin cached => t \in requests')
  BY <1>1, ActFacts, FetchFacts
<1>3. CASE t \in cached
  <2>1. Apply(t) BY <1>3 DEF ChoosePlayer
  <2>2. /\ SchedulerTyped' /\ Scheduled'
        /\ state' = "Ready" /\ lyrics' = t /\ wordLines' = t
    BY <1>1, <2>1, Applied
  <2>3. ProviderTyped' BY <1>1, <1>2, <2>2 DEF ProviderTyped
  <2>4. Provided' BY <1>2, <2>2 DEF Provided
  <2> QED BY <2>2, <2>3, <2>4, LyricsTogether
<1>4. CASE t \notin cached
  <2>1. state' = "Loading" /\ Unapplied BY <1>4 DEF ChoosePlayer
  <2>2. SchedulerTyped' /\ Scheduled' BY <1>1, <2>1, UnappliedKeeps
  <2>3. ProviderTyped' BY <1>1, <1>2, <2>1 DEF ProviderTyped, Unapplied
  <2>4. Provided' BY <1>1, <1>2, <1>4, <2>1 DEF Provided, Unapplied
  <2> QED BY <2>2, <2>3, <2>4, LyricsTogether
<1> QED BY <1>3, <1>4

LEMMA TrackChangesKeeps ==
  ASSUME LyricsInv, NEW t \in Tracks, TrackChanges(t)
  PROVE  LyricsInv'
<1>1. /\ SchedulerTyped /\ ProviderTyped
      /\ Act /\ Fetch(t) /\ position' = 0 /\ UNCHANGED <<offset, playing, cached>>
  BY LyricsApart DEF TrackChanges
<1>2. acts' \in 0 .. MaxActs /\ fetched' = t /\ requests' \subseteq Tracks /\ overtaken' = FALSE
      /\ (t \notin cached => t \in requests')
  BY <1>1, ActFacts, FetchFacts
<1>3. /\ position' \in 0 .. MaxPosition /\ offset' \in Offsets /\ offset' \in Int
      /\ playing' \in BOOLEAN /\ 0 + offset' = offset'
  BY <1>1, LyricsBounds DEF SchedulerTyped
<1>4. CASE t \in cached
  <2>1. state' = "Ready" /\ lyrics' = t /\ wordLines' = t BY <1>4 DEF TrackChanges
  <2>2. SchedulerTyped' /\ Scheduled'
    <3>1. CASE Boundaries[t] # {}
      <4>1. Reschedule(Boundaries[wordLines'], position' + offset', playing')
        BY <1>1, <1>3, <1>4, <2>1, <3>1 DEF TrackChanges
      <4> QED BY <1>1, <1>3, <2>1, <4>1, Rescheduled
    <3>2. CASE Boundaries[t] = {}
      <4>1. boundaryPos' = {} /\ timer' = None /\ farAhead' = FALSE
        BY <1>4, <3>2 DEF TrackChanges
      <4> QED BY <1>3, <2>1, <3>2, <4>1, Emptied
    <3> QED BY <3>1, <3>2
  <2>3. ProviderTyped' BY <1>1, <1>2, <2>1 DEF ProviderTyped
  <2>4. Provided' BY <1>2, <2>1 DEF Provided
  <2> QED BY <2>2, <2>3, <2>4, LyricsTogether
<1>5. CASE t \notin cached
  <2>1. /\ state' = "Loading" /\ lyrics' = None /\ wordLines' = None
        /\ boundaryPos' = {} /\ timer' = None /\ farAhead' = FALSE
    BY <1>5 DEF TrackChanges
  <2>2. SchedulerTyped' /\ Scheduled' BY <1>3, <2>1, LyricsBounds, Emptied
  <2>3. ProviderTyped' BY <1>1, <1>2, <2>1 DEF ProviderTyped
  <2>4. Provided' BY <1>2, <1>5, <2>1 DEF Provided
  <2> QED BY <2>2, <2>3, <2>4, LyricsTogether
<1> QED BY <1>4, <1>5

LEMMA ClearedKeeps == ASSUME LyricsInv, Cleared PROVE LyricsInv'
<1>1. /\ SchedulerTyped /\ ProviderTyped /\ Act
      /\ state' = "Idle" /\ lyrics' = None /\ wordLines' = None /\ fetched' = None
      /\ boundaryPos' = {} /\ timer' = None /\ farAhead' = FALSE /\ overtaken' = FALSE
      /\ UNCHANGED <<position, offset, playing, requests, cached>>
  BY LyricsApart DEF Cleared
<1>2. SchedulerTyped' /\ Scheduled'
  <2>1. /\ position' \in 0 .. MaxPosition /\ offset' \in Offsets /\ playing' \in BOOLEAN
    BY <1>1 DEF SchedulerTyped
  <2> QED BY <1>1, <2>1, LyricsBounds, Emptied
<1>3. ProviderTyped' BY <1>1, ActFacts DEF ProviderTyped
<1>4. Provided' BY <1>1 DEF Provided
<1> QED BY <1>2, <1>3, <1>4, LyricsTogether

LEMMA ReplyKeeps ==
  ASSUME LyricsInv, NEW t \in Tracks, Reply(t)
  PROVE  LyricsInv'
<1>1. /\ SchedulerTyped /\ ProviderTyped /\ Scheduled /\ Provided
      /\ requests' = requests \ {t} /\ fetched' = fetched /\ acts' = acts
      /\ UNCHANGED <<position, offset, playing>>
  BY LyricsApart DEF Reply
<1>2. overtaken' \in BOOLEAN /\ (~overtaken' => t = fetched)
  BY <1>1 DEF Reply, ProviderTyped
<1>3. ASSUME Songs[t].kind # "none", Apply(t), cached' = cached \cup {t} PROVE LyricsInv'
  <2>1. /\ SchedulerTyped' /\ Scheduled'
        /\ state' = "Ready" /\ lyrics' = t /\ wordLines' = t
    BY <1>1, <1>3, Applied
  <2>2. ProviderTyped' BY <1>1, <1>2, <1>3, <2>1 DEF ProviderTyped
  <2>3. Provided' BY <1>1, <1>2, <2>1 DEF Provided
  <2> QED BY <2>1, <2>2, <2>3, LyricsTogether
<1>4. ASSUME Unapplied, cached' = cached,
             \/ state' = "NotFound" /\ Songs[t].kind = "none"
             \/ state' = "Error"
      PROVE  LyricsInv'
  <2>1. SchedulerTyped' /\ Scheduled' BY <1>1, <1>4, UnappliedKeeps
  <2>2. ProviderTyped' BY <1>1, <1>2, <1>4 DEF ProviderTyped, Unapplied
  <2>3. Provided' BY <1>1, <1>2, <1>4 DEF Provided, Unapplied
  <2> QED BY <2>1, <2>2, <2>3, LyricsTogether
<1> QED BY <1>3, <1>4 DEF Reply, NotFoundState

\* setPlayback and setOffsetMs.
LEMMA MovedKeeps ==
  ASSUME LyricsInv, Act, Moved,
         position' \in 0 .. MaxPosition, offset' \in Offsets, playing' \in BOOLEAN
  PROVE  LyricsInv'
<1>1. /\ SchedulerTyped /\ ProviderTyped /\ Provided
      /\ UNCHANGED <<state, lyrics, requests, cached, fetched, overtaken>>
      /\ wordLines' = wordLines
      /\ Reschedule(Boundaries[wordLines'], position' + offset', playing')
  BY LyricsApart DEF Moved, provider
<1>2. wordLines' \in Tracks \cup {None} BY <1>1 DEF SchedulerTyped
<1>3. SchedulerTyped' /\ Scheduled' BY <1>1, <1>2, Rescheduled
<1>4. ProviderTyped' BY <1>1, ActFacts DEF ProviderTyped
<1>5. Provided' BY <1>1 DEF Provided
<1> QED BY <1>3, <1>4, <1>5, LyricsTogether

LEMMA LyricsStep == ASSUME LyricsInv, LyricsNext PROVE LyricsInv'
<1>1. SchedulerTyped /\ ProviderTyped /\ Scheduled /\ Provided BY LyricsApart
<1>2. CASE \E t \in Tracks : ChoosePlayer(t) \/ TrackChanges(t) \/ Reply(t)
  BY <1>2, ChoosePlayerKeeps, TrackChangesKeeps, ReplyKeeps
<1>3. CASE Cleared BY <1>3, ClearedKeeps
<1>4. ASSUME NEW p \in 0 .. MaxPosition, NEW plays \in BOOLEAN, SetPlayback(p, plays)
      PROVE  LyricsInv'
  BY <1>1, <1>4, MovedKeeps DEF SetPlayback, SchedulerTyped
<1>5. ASSUME NEW o \in Offsets, SetOffsetMs(o) PROVE LyricsInv'
  BY <1>1, <1>5, MovedKeeps DEF SetOffsetMs, SchedulerTyped
<1>6. CASE Tick \/ OnWordTimer
  <2>1. SchedulerTyped' /\ Scheduled' BY <1>1, <1>6, TickKeeps, OnWordTimerKeeps
  <2>2. UNCHANGED <<wordLines, provider, acts>> BY <1>6 DEF Tick, OnWordTimer
  <2>3. ProviderTyped' BY <1>1, <2>2 DEF ProviderTyped, provider
  <2>4. Provided' BY <1>1, <2>2 DEF Provided, provider
  <2> QED BY <2>1, <2>3, <2>4, LyricsTogether
<1> QED BY <1>2, <1>3, <1>4, <1>5, <1>6 DEF LyricsNext

LEMMA LyricsStart == ASSUME LyricsInit PROVE LyricsInv
<1>1. offset \in Offsets /\ cached \subseteq Tracks
  BY LyricsBounds DEF LyricsInit, Initially
<1>2. SchedulerTyped
  <2>1. /\ wordLines = None /\ boundaryPos = {} /\ position = 0 /\ timer = None
        /\ playing = FALSE /\ farAhead = FALSE
    BY DEF LyricsInit
  <2>2. 0 \in 0 .. MaxPosition BY LyricsBounds
  <2> QED BY <1>1, <2>1, <2>2 DEF SchedulerTyped
<1>3. ProviderTyped
  <2>1. acts \in 0 .. MaxActs BY LyricsBounds DEF LyricsInit
  <2> QED BY <1>1, <2>1 DEF LyricsInit, ProviderTyped
<1>4. Scheduled BY LyricsBounds DEF LyricsInit, Scheduled, Shown
<1>5. Provided BY DEF LyricsInit, Provided
<1> QED BY <1>2, <1>3, <1>4, <1>5, LyricsTyped DEF LyricsInv

\* A step of another plugin leaves the lyrics alone.
LEMMA LyricsRun == [Next]_vars => [LyricsNext]_lyricsVars
BY DEF Next, vars, input, audio

LEMMA LyricsStill == ASSUME LyricsInv, UNCHANGED lyricsVars PROVE LyricsInv'
BY DEF LyricsInv, LyricsTypeOK, Scheduled, Provided, Shown, Now, lyricsVars, scheduler, provider

\* The inductive invariant of provider and scheduler.
THEOREM LyricsInvCorrect == Spec => []LyricsInv
<1>1. Init => LyricsInv BY LyricsStart DEF Init
<1>2. LyricsInv /\ [Next]_vars => LyricsInv' BY LyricsStep, LyricsRun, LyricsStill
<1> QED BY <1>1, <1>2, PTL DEF Spec

\* onWordTimer, seekTo and scheduleNext keep the highlight at the position's
\* word between them, for any song, any seeks, shifts and pauses.
THEOREM HighlightFollowsHolds == Spec => []HighlightFollows
<1>1. LyricsInv => HighlightFollows
  BY DEF LyricsInv, HighlightFollows, Scheduled, Provided, Shown, Now
<1> QED BY <1>1, LyricsInvCorrect, PTL

\* The provider's spinner ends with the reply to the last fetch, and its track is
\* shown, whatever replies to tracks left come before; the last reply of all may
\* be to such a track, and stays.
THEOREM LyricsOfTrackHolds == Spec => []LyricsOfTrack
<1>1. LyricsInv => LyricsOfTrack BY DEF LyricsInv, LyricsOfTrack, Provided
<1> QED BY <1>1, LyricsInvCorrect, PTL

-----------------------------------------------------------------------------
(* AudioDevices: the inductive invariant.                                  *)

NodeIds == Nat \ {0}

NodeMessages ==
  [kind : {"node"}, node : NodeIds, class : Classes]
    \cup [kind : {"node info"}, node : NodeIds, class : Classes, version : Nat]
    \cup [kind : {"node removed"}, node : NodeIds]

\* Message j of q is the last about node n; or there is none.
LastAbout(q, n, j) ==
  j \in DOMAIN q /\ q[j].node = n /\ \A k \in DOMAIN q : k > j => q[k].node # n
SilentAbout(q, n) == \A k \in DOMAIN q : q[k].node # n

\* A node that exists has its last report on the way, or recorded.
Reported(n) ==
  \/ \E j \in DOMAIN sent : /\ LastAbout(sent, n, j)
                            /\ sent[j].kind = "node info"
                            /\ sent[j].version = nodeGraph[n].version
                            /\ sent[j].class = nodeGraph[n].class
  \/ /\ SilentAbout(sent, n)
     /\ n \in DOMAIN nodes => /\ nodes[n].version = nodeGraph[n].version
                              /\ nodes[n].class = nodeGraph[n].class

\* The end of a node that is gone is on the way, or recorded.
Retired(n) ==
  \/ \E j \in DOMAIN sent : LastAbout(sent, n, j) /\ sent[j].kind = "node removed"
  \/ SilentAbout(sent, n) /\ n \notin DOMAIN nodes

Known == 1 .. appeared

DevicesInv ==
  /\ DevicesTypeOK
  /\ appeared \in Nat /\ infos \in Nat /\ DOMAIN nodeGraph \subseteq Known
  /\ sent \in Seq(NodeMessages) /\ \A j \in DOMAIN sent : sent[j].node \in Known
  /\ \A n \in Known : IF n \in DOMAIN nodeGraph THEN Reported(n) ELSE Retired(n)
  /\ \/ topologyChanged
     \/ \E n \in DOMAIN nodes : nodes[n].dirty
     \/ devices = Snapshot(nodes)

-----------------------------------------------------------------------------
(* AudioDevices: the last message about a node.                            *)

LEMMA NodeRecords ==
  \A m \in NodeMessages :
    /\ m.node \in NodeIds /\ m.kind \in {"node", "node info", "node removed"}
    /\ m.kind # "node removed" => m.class \in Classes
    /\ m.kind = "node info" => m.version \in Nat
BY DEF NodeMessages

LEMMA LastAppended ==
  ASSUME NEW q \in Seq(NodeMessages), NEW e \in NodeMessages
  PROVE  /\ LastAbout(Append(q, e), e.node, Len(q) + 1) /\ Append(q, e)[Len(q) + 1] = e
         /\ \A n : n # e.node =>
              /\ \A j : LastAbout(q, n, j) => /\ LastAbout(Append(q, e), n, j)
                                              /\ Append(q, e)[j] = q[j]
              /\ SilentAbout(q, n) => SilentAbout(Append(q, e), n)
<1> DEFINE r == Append(q, e)
<1>1. /\ \A j \in DOMAIN q : j \in DOMAIN r /\ r[j] = q[j]
      /\ Len(q) + 1 \in DOMAIN r /\ r[Len(q) + 1] = e
      /\ \A k \in DOMAIN r : k \in DOMAIN q \/ k = Len(q) + 1
      /\ Len(q) \in Nat /\ DOMAIN q = 1 .. Len(q)
  BY Appended
<1> HIDE DEF r
<1>2. \A k \in DOMAIN r : ~(k > Len(q) + 1) BY <1>1
<1>3. LastAbout(r, e.node, Len(q) + 1) BY <1>1, <1>2 DEF LastAbout
<1>4. ASSUME NEW n, n # e.node
      PROVE  /\ \A j : LastAbout(q, n, j) => LastAbout(r, n, j) /\ r[j] = q[j]
             /\ SilentAbout(q, n) => SilentAbout(r, n)
  BY <1>1, <1>4 DEF LastAbout, SilentAbout
<1> QED BY <1>1, <1>3, <1>4 DEF r

LEMMA LastTaken ==
  ASSUME NEW q \in Seq(NodeMessages), q # <<>>, NEW n
  PROVE  /\ Head(q) \in NodeMessages /\ Tail(q) \in Seq(NodeMessages)
         /\ Head(q) = q[1] /\ 1 \in DOMAIN q
         /\ \A j \in DOMAIN Tail(q) : j + 1 \in DOMAIN q /\ Tail(q)[j] = q[j + 1]
         /\ \A j : LastAbout(q, n, j) =>
              \/ j = 1 /\ SilentAbout(Tail(q), n)
              \/ /\ j - 1 \in DOMAIN Tail(q) /\ LastAbout(Tail(q), n, j - 1)
                 /\ Tail(q)[j - 1] = q[j]
         /\ SilentAbout(q, n) => SilentAbout(Tail(q), n) /\ Head(q).node # n
<1> DEFINE r == Tail(q)
<1>1. /\ r \in Seq(NodeMessages) /\ Head(q) \in NodeMessages
      /\ 1 \in DOMAIN q /\ Head(q) = q[1]
      /\ \A j \in DOMAIN r : j + 1 \in DOMAIN q /\ r[j] = q[j + 1]
      /\ \A j \in DOMAIN q : j = 1 \/ (j - 1 \in DOMAIN r /\ r[j - 1] = q[j])
      /\ DOMAIN r \subseteq Nat \ {0} /\ DOMAIN q \subseteq Nat \ {0}
  BY Popped
<1> HIDE DEF r
<1>2. ASSUME NEW j, LastAbout(q, n, j)
      PROVE  \/ j = 1 /\ SilentAbout(r, n)
             \/ j - 1 \in DOMAIN r /\ LastAbout(r, n, j - 1) /\ r[j - 1] = q[j]
  <2>1. j \in DOMAIN q /\ q[j].node = n /\ \A k \in DOMAIN q : k > j => q[k].node # n
    BY <1>2 DEF LastAbout
  <2>2. \A k \in DOMAIN r : k + 1 > 1 /\ (k > j - 1 => k + 1 > j) BY <1>1, <2>1
  <2>3. CASE j = 1 BY <1>1, <2>1, <2>2, <2>3 DEF SilentAbout
  <2>4. CASE j # 1
    <3>1. j - 1 \in DOMAIN r /\ r[j - 1] = q[j] BY <1>1, <2>1, <2>4
    <3>2. \A k \in DOMAIN r : k + 1 \in DOMAIN q /\ r[k] = q[k + 1] BY <1>1
    <3>3. \A k \in DOMAIN r : k > j - 1 => r[k].node # n BY <2>1, <2>2, <3>2
    <3> QED BY <2>1, <3>1, <3>3 DEF LastAbout
  <2> QED BY <2>3, <2>4
<1>3. SilentAbout(q, n) => SilentAbout(r, n) /\ Head(q).node # n BY <1>1 DEF SilentAbout
<1> QED BY <1>1, <1>2, <1>3 DEF r

-----------------------------------------------------------------------------
(* AudioDevices: every step keeps the invariant.                           *)

\* What PipeWire's steps leave alone.
Followed == /\ DevicesTypeOK /\ appeared \in Nat /\ infos \in Nat
            /\ DOMAIN nodeGraph \subseteq Known
            /\ sent \in Seq(NodeMessages) /\ \A j \in DOMAIN sent : sent[j].node \in Known
Told     == \A n \in Known : IF n \in DOMAIN nodeGraph THEN Reported(n) ELSE Retired(n)
Shows    == \/ topologyChanged
            \/ \E n \in DOMAIN nodes : nodes[n].dirty
            \/ devices = Snapshot(nodes)

LEMMA DevicesParts == DevicesInv <=> Followed /\ Told /\ Shows
BY DEF DevicesInv, Followed, Told, Shows

LEMMA DevicesTogether == ASSUME Followed', Told', Shows' PROVE DevicesInv'
BY DEF DevicesInv, Followed, Told, Shows, Reported, Retired, Known

\* Another node's message leaves what is told of node n.
LEMMA ToldKept ==
  ASSUME Followed, NEW e \in NodeMessages, sent' = Append(sent, e), nodes' = nodes,
         NEW n, n # e.node
  PROVE  /\ Reported(n) /\ nodeGraph'[n] = nodeGraph[n] => Reported(n)'
         /\ Retired(n) => Retired(n)'
<1>1. /\ \A j : LastAbout(sent, n, j) => LastAbout(sent', n, j) /\ sent'[j] = sent[j]
      /\ SilentAbout(sent, n) => SilentAbout(sent', n)
      /\ \A j : LastAbout(sent, n, j) => j \in DOMAIN sent
  BY LastAppended DEF Followed, LastAbout
<1>2. Retired(n) => Retired(n)' BY <1>1 DEF Retired, LastAbout
<1>3. Reported(n) /\ nodeGraph'[n] = nodeGraph[n] => Reported(n)' BY <1>1 DEF Reported, LastAbout
<1> QED BY <1>2, <1>3

\* A node's own message becomes the last about it.
LEMMA ToldNow ==
  ASSUME Followed, NEW e \in NodeMessages, sent' = Append(sent, e)
  PROVE  /\ e.kind = "node removed" => Retired(e.node)'
         /\ /\ e.kind = "node info"
            /\ e.class = nodeGraph'[e.node].class /\ e.version = nodeGraph'[e.node].version
            => Reported(e.node)'
<1>1. PICK j \in Nat : LastAbout(sent', e.node, j) /\ sent'[j] = e
  <2>1. Len(sent) \in Nat BY LenProperties DEF Followed
  <2> QED BY <2>1, LastAppended DEF Followed
<1>2. e.kind = "node removed" => Retired(e.node)' BY <1>1 DEF Retired, LastAbout
<1>3. /\ e.kind = "node info"
      /\ e.class = nodeGraph'[e.node].class /\ e.version = nodeGraph'[e.node].version
      => Reported(e.node)'
  BY <1>1 DEF Reported, LastAbout
<1> QED BY <1>2, <1>3

LEMMA SentGrows ==
  ASSUME Followed, NEW e \in NodeMessages, sent' = Append(sent, e), e.node \in Known
  PROVE  sent' \in Seq(NodeMessages) /\ \A j \in DOMAIN sent' : sent'[j].node \in Known
<1>1. sent \in Seq(NodeMessages) /\ \A j \in DOMAIN sent : sent[j].node \in Known
  BY DEF Followed
<1>2. /\ sent' \in Seq(NodeMessages)
      /\ \A j \in DOMAIN sent : j \in DOMAIN sent' /\ sent'[j] = sent[j]
      /\ sent'[Len(sent) + 1] = e
      /\ \A j \in DOMAIN sent' : j \in DOMAIN sent \/ j = Len(sent) + 1
  BY <1>1, Appended
<1> QED BY <1>1, <1>2

LEMMA NodeChangesKeeps ==
  ASSUME DevicesInv, NEW n \in DOMAIN nodeGraph, NEW c \in Classes, NodeChanges(n, c)
  PROVE  DevicesInv'
<1> DEFINE e == Info(n, c, 1 + infos')
<1>1. /\ Followed /\ Told /\ Shows
      /\ infos' = infos + 1 /\ sent' = Append(sent, e)
      /\ nodeGraph' = [nodeGraph EXCEPT ![n] = [class |-> c, version |-> 1 + infos',
                                                announced |-> @.announced]]
      /\ appeared' = appeared /\ nodes' = nodes /\ topologyChanged' = topologyChanged
      /\ devices' = devices
  BY DevicesParts DEF NodeChanges, followed
<1>2. /\ n \in Known /\ n \in NodeIds /\ infos' \in Nat /\ 1 + infos' \in Nat
  BY <1>1 DEF Followed, Known, NodeIds
<1>3. /\ e \in NodeMessages /\ e.node = n /\ e.kind = "node info"
      /\ e.class = c /\ e.version = 1 + infos'
  BY <1>2 DEF Info, NodeMessages
<1> HIDE DEF e
<1>4. /\ DOMAIN nodeGraph' = DOMAIN nodeGraph
      /\ \A m \in DOMAIN nodeGraph : m # n => nodeGraph'[m] = nodeGraph[m]
      /\ nodeGraph'[n].class = c /\ nodeGraph'[n].version = 1 + infos'
  BY <1>1
<1>5. Followed'
  <2>1. sent' \in Seq(NodeMessages) /\ \A j \in DOMAIN sent' : sent'[j].node \in Known
    BY <1>1, <1>2, <1>3, SentGrows
  <2> QED BY <1>1, <1>2, <1>4, <2>1 DEF Followed, DevicesTypeOK, Known
<1>6. Told'
  <2>1. Reported(n)' BY <1>1, <1>3, <1>4, ToldNow
  <2>2. \A m \in Known : m # n => IF m \in DOMAIN nodeGraph THEN Reported(m)' ELSE Retired(m)'
    BY <1>1, <1>3, <1>4, ToldKept DEF Told
  <2> QED BY <1>1, <1>4, <2>1, <2>2 DEF Told, Known
<1>7. Shows' BY <1>1 DEF Shows
<1> QED BY <1>5, <1>6, <1>7, DevicesTogether

LEMMA NodeDisappearsKeeps ==
  ASSUME DevicesInv, NEW n \in DOMAIN nodeGraph, NodeDisappears(n)
  PROVE  DevicesInv'
<1> DEFINE e == [kind |-> "node removed", node |-> n]
<1>1. /\ Followed /\ Told /\ Shows
      /\ infos' = infos /\ sent' = Append(sent, e)
      /\ nodeGraph' = [m \in DOMAIN nodeGraph \ {n} |-> nodeGraph[m]]
      /\ appeared' = appeared /\ nodes' = nodes /\ topologyChanged' = topologyChanged
      /\ devices' = devices
  BY DevicesParts DEF NodeDisappears, followed
<1>2. n \in Known /\ n \in NodeIds
  <2>1. DOMAIN nodeGraph \subseteq Known /\ appeared \in Nat BY <1>1 DEF Followed
  <2> QED BY <2>1 DEF Known, NodeIds
<1>3. e \in NodeMessages /\ e.node = n /\ e.kind = "node removed" BY <1>2 DEF NodeMessages
<1> HIDE DEF e
<1>4. /\ DOMAIN nodeGraph' = DOMAIN nodeGraph \ {n}
      /\ \A m \in DOMAIN nodeGraph : m # n => nodeGraph'[m] = nodeGraph[m]
  BY <1>1
<1>5. Followed'
  <2>1. sent' \in Seq(NodeMessages) /\ \A j \in DOMAIN sent' : sent'[j].node \in Known
    BY <1>1, <1>2, <1>3, SentGrows
  <2> QED BY <1>1, <1>2, <1>4, <2>1 DEF Followed, DevicesTypeOK, Known
<1>6. Told'
  <2>1. Retired(n)' BY <1>1, <1>3, ToldNow
  <2>2. \A m \in Known : m # n => IF m \in DOMAIN nodeGraph THEN Reported(m)' ELSE Retired(m)'
    BY <1>1, <1>3, <1>4, ToldKept DEF Told
  <2> QED BY <1>1, <1>4, <2>1, <2>2 DEF Told, Known
<1>7. Shows' BY <1>1 DEF Shows
<1> QED BY <1>5, <1>6, <1>7, DevicesTogether

\* Messages a and b about node d follow what q held.
Extended(q, r, d, a, b) ==
  /\ r \in Seq(NodeMessages)
  /\ \A j \in DOMAIN r : (j \in DOMAIN q /\ r[j] = q[j]) \/ r[j] \in {a, b}
  /\ \E j \in DOMAIN r : LastAbout(r, d, j) /\ r[j] = b
  /\ \A n : n # d => /\ \A j : LastAbout(q, n, j) => LastAbout(r, n, j) /\ r[j] = q[j]
                     /\ SilentAbout(q, n) => SilentAbout(r, n)

LEMMA TwoAppended ==
  ASSUME NEW s \in Seq(NodeMessages), NEW a \in NodeMessages, NEW b \in NodeMessages,
         NEW d, a.node = d, b.node = d
  PROVE  Extended(s, s \o <<a, b>>, d, a, b)
<1> DEFINE t == <<a, b>>
           r == s \o t
<1>1. t \in Seq(NodeMessages) /\ DOMAIN t = {1, 2} /\ t[1] = a /\ t[2] = b /\ Len(t) = 2
  OBVIOUS
<1> HIDE DEF t, r
<1>2. /\ r \in Seq(NodeMessages)
      /\ \A j \in DOMAIN s : j \in DOMAIN r /\ r[j] = s[j]
      /\ \A j \in DOMAIN t : Len(s) + j \in DOMAIN r /\ r[Len(s) + j] = t[j]
      /\ \A k \in DOMAIN r :
           \/ k \in DOMAIN s
           \/ k - Len(s) \in DOMAIN t /\ r[k] = t[k - Len(s)]
      /\ Len(s) \in Nat /\ DOMAIN s = 1 .. Len(s) /\ DOMAIN r = 1 .. Len(s) + Len(t)
  <2>1. r = s \o t BY DEF r
  <2>2. s \in Seq(NodeMessages) /\ t \in Seq(NodeMessages) BY <1>1
  <2> QED BY <2>1, <2>2, Grown
<1>3. \A j \in DOMAIN r : (j \in DOMAIN s /\ r[j] = s[j]) \/ r[j] \in {a, b}
  BY <1>1, <1>2
<1>4. /\ Len(s) + 2 \in DOMAIN r /\ r[Len(s) + 2] = b
      /\ \A k \in DOMAIN r : ~(k > Len(s) + 2)
  BY <1>1, <1>2
<1>5. LastAbout(r, d, Len(s) + 2) BY <1>4 DEF LastAbout
<1>6. ASSUME NEW n, n # d
      PROVE  /\ \A j : LastAbout(s, n, j) => LastAbout(r, n, j) /\ r[j] = s[j]
             /\ SilentAbout(s, n) => SilentAbout(r, n)
  BY <1>2, <1>3, <1>6 DEF LastAbout, SilentAbout
<1>7. Extended(s, r, d, a, b) BY <1>2, <1>3, <1>4, <1>5, <1>6 DEF Extended
<1> QED BY <1>7 DEF r, t

LEMMA NodeAppearsKeeps ==
  ASSUME DevicesInv, NEW c \in Classes, NodeAppears(c)
  PROVE  DevicesInv'
<1>1. Followed /\ Told /\ Shows /\ appeared \in Nat BY DevicesParts DEF Followed
<1>2. PICK d \in NodeIds :
        /\ d = appeared + 1 /\ ~(d <= appeared)
        /\ Known' = Known \cup {d} /\ d \notin Known
  <2>1. appeared' = appeared + 1 BY DEF NodeAppears
  <2> QED BY <1>1, <2>1 DEF Known, NodeIds
<1>3. PICK a \in NodeMessages, b \in NodeMessages :
        /\ a.node = d /\ b.node = d /\ b.kind = "node info" /\ b.class = c /\ b.version = 1
        /\ sent' = sent \o <<a, b>>
  <2>1. /\ [kind |-> "node", node |-> d, class |-> c] \in NodeMessages
        /\ Info(d, c, 1) \in NodeMessages
    BY DEF Info, NodeMessages
  <2>2. sent' = sent \o <<[kind |-> "node", node |-> d, class |-> c], Info(d, c, 1)>>
    BY <1>2 DEF NodeAppears
  <2>3. /\ [kind |-> "node", node |-> d, class |-> c].node = d
        /\ Info(d, c, 1).node = d /\ Info(d, c, 1).kind = "node info"
        /\ Info(d, c, 1).class = c /\ Info(d, c, 1).version = 1
    BY DEF Info
  <2> QED BY <2>1, <2>2, <2>3
<1>4. /\ DOMAIN nodeGraph' = DOMAIN nodeGraph \cup {d}
      /\ \A n \in DOMAIN nodeGraph : n # d => nodeGraph'[n] = nodeGraph[n]
      /\ nodeGraph'[d].class = c /\ nodeGraph'[d].version = 1
      /\ appeared' = d /\ infos' = infos
      /\ nodes' = nodes /\ topologyChanged' = topologyChanged /\ devices' = devices
  BY <1>2 DEF NodeAppears, followed
<1>5. sent \in Seq(NodeMessages) /\ (\A j \in DOMAIN sent : sent[j].node \in Known)
  BY <1>1 DEF Followed
<1>6. /\ sent' \in Seq(NodeMessages)
      /\ \A j \in DOMAIN sent' : (j \in DOMAIN sent /\ sent'[j] = sent[j]) \/ sent'[j] \in {a, b}
      /\ \E j \in DOMAIN sent' : LastAbout(sent', d, j) /\ sent'[j] = b
      /\ \A n : n # d =>
           /\ \A j : LastAbout(sent, n, j) => LastAbout(sent', n, j) /\ sent'[j] = sent[j]
           /\ SilentAbout(sent, n) => SilentAbout(sent', n)
  <2>1. Extended(sent, sent', d, a, b) BY <1>3, <1>5, TwoAppended
  <2> QED BY <2>1 DEF Extended
<1>7. Followed'
  <2>1. \A j \in DOMAIN sent' : sent'[j].node \in Known' BY <1>2, <1>3, <1>5, <1>6
  <2>2. DOMAIN nodes \subseteq Known /\ DOMAIN nodeGraph \subseteq Known
        /\ topologyChanged \in BOOLEAN /\ infos \in Nat
    BY <1>1 DEF Followed, DevicesTypeOK, Known
  <2>3. DOMAIN nodes' \subseteq Known' /\ DOMAIN nodeGraph' \subseteq Known'
    BY <1>2, <1>4, <2>2
  <2>4. appeared' \in Nat BY <1>2, <1>4 DEF NodeIds
  <2>5. \A n \in DOMAIN nodes : nodes[n] \in [class : Classes, version : Nat, dirty : BOOLEAN]
    BY <1>1 DEF Followed, DevicesTypeOK
  <2> QED BY <1>4, <1>6, <2>1, <2>2, <2>3, <2>4, <2>5 DEF Followed, DevicesTypeOK, Known
<1>8. Told'
  <2>1. Reported(d)'
    <3>1. PICK j \in DOMAIN sent' : LastAbout(sent', d, j) /\ sent'[j] = b BY <1>6
    <3> QED BY <1>3, <1>4, <3>1 DEF Reported
  <2>2. ASSUME NEW n \in Known
        PROVE  IF n \in DOMAIN nodeGraph' THEN Reported(n)' ELSE Retired(n)'
    <3>1. n # d /\ (n \in DOMAIN nodeGraph' <=> n \in DOMAIN nodeGraph) BY <1>2, <1>4
    <3>2. CASE n \in DOMAIN nodeGraph
      <4>1. Reported(n) /\ nodeGraph'[n] = nodeGraph[n] BY <1>1, <1>4, <3>1, <3>2 DEF Told
      <4>2. nodes' = nodes BY <1>4
      <4>3. /\ \A j : LastAbout(sent, n, j) => LastAbout(sent', n, j) /\ sent'[j] = sent[j]
            /\ SilentAbout(sent, n) => SilentAbout(sent', n)
            /\ \A j : LastAbout(sent', n, j) => j \in DOMAIN sent'
        BY <1>6, <3>1 DEF LastAbout
      <4>4. Reported(n)' BY <4>1, <4>2, <4>3 DEF Reported
      <4> QED BY <3>1, <3>2, <4>4
    <3>3. CASE n \notin DOMAIN nodeGraph
      <4>1. Retired(n) /\ nodes' = nodes BY <1>1, <1>4, <3>3 DEF Told
      <4> QED BY <1>6, <3>1, <3>3, <4>1 DEF Retired, LastAbout
    <3> QED BY <3>2, <3>3
  <2>3. d \in DOMAIN nodeGraph' BY <1>4
  <2>4. \A n \in Known' : IF n \in DOMAIN nodeGraph' THEN Reported(n)' ELSE Retired(n)'
    BY <1>2, <2>1, <2>2, <2>3
  <2> QED BY <2>4 DEF Told
<1>9. Shows' BY <1>1, <1>4 DEF Shows
<1> QED BY <1>7, <1>8, <1>9, DevicesTogether

\* What is left once the first message is taken, by node.
LeftOf(q, r) ==
  \A n : /\ \A j : LastAbout(q, n, j) =>
             \/ j = 1 /\ SilentAbout(r, n) /\ Head(q).node = n
             \/ j - 1 \in DOMAIN r /\ LastAbout(r, n, j - 1) /\ r[j - 1] = q[j]
         /\ SilentAbout(q, n) => SilentAbout(r, n) /\ Head(q).node # n

LEMMA FirstTaken ==
  ASSUME NEW q \in Seq(NodeMessages), q # <<>>, NEW K, \A j \in DOMAIN q : q[j].node \in K
  PROVE  /\ Tail(q) \in Seq(NodeMessages) /\ \A j \in DOMAIN Tail(q) : Tail(q)[j].node \in K
         /\ Head(q) \in NodeMessages /\ Head(q).node \in K /\ Head(q) = q[1]
         /\ LeftOf(q, Tail(q))
<1>1. /\ Head(q) \in NodeMessages /\ Tail(q) \in Seq(NodeMessages)
      /\ Head(q) = q[1] /\ 1 \in DOMAIN q
      /\ \A j \in DOMAIN Tail(q) : j + 1 \in DOMAIN q /\ Tail(q)[j] = q[j + 1]
  BY Popped
<1>2. ASSUME NEW n, LastAbout(q, n, 1) PROVE Head(q).node = n BY <1>1, <1>2 DEF LastAbout
<1>3. ASSUME NEW n
      PROVE  /\ \A j : LastAbout(q, n, j) =>
                  \/ j = 1 /\ SilentAbout(Tail(q), n)
                  \/ /\ j - 1 \in DOMAIN Tail(q) /\ LastAbout(Tail(q), n, j - 1)
                     /\ Tail(q)[j - 1] = q[j]
             /\ SilentAbout(q, n) => SilentAbout(Tail(q), n) /\ Head(q).node # n
  BY LastTaken
<1>4. LeftOf(q, Tail(q)) BY <1>2, <1>3 DEF LeftOf
<1> QED BY <1>1, <1>4

\* The loop thread has handled the first message, and changed what is recorded
\* of its node alone.
LEMMA Heard ==
  ASSUME Followed, Told, sent # <<>>, sent' = Tail(sent), nodeGraph' = nodeGraph,
         appeared' = appeared,
         \A n : n # Head(sent).node =>
            /\ n \in DOMAIN nodes' <=> n \in DOMAIN nodes
            /\ n \in DOMAIN nodes => nodes'[n] = nodes[n],
         Head(sent).kind = "node info" /\ Head(sent).node \in DOMAIN nodes' =>
            /\ nodes'[Head(sent).node].version = Head(sent).version
            /\ nodes'[Head(sent).node].class = Head(sent).class,
         Head(sent).kind = "node removed" => Head(sent).node \notin DOMAIN nodes'
  PROVE  /\ Told'
         /\ sent' \in Seq(NodeMessages) /\ \A j \in DOMAIN sent' : sent'[j].node \in Known
         /\ Head(sent) \in NodeMessages /\ Head(sent).node \in Known
<1>1. sent \in Seq(NodeMessages) /\ \A j \in DOMAIN sent : sent[j].node \in Known
  BY DEF Followed
<1>2. /\ sent' \in Seq(NodeMessages) /\ \A j \in DOMAIN sent' : sent'[j].node \in Known
      /\ Head(sent) \in NodeMessages /\ Head(sent).node \in Known /\ Head(sent) = sent[1]
      /\ LeftOf(sent, sent')
  BY <1>1, FirstTaken
<1>3. ASSUME NEW n
      PROVE  /\ \A j : LastAbout(sent, n, j) =>
                  \/ j = 1 /\ SilentAbout(sent', n) /\ Head(sent).node = n
                  \/ /\ j - 1 \in DOMAIN sent' /\ LastAbout(sent', n, j - 1)
                     /\ sent'[j - 1] = sent[j]
             /\ SilentAbout(sent, n) => SilentAbout(sent', n) /\ Head(sent).node # n
  BY <1>2 DEF LeftOf
<1>4. ASSUME NEW n, Reported(n) PROVE Reported(n)'
  <2>1. CASE SilentAbout(sent, n)
             /\ (n \in DOMAIN nodes => /\ nodes[n].version = nodeGraph[n].version
                                       /\ nodes[n].class = nodeGraph[n].class)
    <3>1. SilentAbout(sent', n) /\ Head(sent).node # n BY <1>3, <2>1
    <3> QED BY <2>1, <3>1 DEF Reported
  <2>2. ASSUME NEW j \in DOMAIN sent, LastAbout(sent, n, j), sent[j].kind = "node info",
               sent[j].version = nodeGraph[n].version, sent[j].class = nodeGraph[n].class
        PROVE  Reported(n)'
    <3>1. CASE j = 1 /\ SilentAbout(sent', n) /\ Head(sent).node = n
      <4>1. Head(sent).node = n /\ sent[1] = Head(sent) BY <1>2, <3>1
      <4> QED BY <2>2, <3>1, <4>1 DEF Reported
    <3>2. CASE j - 1 \in DOMAIN sent' /\ LastAbout(sent', n, j - 1) /\ sent'[j - 1] = sent[j]
      BY <2>2, <3>2 DEF Reported
    <3> QED BY <1>3, <2>2, <3>1, <3>2
  <2> QED BY <1>4, <2>1, <2>2 DEF Reported
<1>5. ASSUME NEW n, Retired(n) PROVE Retired(n)'
  <2>1. CASE SilentAbout(sent, n) /\ n \notin DOMAIN nodes
    <3>1. SilentAbout(sent', n) /\ Head(sent).node # n BY <1>3, <2>1
    <3> QED BY <2>1, <3>1 DEF Retired
  <2>2. ASSUME NEW j \in DOMAIN sent, LastAbout(sent, n, j), sent[j].kind = "node removed"
        PROVE  Retired(n)'
    <3>1. CASE j = 1 /\ SilentAbout(sent', n) /\ Head(sent).node = n
      <4>1. Head(sent).node = n /\ sent[1] = Head(sent) BY <1>2, <3>1
      <4> QED BY <2>2, <3>1, <4>1 DEF Retired
    <3>2. CASE j - 1 \in DOMAIN sent' /\ LastAbout(sent', n, j - 1) /\ sent'[j - 1] = sent[j]
      BY <2>2, <3>2 DEF Retired
    <3> QED BY <1>3, <2>2, <3>1, <3>2
  <2> QED BY <1>5, <2>1, <2>2 DEF Retired
<1>6. Told' BY <1>4, <1>5 DEF Told, Known
<1> QED BY <1>2, <1>6

LEMMA NodeEventGlobalKeeps ==
  ASSUME DevicesInv, NodeEventGlobal PROVE DevicesInv'
<1> DEFINE d == Head(sent).node
<1>1. Followed /\ Told /\ Shows BY DevicesParts
<1>2. /\ sent # <<>> /\ Head(sent).kind = "node" /\ sent' = Tail(sent)
      /\ nodeGraph' = nodeGraph /\ appeared' = appeared /\ infos' = infos /\ devices' = devices
  BY DEF NodeEventGlobal, Received, audioGraph
<1>3. \/ nodes' = nodes /\ topologyChanged' = topologyChanged
      \/ /\ DOMAIN nodes' = DOMAIN nodes \cup {d} /\ topologyChanged' = TRUE
         /\ nodes' = [n \in DOMAIN nodes \cup {d} |->
                        IF n = d THEN [class |-> Head(sent).class, version |-> 0, dirty |-> TRUE]
                        ELSE nodes[n]]
  BY DEF NodeEventGlobal
<1>4. \A n \in DOMAIN nodes' : n # d => n \in DOMAIN nodes BY <1>3
<1>5. \A n \in DOMAIN nodes : n \in DOMAIN nodes' /\ (n # d => nodes'[n] = nodes[n])
  BY <1>3
<1>6. /\ Told'
      /\ sent' \in Seq(NodeMessages) /\ \A j \in DOMAIN sent' : sent'[j].node \in Known
      /\ Head(sent) \in NodeMessages /\ d \in Known
  BY <1>1, <1>2, <1>4, <1>5, Heard
<1>7. Followed'
  <2>1. DOMAIN nodes' \subseteq Known /\ topologyChanged' \in BOOLEAN
    BY <1>1, <1>3, <1>6 DEF Followed, DevicesTypeOK, Known
  <2>2. \A n \in DOMAIN nodes : nodes[n] \in [class : Classes, version : Nat, dirty : BOOLEAN]
    BY <1>1 DEF Followed, DevicesTypeOK
  <2>3. Head(sent).class \in Classes BY <1>2, <1>6, NodeRecords
  <2>4. ASSUME NEW n \in DOMAIN nodes'
        PROVE  nodes'[n] \in [class : Classes, version : Nat, dirty : BOOLEAN]
    <3>1. CASE nodes' = nodes BY <2>2, <2>4, <3>1
    <3>2. CASE nodes' # nodes
      <4>1. nodes'[n] = IF n = d
                        THEN [class |-> Head(sent).class, version |-> 0, dirty |-> TRUE]
                        ELSE nodes[n]
        BY <1>3, <2>4, <3>2
      <4> QED BY <1>4, <2>2, <2>3, <2>4, <4>1
    <3> QED BY <3>1, <3>2
  <2> QED BY <1>1, <1>2, <1>6, <2>1, <2>4 DEF Followed, DevicesTypeOK, Known
<1>8. Shows' BY <1>1, <1>2, <1>3 DEF Shows
<1> QED BY <1>6, <1>7, <1>8, DevicesTogether

LEMMA NodeEventGlobalRemoveKeeps ==
  ASSUME DevicesInv, NodeEventGlobalRemove PROVE DevicesInv'
<1> DEFINE d == Head(sent).node
<1>1. Followed /\ Told /\ Shows BY DevicesParts
<1>2. /\ sent # <<>> /\ Head(sent).kind = "node removed" /\ sent' = Tail(sent)
      /\ nodeGraph' = nodeGraph /\ appeared' = appeared /\ infos' = infos /\ devices' = devices
  BY DEF NodeEventGlobalRemove, Received, audioGraph
<1>3. \/ d \notin DOMAIN nodes /\ nodes' = nodes /\ topologyChanged' = topologyChanged
      \/ nodes' = [n \in DOMAIN nodes \ {d} |-> nodes[n]] /\ topologyChanged' = TRUE
  BY DEF NodeEventGlobalRemove
<1>4. /\ \A n : n # d => /\ n \in DOMAIN nodes' <=> n \in DOMAIN nodes
                         /\ n \in DOMAIN nodes => nodes'[n] = nodes[n]
      /\ d \notin DOMAIN nodes' /\ DOMAIN nodes' \subseteq DOMAIN nodes
  BY <1>3
<1>5. /\ Told'
      /\ sent' \in Seq(NodeMessages) /\ \A j \in DOMAIN sent' : sent'[j].node \in Known
      /\ Head(sent) \in NodeMessages /\ d \in Known
  BY <1>1, <1>2, <1>4, Heard
<1>6. Followed'
  <2>1. topologyChanged' \in BOOLEAN BY <1>1, <1>3 DEF Followed, DevicesTypeOK
  <2>2. \A n \in DOMAIN nodes' : n \in DOMAIN nodes /\ nodes'[n] = nodes[n] BY <1>4
  <2> QED BY <1>1, <1>2, <1>4, <1>5, <2>1, <2>2 DEF Followed, DevicesTypeOK, Known
<1>7. Shows' BY <1>1, <1>2, <1>3 DEF Shows
<1> QED BY <1>5, <1>6, <1>7, DevicesTogether

LEMMA NodeEventInfoKeeps ==
  ASSUME DevicesInv, NodeEventInfo PROVE DevicesInv'
<1> DEFINE d == Head(sent).node
<1>1. Followed /\ Told /\ Shows BY DevicesParts
<1>2. /\ sent # <<>> /\ Head(sent).kind = "node info" /\ sent' = Tail(sent)
      /\ nodeGraph' = nodeGraph /\ appeared' = appeared /\ infos' = infos /\ devices' = devices
      /\ topologyChanged' = topologyChanged
  BY DEF NodeEventInfo, Received, audioGraph
<1>3. \/ d \notin DOMAIN nodes /\ nodes' = nodes
      \/ /\ d \in DOMAIN nodes
         /\ nodes' = [nodes EXCEPT ![d] = [class |-> Head(sent).class,
                                           version |-> Head(sent).version, dirty |-> TRUE]]
  BY DEF NodeEventInfo
<1>4. /\ DOMAIN nodes' = DOMAIN nodes
      /\ \A n \in DOMAIN nodes : n # d => nodes'[n] = nodes[n]
      /\ d \in DOMAIN nodes => /\ nodes'[d].version = Head(sent).version
                               /\ nodes'[d].class = Head(sent).class
                               /\ nodes'[d].dirty
  BY <1>3
<1>5. /\ Told'
      /\ sent' \in Seq(NodeMessages) /\ \A j \in DOMAIN sent' : sent'[j].node \in Known
      /\ Head(sent) \in NodeMessages /\ d \in Known
  BY <1>1, <1>2, <1>4, Heard
<1>6. Followed'
  <2>1. Head(sent).class \in Classes /\ Head(sent).version \in Nat
    BY <1>2, <1>5, NodeRecords
  <2>2. \A n \in DOMAIN nodes : nodes[n] \in [class : Classes, version : Nat, dirty : BOOLEAN]
    BY <1>1 DEF Followed, DevicesTypeOK
  <2>3. \A n \in DOMAIN nodes' : nodes'[n] \in [class : Classes, version : Nat, dirty : BOOLEAN]
    <3>1. CASE nodes' = nodes BY <2>2, <3>1
    <3>2. CASE nodes' # nodes
      <4>1. \A n \in DOMAIN nodes :
              nodes'[n] = IF n = d THEN [class |-> Head(sent).class,
                                         version |-> Head(sent).version, dirty |-> TRUE]
                          ELSE nodes[n]
        BY <1>3, <3>2
      <4>2. [class |-> Head(sent).class, version |-> Head(sent).version, dirty |-> TRUE]
              \in [class : Classes, version : Nat, dirty : BOOLEAN]
        BY <2>1
      <4>3. \A n \in DOMAIN nodes :
              nodes'[n] \in [class : Classes, version : Nat, dirty : BOOLEAN]
        BY <2>2, <4>1, <4>2
      <4> QED BY <1>4, <4>3
    <3> QED BY <3>1, <3>2
  <2> QED BY <1>1, <1>2, <1>4, <1>5, <2>3 DEF Followed, DevicesTypeOK, Known
<1>7. Shows' BY <1>1, <1>2, <1>3, <1>4 DEF Shows
<1> QED BY <1>5, <1>6, <1>7, DevicesTogether

\* The poll clears what was dirty, and shows what is recorded.
LEMMA PollDevicesKeeps ==
  ASSUME DevicesInv, PollDevices PROVE DevicesInv'
<1>1. Followed /\ Told /\ Shows BY DevicesParts
<1>2. /\ topologyChanged' = FALSE
      /\ nodes' = [n \in DOMAIN nodes |-> [nodes[n] EXCEPT !.dirty = FALSE]]
      /\ nodeGraph' = nodeGraph /\ appeared' = appeared /\ infos' = infos /\ sent' = sent
  BY DEF PollDevices, audioGraph
<1>3. \A n \in DOMAIN nodes : nodes[n] \in [class : Classes, version : Nat, dirty : BOOLEAN]
  BY <1>1 DEF Followed, DevicesTypeOK
<1>4. /\ DOMAIN nodes' = DOMAIN nodes
      /\ \A n \in DOMAIN nodes :
           /\ nodes'[n] \in [class : Classes, version : Nat, dirty : BOOLEAN]
           /\ nodes'[n].class = nodes[n].class /\ nodes'[n].version = nodes[n].version
  BY <1>2, <1>3
<1>5. Followed' BY <1>1, <1>2, <1>4 DEF Followed, DevicesTypeOK, Known
<1>6. Told'
  <2>1. \A n : /\ Reported(n) => Reported(n)'
               /\ Retired(n) => Retired(n)'
    BY <1>2, <1>4 DEF Reported, Retired
  <2> QED BY <1>1, <1>2, <2>1 DEF Told, Known
<1>7. Shows'
  <2>1. Snapshot(nodes') = Snapshot(nodes) BY <1>4 DEF Snapshot
  <2>2. CASE topologyChanged \/ \E n \in DOMAIN nodes : nodes[n].dirty
    <3>1. devices' = Snapshot(nodes) BY <2>2 DEF PollDevices
    <3> QED BY <2>1, <3>1 DEF Shows
  <2>3. CASE ~(topologyChanged \/ \E n \in DOMAIN nodes : nodes[n].dirty)
    <3>1. devices' = devices BY <2>3 DEF PollDevices
    <3>2. devices = Snapshot(nodes) BY <1>1, <2>3 DEF Shows
    <3> QED BY <2>1, <3>1, <3>2 DEF Shows
  <2> QED BY <2>2, <2>3
<1> QED BY <1>5, <1>6, <1>7, DevicesTogether

LEMMA DevicesStart == DevicesInit => DevicesInv
<1> SUFFICES ASSUME DevicesInit PROVE DevicesInv OBVIOUS
<1>1. /\ DOMAIN nodeGraph = {} /\ DOMAIN nodes = {} /\ appeared = 0 /\ infos = 0
      /\ sent = <<>> /\ DOMAIN sent = {} /\ topologyChanged = TRUE
  BY DEF DevicesInit
<1>2. sent \in Seq(NodeMessages) BY <1>1
<1>3. Known = {} BY <1>1 DEF Known
<1> QED BY <1>1, <1>2, <1>3 DEF DevicesInv, DevicesTypeOK

LEMMA DevicesStep == DevicesInv /\ DevicesNext => DevicesInv'
BY NodeAppearsKeeps, NodeChangesKeeps, NodeDisappearsKeeps, NodeEventGlobalKeeps,
   NodeEventGlobalRemoveKeeps, NodeEventInfoKeeps, PollDevicesKeeps DEF DevicesNext

LEMMA DevicesRun == [Next]_vars => [DevicesNext]_audioDevices
BY DEF Next, vars, audio

LEMMA DevicesStill == ASSUME DevicesInv, UNCHANGED audioDevices PROVE DevicesInv'
BY DEF DevicesInv, DevicesTypeOK, Reported, Retired, LastAbout, SilentAbout, Known,
       audioDevices, audioGraph, followed

\* The inductive invariant of the device watcher.
THEOREM DevicesInvCorrect == Spec => []DevicesInv
<1>1. Init => DevicesInv BY DevicesStart DEF Init
<1>2. DevicesInv /\ [Next]_vars => DevicesInv' BY DevicesStep, DevicesRun, DevicesStill
<1> QED BY <1>1, <1>2, PTL DEF Spec

\* Messages a and b follow what q held.
Joined(q, r, a, b) ==
  /\ \A j \in DOMAIN q : j \in DOMAIN r /\ r[j] = q[j]
  /\ \A j \in DOMAIN r : (j \in DOMAIN q /\ r[j] = q[j]) \/ r[j] \in {a, b}
  /\ \E j \in DOMAIN r : r[j] = a

LEMMA BothJoined ==
  ASSUME NEW s \in Seq(NodeMessages), NEW a \in NodeMessages, NEW b \in NodeMessages
  PROVE  Joined(s, s \o <<a, b>>, a, b)
<1> DEFINE t == <<a, b>>
           r == s \o t
<1>1. t \in Seq(NodeMessages) /\ DOMAIN t = {1, 2} /\ t[1] = a /\ t[2] = b OBVIOUS
<1> HIDE DEF t, r
<1>2. /\ r \in Seq(NodeMessages)
      /\ \A j \in DOMAIN s : j \in DOMAIN r /\ r[j] = s[j]
      /\ \A j \in DOMAIN t : Len(s) + j \in DOMAIN r /\ r[Len(s) + j] = t[j]
      /\ \A k \in DOMAIN r :
           \/ k \in DOMAIN s
           \/ k - Len(s) \in DOMAIN t /\ r[k] = t[k - Len(s)]
      /\ Len(s) \in Nat /\ DOMAIN s = 1 .. Len(s) /\ DOMAIN r = 1 .. Len(s) + Len(t)
  <2>1. r = s \o t BY DEF r
  <2>2. s \in Seq(NodeMessages) /\ t \in Seq(NodeMessages) BY <1>1
  <2> QED BY <2>1, <2>2, Grown
<1>3. \E j \in DOMAIN r : r[j] = a BY <1>1, <1>2
<1>4. \A j \in DOMAIN r : (j \in DOMAIN s /\ r[j] = s[j]) \/ r[j] \in {a, b} BY <1>1, <1>2
<1>5. Joined(s, r, a, b) BY <1>2, <1>3, <1>4 DEF Joined
<1> QED BY <1>5 DEF r, t

LEMMA OneSent ==
  ASSUME sent \in Seq(NodeMessages), NEW e \in NodeMessages, sent' = Append(sent, e)
  PROVE  /\ \A j \in DOMAIN sent : j \in DOMAIN sent' /\ sent'[j] = sent[j]
         /\ \A j \in DOMAIN sent' : (j \in DOMAIN sent /\ sent'[j] = sent[j]) \/ sent'[j] = e
<1>1. /\ \A j \in DOMAIN sent : j \in DOMAIN sent' /\ sent'[j] = sent[j]
      /\ sent'[Len(sent) + 1] = e
      /\ \A k \in DOMAIN sent' : k \in DOMAIN sent \/ k = Len(sent) + 1
  BY Appended
<1> QED BY <1>1

\* The announcements on their way are true, and none of a node's end is unless it
\* has gone; the nodes followed, and those about to be, are the ones that exist
\* and were sinks or sources when announced.
ToldTrue ==
  \A j \in DOMAIN sent : sent[j].node \in DOMAIN nodeGraph =>
    /\ sent[j].kind # "node removed"
    /\ sent[j].kind = "node" => sent[j].class = nodeGraph[sent[j].node].announced
HeardOf ==
  \A n \in DOMAIN nodeGraph :
    /\ n \in DOMAIN nodes => Audible(nodeGraph[n].announced)
    /\ Audible(nodeGraph[n].announced) =>
         \/ n \in DOMAIN nodes
         \/ \E j \in DOMAIN sent : sent[j].kind = "node" /\ sent[j].node = n
Announced == ToldTrue /\ HeardOf

LEMMA AppearsAnnounced ==
  ASSUME DevicesInv, Announced, NEW c \in Classes, NodeAppears(c)
  PROVE  Announced'
<1>1. /\ appeared \in Nat /\ DOMAIN nodeGraph \subseteq Known /\ DOMAIN nodes \subseteq Known
      /\ sent \in Seq(NodeMessages) /\ \A j \in DOMAIN sent : sent[j].node \in Known
  BY DEF DevicesInv, DevicesTypeOK, Known
<1>2. PICK d \in NodeIds : d = appeared + 1 /\ d \notin Known /\ appeared' = d
  BY <1>1 DEF NodeAppears, Known, NodeIds
<1>3. PICK a \in NodeMessages, b \in NodeMessages :
        /\ a.kind = "node" /\ a.node = d /\ a.class = c
        /\ b.kind = "node info" /\ b.node = d
        /\ sent' = sent \o <<a, b>>
  <2>1. /\ [kind |-> "node", node |-> d, class |-> c] \in NodeMessages
        /\ Info(d, c, 1) \in NodeMessages
    BY DEF Info, NodeMessages
  <2>2. sent' = sent \o <<[kind |-> "node", node |-> d, class |-> c], Info(d, c, 1)>>
    BY <1>2 DEF NodeAppears
  <2>3. Info(d, c, 1).node = d /\ Info(d, c, 1).kind = "node info" BY DEF Info
  <2> QED BY <2>1, <2>2, <2>3
<1>4. /\ \A j \in DOMAIN sent : j \in DOMAIN sent' /\ sent'[j] = sent[j]
      /\ \A j \in DOMAIN sent' : (j \in DOMAIN sent /\ sent'[j] = sent[j]) \/ sent'[j] \in {a, b}
      /\ \E j \in DOMAIN sent' : sent'[j] = a
  <2>1. Joined(sent, sent', a, b) BY <1>1, <1>3, BothJoined
  <2> QED BY <2>1 DEF Joined
<1>5. /\ DOMAIN nodeGraph' = DOMAIN nodeGraph \cup {d} /\ nodes' = nodes
      /\ \A n \in DOMAIN nodeGraph : nodeGraph'[n] = nodeGraph[n]
      /\ nodeGraph'[d].announced = c
  BY <1>1, <1>2 DEF NodeAppears, followed
<1>6. ASSUME NEW j \in DOMAIN sent', sent'[j].node \in DOMAIN nodeGraph'
      PROVE  /\ sent'[j].kind # "node removed"
             /\ sent'[j].kind = "node" => sent'[j].class = nodeGraph'[sent'[j].node].announced
  <2>1. CASE j \in DOMAIN sent /\ sent'[j] = sent[j]
    <3>1. sent[j].node \in DOMAIN nodeGraph BY <1>1, <1>2, <1>5, <1>6, <2>1
    <3>2. /\ sent[j].kind # "node removed"
          /\ sent[j].kind = "node" => sent[j].class = nodeGraph[sent[j].node].announced
      BY <2>1, <3>1 DEF Announced, ToldTrue
    <3> QED BY <1>5, <2>1, <3>1, <3>2
  <2>2. CASE sent'[j] \in {a, b} BY <1>3, <1>5, <2>2
  <2> QED BY <1>4, <2>1, <2>2
<1>7. ASSUME NEW n \in DOMAIN nodeGraph'
      PROVE  /\ n \in DOMAIN nodes => Audible(nodeGraph'[n].announced)
             /\ Audible(nodeGraph'[n].announced) =>
                  \/ n \in DOMAIN nodes
                  \/ \E j \in DOMAIN sent' : sent'[j].kind = "node" /\ sent'[j].node = n
  <2>1. CASE n = d BY <1>1, <1>2, <1>3, <1>4, <2>1
  <2>2. CASE n \in DOMAIN nodeGraph
    <3>1. /\ n \in DOMAIN nodes => Audible(nodeGraph[n].announced)
          /\ Audible(nodeGraph[n].announced) =>
               \/ n \in DOMAIN nodes
               \/ \E j \in DOMAIN sent : sent[j].kind = "node" /\ sent[j].node = n
      BY <2>2 DEF Announced, HeardOf
    <3> QED BY <1>4, <1>5, <2>2, <3>1
  <2> QED BY <1>5, <1>7, <2>1, <2>2
<1> QED BY <1>5, <1>6, <1>7 DEF Announced, ToldTrue, HeardOf

\* A node that changes keeps what it was announced with; one that goes takes
\* its own with it.
LEMMA OneSentAnnounced ==
  ASSUME DevicesInv, Announced, NEW n \in DOMAIN nodeGraph, NEW e \in NodeMessages,
         sent' = Append(sent, e), e.node = n, nodes' = nodes,
         DOMAIN nodeGraph' \subseteq DOMAIN nodeGraph,
         \A m \in DOMAIN nodeGraph' : nodeGraph'[m].announced = nodeGraph[m].announced,
         e.kind = "node info" \/ n \notin DOMAIN nodeGraph'
  PROVE  Announced'
<1>1. /\ \A j \in DOMAIN sent : j \in DOMAIN sent' /\ sent'[j] = sent[j]
      /\ \A j \in DOMAIN sent' : (j \in DOMAIN sent /\ sent'[j] = sent[j]) \/ sent'[j] = e
  <2>1. sent \in Seq(NodeMessages) BY DEF DevicesInv
  <2> QED BY <2>1, OneSent
<1>2. ASSUME NEW j \in DOMAIN sent', sent'[j].node \in DOMAIN nodeGraph'
      PROVE  /\ sent'[j].kind # "node removed"
             /\ sent'[j].kind = "node" => sent'[j].class = nodeGraph'[sent'[j].node].announced
  <2>1. CASE j \in DOMAIN sent /\ sent'[j] = sent[j]
    <3>1. sent[j].node \in DOMAIN nodeGraph BY <1>2, <2>1
    <3>2. /\ sent[j].kind # "node removed"
          /\ sent[j].kind = "node" => sent[j].class = nodeGraph[sent[j].node].announced
      BY <2>1, <3>1 DEF Announced, ToldTrue
    <3> QED BY <1>2, <2>1, <3>2
  <2>2. CASE sent'[j] = e BY <1>2, <2>2
  <2> QED BY <1>1, <2>1, <2>2
<1>3. ASSUME NEW m \in DOMAIN nodeGraph'
      PROVE  /\ m \in DOMAIN nodes => Audible(nodeGraph'[m].announced)
             /\ Audible(nodeGraph'[m].announced) =>
                  \/ m \in DOMAIN nodes
                  \/ \E j \in DOMAIN sent' : sent'[j].kind = "node" /\ sent'[j].node = m
  <2>1. /\ m \in DOMAIN nodes => Audible(nodeGraph[m].announced)
        /\ Audible(nodeGraph[m].announced) =>
             \/ m \in DOMAIN nodes
             \/ \E j \in DOMAIN sent : sent[j].kind = "node" /\ sent[j].node = m
    BY <1>3 DEF Announced, HeardOf
  <2>2. nodeGraph'[m].announced = nodeGraph[m].announced BY <1>3
  <2> QED BY <1>1, <2>1, <2>2
<1> QED BY <1>2, <1>3 DEF Announced, ToldTrue, HeardOf

\* The loop thread follows a node as it takes its announcement.
LEMMA HeardAnnounced ==
  ASSUME DevicesInv, Announced, sent # <<>>, sent' = Tail(sent), nodeGraph' = nodeGraph,
         \A n \in DOMAIN nodes : n \in DOMAIN nodeGraph => n \in DOMAIN nodes',
         \A n \in DOMAIN nodes' : \/ n \in DOMAIN nodes
                                \/ /\ n = Head(sent).node /\ Head(sent).kind = "node"
                                   /\ Audible(Head(sent).class),
         Head(sent).kind = "node" /\ Audible(Head(sent).class) => Head(sent).node \in DOMAIN nodes'
  PROVE  Announced'
<1>1. /\ 1 \in DOMAIN sent /\ Head(sent) = sent[1]
      /\ \A j \in DOMAIN sent' : j + 1 \in DOMAIN sent /\ sent'[j] = sent[j + 1]
      /\ \A j \in DOMAIN sent : j = 1 \/ (j - 1 \in DOMAIN sent' /\ sent'[j - 1] = sent[j])
  <2>1. sent \in Seq(NodeMessages) BY DEF DevicesInv
  <2> QED BY <2>1, Popped
<1>2. \A j \in DOMAIN sent' : sent'[j].node \in DOMAIN nodeGraph =>
        /\ sent'[j].kind # "node removed"
        /\ sent'[j].kind = "node" => sent'[j].class = nodeGraph[sent'[j].node].announced
  <2> SUFFICES ASSUME NEW j \in DOMAIN sent', sent'[j].node \in DOMAIN nodeGraph
               PROVE  /\ sent'[j].kind # "node removed"
                      /\ sent'[j].kind = "node" =>
                           sent'[j].class = nodeGraph[sent'[j].node].announced
    OBVIOUS
  <2>1. j + 1 \in DOMAIN sent /\ sent'[j] = sent[j + 1] BY <1>1
  <2>2. sent[j + 1].node \in DOMAIN nodeGraph BY <2>1
  <2>3. /\ sent[j + 1].kind # "node removed"
        /\ sent[j + 1].kind = "node" => sent[j + 1].class = nodeGraph[sent[j + 1].node].announced
    BY <2>1, <2>2 DEF Announced, ToldTrue
  <2> QED BY <2>1, <2>3
<1>3. Head(sent).node \in DOMAIN nodeGraph /\ Head(sent).kind = "node" =>
        Head(sent).class = nodeGraph[Head(sent).node].announced
  BY <1>1 DEF Announced, ToldTrue
<1>4. ASSUME NEW n \in DOMAIN nodeGraph
      PROVE  /\ n \in DOMAIN nodes' => Audible(nodeGraph[n].announced)
             /\ Audible(nodeGraph[n].announced) =>
                  \/ n \in DOMAIN nodes'
                  \/ \E j \in DOMAIN sent' : sent'[j].kind = "node" /\ sent'[j].node = n
  <2>1. n \in DOMAIN nodes' => Audible(nodeGraph[n].announced)
    BY <1>3, <1>4 DEF Announced, HeardOf
  <2>2. ASSUME NEW j \in DOMAIN sent, sent[j].kind = "node", sent[j].node = n,
               Audible(nodeGraph[n].announced)
        PROVE  \/ n \in DOMAIN nodes'
               \/ \E k \in DOMAIN sent' : sent'[k].kind = "node" /\ sent'[k].node = n
    <3>1. CASE j = 1 BY <1>1, <1>3, <2>2, <3>1
    <3>2. CASE j # 1 BY <1>1, <2>2, <3>2
    <3> QED BY <3>1, <3>2
  <2> QED BY <1>4, <2>1, <2>2 DEF Announced, HeardOf
<1> QED BY <1>2, <1>4 DEF Announced, ToldTrue, HeardOf

LEMMA AnnouncedStep == DevicesInv /\ Announced /\ DevicesNext => Announced'
<1> SUFFICES ASSUME DevicesInv, Announced, DevicesNext PROVE Announced' OBVIOUS
<1>1. /\ \A n \in DOMAIN nodeGraph : n \in NodeIds /\ n \in Known
      /\ sent \in Seq(NodeMessages) /\ infos \in Nat
  BY DEF DevicesInv, Known, NodeIds
<1>2. ASSUME NEW n \in DOMAIN nodeGraph, NEW c \in Classes, NodeChanges(n, c) PROVE Announced'
  <2> DEFINE e == Info(n, c, 1 + infos')
  <2>1. /\ infos' = infos + 1 /\ sent' = Append(sent, e) /\ nodes' = nodes
        /\ nodeGraph' = [nodeGraph EXCEPT ![n] = [class |-> c, version |-> 1 + infos',
                                                  announced |-> @.announced]]
    BY <1>2 DEF NodeChanges, followed
  <2>2. n \in NodeIds /\ 1 + infos' \in Nat BY <1>1, <2>1
  <2>3. e \in NodeMessages /\ e.node = n /\ e.kind = "node info"
    BY <2>2 DEF Info, NodeMessages
  <2> HIDE DEF e
  <2>4. /\ DOMAIN nodeGraph' = DOMAIN nodeGraph
        /\ \A m \in DOMAIN nodeGraph : nodeGraph'[m].announced = nodeGraph[m].announced
    BY <2>1
  <2> QED BY <2>1, <2>3, <2>4, OneSentAnnounced
<1>3. ASSUME NEW n \in DOMAIN nodeGraph, NodeDisappears(n) PROVE Announced'
  <2>1. /\ sent' = Append(sent, [kind |-> "node removed", node |-> n]) /\ nodes' = nodes
        /\ nodeGraph' = [m \in DOMAIN nodeGraph \ {n} |-> nodeGraph[m]]
    BY <1>3 DEF NodeDisappears, followed
  <2>2. [kind |-> "node removed", node |-> n] \in NodeMessages BY <1>1 DEF NodeMessages
  <2> QED BY <2>1, <2>2, OneSentAnnounced
<1>4. CASE NodeEventGlobal
  <2>1. /\ sent # <<>> /\ Head(sent).kind = "node" /\ sent' = Tail(sent)
        /\ nodeGraph' = nodeGraph
        /\ IF ~Audible(Head(sent).class) THEN nodes' = nodes
           ELSE DOMAIN nodes' = DOMAIN nodes \cup {Head(sent).node}
    BY <1>4 DEF NodeEventGlobal, Received, audioGraph
  <2> QED BY <2>1, HeardAnnounced
<1>5. CASE NodeEventGlobalRemove
  <2>1. /\ sent # <<>> /\ Head(sent).kind = "node removed" /\ sent' = Tail(sent)
        /\ nodeGraph' = nodeGraph
        /\ \/ nodes' = nodes
           \/ DOMAIN nodes' = DOMAIN nodes \ {Head(sent).node}
    BY <1>5 DEF NodeEventGlobalRemove, Received, audioGraph
  <2>2. 1 \in DOMAIN sent /\ Head(sent) = sent[1] BY <1>1, <2>1, Popped
  <2>3. Head(sent).node \notin DOMAIN nodeGraph BY <2>1, <2>2 DEF Announced, ToldTrue
  <2> QED BY <2>1, <2>3, HeardAnnounced
<1>6. CASE NodeEventInfo
  <2>1. /\ sent # <<>> /\ Head(sent).kind = "node info" /\ sent' = Tail(sent)
        /\ nodeGraph' = nodeGraph /\ DOMAIN nodes' = DOMAIN nodes
    BY <1>6 DEF NodeEventInfo, Received, audioGraph
  <2> QED BY <2>1, HeardAnnounced
<1>7. CASE PollDevices
  BY <1>7 DEF PollDevices, audioGraph, Announced, ToldTrue, HeardOf
<1> QED BY <1>2, <1>3, <1>4, <1>5, <1>6, <1>7, AppearsAnnounced DEF DevicesNext

THEOREM AnnouncedCorrect == Spec => []Announced
<1>1. Init => Announced
  <2>1. Init => DOMAIN nodeGraph = {} /\ DOMAIN sent = {} BY DEF Init, DevicesInit
  <2> QED BY <2>1 DEF Announced, ToldTrue, HeardOf
<1>2. UNCHANGED audioDevices /\ Announced => Announced'
  BY DEF Announced, ToldTrue, HeardOf, audioDevices, audioGraph, followed
<1>3. DevicesInv /\ Announced /\ [Next]_vars => Announced' BY <1>2, AnnouncedStep, DevicesRun
<1> QED BY <1>1, <1>3, DevicesInvCorrect, PTL DEF Spec

\* onRegistryGlobal, its removal, onNodeInfo and poll follow the nodes that exist
\* and were announced as sinks or sources, no others, and show them as PipeWire
\* has them, whatever their number and the order of their events.
THEOREM DevicesMirrorHolds == Spec => []DevicesMirror
<1>1. DevicesInv /\ Announced => DevicesMirror
  <2> SUFFICES ASSUME DevicesInv, Announced PROVE DevicesMirror OBVIOUS
  <2>1. DevicesTypeOK BY DEF DevicesInv
  <2>2. ASSUME sent = <<>>, ~topologyChanged, \A n \in DOMAIN nodes : ~nodes[n].dirty
        PROVE  LET heard == {n \in DOMAIN nodeGraph : Audible(nodeGraph[n].announced)}
               IN  DOMAIN nodes = heard /\ devices = Snapshot([n \in heard |-> nodeGraph[n]])
    <3> DEFINE heard == {n \in DOMAIN nodeGraph : Audible(nodeGraph[n].announced)}
               N == [n \in heard |-> nodeGraph[n]]
    <3>1. /\ \A n, j : ~LastAbout(sent, n, j)
          /\ DOMAIN sent = {}
      BY <2>2 DEF LastAbout
    <3>2. \A n \in Known : IF n \in DOMAIN nodeGraph
                           THEN n \in DOMAIN nodes => /\ nodes[n].version = nodeGraph[n].version
                                                      /\ nodes[n].class = nodeGraph[n].class
                           ELSE n \notin DOMAIN nodes
      BY <3>1 DEF DevicesInv, Reported, Retired
    <3>3. DOMAIN nodes \subseteq Known /\ DOMAIN nodeGraph \subseteq Known
      BY DEF DevicesInv, DevicesTypeOK, Known
    <3>4. devices = Snapshot(nodes) BY <2>2 DEF DevicesInv
    <3>5. DOMAIN nodes = heard BY <3>1, <3>2, <3>3 DEF Announced, HeardOf
    <3>6. /\ DOMAIN N = DOMAIN nodes
          /\ \A n \in DOMAIN nodes : N[n].version = nodes[n].version /\ N[n].class = nodes[n].class
      BY <3>2, <3>3, <3>5
    <3>7. Snapshot(N) = Snapshot(nodes)
      <4> HIDE DEF N
      <4> QED BY <3>6 DEF Snapshot
    <3> QED BY <3>4, <3>5, <3>7
  <2> QED BY <2>1, <2>2 DEF DevicesMirror
<1> QED BY <1>1, DevicesInvCorrect, AnnouncedCorrect, PTL

-----------------------------------------------------------------------------
(* Keylock: the inductive invariant.                                       *)

LockEvents == [type : {"key"}, value : {"down", "up"}, press : Nat \ {0}]
                \cup [type : {"led"}, value : BOOLEAN, press : Nat \ {0}]

\* The presses whose "down" a queue holds, each once.
Downs(q) == {q[j].press : j \in {i \in DOMAIN q : Toggles(q[i])}}
DownOnce(q) ==
  \A i, j \in DOMAIN q : Toggles(q[i]) /\ Toggles(q[j]) /\ q[i].press = q[j].press => i = j

\* What the last LED event of a queue tells, if there is one.
Unlit(q) == \A j \in DOMAIN q : q[j].type # "led"
LastLit(q, j) == j \in DOMAIN q /\ q[j].type = "led" /\ \A i \in DOMAIN q : i > j => q[i].type # "led"
Tells(q, v, n) == \A j \in DOMAIN q : LastLit(q, j) => q[j].value = v /\ q[j].press = n

\* Nothing in the queue tells of a press yet to come.
Within(q, n) == \A j \in DOMAIN q : q[j].press <= n

\* The presses the compositor has handled.
Toggled == presses - Len(typed)

\* The keyboards that report the lock, and the presses that are only inferred.
Lit == leds \cap plugged
Inferred == UNION {Downs(queue[k]) : k \in open \ leds}

LocksTyped ==
  /\ LocksTypeOK
  /\ leds \subseteq Keyboards /\ plugged \subseteq open
  /\ queue \in [Keyboards -> Seq(LockEvents)] /\ typed \in Seq(Nat)
  /\ \A k \in Keyboards \ plugged : queue[k] = <<>>

\* A press is in one queue, and in the compositor's until it toggles.
Numbered ==
  /\ Toggled \in Nat /\ \A j \in DOMAIN typed : typed[j] = Toggled + j
  /\ \A k \in Keyboards : DownOnce(queue[k]) /\ Within(queue[k], presses)
  /\ \A k, m \in Keyboards : k # m => Downs(queue[k]) \cap Downs(queue[m]) = {}

LedsTell == \A k \in Lit : Tells(queue[k], lock, Toggled)

\* Before the first event is read no LED has told of a press.
Starting ==
  unread # {} => ledSeen = 0 /\ (Toggled = 0 \/ \A k \in Lit : ~Unlit(queue[k]))

\* Where a LED is authoritative, and where the state is inferred.
FromLeds ==
  Lit # {} /\ (\A k \in Lit : Unlit(queue[k])) =>
    ledSeen = Toggled /\ (typed = <<>> => capsLock = lock)
FromKeys ==
  Lit = {} /\ plugged # {} =>
    \/ \E p \in Inferred : p <= ledSeen
    \/ capsLock = lock <=> (Cardinality(Inferred) + Len(typed)) % 2 = 0
Certain == unread = {} /\ ~doubtful => FromLeds /\ FromKeys

LocksInv == LocksTyped /\ Numbered /\ LedsTell /\ Starting /\ Certain

-----------------------------------------------------------------------------
(* Keylock: what a queue of events tells.                                  *)

EventTaken(q, r, e) ==
  /\ r \in Seq(LockEvents) /\ e \in LockEvents
  /\ DownOnce(q) => /\ DownOnce(r)
                    /\ Toggles(e) => e.press \in Downs(q) /\ Downs(r) = Downs(q) \ {e.press}
  /\ ~Toggles(e) => Downs(r) = Downs(q)
  /\ \A v, n : Tells(q, v, n) => Tells(r, v, n)
  /\ Unlit(q) => Unlit(r) /\ e.type # "led"
  /\ Unlit(r) /\ e.type # "led" => Unlit(q)
  /\ \A v, n : Tells(q, v, n) /\ Unlit(r) /\ e.type = "led" => e.value = v /\ e.press = n
  /\ \A n : Within(q, n) => Within(r, n) /\ e.press <= n

LEMMA DownsHas ==
  \A q, p : p \in Downs(q) <=> \E j \in DOMAIN q : Toggles(q[j]) /\ q[j].press = p
BY DEF Downs

LEMMA EventTakenFacts ==
  ASSUME NEW q \in Seq(LockEvents), q # <<>>
  PROVE  EventTaken(q, Tail(q), Head(q))
<1> DEFINE r == Tail(q)
           e == Head(q)
<1>1. /\ r \in Seq(LockEvents) /\ e \in LockEvents
      /\ 1 \in DOMAIN q /\ e = q[1]
      /\ \A j \in DOMAIN r : j + 1 \in DOMAIN q /\ r[j] = q[j + 1]
      /\ \A j \in DOMAIN q : j = 1 \/ (j - 1 \in DOMAIN r /\ r[j - 1] = q[j])
      /\ DOMAIN r \subseteq Nat \ {0} /\ DOMAIN q \subseteq Nat \ {0}
  BY Popped
<1> HIDE DEF r, e
<1>2. \A i, j \in DOMAIN r : (i + 1 = j + 1 => i = j) /\ i + 1 # 1
  <2>1. DOMAIN r \subseteq Nat \ {0} BY <1>1
  <2>2. \A i, j \in Nat \ {0} : (i + 1 = j + 1 => i = j) /\ i + 1 # 1 OBVIOUS
  <2> QED BY <2>1, <2>2
<1>3. ASSUME DownOnce(q), NEW i \in DOMAIN r, NEW j \in DOMAIN r,
             Toggles(r[i]), Toggles(r[j]), r[i].press = r[j].press
      PROVE  i = j
  <2>1. i + 1 \in DOMAIN q /\ r[i] = q[i + 1] /\ j + 1 \in DOMAIN q /\ r[j] = q[j + 1]
    BY <1>1
  <2>2. i + 1 = j + 1 BY <1>3, <2>1 DEF DownOnce
  <2> QED BY <1>2, <2>2
<1>4. ASSUME NEW p \in Downs(r) PROVE p \in Downs(q)
  <2>1. PICK j \in DOMAIN r : Toggles(r[j]) /\ r[j].press = p BY <1>4, DownsHas
  <2>2. j + 1 \in DOMAIN q /\ q[j + 1] = r[j] BY <1>1, <2>1
  <2> QED BY <2>1, <2>2, DownsHas
<1>5. ASSUME NEW p \in Downs(q) PROVE p \in Downs(r) \/ (Toggles(e) /\ p = e.press)
  <2>1. PICK j \in DOMAIN q : Toggles(q[j]) /\ q[j].press = p BY <1>5, DownsHas
  <2>2. CASE j = 1 BY <1>1, <2>1, <2>2
  <2>3. CASE j # 1
    <3>1. j - 1 \in DOMAIN r /\ r[j - 1] = q[j] BY <1>1, <2>1, <2>3
    <3> QED BY <2>1, <3>1, DownsHas
  <2> QED BY <2>2, <2>3
<1>6. Toggles(e) => e.press \in Downs(q) BY <1>1, DownsHas
<1>7. ASSUME DownOnce(q), Toggles(e), e.press \in Downs(r) PROVE FALSE
  <2>1. PICK j \in DOMAIN r : Toggles(r[j]) /\ r[j].press = e.press BY <1>7, DownsHas
  <2>2. j + 1 \in DOMAIN q /\ q[j + 1] = r[j] /\ j + 1 # 1 BY <1>1, <1>2
  <2> QED BY <1>1, <1>7, <2>1, <2>2 DEF DownOnce
<1>8. \A j \in DOMAIN r : LastLit(r, j) => LastLit(q, j + 1)
  <2>1. \A j \in DOMAIN r, i \in DOMAIN q : i > j + 1 => i # 1 /\ i - 1 > j BY <1>1
  <2> QED BY <1>1, <2>1 DEF LastLit
<1>9. \A v, n : Tells(q, v, n) => Tells(r, v, n) BY <1>1, <1>8 DEF Tells
<1>10. Unlit(q) => Unlit(r) /\ e.type # "led" BY <1>1 DEF Unlit
<1>11. Unlit(r) /\ e.type # "led" => Unlit(q) BY <1>1 DEF Unlit
<1>12. ASSUME Unlit(r), e.type = "led" PROVE LastLit(q, 1)
  <2>1. ASSUME NEW i \in DOMAIN q, i > 1 PROVE q[i].type # "led"
    <3>1. i - 1 \in DOMAIN r /\ r[i - 1] = q[i] BY <1>1, <2>1
    <3> QED BY <1>12, <3>1 DEF Unlit
  <2> QED BY <1>1, <1>12, <2>1 DEF LastLit
<1>13. \A v, n : Tells(q, v, n) /\ Unlit(r) /\ e.type = "led" => e.value = v /\ e.press = n
  BY <1>1, <1>12 DEF Tells
<1>14. DownOnce(q) => DownOnce(r) BY <1>3 DEF DownOnce
<1>15. DownOnce(q) /\ Toggles(e) => Downs(r) = Downs(q) \ {e.press} BY <1>4, <1>5, <1>7
<1>16. ~Toggles(e) => Downs(r) = Downs(q) BY <1>4, <1>5
<1>17. \A n : Within(q, n) => Within(r, n) /\ e.press <= n BY <1>1 DEF Within
<1>18. EventTaken(q, r, e)
  BY <1>1, <1>6, <1>17, <1>9, <1>10, <1>11, <1>13, <1>14, <1>15, <1>16 DEF EventTaken
<1> QED BY <1>18 DEF r, e

LEMMA KeyRecords ==
  ASSUME NEW n \in Nat \ {0}
  PROVE  /\ KeyEvent("down", n) \in LockEvents /\ KeyEvent("up", n) \in LockEvents
         /\ Toggles(KeyEvent("down", n)) /\ ~Toggles(KeyEvent("up", n))
         /\ KeyEvent("down", n).press = n /\ KeyEvent("up", n).press = n
         /\ KeyEvent("down", n).type # "led" /\ KeyEvent("up", n).type # "led"
BY DEF KeyEvent, LockEvents, Toggles

LEMMA LedRecords ==
  ASSUME NEW v \in BOOLEAN, NEW n \in Nat \ {0}
  PROVE  /\ LedEvent(v, n) \in LockEvents /\ ~Toggles(LedEvent(v, n))
         /\ LedEvent(v, n).type = "led" /\ LedEvent(v, n).value = v /\ LedEvent(v, n).press = n
BY DEF LedEvent, LockEvents, Toggles

KeysAdded(q, r, p) ==
  /\ r \in Seq(LockEvents) /\ Downs(r) = Downs(q) \cup {p}
  /\ DownOnce(q) /\ p \notin Downs(q) => DownOnce(r)
  /\ \A v, n : Tells(q, v, n) => Tells(r, v, n)
  /\ Unlit(r) <=> Unlit(q)
  /\ \A n : Within(q, n) /\ p <= n => Within(r, n)

LEMMA KeysAddedFacts ==
  ASSUME NEW q \in Seq(LockEvents), NEW p \in Nat \ {0}
  PROVE  KeysAdded(q, q \o <<KeyEvent("down", p), KeyEvent("up", p)>>, p)
<1> DEFINE a == KeyEvent("down", p)
           b == KeyEvent("up", p)
<1>1. /\ a \in LockEvents /\ b \in LockEvents /\ Toggles(a) /\ ~Toggles(b) /\ a.press = p
      /\ b.press = p /\ a.type # "led" /\ b.type # "led"
  BY KeyRecords
<1> HIDE DEF a, b
<1> DEFINE t == <<a, b>>
           r == q \o t
           l == Len(q)
<1>2. t \in Seq(LockEvents) /\ DOMAIN t = {1, 2} /\ t[1] = a /\ t[2] = b /\ Len(t) = 2
  BY <1>1
<1> HIDE DEF t, r
<1>3. /\ r \in Seq(LockEvents)
      /\ \A j \in DOMAIN q : j \in DOMAIN r /\ r[j] = q[j]
      /\ \A j \in DOMAIN t : l + j \in DOMAIN r /\ r[l + j] = t[j]
      /\ \A k \in DOMAIN r : k \in DOMAIN q \/ (k - l \in DOMAIN t /\ r[k] = t[k - l])
      /\ l \in Nat /\ DOMAIN q = 1 .. l /\ DOMAIN r = 1 .. l + Len(t)
  <2>1. r = q \o t BY DEF r
  <2>2. q \in Seq(LockEvents) /\ t \in Seq(LockEvents) BY <1>2
  <2> QED BY <2>1, <2>2, Grown
<1> HIDE DEF l
<1>4. /\ \A j \in DOMAIN q : j \in DOMAIN r /\ r[j] = q[j]
      /\ l + 1 \in DOMAIN r /\ r[l + 1] = a /\ l + 1 \notin DOMAIN q
      /\ \A k \in DOMAIN r : k \in DOMAIN q \/ k = l + 1 \/ r[k] = b
  BY <1>2, <1>3
<1>5. Downs(r) = Downs(q) \cup {p} BY <1>1, <1>4 DEF Downs
<1>6. DownOnce(q) /\ p \notin Downs(q) => DownOnce(r)
  BY <1>1, <1>4 DEF Downs, DownOnce
<1>7. \A j \in DOMAIN r : r[j].type = "led" => j \in DOMAIN q BY <1>1, <1>4
<1>8. \A v, n : Tells(q, v, n) => Tells(r, v, n) BY <1>4, <1>7 DEF Tells, LastLit
<1>9. Unlit(r) <=> Unlit(q) BY <1>4, <1>7 DEF Unlit
<1>10. \A n : Within(q, n) /\ p <= n => Within(r, n) BY <1>1, <1>4 DEF Within
<1>11. KeysAdded(q, r, p) BY <1>3, <1>5, <1>6, <1>8, <1>9, <1>10 DEF KeysAdded
<1> QED BY <1>11 DEF r, t, a, b

LedAdded(q, r, v, n) ==
  /\ r \in Seq(LockEvents) /\ Downs(r) = Downs(q) /\ (DownOnce(q) => DownOnce(r))
  /\ Tells(r, v, n) /\ ~Unlit(r)
  /\ \A m : Within(q, m) /\ n <= m => Within(r, m)

LEMMA LedAddedFacts ==
  ASSUME NEW q \in Seq(LockEvents), NEW v \in BOOLEAN, NEW n \in Nat \ {0}
  PROVE  LedAdded(q, Append(q, LedEvent(v, n)), v, n)
<1> DEFINE e == LedEvent(v, n)
           l == Len(q) + 1
<1>1. /\ e \in LockEvents /\ ~Toggles(e) /\ e.type = "led" /\ e.value = v /\ e.press = n
  BY LedRecords
<1> HIDE DEF e
<1> DEFINE r == Append(q, e)
<1>2. /\ r \in Seq(LockEvents)
      /\ \A j \in DOMAIN q : j \in DOMAIN r /\ r[j] = q[j]
      /\ l \in DOMAIN r /\ r[l] = e
      /\ \A k \in DOMAIN r : k \in DOMAIN q \/ k = l
      /\ \A j \in DOMAIN q : l > j /\ j # l
  BY <1>1, Appended
<1> HIDE DEF r, l
<1>3. Downs(r) = Downs(q) BY <1>1, <1>2 DEF Downs
<1>4. DownOnce(q) => DownOnce(r) BY <1>1, <1>2 DEF DownOnce
<1>5. \A j \in DOMAIN r : LastLit(r, j) => j = l BY <1>1, <1>2 DEF LastLit
<1>6. Tells(r, v, n) BY <1>1, <1>2, <1>5 DEF Tells
<1>7. ~Unlit(r) BY <1>1, <1>2 DEF Unlit
<1>8. \A m : Within(q, m) /\ n <= m => Within(r, m) BY <1>1, <1>2 DEF Within
<1>9. LedAdded(q, r, v, n) BY <1>2, <1>3, <1>4, <1>6, <1>7, <1>8 DEF LedAdded
<1> QED BY <1>9 DEF r, e

LEMMA NothingQueued ==
  /\ <<>> \in Seq(LockEvents) /\ Downs(<<>>) = {} /\ DownOnce(<<>>) /\ Unlit(<<>>)
  /\ \A v, n : Tells(<<>>, v, n) /\ Within(<<>>, n)
BY DEF Downs, DownOnce, Unlit, Tells, Within

LEMMA Later ==
  ASSUME NEW q \in Seq(LockEvents), NEW m \in Nat, Within(q, m)
  PROVE  Within(q, m + 1) /\ Downs(q) \subseteq 1 .. m
<1>1. \A j \in DOMAIN q : q[j] \in LockEvents OBVIOUS
<1>2. \A j \in DOMAIN q : q[j].press \in Nat \ {0} BY <1>1 DEF LockEvents
<1>3. Within(q, m + 1) BY <1>2 DEF Within
<1>4. Downs(q) \subseteq 1 .. m BY <1>2, DownsHas DEF Within
<1> QED BY <1>3, <1>4

LEMMA Parity == \A n \in Nat : (n + 1) % 2 = 0 <=> ~(n % 2 = 0)
OBVIOUS

LEMMA Flipped == \A a, b \in BOOLEAN : ((~a) = b <=> ~(a = b)) /\ (a = (~b) <=> ~(a = b))
OBVIOUS

-----------------------------------------------------------------------------
(* Keylock: every step keeps the invariant.                                *)

LEMMA LocksParts ==
  ASSUME LocksInv PROVE LocksTyped /\ Numbered /\ LedsTell /\ Starting /\ Certain
BY DEF LocksInv

LEMMA LocksTogether ==
  ASSUME LocksTyped', Numbered', LedsTell', Starting', Certain' PROVE LocksInv'
BY DEF LocksInv

\* The numbers the claims are about.
LEMMA LocksNumbers ==
  ASSUME LocksTyped, Numbered
  PROVE  /\ presses \in Nat /\ Toggled \in Nat /\ Len(typed) \in Nat /\ ledSeen \in Nat
         /\ Toggled = presses - Len(typed) /\ Toggled <= presses
         /\ Inferred \subseteq 1 .. presses
         /\ IsFiniteSet(Inferred) /\ Cardinality(Inferred) \in Nat
         /\ (typed = <<>> <=> Len(typed) = 0)
<1>1. presses \in Nat /\ ledSeen \in Nat BY LocksAssumption DEF LocksTyped, LocksTypeOK
<1>2. Len(typed) \in Nat /\ (typed = <<>> <=> Len(typed) = 0)
  BY LenProperties, EmptySeq DEF LocksTyped
<1>3. Toggled = presses - Len(typed) /\ Toggled \in Nat BY DEF Toggled, Numbered
<1>4. Toggled <= presses BY <1>1, <1>2, <1>3
<1>5. Inferred \subseteq 1 .. presses
  <2>1. \A k \in open \ leds : Downs(queue[k]) \subseteq 1 .. presses
    <3>1. \A k \in open : k \in Keyboards /\ queue[k] \in Seq(LockEvents)
      BY DEF LocksTyped, LocksTypeOK
    <3> QED BY <1>1, <3>1, Later DEF Numbered
  <2> QED BY <2>1 DEF Inferred
<1>6. IsFiniteSet(Inferred) /\ Cardinality(Inferred) \in Nat
  <2>1. IsFiniteSet(1 .. presses) BY <1>1, FS_Interval
  <2> QED BY <1>5, <2>1, FS_Subset, FS_CardinalityType
<1> QED BY <1>1, <1>2, <1>3, <1>4, <1>5, <1>6

\* What is inferred is the presses held by the keyboards without LEDs.
LEMMA InferredHas ==
  \A p : p \in Inferred <=> \E k \in open \ leds : p \in Downs(queue[k])
BY DEF Inferred

LEMMA QueueTyped ==
  ASSUME LocksTyped, NEW k \in Keyboards
  PROVE  queue[k] \in Seq(LockEvents)
BY DEF LocksTyped

LEMMA PressKeeps ==
  ASSUME LocksInv, NEW k \in Keyboards, Press(k) PROVE LocksInv'
<1> DEFINE p == presses + 1
<1>1. /\ LocksTyped /\ Numbered /\ LedsTell /\ Starting /\ Certain
      /\ k \in plugged /\ presses < MaxPresses /\ presses' = p /\ typed' = Append(typed, p)
      /\ leds' = leds /\ plugged' = plugged /\ lock' = lock /\ unread' = unread /\ open' = open
      /\ capsLock' = capsLock /\ ledSeen' = ledSeen /\ doubtful' = doubtful
  BY LocksParts DEF Press
<1>2. /\ presses \in Nat /\ Toggled \in Nat /\ Len(typed) \in Nat /\ ledSeen \in Nat
      /\ Toggled = presses - Len(typed) /\ Inferred \subseteq 1 .. presses
      /\ IsFiniteSet(Inferred) /\ Cardinality(Inferred) \in Nat
  BY <1>1, LocksNumbers
<1>3. KeysAdded(queue[k], queue'[k], p)
  <2>1. queue'[k] = queue[k] \o <<KeyEvent("down", p), KeyEvent("up", p)>>
    BY <1>1 DEF Press, LocksTyped
  <2> QED BY <1>1, <1>2, <2>1, QueueTyped, KeysAddedFacts
<1>4. /\ queue' \in [Keyboards -> Seq(LockEvents)]
      /\ \A m \in Keyboards : m # k => queue'[m] = queue[m]
  <2>1. queue' = [queue EXCEPT ![k] = queue'[k]] BY <1>1 DEF Press, LocksTyped
  <2>2. queue'[k] \in Seq(LockEvents) BY <1>3 DEF KeysAdded
  <2> QED BY <1>1, <2>1, <2>2 DEF LocksTyped
<1>5. /\ typed' \in Seq(Nat) /\ Len(typed') = Len(typed) + 1 /\ typed' # <<>>
      /\ \A j \in DOMAIN typed : j \in DOMAIN typed' /\ typed'[j] = typed[j]
      /\ typed'[Len(typed) + 1] = p
      /\ \A j \in DOMAIN typed' : j \in DOMAIN typed \/ j = Len(typed) + 1
  <2>1. typed \in Seq(Nat) BY <1>1 DEF LocksTyped
  <2>2. p \in Nat BY <1>2
  <2>3. typed' = Append(typed, p) BY <1>1
  <2> HIDE DEF p
  <2> QED BY <2>1, <2>2, <2>3, Appended, EmptySeq, LenProperties
<1>6. Toggled' = Toggled BY <1>1, <1>2, <1>5 DEF Toggled
<1>7. LocksTyped'
  <2>1. presses' \in 0 .. MaxPresses /\ ledSeen' \in 0 .. presses'
    BY <1>1, <1>2, LocksAssumption DEF LocksTyped, LocksTypeOK
  <2>2. \A m \in Keyboards \ plugged' : queue'[m] = <<>> BY <1>1, <1>4 DEF LocksTyped
  <2> QED BY <1>1, <1>4, <1>5, <2>1, <2>2 DEF LocksTyped, LocksTypeOK
<1>8. p \notin Downs(queue[k])
      /\ \A m \in Keyboards : p \notin Downs(queue[m])
  <2>1. \A m \in Keyboards : Downs(queue[m]) \subseteq 1 .. presses
    BY <1>1, <1>2, QueueTyped, Later DEF Numbered
  <2> QED BY <1>2, <2>1
<1>9. Numbered'
  <2>1. \A j \in DOMAIN typed' : typed'[j] = Toggled' + j
    <3>1. Toggled' + (Len(typed) + 1) = p BY <1>2, <1>6
    <3> QED BY <1>1, <1>5, <1>6, <3>1 DEF Numbered
  <2>2. \A m \in Keyboards : DownOnce(queue'[m]) /\ Within(queue'[m], presses')
    <3>1. \A m \in Keyboards : DownOnce(queue[m]) /\ Within(queue[m], presses)
      BY <1>1 DEF Numbered
    <3>2. \A m \in Keyboards : Within(queue[m], p) BY <1>1, <1>2, <3>1, QueueTyped, Later
    <3>3. DownOnce(queue'[k]) /\ Within(queue'[k], p)
      BY <1>2, <1>3, <1>8, <3>1, <3>2 DEF KeysAdded
    <3> QED BY <1>1, <1>4, <3>1, <3>2, <3>3
  <2>3. \A m, n \in Keyboards : m # n => Downs(queue'[m]) \cap Downs(queue'[n]) = {}
    <3>1. Downs(queue'[k]) = Downs(queue[k]) \cup {p} BY <1>3 DEF KeysAdded
    <3>2. \A m \in Keyboards : m # k => Downs(queue'[m]) = Downs(queue[m]) BY <1>4
    <3>3. \A m, n \in Keyboards : m # n => Downs(queue[m]) \cap Downs(queue[n]) = {}
      BY <1>1 DEF Numbered
    <3>4. ASSUME NEW m \in Keyboards, m # k
          PROVE  Downs(queue'[k]) \cap Downs(queue'[m]) = {}
      BY <1>8, <3>1, <3>2, <3>3, <3>4
    <3>5. ASSUME NEW m \in Keyboards, NEW n \in Keyboards, m # n
          PROVE  Downs(queue'[m]) \cap Downs(queue'[n]) = {}
      <4>1. CASE m = k BY <3>4, <3>5, <4>1
      <4>2. CASE n = k BY <3>4, <3>5, <4>2
      <4>3. CASE m # k /\ n # k BY <3>2, <3>3, <3>5, <4>3
      <4> QED BY <4>1, <4>2, <4>3
    <3> QED BY <3>5
  <2> QED BY <1>2, <1>6, <2>1, <2>2, <2>3 DEF Numbered
<1>10. Lit' = Lit /\ Lit \subseteq Keyboards BY <1>1 DEF Lit, LocksTyped
<1>11. \A m \in Keyboards : /\ Unlit(queue'[m]) <=> Unlit(queue[m])
                            /\ \A v, n : Tells(queue[m], v, n) => Tells(queue'[m], v, n)
  BY <1>3, <1>4 DEF KeysAdded
<1>12. LedsTell' BY <1>1, <1>6, <1>10, <1>11 DEF LedsTell
<1>13. Starting' BY <1>1, <1>6, <1>10, <1>11 DEF Starting
<1>14. Certain'
  <2> SUFFICES ASSUME unread = {}, ~doubtful PROVE FromLeds' /\ FromKeys'
    BY <1>1 DEF Certain
  <2>1. FromLeds /\ FromKeys BY <1>1 DEF Certain
  <2>2. FromLeds' BY <1>1, <1>5, <1>6, <1>10, <1>11, <2>1 DEF FromLeds
  <2>3. FromKeys'
    <3> SUFFICES ASSUME Lit = {}
                 PROVE  \/ \E q \in Inferred' : q <= ledSeen
                        \/ capsLock = lock
                             <=> (Cardinality(Inferred') + Len(typed')) % 2 = 0
      BY <1>1, <1>10 DEF FromKeys
    <3>1. k \in open \ leds BY <1>1 DEF Lit, LocksTyped
    <3>2. Inferred' = Inferred \cup {p}
      <4>1. \A m \in open \ leds : m \in Keyboards BY <1>1 DEF LocksTyped, LocksTypeOK
      <4>2. Downs(queue'[k]) = Downs(queue[k]) \cup {p} BY <1>3 DEF KeysAdded
      <4>3. \A q : q \in Inferred' <=> \E m \in open \ leds : q \in Downs(queue'[m])
        BY <1>1 DEF Inferred
      <4>4. \A m \in open \ leds : m # k => Downs(queue'[m]) = Downs(queue[m]) BY <1>4, <4>1
      <4>5. ASSUME NEW q PROVE q \in Inferred' <=> q \in Inferred \cup {p}
        BY <3>1, <4>2, <4>3, <4>4, InferredHas
      <4> QED BY <4>5
    <3>3. Cardinality(Inferred') = Cardinality(Inferred) + 1
      <4>1. p \notin Inferred BY <1>2
      <4> QED BY <1>2, <3>2, <4>1, FS_AddElement
    <3>4. Cardinality(Inferred') + Len(typed') = ((Cardinality(Inferred) + Len(typed)) + 1) + 1
      BY <1>2, <1>5, <3>3
    <3>5. (Cardinality(Inferred') + Len(typed')) % 2 = 0
            <=> (Cardinality(Inferred) + Len(typed)) % 2 = 0
      <4> DEFINE n == Cardinality(Inferred) + Len(typed)
      <4>1. n \in Nat /\ n + 1 \in Nat BY <1>2
      <4> HIDE DEF n
      <4>2. (n + 1 + 1) % 2 = 0 <=> n % 2 = 0 BY <4>1, Parity
      <4> QED BY <3>4, <4>2 DEF n
    <3>6. \/ \E q \in Inferred : q <= ledSeen
          \/ capsLock = lock <=> (Cardinality(Inferred) + Len(typed)) % 2 = 0
      BY <1>1, <2>1 DEF FromKeys
    <3> QED BY <3>2, <3>5, <3>6
  <2> QED BY <2>2, <2>3
<1> QED BY <1>7, <1>9, <1>12, <1>13, <1>14, LocksTogether

LEMMA ToggleKeeps ==
  ASSUME LocksInv, Toggle PROVE LocksInv'
<1> DEFINE n == Toggled + 1
<1>1. /\ LocksTyped /\ Numbered /\ LedsTell /\ Starting /\ Certain
      /\ typed # <<>> /\ typed' = Tail(typed) /\ lock' = ~lock /\ presses' = presses
      /\ leds' = leds /\ plugged' = plugged /\ unread' = unread /\ open' = open
      /\ capsLock' = capsLock /\ ledSeen' = ledSeen /\ doubtful' = doubtful
  BY LocksParts DEF Toggle
<1>2. /\ presses \in Nat /\ Toggled \in Nat /\ Len(typed) \in Nat /\ ledSeen \in Nat
      /\ Toggled = presses - Len(typed) /\ Inferred \subseteq 1 .. presses
      /\ IsFiniteSet(Inferred) /\ Cardinality(Inferred) \in Nat
  BY <1>1, LocksNumbers
<1>3. /\ typed' \in Seq(Nat) /\ Len(typed') = Len(typed) - 1 /\ Len(typed) > 0
      /\ Head(typed) = n
      /\ \A j \in DOMAIN typed' : j \in Nat /\ typed'[j] = Toggled + (j + 1)
  <2>1. typed \in Seq(Nat) /\ \A j \in DOMAIN typed : typed[j] = Toggled + j
    BY <1>1 DEF LocksTyped, Numbered
  <2>2. /\ Tail(typed) \in Seq(Nat) /\ Len(Tail(typed)) = Len(typed) - 1 /\ Len(typed) > 0
        /\ 1 \in DOMAIN typed /\ Head(typed) = typed[1]
        /\ \A j \in DOMAIN Tail(typed) :
             j \in Nat /\ j + 1 \in DOMAIN typed /\ Tail(typed)[j] = typed[j + 1]
    BY <1>1, <2>1, Popped, HeadTailProperties, EmptySeq, LenProperties
  <2> QED BY <1>1, <2>1, <2>2
<1>4. /\ n \in Nat \ {0} /\ n <= presses /\ Toggled' = n
  <2>1. Toggled' = presses - Len(typed') BY <1>1 DEF Toggled
  <2> QED BY <1>2, <1>3, <2>1
<1>5. \A k \in Keyboards :
        /\ k \in Lit => LedAdded(queue[k], queue'[k], lock', n)
        /\ k \notin Lit => queue'[k] = queue[k]
  <2>1. \A k \in Keyboards : queue'[k] = IF k \in Lit THEN Append(queue[k], LedEvent(lock', n))
                                         ELSE queue[k]
    BY <1>3 DEF Toggle, Lit
  <2>2. lock' \in BOOLEAN BY <1>1 DEF LocksTyped, LocksTypeOK
  <2> HIDE DEF n
  <2> QED BY <1>1, <1>4, <2>1, <2>2, QueueTyped, LedAddedFacts
<1>6. /\ queue' \in [Keyboards -> Seq(LockEvents)]
      /\ \A k \in Keyboards : Downs(queue'[k]) = Downs(queue[k])
  <2>1. \A k \in Keyboards : queue'[k] \in Seq(LockEvents)
                             /\ Downs(queue'[k]) = Downs(queue[k])
    BY <1>1, <1>5, QueueTyped DEF LedAdded
  <2>2. queue' = [k \in Keyboards |-> queue'[k]] BY DEF Toggle
  <2> QED BY <2>1, <2>2
<1>7. Lit' = Lit /\ Lit \subseteq Keyboards /\ Lit \subseteq plugged
  BY <1>1 DEF Lit, LocksTyped
<1>8. LocksTyped'
  <2>1. \A m \in Keyboards \ plugged' : queue'[m] = <<>> BY <1>1, <1>5, <1>7 DEF LocksTyped
  <2>2. lock' \in BOOLEAN BY <1>1 DEF LocksTyped, LocksTypeOK
  <2> QED BY <1>1, <1>3, <1>6, <2>1, <2>2 DEF LocksTyped, LocksTypeOK
<1>9. Numbered'
  <2>1. \A j \in DOMAIN typed' : typed'[j] = Toggled' + j BY <1>2, <1>3, <1>4
  <2>2. \A m \in Keyboards : DownOnce(queue'[m]) /\ Within(queue'[m], presses')
    BY <1>1, <1>4, <1>5 DEF Numbered, LedAdded
  <2>3. \A m, k \in Keyboards : m # k => Downs(queue'[m]) \cap Downs(queue'[k]) = {}
    BY <1>1, <1>6 DEF Numbered
  <2> QED BY <1>4, <2>1, <2>2, <2>3 DEF Numbered
<1>10. LedsTell' BY <1>4, <1>5, <1>7 DEF LedsTell, LedAdded
<1>11. \A k \in Lit : ~Unlit(queue'[k]) BY <1>5, <1>7 DEF LedAdded
<1>12. Starting' BY <1>1, <1>7, <1>11 DEF Starting
<1>13. Certain'
  <2> SUFFICES ASSUME unread = {}, ~doubtful PROVE FromLeds' /\ FromKeys'
    BY <1>1 DEF Certain
  <2>1. FromKeys BY <1>1 DEF Certain
  <2>2. FromLeds' BY <1>7, <1>11 DEF FromLeds
  <2>3. FromKeys'
    <3>1. Inferred' = Inferred
      <4>1. \A m \in open \ leds : m \in Keyboards BY <1>1 DEF LocksTyped, LocksTypeOK
      <4>2. \A q : q \in Inferred' <=> \E m \in open \ leds : q \in Downs(queue'[m])
        BY <1>1 DEF Inferred
      <4>3. ASSUME NEW q PROVE q \in Inferred' <=> q \in Inferred
        BY <1>6, <4>1, <4>2, InferredHas
      <4> QED BY <4>3
    <3>2. (Cardinality(Inferred) + Len(typed)) % 2 = 0
            <=> ~((Cardinality(Inferred) + Len(typed')) % 2 = 0)
      <4> DEFINE c == Cardinality(Inferred) + Len(typed')
      <4>1. c \in Nat /\ Cardinality(Inferred) + Len(typed) = c + 1 BY <1>2, <1>3
      <4> HIDE DEF c
      <4>2. (c + 1) % 2 = 0 <=> ~(c % 2 = 0) BY <4>1, Parity
      <4> QED BY <4>1, <4>2 DEF c
    <3>3. capsLock' = lock' <=> ~(capsLock = lock)
      BY <1>1, Flipped DEF LocksTyped, LocksTypeOK
    <3> QED BY <1>1, <1>7, <2>1, <3>1, <3>2, <3>3 DEF FromKeys
  <2> QED BY <2>2, <2>3
<1> QED BY <1>8, <1>9, <1>10, <1>12, <1>13, LocksTogether

LEMMA UnplugKeeps ==
  ASSUME LocksInv, NEW k \in Keyboards, Unplug(k) PROVE LocksInv'
<1>1. /\ LocksTyped /\ Numbered /\ LedsTell /\ Starting /\ Certain
      /\ k \in plugged /\ plugged' = plugged \ {k} /\ queue' = [queue EXCEPT ![k] = <<>>]
      /\ leds' = leds /\ lock' = lock /\ typed' = typed /\ presses' = presses
      /\ unread' = unread /\ open' = open /\ capsLock' = capsLock /\ ledSeen' = ledSeen
  BY LocksParts DEF Unplug
<1>2. /\ presses \in Nat /\ Toggled \in Nat /\ ledSeen \in Nat
      /\ Toggled = presses - Len(typed) /\ Inferred \subseteq 1 .. presses
      /\ (typed = <<>> <=> Len(typed) = 0)
  BY <1>1, LocksNumbers
<1>3. /\ doubtful' \in BOOLEAN
      /\ doubtful' = FALSE => ~doubtful /\ queue[k] = <<>> /\ typed = <<>>
  BY <1>1 DEF Unplug, LocksTyped, LocksTypeOK
<1>4. /\ queue' \in [Keyboards -> Seq(LockEvents)] /\ queue'[k] = <<>>
      /\ \A m \in Keyboards : m # k => queue'[m] = queue[m]
  BY <1>1, NothingQueued DEF LocksTyped
<1>5. LocksTyped'
  <2>1. \A m \in Keyboards \ plugged' : queue'[m] = <<>> BY <1>1, <1>4 DEF LocksTyped
  <2> QED BY <1>1, <1>3, <1>4, <2>1 DEF LocksTyped, LocksTypeOK
<1>6. Toggled' = Toggled /\ Lit' = Lit \ {k} /\ Lit \subseteq Keyboards
  BY <1>1 DEF Toggled, Lit, LocksTyped
<1>7. Numbered'
  <2>1. \A m \in Keyboards : DownOnce(queue'[m]) /\ Within(queue'[m], presses')
    BY <1>1, <1>4, NothingQueued DEF Numbered
  <2>2. \A m, n \in Keyboards : m # n => Downs(queue'[m]) \cap Downs(queue'[n]) = {}
    <3>1. \A m \in Keyboards : Downs(queue'[m]) \subseteq Downs(queue[m])
      BY <1>4, NothingQueued
    <3>2. \A m, n \in Keyboards : m # n => Downs(queue[m]) \cap Downs(queue[n]) = {}
      BY <1>1 DEF Numbered
    <3> QED BY <3>1, <3>2
  <2> QED BY <1>1, <1>6, <2>1, <2>2 DEF Numbered
<1>8. LedsTell' BY <1>1, <1>4, <1>6 DEF LedsTell
<1>9. Starting' BY <1>1, <1>4, <1>6 DEF Starting
<1>10. Certain'
  <2> SUFFICES ASSUME unread = {}, doubtful' = FALSE PROVE FromLeds' /\ FromKeys'
    BY <1>1, <1>3 DEF Certain
  <2>1. FromLeds /\ FromKeys /\ queue[k] = <<>> /\ typed = <<>>
    BY <1>1, <1>3 DEF Certain
  <2>2. \A m \in Keyboards : queue'[m] = queue[m] BY <1>4, <2>1
  <2>3. Unlit(queue[k]) BY <2>1, NothingQueued
  <2>4. FromLeds'
    <3> SUFFICES ASSUME Lit' # {}, \A m \in Lit' : Unlit(queue'[m])
                 PROVE  ledSeen = Toggled /\ capsLock = lock
      BY <1>1, <1>6 DEF FromLeds
    <3>1. Lit # {} /\ \A m \in Lit : Unlit(queue[m]) BY <1>6, <2>2, <2>3
    <3> QED BY <2>1, <3>1 DEF FromLeds
  <2>5. Inferred' = Inferred
    <3>1. \A m \in open \ leds : m \in Keyboards BY <1>1 DEF LocksTyped, LocksTypeOK
    <3>2. \A q : q \in Inferred' <=> \E m \in open \ leds : q \in Downs(queue'[m])
      BY <1>1 DEF Inferred
    <3>3. ASSUME NEW q PROVE q \in Inferred' <=> q \in Inferred
      BY <2>2, <3>1, <3>2, InferredHas
    <3> QED BY <3>3
  <2>6. FromKeys'
    <3> SUFFICES ASSUME Lit' = {}, plugged' # {}
                 PROVE  \/ \E q \in Inferred : q <= ledSeen
                        \/ capsLock = lock <=> (Cardinality(Inferred) + Len(typed)) % 2 = 0
      BY <1>1, <2>5 DEF FromKeys
    <3>1. CASE Lit = {} BY <1>1, <2>1, <3>1 DEF FromKeys
    <3>2. CASE Lit # {}
      <4>1. \A m \in Lit : Unlit(queue[m]) BY <1>6, <2>3
      <4>2. ledSeen = Toggled /\ capsLock = lock BY <2>1, <3>2, <4>1 DEF FromLeds
      <4>3. ledSeen = presses /\ Len(typed) = 0 BY <1>2, <2>1, <4>2
      <4>4. CASE Inferred = {}
        <5>1. Cardinality(Inferred) = 0 BY <4>4, FS_EmptySet
        <5>2. (0 + 0) % 2 = 0 OBVIOUS
        <5> QED BY <4>2, <4>3, <5>1, <5>2
      <4>5. CASE Inferred # {}
        <5>1. PICK q : q \in Inferred BY <4>5
        <5>2. q \in 1 .. presses BY <1>2, <5>1
        <5>3. q <= ledSeen BY <4>3, <5>2
        <5> QED BY <5>1, <5>3
      <4> QED BY <4>4, <4>5
    <3> QED BY <3>1, <3>2
  <2> QED BY <2>4, <2>6
<1> QED BY <1>5, <1>7, <1>8, <1>9, <1>10, LocksTogether

\* Where no queue, no typing and no plug changes, neither do the claims on them.
LEMMA LocksFrame ==
  ASSUME LocksInv, UNCHANGED <<leds, plugged, lock, typed, presses, queue, open>>
  PROVE  Toggled' = Toggled /\ Lit' = Lit /\ Inferred' = Inferred /\ LedsTell' /\ Numbered'
<1>1. /\ LedsTell /\ Numbered /\ Toggled' = Toggled /\ Lit' = Lit /\ Inferred' = Inferred
  BY LocksParts DEF Toggled, Lit, Inferred
<1> QED BY <1>1 DEF LedsTell, Numbered

LEMMA ReadInitialStateKeeps ==
  ASSUME LocksInv, NEW k \in Keyboards, ReadInitialState(k) PROVE LocksInv'
<1> DEFINE Unread == typed # <<>> \/ \E j \in open \ leds : queue[j] # <<>>
<1>1. /\ LocksTyped /\ Numbered /\ Starting /\ k \in unread /\ unread' = unread \ {k}
      /\ UNCHANGED <<leds, plugged, lock, typed, presses, queue, open>> /\ ledSeen' = ledSeen
  BY LocksParts DEF ReadInitialState, external
<1>2. /\ Toggled' = Toggled /\ Lit' = Lit /\ Inferred' = Inferred /\ LedsTell' /\ Numbered'
  BY <1>1, LocksFrame
<1>3. \/ capsLock' = lock /\ doubtful' = (doubtful \/ Unread)
      \/ capsLock' = capsLock /\ doubtful' = TRUE
  BY DEF ReadInitialState
<1>4. /\ capsLock' \in BOOLEAN /\ doubtful' \in BOOLEAN
      /\ ~doubtful' => capsLock' = lock /\ ~Unread
  BY <1>1, <1>3 DEF LocksTyped, LocksTypeOK
<1>5. LocksTyped' BY <1>1, <1>4 DEF LocksTyped, LocksTypeOK
<1>6. Starting' BY <1>1, <1>2 DEF Starting
<1>7. Certain'
  <2> SUFFICES ASSUME ~doubtful' PROVE FromLeds' /\ FromKeys' BY DEF Certain
  <2>1. capsLock' = lock /\ typed = <<>> /\ \A j \in open \ leds : queue[j] = <<>>
    BY <1>4
  <2>2. ledSeen = 0 /\ (Toggled = 0 \/ \A m \in Lit : ~Unlit(queue[m])) BY <1>1 DEF Starting
  <2>3. FromLeds' BY <1>1, <1>2, <2>1, <2>2 DEF FromLeds
  <2>4. Inferred = {} BY <2>1, NothingQueued DEF Inferred
  <2>5. Cardinality(Inferred) = 0 BY <2>4, FS_EmptySet
  <2>6. Len(typed) = 0 BY <1>1, <2>1, LocksNumbers
  <2>7. (Cardinality(Inferred) + Len(typed)) % 2 = 0 BY <2>5, <2>6
  <2>8. FromKeys' BY <1>1, <1>2, <2>1, <2>7 DEF FromKeys
  <2> QED BY <2>3, <2>8
<1> QED BY <1>2, <1>5, <1>6, <1>7, LocksTogether

LEMMA RemoveDeviceKeeps ==
  ASSUME LocksInv, NEW k \in Keyboards, RemoveDevice(k) PROVE LocksInv'
<1>1. /\ LocksTyped /\ Numbered /\ LedsTell /\ Starting /\ Certain
      /\ unread = {} /\ k \notin plugged /\ open' = open \ {k}
      /\ UNCHANGED <<leds, plugged, lock, typed, presses, queue, unread>>
      /\ UNCHANGED <<capsLock, ledSeen, doubtful>>
  BY LocksParts DEF RemoveDevice, external
<1>2. LocksTyped' BY <1>1 DEF LocksTyped, LocksTypeOK
<1>3. Toggled' = Toggled /\ Lit' = Lit BY <1>1 DEF Toggled, Lit
<1>4. Numbered' /\ LedsTell' /\ Starting' BY <1>1, <1>3 DEF Numbered, LedsTell, Starting
<1>5. Inferred' = Inferred
  <2>1. queue[k] = <<>> BY <1>1 DEF LocksTyped
  <2>2. Downs(queue[k]) = {} BY <2>1, NothingQueued
  <2>3. \A q : q \in Inferred' <=> \E m \in open' \ leds : q \in Downs(queue[m])
    BY <1>1 DEF Inferred
  <2>4. ASSUME NEW q PROVE q \in Inferred' <=> q \in Inferred
    BY <1>1, <2>2, <2>3, InferredHas
  <2> QED BY <2>4
<1>6. Certain' BY <1>1, <1>3, <1>5 DEF Certain, FromLeds, FromKeys
<1> QED BY <1>2, <1>4, <1>6, LocksTogether

LEMMA ApplyEventKeeps ==
  ASSUME LocksInv, NEW k \in Keyboards, ApplyEvent(k) PROVE LocksInv'
<1>1. /\ LocksTyped /\ Numbered /\ LedsTell /\ Starting /\ Certain
      /\ unread = {} /\ k \in open /\ queue[k] # <<>> /\ queue' = [queue EXCEPT ![k] = Tail(@)]
      /\ UNCHANGED <<leds, plugged, lock, typed, presses, unread, open>>
  BY LocksParts DEF ApplyEvent, external
<1>2. /\ presses \in Nat /\ Toggled \in Nat /\ Len(typed) \in Nat /\ ledSeen \in Nat
      /\ Toggled = presses - Len(typed) /\ Inferred \subseteq 1 .. presses
      /\ IsFiniteSet(Inferred) /\ Cardinality(Inferred) \in Nat
      /\ (typed = <<>> <=> Len(typed) = 0)
  BY <1>1, LocksNumbers
<1>3. PICK e \in LockEvents : e = Head(queue[k]) /\ EventTaken(queue[k], queue'[k], e)
  <2>1. queue'[k] = Tail(queue[k]) BY <1>1 DEF LocksTyped
  <2>2. EventTaken(queue[k], queue'[k], Head(queue[k]))
    BY <1>1, <2>1, QueueTyped, EventTakenFacts
  <2> QED BY <2>2 DEF EventTaken
<1>4. /\ queue' \in [Keyboards -> Seq(LockEvents)]
      /\ \A m \in Keyboards : m # k => queue'[m] = queue[m]
  <2>1. queue'[k] \in Seq(LockEvents) BY <1>3 DEF EventTaken
  <2> QED BY <1>1, <2>1 DEF LocksTyped
<1>5. Toggled' = Toggled /\ Lit' = Lit /\ Lit \subseteq Keyboards /\ Lit = leds \cap plugged
  BY <1>1 DEF Toggled, Lit, LocksTyped
<1>6. k \in plugged BY <1>1 DEF LocksTyped
<1>7. DownOnce(queue[k]) /\ Within(queue[k], presses) BY <1>1 DEF Numbered
<1>8. /\ DownOnce(queue'[k]) /\ Within(queue'[k], presses) /\ e.press <= presses
      /\ e.press \in Nat
      /\ Toggles(e) => e.press \in Downs(queue[k])
                       /\ Downs(queue'[k]) = Downs(queue[k]) \ {e.press}
      /\ ~Toggles(e) => Downs(queue'[k]) = Downs(queue[k])
      /\ Tells(queue[k], lock, Toggled) => Tells(queue'[k], lock, Toggled)
      /\ Unlit(queue[k]) => Unlit(queue'[k]) /\ e.type # "led"
      /\ Unlit(queue'[k]) /\ e.type # "led" => Unlit(queue[k])
      /\ Tells(queue[k], lock, Toggled) /\ Unlit(queue'[k]) /\ e.type = "led" =>
           e.value = lock /\ e.press = Toggled
  <2>1. e.press \in Nat BY DEF LockEvents
  <2> QED BY <1>3, <1>7, <2>1 DEF EventTaken
<1>9. Numbered'
  <2>1. \A m \in Keyboards : DownOnce(queue'[m]) /\ Within(queue'[m], presses')
    BY <1>1, <1>4, <1>8 DEF Numbered
  <2>2. \A m, n \in Keyboards : m # n => Downs(queue'[m]) \cap Downs(queue'[n]) = {}
    <3>1. \A m \in Keyboards : Downs(queue'[m]) \subseteq Downs(queue[m]) BY <1>4, <1>8
    <3>2. \A m, n \in Keyboards : m # n => Downs(queue[m]) \cap Downs(queue[n]) = {}
      BY <1>1 DEF Numbered
    <3> QED BY <3>1, <3>2
  <2> QED BY <1>1, <1>2, <1>5, <2>1, <2>2 DEF Numbered
<1>10. LedsTell' BY <1>1, <1>4, <1>5, <1>8 DEF LedsTell
<1>11. Starting' BY <1>1 DEF Starting
<1>12. \A m \in Keyboards \ plugged' : queue'[m] = <<>> BY <1>1, <1>4, <1>6 DEF LocksTyped
<1>13. CASE k \in leds /\ e.type = "led"
  <2>1. capsLock' = e.value /\ ledSeen' = e.press
        /\ doubtful' = \E j \in open \ leds : queue[j] # <<>>
    BY <1>3, <1>13 DEF ApplyEvent
  <2>2. e.value \in BOOLEAN BY <1>13 DEF LockEvents
  <2>3. LocksTyped'
    <3>1. ledSeen' \in 0 .. presses BY <1>2, <1>8, <2>1
    <3> QED BY <1>1, <1>4, <1>12, <2>1, <2>2, <3>1 DEF LocksTyped, LocksTypeOK
  <2>4. k \in Lit BY <1>5, <1>6, <1>13
  <2>5. FromLeds'
    <3> SUFFICES ASSUME \A m \in Lit : Unlit(queue'[m])
                 PROVE  ledSeen' = Toggled /\ capsLock' = lock
      BY <1>1, <1>5 DEF FromLeds
    <3>1. Tells(queue[k], lock, Toggled) BY <1>1, <2>4 DEF LedsTell
    <3>2. e.value = lock /\ e.press = Toggled BY <1>8, <1>13, <2>4, <3>1
    <3> QED BY <2>1, <3>2
  <2>6. FromKeys' BY <1>5, <2>4 DEF FromKeys
  <2>7. Certain' BY <2>5, <2>6 DEF Certain
  <2> QED BY <1>9, <1>10, <1>11, <2>3, <2>7, LocksTogether
<1>14. CASE k \notin leds /\ Toggles(e)
  <2>1. /\ capsLock' = ~capsLock /\ doubtful' = (doubtful \/ e.press <= ledSeen)
        /\ ledSeen' = ledSeen
    BY <1>3, <1>14 DEF ApplyEvent
  <2>2. LocksTyped' BY <1>1, <1>4, <1>12, <2>1 DEF LocksTyped, LocksTypeOK
  <2>3. doubtful' = FALSE => ~doubtful /\ ~(e.press <= ledSeen)
    BY <2>1
  <2>4. doubtful' \in BOOLEAN BY <2>1
  <2>5. e.press \in Inferred /\ Inferred' = Inferred \ {e.press}
    <3>1. \A m \in open \ leds : m \in Keyboards BY <1>1 DEF LocksTyped, LocksTypeOK
    <3>2. k \in open \ leds BY <1>1, <1>14
    <3>3. \A q : q \in Inferred' <=> \E m \in open \ leds : q \in Downs(queue'[m])
      BY <1>1 DEF Inferred
    <3>4. \A m \in Keyboards : m # k => e.press \notin Downs(queue[m])
      BY <1>1, <1>8, <1>14 DEF Numbered
    <3>5. \A m \in open \ leds : m # k => Downs(queue'[m]) = Downs(queue[m]) BY <1>4, <3>1
    <3>6. ASSUME NEW q PROVE q \in Inferred' <=> q \in Inferred \ {e.press}
      <4>1. q \in Downs(queue'[k]) <=> q \in Downs(queue[k]) /\ q # e.press BY <1>8, <1>14
      <4> QED BY <3>1, <3>2, <3>3, <3>4, <3>5, <4>1, InferredHas
    <3>7. e.press \in Inferred BY <1>8, <1>14, <3>2, InferredHas
    <3> QED BY <3>6, <3>7
  <2>6. Certain'
    <3> SUFFICES ASSUME doubtful' = FALSE PROVE FromLeds' /\ FromKeys'
      BY <2>4 DEF Certain
    <3>1. FromLeds /\ FromKeys /\ ~(e.press <= ledSeen) BY <1>1, <2>3 DEF Certain
    <3>2. k \notin Lit BY <1>5, <1>14
    <3>3. FromLeds'
      <4> SUFFICES ASSUME Lit # {}, \A m \in Lit : Unlit(queue'[m])
                   PROVE  ledSeen = Toggled /\ typed # <<>>
        BY <1>1, <1>5, <2>1 DEF FromLeds
      <4>1. \A m \in Lit : Unlit(queue[m]) BY <1>4, <1>5, <3>2
      <4>2. ledSeen = Toggled BY <3>1, <4>1 DEF FromLeds
      <4>3. Len(typed) # 0 BY <1>2, <1>8, <3>1, <4>2
      <4> QED BY <1>2, <4>2, <4>3
    <3>4. FromKeys'
      <4> SUFFICES ASSUME Lit = {}, plugged # {}
                   PROVE  \/ \E q \in Inferred' : q <= ledSeen
                          \/ capsLock' = lock
                               <=> (Cardinality(Inferred') + Len(typed)) % 2 = 0
        BY <1>1, <1>5, <2>1 DEF FromKeys
      <4>1. CASE \E q \in Inferred : q <= ledSeen
        <5>1. PICK q \in Inferred : q <= ledSeen BY <4>1
        <5>2. q # e.press BY <3>1, <5>1
        <5> QED BY <2>5, <5>1, <5>2
      <4>2. CASE ~(\E q \in Inferred : q <= ledSeen)
        <5>1. capsLock = lock <=> (Cardinality(Inferred) + Len(typed)) % 2 = 0
          BY <3>1, <4>2 DEF FromKeys
        <5>2. Cardinality(Inferred') = Cardinality(Inferred) - 1
              /\ Cardinality(Inferred') \in Nat
          <6>1. IsFiniteSet(Inferred') BY <1>2, <2>5, FS_Subset
          <6> QED BY <1>2, <2>5, <6>1, FS_RemoveElement, FS_CardinalityType
        <5>3. (Cardinality(Inferred) + Len(typed)) % 2 = 0
                <=> ~((Cardinality(Inferred') + Len(typed)) % 2 = 0)
          <6> DEFINE c == Cardinality(Inferred') + Len(typed)
          <6>1. c \in Nat /\ Cardinality(Inferred) + Len(typed) = c + 1 BY <1>2, <5>2
          <6> HIDE DEF c
          <6>2. (c + 1) % 2 = 0 <=> ~(c % 2 = 0) BY <6>1, Parity
          <6> QED BY <6>1, <6>2 DEF c
        <5>4. capsLock' = lock <=> ~(capsLock = lock)
          BY <1>1, <2>1, Flipped DEF LocksTyped, LocksTypeOK
        <5> QED BY <5>1, <5>3, <5>4
      <4> QED BY <4>1, <4>2
    <3> QED BY <3>3, <3>4
  <2> QED BY <1>9, <1>10, <1>11, <2>2, <2>6, LocksTogether
<1>15. CASE IF k \in leds THEN e.type # "led" ELSE ~Toggles(e)
  <2>1. capsLock' = capsLock /\ doubtful' = doubtful /\ ledSeen' = ledSeen
    BY <1>3, <1>15 DEF ApplyEvent
  <2>2. LocksTyped' BY <1>1, <1>4, <1>12, <2>1 DEF LocksTyped, LocksTypeOK
  <2>3. Inferred' = Inferred
    <3>1. \A m \in open \ leds : m \in Keyboards BY <1>1 DEF LocksTyped, LocksTypeOK
    <3>2. \A q : q \in Inferred' <=> \E m \in open \ leds : q \in Downs(queue'[m])
      BY <1>1 DEF Inferred
    <3>3. \A m \in open \ leds : Downs(queue'[m]) = Downs(queue[m])
      BY <1>4, <1>8, <1>15, <3>1
    <3>4. ASSUME NEW q PROVE q \in Inferred' <=> q \in Inferred
      BY <3>2, <3>3, InferredHas
    <3> QED BY <3>4
  <2>4. \A m \in Lit : Unlit(queue'[m]) <=> Unlit(queue[m])
    BY <1>4, <1>5, <1>8, <1>15
  <2>5. Certain' BY <1>1, <1>5, <2>1, <2>3, <2>4 DEF Certain, FromLeds, FromKeys
  <2> QED BY <1>9, <1>10, <1>11, <2>2, <2>5, LocksTogether
<1> QED BY <1>13, <1>14, <1>15

LEMMA InitiallyIn ==
  ASSUME NEW S, S # {}, NEW n
  PROVE  Initially(n, S) \subseteq S
BY DEF Initially

LEMMA LocksStart == LocksInit => LocksInv
<1> SUFFICES ASSUME LocksInit PROVE LocksInv OBVIOUS
<1>1. /\ leds \subseteq Keyboards /\ lock \in BOOLEAN /\ plugged = Keyboards
      /\ typed = <<>> /\ Len(typed) = 0 /\ typed \in Seq(Nat) /\ presses = 0
      /\ queue = [k \in Keyboards |-> <<>>] /\ unread = Keyboards /\ open = Keyboards
      /\ capsLock = FALSE /\ ledSeen = 0 /\ doubtful = FALSE
  <2>1. Initially("locks", SUBSET Keyboards) \subseteq SUBSET Keyboards
        /\ Initially("locks", BOOLEAN) \subseteq BOOLEAN
    <3>1. SUBSET Keyboards # {} /\ BOOLEAN # {} OBVIOUS
    <3> QED BY <3>1, InitiallyIn
  <2>2. Len(<<>>) = 0 /\ <<>> \in Seq(Nat) OBVIOUS
  <2> QED BY <2>1, <2>2 DEF LocksInit
<1>2. \A k \in Keyboards : queue[k] = <<>> BY <1>1
<1>3. queue \in [Keyboards -> Seq(LockEvents)] BY <1>1, NothingQueued
<1>4. Toggled = 0
  <2>1. Toggled = 0 - 0 BY <1>1 DEF Toggled
  <2> QED BY <2>1
<1>5. LocksTyped
  <2>1. 0 \in 0 .. MaxPresses /\ 0 \in 0 .. 0 BY LocksAssumption
  <2> QED BY <1>1, <1>2, <1>3, <2>1 DEF LocksTyped, LocksTypeOK
<1>6. Numbered
  <2>1. \A j \in DOMAIN typed : FALSE BY <1>1
  <2> QED BY <1>2, <1>4, <2>1, NothingQueued DEF Numbered
<1>7. LedsTell
  <2>1. Lit \subseteq Keyboards BY <1>1 DEF Lit
  <2> QED BY <1>2, <2>1, NothingQueued DEF LedsTell
<1>8. Starting BY <1>1, <1>4 DEF Starting
<1>9. Certain BY <1>1 DEF Certain, FromLeds, FromKeys, Lit
<1> QED BY <1>5, <1>6, <1>7, <1>8, <1>9 DEF LocksInv

LEMMA LocksStep == LocksInv /\ LocksNext => LocksInv'
BY PressKeeps, ToggleKeeps, UnplugKeeps, ReadInitialStateKeeps, ApplyEventKeeps,
   RemoveDeviceKeeps DEF LocksNext

LEMMA LocksRun == [Next]_vars => [LocksNext]_locks
BY DEF Next, vars, input

LEMMA LocksStill == ASSUME LocksInv, UNCHANGED locks PROVE LocksInv'
BY DEF LocksInv, LocksTyped, LocksTypeOK, Numbered, LedsTell, Starting, Certain, FromLeds,
       FromKeys, Toggled, Lit, Inferred, locks, external

\* The inductive invariant of the keyboard locks.
THEOREM LocksInvCorrect == Spec => []LocksInv
<1>1. Init => LocksInv BY LocksStart DEF Init
<1>2. LocksInv /\ [Next]_vars => LocksInv' BY LocksStep, LocksRun, LocksStill
<1> QED BY <1>1, <1>2, PTL DEF Spec

\* applyEvent and readInitialState show the compositor's lock once all is read,
\* for any number of keyboards, with and without LEDs; unless a press came during
\* the start, an LED told of a press before its key was read, or events went with
\* their keyboard (doubtful).
THEOREM LocksMirrorHolds == Spec => []LocksMirror
<1>1. LocksInv => LocksMirror
  <2> SUFFICES ASSUME LocksInv, unread = {}, typed = <<>>, plugged # {},
                      \A k \in plugged : queue[k] = <<>>, ~doubtful
               PROVE  capsLock = lock
    BY DEF LocksInv, LocksTyped, LocksMirror
  <2>1. LocksTyped /\ Numbered /\ FromLeds /\ FromKeys BY DEF LocksInv, Certain
  <2>2. CASE Lit # {}
    <3>1. \A k \in Lit : Unlit(queue[k]) BY NothingQueued DEF Lit
    <3> QED BY <2>1, <2>2, <3>1 DEF FromLeds
  <2>3. CASE Lit = {}
    <3>1. \A k \in Keyboards : queue[k] = <<>> BY <2>1 DEF LocksTyped
    <3>2. Inferred = {} BY <2>1, <3>1, NothingQueued DEF Inferred, LocksTyped, LocksTypeOK
    <3>3. Cardinality(Inferred) = 0 /\ Len(typed) = 0 BY <2>1, <3>2, LocksNumbers, FS_EmptySet
    <3>4. (Cardinality(Inferred) + Len(typed)) % 2 = 0 BY <3>3
    <3> QED BY <2>1, <2>3, <3>2, <3>4 DEF FromKeys
  <2> QED BY <2>2, <2>3
<1> QED BY <1>1, LocksInvCorrect, PTL

-----------------------------------------------------------------------------
(* ClipboardRows: the inductive invariant.                                 *)

\* The rows of a list are told apart by their ids and by their timestamps,
\* none of them later than c.
RowsApart(s, c) ==
  /\ s \in Seq(Row)
  /\ \A j, k \in DOMAIN s : j # k => s[j].id # s[k].id /\ s[j].stamp # s[k].stamp
  /\ \A k \in DOMAIN s : s[k].stamp <= c

RowsInv == RowsTypeOK /\ RowsApart(entries, clock) /\ filtered = Rebuild(entries, query)

Falls(s) == \A j, k \in DOMAIN s : j < k => Above(s[j], s[k])

\* Row i comes first of its group in s.
Heads(s, i) == \E k \in DOMAIN s : s[k].id = i /\ \A j \in 1 .. k - 1 : s[j].pinned # s[k].pinned

LEMMA RowsBounds ==
  /\ MaxClock \in Nat /\ IsFiniteSet(RowIds) /\ Cardinality(RowIds) <= MaxClock
  /\ Off \notin Queries /\ Blank \notin Queries /\ Off # Blank /\ -1 \notin RowIds
  /\ \A q \in Queries, i \in RowIds : Score[q][i] \in Nat
  BY RowsAssumption

LEMMA RowFacts ==
  /\ \A r \in Row : /\ r.id \in RowIds /\ r.pinned \in BOOLEAN /\ r.stamp \in 1 .. MaxClock
                    /\ r.stamp \in Nat
  /\ \A i \in RowIds, b \in BOOLEAN, t \in 1 .. MaxClock :
       [id |-> i, pinned |-> b, stamp |-> t] \in Row
  BY RowsBounds DEF Row

-----------------------------------------------------------------------------
(* ClipboardRows: sorting and searching.                                   *)

\* What a sorted sequence of the elements of S is.
Lists(s, S) ==
  /\ s \in Seq(S)
  /\ \A x \in S : \E k \in DOMAIN s : s[k] = x
  /\ \A j, k \in DOMAIN s : j # k => s[j] # s[k]

LEMMA EnumerationLists ==
  ASSUME NEW S, IsFiniteSet(S), NEW s \in SetToSeqs(S)
  PROVE  Lists(s, S)
<1>1. s \in Seq(S) /\ \A x \in S : \E k \in DOMAIN s : s[k] = x BY EnumerationIsOnto
<1>2. \A j, k \in DOMAIN s : j # k => s[j] # s[k] BY DEF SetToSeqs
<1> QED BY <1>1, <1>2 DEF Lists

LEMMA RowsSorted ==
  ASSUME NEW S \in SUBSET Row, IsFiniteSet(S), \A a, b \in S : a # b => a.stamp # b.stamp
  PROVE  Lists(Sorted(S, Above), S) /\ Falls(Sorted(S, Above))
<1> DEFINE R == {p \in S \X S : Above(p[1], p[2])}
<1>1. \A a \in S : a \in Row /\ a.pinned \in BOOLEAN /\ a.stamp \in Nat BY RowFacts
<1>2. \A a, b \in S : <<a, b>> \in R <=> Above(a, b) OBVIOUS
<1>3. \A a, b \in S : a # b => Above(a, b) \/ Above(b, a) BY <1>1 DEF Above
<1>4. \A a, b, c \in S : Above(a, b) /\ Above(b, c) => Above(a, c) BY <1>1 DEF Above
<1>5. \A a \in S : ~Above(a, a) BY <1>1 DEF Above
<1> HIDE DEF R
<1>6. \E s \in SetToSeqs(S) : \A j, k \in DOMAIN s : j < k => <<s[j], s[k]>> \in R
  <2>1. \A a, b \in S : a # b => <<a, b>> \in R \/ <<b, a>> \in R BY <1>2, <1>3
  <2>2. \A a, b, c \in S : <<a, b>> \in R /\ <<b, c>> \in R => <<a, c>> \in R BY <1>2, <1>4
  <2>3. \A a \in S : <<a, a>> \notin R BY <1>2, <1>5
  <2> QED BY <2>1, <2>2, <2>3, SortExists
<1>7. \A s \in SetToSeqs(S) : \A j \in DOMAIN s : s[j] \in S BY DEF SetToSeqs
<1>8. \E s \in SetToSeqs(S) : Falls(s) BY <1>2, <1>6, <1>7 DEF Falls
<1>9. Sorted(S, Above) \in SetToSeqs(S) /\ Falls(Sorted(S, Above))
  BY <1>8 DEF Sorted, Falls
<1> QED BY <1>9, EnumerationLists

\* What a search shows of the list s.
Finds(f, s, q) ==
  /\ f \in Seq(Nat) /\ IsInjective(f)
  /\ q = Off => f = <<>>
  /\ q \in Queries =>
       /\ ToSet(f) = {k \in DOMAIN s : Score[q][s[k].id] > 0}
       /\ \A j, k \in DOMAIN f : j < k =>
            LET a == Score[q][s[f[j]].id] b == Score[q][s[f[k]].id] IN
            \/ s[f[j]].pinned /\ ~s[f[k]].pinned
            \/ s[f[j]].pinned = s[f[k]].pinned /\ (a > b \/ (a = b /\ f[j] < f[k]))
  /\ q = Blank => f = [k \in DOMAIN s |-> k]

LEMMA Rebuilt ==
  ASSUME NEW s \in Seq(Row), NEW q \in Queries \cup {Blank, Off}
  PROVE  Finds(Rebuild(s, q), s, q)
<1>1. /\ DOMAIN s = 1 .. Len(s) /\ Len(s) \in Nat
      /\ \A k \in DOMAIN s : s[k] \in Row
  BY LenProperties, ElementOfSeq
<1>2. CASE q = Off
  <2>1. Rebuild(s, q) = <<>> BY <1>2 DEF Rebuild
  <2>2. <<>> \in Seq(Nat) /\ IsInjective(<<>>) BY DEF IsInjective
  <2> QED BY <1>2, <2>1, <2>2, RowsBounds DEF Finds
<1>3. CASE q = Blank
  <2> DEFINE f == [k \in DOMAIN s |-> k]
  <2>1. Rebuild(s, q) = f BY <1>3, RowsBounds DEF Rebuild
  <2>2. f \in Seq(Nat) /\ IsInjective(f)
    <3>1. f \in [1 .. Len(s) -> Nat] BY <1>1
    <3> QED BY <1>1, <3>1 DEF IsInjective
  <2> QED BY <1>3, <2>1, <2>2, RowsBounds DEF Finds
<1>4. CASE q \in Queries
  <2> DEFINE Hit == {k \in DOMAIN s : Score[q][s[k].id] > 0}
             a(j) == Score[q][s[j].id]
             Better(j, k) == \/ s[j].pinned /\ ~s[k].pinned
                             \/ s[j].pinned = s[k].pinned /\ (a(j) > a(k) \/ (a(j) = a(k) /\ j < k))
             R == {p \in Hit \X Hit : Better(p[1], p[2])}
             f == Sorted(Hit, Better)
  <2>1. Rebuild(s, q) = f BY <1>4, RowsBounds, Zenon DEF Rebuild, Sorted
  <2>2. IsFiniteSet(Hit)
    <3>1. IsFiniteSet(DOMAIN s) BY <1>1, FS_Interval
    <3> QED BY <3>1, FS_Subset
  <2>3. \A j \in Hit : a(j) \in Nat /\ s[j].pinned \in BOOLEAN /\ j \in Nat
    BY <1>1, <1>4, RowsBounds, RowFacts
  <2>4. \A j, k \in Hit : <<j, k>> \in R <=> Better(j, k) OBVIOUS
  <2> HIDE DEF a
  <2>5. \A j, k \in Hit : j # k => Better(j, k) \/ Better(k, j) BY <2>3
  <2>6. \A j, k, m \in Hit : Better(j, k) /\ Better(k, m) => Better(j, m) BY <2>3
  <2>7. \A j \in Hit : ~Better(j, j) BY <2>3
  <2> HIDE DEF Better, Hit, R
  <2>9. \E t \in SetToSeqs(Hit) : \A j, k \in DOMAIN t : j < k => <<t[j], t[k]>> \in R
    BY <2>2, <2>4, <2>5, <2>6, <2>7, SortExists
  <2>10. \A t \in SetToSeqs(Hit) : \A j \in DOMAIN t : t[j] \in Hit BY DEF SetToSeqs
  <2>11. \E t \in SetToSeqs(Hit) : \A j, k \in DOMAIN t : j < k => Better(t[j], t[k])
    BY <2>4, <2>9, <2>10
  <2>12. f \in SetToSeqs(Hit) /\ \A j, k \in DOMAIN f : j < k => Better(f[j], f[k])
    BY <2>11 DEF Sorted
  <2>13. Lists(f, Hit) BY <2>2, <2>12, EnumerationLists
  <2> HIDE DEF f
  <2>14. \A j \in DOMAIN f : f[j] \in Hit BY <2>10, <2>12
  <2>15. f \in Seq(Nat) /\ IsInjective(f)
    <3>1. Hit \subseteq Nat BY <2>3
    <3>2. f \in Seq(Hit) /\ \A j, k \in DOMAIN f : j # k => f[j] # f[k] BY <2>13 DEF Lists
    <3>3. IsInjective(f) BY <3>2 DEF IsInjective
    <3>4. f \in [1 .. Len(f) -> Hit] /\ Len(f) \in Nat BY <3>2, LenProperties
    <3>5. f \in [1 .. Len(f) -> Nat] BY <3>1, <3>4
    <3> QED BY <3>3, <3>4, <3>5
  <2>16. ToSet(f) = Hit BY <2>13, <2>14 DEF Lists, ToSet
  <2>17. \A j, k \in DOMAIN f : j < k =>
           \/ s[f[j]].pinned /\ ~s[f[k]].pinned
           \/ /\ s[f[j]].pinned = s[f[k]].pinned
              /\ \/ Score[q][s[f[j]].id] > Score[q][s[f[k]].id]
                 \/ Score[q][s[f[j]].id] = Score[q][s[f[k]].id] /\ f[j] < f[k]
    BY <2>12 DEF Better, a
  <2>18. ToSet(f) = {k \in DOMAIN s : Score[q][s[k].id] > 0} BY <2>16 DEF Hit
  <2> QED BY <1>4, <2>1, <2>15, <2>17, <2>18, RowsBounds DEF Finds
<1> QED BY <1>2, <1>3, <1>4

-----------------------------------------------------------------------------
(* ClipboardRows: taking rows out and putting them in.                     *)

\* t is s with the element e put in at place d.
PutIn(t, s, d, e) ==
  /\ Len(t) = Len(s) + 1 /\ t[d] = e
  /\ \A j \in DOMAIN t : j < d => j \in DOMAIN s /\ t[j] = s[j]
  /\ \A j \in DOMAIN t : j > d => j - 1 \in DOMAIN s /\ t[j] = s[j - 1]

LEMMA InsertFacts ==
  ASSUME NEW s \in Seq(Row), NEW e \in Row, NEW d \in 1 .. Len(s) + 1
  PROVE  InsertAt(s, d, e) \in Seq(Row) /\ PutIn(InsertAt(s, d, e), s, d, e)
<1> DEFINE a == SubSeq(s, 1, d - 1)
           b == SubSeq(s, d, Len(s))
           t == a \o <<e>> \o b
<1>1. Len(s) \in Nat /\ DOMAIN s = 1 .. Len(s) BY LenProperties
<1>2. /\ a \in Seq(Row) /\ Len(a) = d - 1 /\ \A j \in 1 .. d - 1 : a[j] = s[j]
      /\ b \in Seq(Row) /\ Len(b) = Len(s) - d + 1
      /\ \A j \in 1 .. Len(s) - d + 1 : b[j] = s[d + j - 1]
  <2>1. a \in Seq(Row) /\ Len(a) = d - 1 /\ \A j \in 1 .. d - 1 : a[j] = s[j]
    <3>1. \A i \in 1 .. d - 1 : s[i] \in Row BY <1>1, ElementOfSeq
    <3>2. /\ a \in Seq(Row) /\ Len(a) = IF 1 <= d - 1 THEN (d - 1) - 1 + 1 ELSE 0
          /\ \A i \in 1 .. (d - 1) - 1 + 1 : a[i] = s[1 + i - 1]
      BY <1>1, <3>1, SubSeqProperties
    <3> HIDE DEF a
    <3>3. d \in Nat /\ d >= 1 BY <1>1
    <3>4. Len(a) = d - 1 /\ (d - 1) - 1 + 1 = d - 1 BY <3>2, <3>3
    <3>5. \A i \in 1 .. d - 1 : 1 + i - 1 = i BY <3>3
    <3> QED BY <3>2, <3>4, <3>5
  <2>2. \A i \in d .. Len(s) : s[i] \in Row BY <1>1, ElementOfSeq
  <2>3. /\ b \in Seq(Row) /\ Len(b) = IF d <= Len(s) THEN Len(s) - d + 1 ELSE 0
        /\ \A i \in 1 .. Len(s) - d + 1 : b[i] = s[d + i - 1]
    BY <1>1, <2>2, SubSeqProperties
  <2> HIDE DEF a, b
  <2>4. d \in Nat /\ d <= Len(s) + 1 BY <1>1
  <2>5. Len(b) = Len(s) - d + 1 BY <1>1, <2>3, <2>4
  <2> QED BY <2>1, <2>3, <2>5
<1>3. <<e>> \in Seq(Row) /\ Len(<<e>>) = 1 /\ <<e>>[1] = e OBVIOUS
<1> HIDE DEF a, b
<1>4. /\ t \in Seq(Row) /\ Len(t) = Len(s) + 1 /\ t[d] = e
      /\ \A j \in 1 .. d - 1 : t[j] = a[j]
      /\ \A j \in d + 1 .. Len(s) + 1 : t[j] = b[j - d]
  <2> DEFINE z == <<e>>
             c == a \o z
  <2>1. z \in Seq(Row) /\ Len(z) = 1 /\ z[1] = e BY <1>3
  <2> HIDE DEF z
  <2>2. /\ c \in Seq(Row) /\ Len(c) = Len(a) + Len(z)
        /\ \A j \in 1 .. Len(a) + Len(z) : c[j] = IF j <= Len(a) THEN a[j] ELSE z[j - Len(a)]
    <3>1. a \in Seq(Row) /\ z \in Seq(Row) BY <1>2, <2>1
    <3> QED BY <3>1, ConcatProperties
  <2> HIDE DEF c
  <2>3. Len(c) = d /\ (\A j \in 1 .. d - 1 : c[j] = a[j]) /\ c[d] = e
    <3>1. Len(c) = d /\ \A j \in 1 .. d : c[j] = IF j <= d - 1 THEN a[j] ELSE z[j - (d - 1)]
      BY <1>1, <1>2, <2>1, <2>2
    <3>2. d \in 1 .. d /\ d - (d - 1) = 1 /\ ~(d <= d - 1) BY <1>1
    <3>3. \A j \in 1 .. d - 1 : j \in 1 .. d /\ j <= d - 1 BY <1>1
    <3> QED BY <2>1, <3>1, <3>2, <3>3
  <2>4. /\ c \o b \in Seq(Row) /\ Len(c \o b) = Len(c) + Len(b)
        /\ \A j \in 1 .. Len(c) + Len(b) : (c \o b)[j] = IF j <= Len(c) THEN c[j] ELSE b[j - Len(c)]
    <3>1. c \in Seq(Row) /\ b \in Seq(Row) BY <1>2, <2>2
    <3> QED BY <3>1, ConcatProperties
  <2>5. t = c \o b BY DEF c, z
  <2> HIDE DEF t
  <2>6. d + Len(b) = Len(s) + 1 BY <1>1, <1>2
  <2>7. /\ t \in Seq(Row) /\ Len(t) = Len(s) + 1
        /\ \A j \in 1 .. Len(s) + 1 : t[j] = IF j <= d THEN c[j] ELSE b[j - d]
    BY <2>3, <2>4, <2>5, <2>6
  <2>8. \A j \in 1 .. d - 1 : j \in 1 .. Len(s) + 1 /\ j <= d BY <1>1
  <2>9. \A j \in d + 1 .. Len(s) + 1 : j \in 1 .. Len(s) + 1 /\ ~(j <= d) BY <1>1
  <2>10. d \in 1 .. Len(s) + 1 /\ d <= d BY <1>1
  <2> QED BY <2>3, <2>7, <2>8, <2>9, <2>10
<1>5. DOMAIN t = 1 .. Len(s) + 1 BY <1>4, LenProperties
<1> HIDE DEF t
<1>6. \A j \in DOMAIN t : j < d => j \in DOMAIN s /\ t[j] = s[j] BY <1>1, <1>2, <1>4, <1>5
<1>7. \A j \in DOMAIN t : j > d => j - 1 \in DOMAIN s /\ t[j] = s[j - 1]
  BY <1>1, <1>2, <1>4, <1>5
<1> QED BY <1>4, <1>6, <1>7 DEF PutIn, InsertAt, t, a, b

\* t is s without its element at place k.
TakenOut(t, s, k) ==
  /\ Len(t) = Len(s) - 1
  /\ \A j \in DOMAIN t : IF j < k THEN j \in DOMAIN s /\ t[j] = s[j]
                         ELSE j + 1 \in DOMAIN s /\ t[j] = s[j + 1]

LEMMA RemoveFacts ==
  ASSUME NEW s \in Seq(Row), NEW k \in DOMAIN s
  PROVE  RemoveAt(s, k) \in Seq(Row) /\ TakenOut(RemoveAt(s, k), s, k)
<1> DEFINE a == SubSeq(s, 1, k - 1)
           b == SubSeq(s, k + 1, Len(s))
           t == a \o b
<1>1. Len(s) \in Nat /\ DOMAIN s = 1 .. Len(s) /\ k \in 1 .. Len(s) BY LenProperties
<1>2. a \in Seq(Row) /\ Len(a) = k - 1 /\ \A j \in 1 .. k - 1 : a[j] = s[j]
  BY <1>1, SubSeqProperties
<1>3. /\ b \in Seq(Row) /\ Len(b) = Len(s) - k
      /\ \A j \in 1 .. Len(s) - k : b[j] = s[k + j]
  <2>1. \A i \in k + 1 .. Len(s) : s[i] \in Row BY <1>1, ElementOfSeq
  <2>2. /\ b \in Seq(Row) /\ Len(b) = IF k + 1 <= Len(s) THEN Len(s) - (k + 1) + 1 ELSE 0
        /\ \A i \in 1 .. Len(s) - (k + 1) + 1 : b[i] = s[(k + 1) + i - 1]
    BY <1>1, <2>1, SubSeqProperties
  <2> HIDE DEF b
  <2>3. \A j \in 1 .. Len(s) - k : (k + 1) + j - 1 = k + j BY <1>1
  <2> QED BY <1>1, <2>2, <2>3
<1> HIDE DEF a, b
<1>4. /\ t \in Seq(Row) /\ Len(t) = Len(s) - 1
      /\ \A j \in 1 .. k - 1 : t[j] = a[j]
      /\ \A j \in k .. Len(s) - 1 : t[j] = b[j - k + 1]
  <2>1. /\ t \in Seq(Row) /\ Len(t) = Len(a) + Len(b)
        /\ \A j \in 1 .. Len(a) + Len(b) : t[j] = IF j <= Len(a) THEN a[j] ELSE b[j - Len(a)]
    BY <1>2, <1>3, ConcatProperties
  <2> HIDE DEF t
  <2>2. Len(a) + Len(b) = Len(s) - 1 BY <1>1, <1>2, <1>3
  <2>3. \A j \in k .. Len(s) - 1 : j \in 1 .. Len(s) - 1 /\ ~(j <= k - 1) /\ j - (k - 1) = j - k + 1
    BY <1>1
  <2>4. \A j \in 1 .. k - 1 : j \in 1 .. Len(s) - 1 /\ j <= k - 1 BY <1>1
  <2>5. \A j \in 1 .. k - 1 : t[j] = a[j] BY <1>2, <2>1, <2>2, <2>4
  <2>6. \A j \in k .. Len(s) - 1 : t[j] = b[j - k + 1] BY <1>2, <2>1, <2>2, <2>3
  <2> QED BY <2>1, <2>2, <2>5, <2>6
<1>5. DOMAIN t = 1 .. Len(s) - 1 BY <1>1, <1>4, LenProperties, Zenon
<1> HIDE DEF t
<1>6. ASSUME NEW j \in DOMAIN t, j < k PROVE j \in DOMAIN s /\ t[j] = s[j]
  BY <1>1, <1>2, <1>4, <1>5, <1>6
<1>7. ASSUME NEW j \in DOMAIN t, ~(j < k) PROVE j + 1 \in DOMAIN s /\ t[j] = s[j + 1]
  <2>1. j \in k .. Len(s) - 1 /\ j - k + 1 \in 1 .. Len(s) - k BY <1>1, <1>5, <1>7
  <2>2. t[j] = s[k + (j - k + 1)] BY <1>3, <1>4, <2>1
  <2>3. k + (j - k + 1) = j + 1 /\ j + 1 \in DOMAIN s BY <1>1, <2>1
  <2> QED BY <2>2, <2>3
<1> QED BY <1>4, <1>6, <1>7 DEF TakenOut, RemoveAt, t, a, b

\* The latest row passes all but the pinned rows, when it is not pinned.
LEMMA LatestPasses ==
  ASSUME NEW a \in Row, NEW b \in Row, b.stamp <= a.stamp
  PROVE  Passes(a, b) <=> a.pinned \/ ~b.pinned
<1>1. a.pinned \in BOOLEAN /\ b.pinned \in BOOLEAN /\ a.stamp >= b.stamp BY RowFacts
<1>2. CASE a.pinned = b.pinned BY <1>1, <1>2 DEF Passes
<1>3. CASE a.pinned # b.pinned BY <1>1, <1>3 DEF Passes
<1> QED BY <1>2, <1>3

LEMMA FirstFound ==
  ASSUME NEW s \in Seq(Row), NEW item \in Row
  PROVE  LET d == InsertPos(s, item) IN
         /\ d \in 1 .. Len(s) + 1
         /\ \A j \in DOMAIN s : j < d => ~(s[j].id # item.id /\ Passes(item, s[j]))
         /\ d \in DOMAIN s => s[d].id # item.id /\ Passes(item, s[d])
<1> DEFINE I == {i \in 1 .. Len(s) : s[i].id # item.id /\ Passes(item, s[i])}
           k == IF I # {} THEN Min(I) ELSE 0
<1>1. Len(s) \in Nat /\ DOMAIN s = 1 .. Len(s) BY LenProperties
<1>2. InsertPos(s, item) = IF k = 0 THEN Len(s) + 1 ELSE k
  BY DEF InsertPos, SelectInSeq
<1>3. CASE I = {}
  <2>1. InsertPos(s, item) = Len(s) + 1 BY <1>2, <1>3
  <2> QED BY <1>1, <1>3, <2>1
<1>4. CASE I # {}
  <2>1. \E x \in I : \A y \in I : x <= y
    <3>1. I \in SUBSET Nat BY <1>1
    <3> QED BY <1>4, <3>1, LeastExists
  <2>2. Min(I) \in I /\ \A y \in I : Min(I) <= y BY <2>1 DEF Min
  <2>3. InsertPos(s, item) = Min(I) BY <1>1, <1>2, <1>4, <2>2
  <2> DEFINE d == Min(I)
  <2> HIDE DEF d
  <2>4. InsertPos(s, item) = d /\ d \in I /\ \A y \in I : d <= y BY <2>2, <2>3 DEF d
  <2>5. \A j \in DOMAIN s : j < d => j \notin I BY <1>1, <2>4
  <2> QED BY <1>1, <2>4, <2>5
<1> QED BY <1>3, <1>4

\* A new row, or one that was taken out, keeps the rows apart.
LEMMA PutInApart ==
  ASSUME NEW s, NEW c \in Nat, RowsApart(s, c), NEW e \in Row,
         c < e.stamp, \A k \in DOMAIN s : s[k].id # e.id,
         NEW t \in Seq(Row), NEW d \in 1 .. Len(s) + 1, PutIn(t, s, d, e)
  PROVE  RowsApart(t, e.stamp)
<1>1. /\ s \in Seq(Row) /\ Len(s) \in Nat /\ DOMAIN s = 1 .. Len(s)
      /\ \A k \in DOMAIN s : s[k] \in Row /\ s[k].stamp \in Nat /\ s[k].stamp <= c
  BY LenProperties, ElementOfSeq, RowFacts DEF RowsApart
<1>2. DOMAIN t = 1 .. Len(s) + 1 /\ e.stamp \in Nat BY LenProperties, RowFacts DEF PutIn
<1>3. \A k \in DOMAIN s : s[k].stamp < e.stamp BY <1>1, <1>2
\* Where the elements of t come from.
<1> DEFINE from(j) == IF j < d THEN j ELSE j - 1
<1>4. \A j \in DOMAIN t : j # d => from(j) \in DOMAIN s /\ t[j] = s[from(j)]
  BY <1>1, <1>2 DEF PutIn
<1>5. t[d] = e BY DEF PutIn
<1>6. \A j, k \in DOMAIN t : j # k /\ j # d /\ k # d => from(j) # from(k) BY <1>2
<1>7. \A j \in DOMAIN t : j # d => t[j].id # e.id /\ t[j].stamp # e.stamp /\ t[j].stamp <= e.stamp
  BY <1>1, <1>2, <1>3, <1>4
<1> HIDE DEF from
<1>8. ASSUME NEW j \in DOMAIN t, NEW k \in DOMAIN t, j # k
      PROVE  t[j].id # t[k].id /\ t[j].stamp # t[k].stamp
  <2>1. CASE j = d \/ k = d BY <1>5, <1>7, <1>8, <2>1
  <2>2. CASE j # d /\ k # d BY <1>4, <1>6, <1>8, <2>2 DEF RowsApart
  <2> QED BY <2>1, <2>2
<1>9. \A k \in DOMAIN t : t[k].stamp <= e.stamp BY <1>2, <1>5, <1>7
<1> QED BY <1>8, <1>9 DEF RowsApart

\* Where find_if puts the latest row, it comes first of its group, and the
\* order of the list is kept.
LEMMA PutFirst ==
  ASSUME NEW s, NEW c \in Nat, RowsApart(s, c), NEW e \in Row, c < e.stamp,
         NEW t \in Seq(Row), NEW d \in 1 .. Len(s) + 1, PutIn(t, s, d, e),
         \A j \in DOMAIN s : j < d => s[j].pinned /\ ~e.pinned,
         d \in DOMAIN s => e.pinned \/ ~s[d].pinned
  PROVE  Heads(t, e.id) /\ (Falls(s) => Falls(t))
<1>1. /\ s \in Seq(Row) /\ Len(s) \in Nat /\ DOMAIN s = 1 .. Len(s)
      /\ \A k \in DOMAIN s : /\ s[k].pinned \in BOOLEAN
                             /\ s[k].stamp \in Nat /\ s[k].stamp <= c
  BY LenProperties, ElementOfSeq, RowFacts DEF RowsApart
<1>2. DOMAIN t = 1 .. Len(s) + 1 /\ e.stamp \in Nat /\ e.pinned \in BOOLEAN
  BY LenProperties, RowFacts DEF PutIn
<1>3. \A j \in 1 .. d - 1 : j \in DOMAIN s /\ t[j] = s[j] BY <1>1, <1>2 DEF PutIn
<1>4. \A j \in DOMAIN t : j > d => j - 1 \in DOMAIN s /\ t[j] = s[j - 1]
  BY DEF PutIn
<1>5. t[d] = e /\ d \in DOMAIN t BY <1>1, <1>2 DEF PutIn
<1>6. Heads(t, e.id)
  <2>1. ASSUME NEW j \in 1 .. d - 1 PROVE t[j].pinned # t[d].pinned
    <3>1. j < d /\ j \in DOMAIN s /\ t[j] = s[j] BY <1>1, <1>3
    <3>2. s[j].pinned /\ ~e.pinned BY <3>1
    <3> QED BY <1>5, <3>1, <3>2
  <2> QED BY <1>5, <2>1 DEF Heads
<1>7. ASSUME Falls(s), NEW j \in DOMAIN t, NEW k \in DOMAIN t, j < k
      PROVE  Above(t[j], t[k])
  <2>1. CASE k < d
    <3>1. j \in 1 .. d - 1 /\ k \in 1 .. d - 1 BY <1>1, <1>2, <1>7, <2>1
    <3> QED BY <1>3, <1>7, <3>1 DEF Falls
  <2>2. CASE k = d
    <3>1. j \in 1 .. d - 1 BY <1>1, <1>2, <1>7, <2>2
    <3>2. t[j].pinned /\ ~t[k].pinned BY <1>1, <1>3, <1>5, <2>2, <3>1
    <3> QED BY <3>2 DEF Above
  <2>3. CASE j = d
    <3>1. k - 1 \in DOMAIN s /\ t[k] = s[k - 1] /\ d <= k - 1 BY <1>2, <1>4, <1>7, <2>3
    <3>2. s[k - 1].stamp < e.stamp BY <1>1, <1>2, <3>1
    <3>3. e.pinned \/ ~s[k - 1].pinned
      <4>1. d \in DOMAIN s BY <1>1, <3>1
      <4>2. d = k - 1 \/ Above(s[d], s[k - 1]) BY <1>1, <1>7, <3>1, <4>1 DEF Falls
      <4> QED BY <1>1, <1>2, <4>1, <4>2, <3>1 DEF Above
    <3>4. Above(e, s[k - 1]) BY <1>1, <1>2, <3>1, <3>2, <3>3 DEF Above
    <3> QED BY <1>5, <2>3, <3>1, <3>4
  <2>4. CASE j < d /\ d < k
    <3>1. j \in DOMAIN s /\ t[j] = s[j] BY <1>1, <1>2, <1>3, <2>4
    <3>2. k - 1 \in DOMAIN s /\ t[k] = s[k - 1] /\ j < k - 1 BY <1>2, <1>4, <2>4
    <3> QED BY <1>7, <3>1, <3>2 DEF Falls
  <2>5. CASE d < j
    <3>1. j - 1 \in DOMAIN s /\ t[j] = s[j - 1] BY <1>4, <2>5
    <3>2. k - 1 \in DOMAIN s /\ t[k] = s[k - 1] /\ j - 1 < k - 1 BY <1>2, <1>4, <1>7, <2>5
    <3> QED BY <1>7, <3>1, <3>2 DEF Falls
  <2> QED BY <1>1, <1>2, <2>1, <2>2, <2>3, <2>4, <2>5
<1> QED BY <1>6, <1>7 DEF Falls

\* Rows taken out leave the rest apart, in its order.
LEMMA TakeOutApart ==
  ASSUME NEW s, NEW c \in Nat, RowsApart(s, c), NEW k \in DOMAIN s,
         NEW t \in Seq(Row), TakenOut(t, s, k)
  PROVE  /\ RowsApart(t, c) /\ \A j \in DOMAIN t : t[j].id # s[k].id
         /\ Falls(s) => Falls(t)
<1>1. /\ s \in Seq(Row) /\ Len(s) \in Nat /\ DOMAIN s = 1 .. Len(s)
  BY LenProperties DEF RowsApart
<1>2. DOMAIN t = 1 .. Len(s) - 1 BY <1>1, LenProperties DEF TakenOut
<1> DEFINE from(j) == IF j < k THEN j ELSE j + 1
<1>3. \A j \in DOMAIN t : from(j) \in DOMAIN s \ {k} /\ t[j] = s[from(j)]
  BY <1>1, <1>2 DEF TakenOut
<1>4. \A i, j \in DOMAIN t : i < j => from(i) < from(j) BY <1>1, <1>2
<1>5. \A i, j \in DOMAIN t : i # j => from(i) # from(j) BY <1>1, <1>2
<1> HIDE DEF from
<1>6. RowsApart(t, c) BY <1>3, <1>5 DEF RowsApart
<1>7. \A j \in DOMAIN t : t[j].id # s[k].id BY <1>3 DEF RowsApart
<1> QED BY <1>3, <1>4, <1>6, <1>7 DEF Falls

-----------------------------------------------------------------------------
(* ClipboardRows: the steps.                                               *)

LEMMA IndexFacts ==
  ASSUME entries \in Seq(Row), NEW i \in RowIds, IndexById(i) # 0
  PROVE  IndexById(i) \in DOMAIN entries /\ entries[IndexById(i)].id = i
<1> DEFINE I == {j \in 1 .. Len(entries) : entries[j].id = i}
<1>1. Len(entries) \in Nat /\ DOMAIN entries = 1 .. Len(entries) BY LenProperties
<1>2. IndexById(i) = IF I # {} THEN Min(I) ELSE 0 BY DEF IndexById, SelectInSeq
<1>3. I # {} BY <1>2
<1>4. \E x \in I : \A y \in I : x <= y
  <2>1. I \in SUBSET Nat BY <1>1
  <2> QED BY <1>3, <2>1, LeastExists
<1>5. Min(I) \in I BY <1>4 DEF Min
<1> QED BY <1>1, <1>2, <1>3, <1>5

\* What a step leaves in the list and in the filter.
Listing == RowsApart(entries, clock) /\ filtered = Rebuild(entries, query)

LEMMA Stored ==
  ASSUME RowsInv, NEW s, Store(s), RowsApart(s, clock')
  PROVE  Listing' /\ entries' = s /\ query' = query /\ running' = running
<1>1. entries' = s /\ query' = query /\ running' = running BY DEF Store
<1>2. filtered' = Rebuild(s, query)
  BY DEF Store, RowsInv, Rebuild
<1> QED BY <1>1, <1>2 DEF Listing

LEMMA ListingTyped ==
  ASSUME Listing', query' \in Queries \cup {Blank, Off}, clock' \in 0 .. MaxClock,
         lastCopy' \in RowIds \cup {-1}, running' \in BOOLEAN
  PROVE  RowsInv'
<1>1. entries' \in Seq(Row) BY DEF Listing, RowsApart
<1>2. filtered' \in Seq(Nat) BY <1>1, Rebuilt DEF Listing, Finds
<1> QED BY <1>1, <1>2 DEF RowsInv, RowsTypeOK, RowsApart, Listing

\* RowsInv, in plain facts.
LEMMA RowsFacts ==
  ASSUME RowsInv
  PROVE  /\ entries \in Seq(Row) /\ Len(entries) \in Nat /\ DOMAIN entries = 1 .. Len(entries)
         /\ \A k \in DOMAIN entries : entries[k] \in Row
         /\ RowsApart(entries, clock)
         /\ clock \in Nat /\ clock <= MaxClock /\ MaxClock \in Nat
         /\ query \in Queries \cup {Blank, Off} /\ running \in BOOLEAN
         /\ lastCopy \in RowIds \cup {-1}
  BY LenProperties, ElementOfSeq, RowsBounds DEF RowsInv, RowsTypeOK

LEMMA LeadsFirst == \A i : Leads(i) <=> Heads(entries, i) BY DEF Leads, Heads

LEMMA PrependFacts ==
  ASSUME RowsInv, NEW i \in RowIds, Prepend(i)
  PROVE  RowsInv' /\ Heads(entries', i) /\ (Falls(entries) => Falls(entries'))
<1> DEFINE item == [id |-> i, pinned |-> FALSE, stamp |-> clock']
           d == InsertPos(entries, item)
           t == InsertAt(entries, d, item)
<1>1. clock' = clock + 1 /\ clock < MaxClock /\ i \notin IdsOf(entries) /\ lastCopy' = lastCopy
  BY DEF Prepend
<1>2. clock' \in 1 .. MaxClock /\ clock < clock' /\ clock \in Nat BY <1>1, RowsFacts
<1>3. item \in Row /\ item.id = i /\ item.pinned = FALSE /\ item.stamp = clock'
  BY <1>2, RowFacts
<1>4. Store(t) BY DEF Prepend
<1> HIDE DEF item
<1>5. /\ d \in 1 .. Len(entries) + 1
      /\ \A j \in DOMAIN entries : j < d => ~(entries[j].id # item.id /\ Passes(item, entries[j]))
      /\ d \in DOMAIN entries => Passes(item, entries[d])
  BY <1>3, FirstFound, RowsFacts
<1> HIDE DEF d
<1>6. t \in Seq(Row) /\ PutIn(t, entries, d, item) BY <1>3, <1>5, InsertFacts, RowsFacts
<1> HIDE DEF t
<1>7. \A k \in DOMAIN entries : entries[k].id # item.id BY <1>1, <1>3 DEF IdsOf
<1>8. \A k \in DOMAIN entries : entries[k].stamp \in Nat /\ entries[k].stamp <= clock
        /\ entries[k].pinned \in BOOLEAN
  BY RowsFacts, RowFacts DEF RowsApart
<1>9. \A k \in DOMAIN entries : Passes(item, entries[k]) <=> ~entries[k].pinned
  <2> TAKE k \in DOMAIN entries
  <2>1. entries[k].stamp <= item.stamp BY <1>2, <1>3, <1>8
  <2> QED BY <1>3, <2>1, LatestPasses, RowsFacts
<1>10. RowsApart(t, clock')
  BY <1>2, <1>3, <1>5, <1>6, <1>7, PutInApart, RowsFacts
<1>11. Heads(t, i) /\ (Falls(entries) => Falls(t))
  <2>1. \A j \in DOMAIN entries : j < d => entries[j].pinned /\ ~item.pinned
    BY <1>3, <1>5, <1>7, <1>8, <1>9
  <2>2. d \in DOMAIN entries => item.pinned \/ ~entries[d].pinned BY <1>5, <1>9
  <2>3. Heads(t, item.id) /\ (Falls(entries) => Falls(t))
    BY <1>2, <1>3, <1>5, <1>6, <2>1, <2>2, PutFirst, RowsFacts
  <2> QED BY <1>3, <2>3
<1>12. Listing' /\ entries' = t /\ query' = query /\ running' = running
  BY <1>4, <1>10, Stored
<1>13. RowsInv'
  <2>1. clock' \in 0 .. MaxClock BY <1>2, RowsBounds
  <2> QED BY <1>1, <1>12, <2>1, ListingTyped, RowsFacts
<1> QED BY <1>11, <1>12, <1>13

\* bumpToTop puts the row first of its group, and keeps the order, unless it
\* leads its group with no search on.
LEMMA BumpFacts ==
  ASSUME RowsInv, NEW i \in RowIds, BumpToTop(i)
  PROVE  /\ Listing' /\ query' = query /\ clock' \in 0 .. MaxClock /\ running' \in BOOLEAN
         /\ query # Off \/ ~Heads(entries, i) =>
              \/ running' = FALSE /\ entries' = entries
              \/ Heads(entries', i) /\ (Falls(entries) => Falls(entries'))
<1> DEFINE k == IndexById(i)
           s == [entries EXCEPT ![k].stamp = clock']
           item == s[k]
           rest == RemoveAt(s, k)
           out  == RemoveAt(entries, k)
<1>1. k \in DOMAIN entries /\ entries[k].id = i BY RowsFacts, IndexFacts DEF BumpToTop
<1>2. clock' = clock + 1 /\ clock' \in 1 .. MaxClock /\ clock < clock' /\ clock \in Nat
  BY RowsFacts DEF BumpToTop
<1>3. /\ item = [entries[k] EXCEPT !.stamp = clock'] /\ DOMAIN s = DOMAIN entries
      /\ \A j \in DOMAIN entries \ {k} : s[j] = entries[j]
      /\ Len(s) = Len(entries)
  <2>1. s = [j \in DOMAIN entries |->
               IF j = k THEN [entries[k] EXCEPT !.stamp = clock'] ELSE entries[j]]
    BY <1>1
  <2>2. Len(s) = Len(entries) BY <2>1, RowsFacts
  <2> QED BY <1>1, <2>1, <2>2
<1>4. /\ item \in Row /\ item.id = i /\ item.stamp = clock'
      /\ item.pinned = entries[k].pinned
  <2>1. entries[k] \in Row BY <1>1, RowsFacts
  <2> QED BY <1>1, <1>2, <1>3, <2>1 DEF Row
<1>5. s \in Seq(Row)
  <2>1. \A j \in DOMAIN s : s[j] \in Row BY <1>3, <1>4, RowsFacts
  <2>2. s \in [1 .. Len(entries) -> Row] BY <1>3, <2>1, RowsFacts
  <2> QED BY <2>2, RowsFacts
<1> HIDE DEF item, s, k
<1>6. \A j \in DOMAIN entries :
        /\ entries[j].stamp \in Nat /\ entries[j].stamp <= clock
        /\ entries[j].pinned \in BOOLEAN
        /\ j # k => entries[j].id # i
  BY <1>1, RowsFacts, RowFacts DEF RowsApart
<1>7. \A j \in DOMAIN s \ {k} : s[j].id # item.id /\ (Passes(item, s[j]) <=> item.pinned \/ ~s[j].pinned)
  <2> TAKE j \in DOMAIN s \ {k}
  <2>1. s[j] = entries[j] /\ s[j] \in Row BY <1>3, RowsFacts
  <2>2. s[j].stamp <= item.stamp BY <1>2, <1>3, <1>4, <1>6
  <2> QED BY <1>3, <1>4, <1>6, <2>1, <2>2, LatestPasses
\* The list without the row is that of before without it.
<1>8. rest \in Seq(Row) /\ TakenOut(rest, s, k) BY <1>1, <1>3, <1>5, RemoveFacts
<1> HIDE DEF rest
<1>9. TakenOut(rest, entries, k)
  <2>1. DOMAIN rest = 1 .. Len(entries) - 1 BY <1>3, <1>8, LenProperties DEF TakenOut
  <2> QED BY <1>1, <1>3, <1>8, <2>1, RowsFacts DEF TakenOut
<1>10. /\ RowsApart(rest, clock) /\ \A j \in DOMAIN rest : rest[j].id # i
       /\ Falls(entries) => Falls(rest)
  BY <1>1, <1>8, <1>9, TakeOutApart, RowsFacts
<1>11. Len(rest) = Len(entries) - 1 /\ DOMAIN rest = 1 .. Len(entries) - 1
  BY <1>8, <1>9, LenProperties DEF TakenOut
\* Wherever it goes the rows stay apart, and put where the first it passes
\* is, it leads.
<1>12. ASSUME NEW d \in 1 .. Len(entries), NEW t \in Seq(Row), PutIn(t, rest, d, item)
       PROVE  RowsApart(t, clock')
  <2>1. d \in 1 .. Len(rest) + 1 BY <1>11, RowsFacts
  <2>2. RowsApart(t, item.stamp) BY <1>2, <1>4, <1>10, <1>12, <2>1, PutInApart
  <2> QED BY <1>4, <2>2
<1>13. ASSUME NEW d \in 1 .. Len(entries), NEW t \in Seq(Row), PutIn(t, rest, d, item),
              \A j \in DOMAIN rest : j < d => rest[j].pinned /\ ~item.pinned,
              d \in DOMAIN rest => item.pinned \/ ~rest[d].pinned
       PROVE  Heads(t, i) /\ (Falls(entries) => Falls(t))
  <2>1. d \in 1 .. Len(rest) + 1 /\ clock < item.stamp BY <1>2, <1>4, <1>11, RowsFacts
  <2>2. Heads(t, item.id) /\ (Falls(rest) => Falls(t))
    BY <1>2, <1>4, <1>10, <1>13, <2>1, PutFirst
  <2> QED BY <1>4, <1>10, <2>2
<1> DEFINE dest == InsertPos(s, item)
<1>14. /\ dest \in 1 .. Len(entries) + 1
       /\ \A j \in DOMAIN s \ {k} : j < dest => s[j].pinned /\ ~item.pinned
       /\ dest \in DOMAIN s => dest # k /\ (item.pinned \/ ~s[dest].pinned)
  <2>1. /\ dest \in 1 .. Len(s) + 1
        /\ \A j \in DOMAIN s : j < dest => ~(s[j].id # item.id /\ Passes(item, s[j]))
        /\ dest \in DOMAIN s => s[dest].id # item.id /\ Passes(item, s[dest])
    BY <1>4, <1>5, FirstFound
  <2>2. s[k].id = item.id BY DEF item
  <2> QED BY <1>3, <1>7, <2>1, <2>2
<1>15. ASSUME ~Heads(entries, i) PROVE dest < k
  <2>1. PICK j \in 1 .. k - 1 : entries[j].pinned = entries[k].pinned BY <1>1, <1>15 DEF Heads
  <2>2. j \in DOMAIN s \ {k} /\ j < k /\ s[j] = entries[j] BY <1>1, <1>3, <2>1, RowsFacts
  <2>3. ~(s[j].pinned /\ ~item.pinned) BY <1>1, <1>4, <1>6, <2>1, <2>2
  <2>4. ~(j < dest) BY <1>14, <2>2, <2>3
  <2> QED BY <1>1, <1>14, <2>1, <2>4, RowsFacts
<1> HIDE DEF dest
\* The five branches.
<1>16. CASE query # Off /\ Store(InsertAt(rest, InsertPos(rest, item), item))
  <2> DEFINE d == InsertPos(rest, item)
             t == InsertAt(rest, d, item)
  <2>1. /\ d \in 1 .. Len(rest) + 1
        /\ \A j \in DOMAIN rest : j < d => ~(rest[j].id # item.id /\ Passes(item, rest[j]))
        /\ d \in DOMAIN rest => Passes(item, rest[d])
    BY <1>4, <1>8, FirstFound
  <2> HIDE DEF d
  <2>2. d \in 1 .. Len(entries) BY <1>1, <1>11, <2>1, RowsFacts
  <2>3. t \in Seq(Row) /\ PutIn(t, rest, d, item) BY <1>4, <1>8, <2>1, InsertFacts
  <2>4. Store(t) BY <1>16 DEF d
  <2> HIDE DEF t
  <2>5. \A j \in DOMAIN rest : Passes(item, rest[j]) <=> item.pinned \/ ~rest[j].pinned
    <3> TAKE j \in DOMAIN rest
    <3>1. rest[j] \in Row BY <1>8, ElementOfSeq, LenProperties
    <3>2. rest[j].stamp <= item.stamp
      <4>1. rest[j].stamp <= clock /\ rest[j].stamp \in Nat BY <1>10, <3>1, RowFacts DEF RowsApart
      <4> QED BY <1>2, <1>4, <4>1
    <3> QED BY <1>4, <3>1, <3>2, LatestPasses
  <2>6. \A j \in DOMAIN rest : j < d => rest[j].pinned /\ ~item.pinned
    BY <1>4, <1>10, <2>1, <2>5
  <2>7. d \in DOMAIN rest => item.pinned \/ ~rest[d].pinned BY <2>1, <2>5
  <2>8. RowsApart(t, clock') /\ Heads(t, i) /\ (Falls(entries) => Falls(t))
    BY <1>12, <1>13, <2>2, <2>3, <2>6, <2>7
  <2>9. Listing' /\ entries' = t /\ query' = query /\ running' = running
    BY <2>4, <2>8, Stored
  <2> QED BY <1>2, <2>8, <2>9, RowsFacts
<1>17. CASE query = Off /\ dest \in DOMAIN s \ {k} /\ Store(InsertAt(rest, dest, item))
  <2> DEFINE t == InsertAt(rest, dest, item)
  <2>1. dest \in 1 .. Len(entries) /\ dest \in 1 .. Len(rest) + 1
    BY <1>3, <1>11, <1>14, <1>17, RowsFacts
  <2>2. t \in Seq(Row) /\ PutIn(t, rest, dest, item) BY <1>4, <1>8, <2>1, InsertFacts
  <2>3. Store(t) BY <1>17
  <2> HIDE DEF t
  <2>4. RowsApart(t, clock') BY <1>12, <2>1, <2>2
  <2>5. Listing' /\ entries' = t /\ query' = query /\ running' = running
    BY <2>3, <2>4, Stored
  <2>6. ASSUME ~Heads(entries, i) PROVE Heads(t, i) /\ (Falls(entries) => Falls(t))
    <3>1. dest < k BY <1>15, <2>6
    <3>2. \A j \in DOMAIN rest : j < k => j \in DOMAIN s \ {k} /\ rest[j] = s[j]
      BY <1>8, <1>11 DEF TakenOut
    <3>3. \A j \in DOMAIN rest : j < dest => rest[j].pinned /\ ~item.pinned
      <4> TAKE j \in DOMAIN rest
      <4> HAVE j < dest
      <4>1. j < k BY <1>1, <1>11, <2>1, <3>1, RowsFacts
      <4> QED BY <1>14, <3>2, <4>1
    <3>4. dest \in DOMAIN rest => item.pinned \/ ~rest[dest].pinned
      BY <1>14, <1>17, <3>1, <3>2
    <3> QED BY <1>13, <2>1, <2>2, <3>3, <3>4
  <2> QED BY <1>2, <1>17, <2>5, <2>6, RowsFacts
<1>18. CASE query = Off /\ dest > Len(s) /\ Store(Append(rest, item))
  <2> DEFINE t == Append(rest, item)
             d == Len(entries)
  <2>1. Heads(entries, i)
    <3>1. ~(dest < k) BY <1>1, <1>3, <1>14, <1>18, RowsFacts
    <3> QED BY <1>15, <3>1
  <2>2. /\ t \in Seq(Row) /\ Len(t) = Len(rest) + 1 /\ t[Len(rest) + 1] = item
        /\ \A j \in 1 .. Len(rest) : t[j] = rest[j]
    BY <1>4, <1>8, AppendProperties
  <2>3. Store(t) BY <1>18
  <2> HIDE DEF t
  <2>4. DOMAIN t = 1 .. Len(entries) /\ d \in 1 .. Len(entries)
    BY <1>1, <1>11, <2>2, LenProperties, RowsFacts
  <2>5. PutIn(t, rest, d, item) BY <1>11, <2>2, <2>4, RowsFacts DEF PutIn
  <2>6. RowsApart(t, clock') BY <1>12, <2>2, <2>4, <2>5
  <2>7. Listing' /\ entries' = t /\ query' = query /\ running' = running
    BY <2>3, <2>6, Stored
  <2> QED BY <1>2, <1>18, <2>1, <2>7, RowsFacts
<1>19. CASE query = Off /\ running' = FALSE /\ UNCHANGED <<entries, query, filtered>>
  <2>1. \A j \in DOMAIN entries : entries[j].stamp <= clock' BY <1>2, <1>6
  <2>2. RowsApart(entries, clock') BY <2>1, RowsFacts DEF RowsApart
  <2>3. Listing' BY <1>19, <2>2 DEF Listing, RowsInv
  <2>4. query' = query /\ entries' = entries /\ running' = FALSE BY <1>19
  <2>5. clock' \in 0 .. MaxClock BY <1>2, RowsFacts
  <2> QED BY <2>3, <2>4, <2>5
<1>20. ~(dest = k)
  BY <1>1, <1>3, <1>14
<1> QED
  BY <1>16, <1>17, <1>18, <1>19, <1>20 DEF BumpToTop, dest, s, item, rest, k

LEMMA DuplicateKeeps ==
  ASSUME RowsInv, NEW i \in RowIds, Duplicate(i)
  PROVE  RowsInv'
<1>1. lastCopy' = lastCopy BY DEF Duplicate
<1> QED BY <1>1, BumpFacts, ListingTyped, RowsFacts DEF Duplicate

LEMMA CopyKeeps ==
  ASSUME RowsInv, NEW i \in RowIds, Copy(i)
  PROVE  RowsInv' /\ (UNCHANGED <<entries, query>> \/ BumpToTop(i))
<1>1. lastCopy' = i BY DEF Copy
<1>2. CASE BumpToTop(i) BY <1>1, <1>2, BumpFacts, ListingTyped, RowsFacts
<1>3. CASE UNCHANGED <<entries, query, filtered, clock, running>>
  <2>1. Listing' BY <1>3 DEF RowsInv, Listing
  <2>2. clock' \in 0 .. MaxClock BY <1>3 DEF RowsInv, RowsTypeOK
  <2> QED BY <1>1, <1>3, <2>1, <2>2, ListingTyped, RowsFacts
<1> QED BY <1>2, <1>3 DEF Copy

LEMMA SetFilterKeeps ==
  ASSUME RowsInv, NEW q \in Queries \cup {Blank, Off}, SetFilter(q)
  PROVE  RowsInv' /\ entries' = entries
<1>1. entries' = entries /\ clock' = clock /\ lastCopy' = lastCopy /\ running' = running
      /\ query' = q /\ filtered' = Rebuild(entries, q)
  BY DEF SetFilter
<1>2. Listing' BY <1>1 DEF RowsInv, Listing
<1>3. clock' \in 0 .. MaxClock BY <1>1 DEF RowsInv, RowsTypeOK
<1> QED BY <1>1, <1>2, <1>3, ListingTyped, RowsFacts

\* Elements that are listed with different stamps and ids are apart.
LEMMA ListsApart ==
  ASSUME NEW S \in SUBSET Row, NEW s, Lists(s, S), NEW c \in Nat,
         \A a, b \in S : a # b => a.id # b.id /\ a.stamp # b.stamp,
         \A a \in S : a.stamp <= c
  PROVE  RowsApart(s, c)
<1>1. DOMAIN s = 1 .. Len(s) /\ Len(s) \in Nat /\ \A k \in DOMAIN s : s[k] \in S
  BY LenProperties, ElementOfSeq DEF Lists
<1>2. s \in [1 .. Len(s) -> Row] BY <1>1, LenProperties DEF Lists
<1>3. s \in Seq(Row) BY <1>1, <1>2
<1>4. \A j, k \in DOMAIN s : j # k => s[j] # s[k] BY DEF Lists
<1> QED BY <1>1, <1>3, <1>4 DEF RowsApart

LEMMA SetPinKeeps ==
  ASSUME RowsInv, NEW i \in RowIds, NEW b \in BOOLEAN, SetPin(i, b)
  PROVE  RowsInv' /\ Falls(entries')
<1> DEFINE k == IndexById(i)
           s == [entries EXCEPT ![k].pinned = b]
           S == ToSet(s)
<1>1. k \in DOMAIN entries BY RowsFacts, IndexFacts DEF SetPin
<1>2. /\ DOMAIN s = DOMAIN entries
      /\ \A j \in DOMAIN entries :
           s[j].id = entries[j].id /\ s[j].stamp = entries[j].stamp /\ s[j] \in Row
  <2>1. s = [j \in DOMAIN entries |->
               IF j = k THEN [entries[k] EXCEPT !.pinned = b] ELSE entries[j]]
    BY <1>1
  <2>2. \A j \in DOMAIN entries : entries[j] \in Row BY RowsFacts
  <2> QED BY <1>1, <2>1, <2>2 DEF Row
<1>3. clock' = clock /\ lastCopy' = lastCopy /\ Store(Sorted(S, Above)) BY DEF SetPin
<1> HIDE DEF s, k
<1>4. \A x \in S : \E j \in DOMAIN entries : x = s[j] BY <1>2 DEF ToSet
<1>5. S \in SUBSET Row BY <1>2, <1>4
<1>6. IsFiniteSet(S)
  <2>1. IsFiniteSet(DOMAIN entries) BY RowsFacts, FS_Interval
  <2>2. [j \in DOMAIN entries |-> s[j]] \in Surjection(DOMAIN entries, S)
    BY <1>2, <1>4 DEF Surjection, ToSet
  <2> QED BY <2>1, <2>2, FS_Surjection
<1>7. \A x, y \in S : x # y => x.id # y.id /\ x.stamp # y.stamp
  BY <1>2, <1>4, RowsFacts DEF RowsApart
<1>8. \A x \in S : x.stamp <= clock BY <1>2, <1>4, RowsFacts DEF RowsApart
<1> HIDE DEF S
<1>9. Lists(Sorted(S, Above), S) /\ Falls(Sorted(S, Above)) BY <1>5, <1>6, <1>7, RowsSorted
<1>10. RowsApart(Sorted(S, Above), clock') BY <1>3, <1>5, <1>7, <1>8, <1>9, ListsApart, RowsFacts
<1>11. Listing' /\ entries' = Sorted(S, Above) /\ query' = query /\ running' = running
  BY <1>3, <1>10, Stored
<1>12. clock' \in 0 .. MaxClock BY <1>3 DEF RowsInv, RowsTypeOK
<1> QED BY <1>3, <1>9, <1>11, <1>12, ListingTyped, RowsFacts

LEMMA RemoveByIdsKeeps ==
  ASSUME RowsInv, NEW S \in SUBSET RowIds, RemoveByIds(S)
  PROVE  RowsInv' /\ (Falls(entries) => Falls(entries'))
<1> DEFINE K == {k \in DOMAIN entries : entries[k].id \notin S}
           Less(j, k) == j < k
           kept == Sorted(K, Less)
           t == [j \in DOMAIN kept |-> entries[kept[j]]]
           R == {p \in K \X K : p[1] < p[2]}
<1>1. clock' = clock /\ lastCopy' = lastCopy /\ Store(t) BY DEF RemoveByIds, Sorted
<1>2. IsFiniteSet(K) /\ K \subseteq Nat
  <2>1. IsFiniteSet(DOMAIN entries) /\ DOMAIN entries \subseteq Nat BY RowsFacts, FS_Interval
  <2> QED BY <2>1, FS_Subset
<1>3. \A j, k \in K : <<j, k>> \in R <=> j < k OBVIOUS
<1> HIDE DEF K, R
<1>4. \E p \in SetToSeqs(K) : \A j, k \in DOMAIN p : j < k => <<p[j], p[k]>> \in R
  <2>1. \A j, k \in K : j # k => <<j, k>> \in R \/ <<k, j>> \in R BY <1>2, <1>3
  <2>2. \A j, k, m \in K : <<j, k>> \in R /\ <<k, m>> \in R => <<j, m>> \in R BY <1>2, <1>3
  <2>3. \A j \in K : <<j, j>> \notin R BY <1>2, <1>3
  <2>4. IsFiniteSet(K) BY <1>2
  <2> QED BY <2>1, <2>2, <2>3, <2>4, SortExists
<1>5. \A p \in SetToSeqs(K) : \A j \in DOMAIN p : p[j] \in K BY DEF SetToSeqs
<1>6. \E p \in SetToSeqs(K) : \A j, k \in DOMAIN p : j < k => p[j] < p[k] BY <1>3, <1>4, <1>5
<1>7. kept \in SetToSeqs(K) /\ \A j, k \in DOMAIN kept : j < k => kept[j] < kept[k]
  BY <1>6 DEF Sorted
<1>8. Lists(kept, K) /\ \A j \in DOMAIN kept : kept[j] \in K BY <1>2, <1>5, <1>7, EnumerationLists
<1> HIDE DEF kept
<1>9. \A j \in DOMAIN kept : kept[j] \in DOMAIN entries BY <1>8 DEF K
<1>10. DOMAIN kept = 1 .. Len(kept) /\ Len(kept) \in Nat BY <1>8, LenProperties DEF Lists
<1>11. DOMAIN t = DOMAIN kept /\ \A j \in DOMAIN kept : t[j] = entries[kept[j]] OBVIOUS
<1>12. t \in Seq(Row)
  <2>1. t \in [1 .. Len(kept) -> Row] BY <1>9, <1>10, RowsFacts
  <2> QED BY <1>10, <2>1
<1> HIDE DEF t
<1>13. RowsApart(t, clock') BY <1>1, <1>8, <1>9, <1>11, <1>12, RowsFacts DEF RowsApart, Lists
<1>14. Falls(entries) => Falls(t) BY <1>7, <1>9, <1>11 DEF Falls
<1>15. Listing' /\ entries' = t /\ query' = query /\ running' = running
  BY <1>1, <1>13, Stored
<1>16. clock' \in 0 .. MaxClock BY <1>1 DEF RowsInv, RowsTypeOK
<1> QED BY <1>1, <1>14, <1>15, <1>16, ListingTyped, RowsFacts

LEMMA ResetKeeps ==
  ASSUME RowsInv, NEW n \in 0 .. Cardinality(RowIds), NEW age \in [1 .. n -> RowIds],
         IsInjective(age), NEW P \in SUBSET ToSet(age), Reset(age, P)
  PROVE  RowsInv' /\ Falls(entries')
<1> DEFINE row(k) == [id |-> age[k], pinned |-> age[k] \in P, stamp |-> k]
           S == {row(k) : k \in DOMAIN age}
<1>1. /\ entries' = Sorted(S, Above) /\ query' = Off /\ filtered' = <<>>
      /\ clock' = Len(age) /\ running' = TRUE
      /\ lastCopy' = IF running THEN lastCopy ELSE -1
  BY DEF Reset
<1>2. n \in Nat /\ n <= MaxClock
  <2>1. Cardinality(RowIds) \in Nat BY RowsBounds, FS_CardinalityType
  <2> QED BY <2>1, RowsBounds
<1>3. age \in Seq(RowIds) /\ Len(age) = n /\ DOMAIN age = 1 .. n
  <2>1. age \in Seq(RowIds) BY <1>2
  <2>2. DOMAIN age = 1 .. Len(age) /\ Len(age) \in Nat BY <2>1, LenProperties
  <2> QED BY <1>2, <2>1, <2>2
<1>4. \A k \in DOMAIN age : row(k) \in Row BY <1>2, <1>3, RowsBounds DEF Row
<1>5. \A k \in DOMAIN age : row(k).id = age[k] /\ row(k).stamp = k OBVIOUS
<1> HIDE DEF row
<1>6. S \in SUBSET Row BY <1>4
<1>7. IsFiniteSet(S)
  <2>1. IsFiniteSet(DOMAIN age) BY <1>2, <1>3, FS_Interval
  <2>2. [k \in DOMAIN age |-> row(k)] \in Surjection(DOMAIN age, S) BY DEF Surjection
  <2> QED BY <2>1, <2>2, FS_Surjection
<1>8. \A x, y \in S : x # y => x.id # y.id /\ x.stamp # y.stamp
  BY <1>5 DEF IsInjective
<1>9. \A x \in S : x.stamp <= n BY <1>2, <1>3, <1>5
<1> HIDE DEF S
<1>10. Lists(entries', S) /\ Falls(entries') BY <1>1, <1>6, <1>7, <1>8, RowsSorted
<1>11. clock' = n BY <1>1, <1>3
<1>12. RowsApart(entries', n) BY <1>2, <1>6, <1>8, <1>9, <1>10, ListsApart
<1>13. filtered' = Rebuild(entries', query') BY <1>1 DEF Rebuild
<1>14. Listing' BY <1>11, <1>12, <1>13 DEF Listing
<1> QED BY <1>1, <1>2, <1>10, <1>11, <1>14, ListingTyped, RowsFacts, RowsBounds

-----------------------------------------------------------------------------
(* ClipboardRows: the theorems.                                            *)

LEMMA RowsStart == RowsInit => RowsInv
<1> SUFFICES ASSUME RowsInit PROVE RowsInv
  OBVIOUS
<1>1. /\ entries = <<>> /\ query = Off /\ filtered = <<>> /\ clock = 0 /\ lastCopy = -1
      /\ running = TRUE
  BY DEF RowsInit
<1>2. RowsApart(entries, clock) BY <1>1 DEF RowsApart
<1>3. filtered = Rebuild(entries, query) BY <1>1 DEF Rebuild
<1> QED BY <1>1, <1>2, <1>3, RowsBounds DEF RowsInv, RowsTypeOK, RowsApart

LEMMA RowsStep == RowsInv /\ RowsNext => RowsInv'
BY PrependFacts, DuplicateKeeps, CopyKeeps, SetFilterKeeps, SetPinKeeps, RemoveByIdsKeeps,
   ResetKeeps DEF RowsNext

LEMMA RowsRun == [Next]_vars => [RowsNext]_rows
  BY DEF Next, vars, input, rows

LEMMA RowsStill == ASSUME RowsInv, UNCHANGED rows PROVE RowsInv'
  BY DEF RowsInv, RowsTypeOK, RowsApart, rows

\* The inductive invariant of the rows, for any rows, scores and searches.
THEOREM RowsInvCorrect == Spec => []RowsInv
<1>1. Init => RowsInv BY RowsStart DEF Init
<1>2. RowsInv /\ [Next]_vars => RowsInv' BY RowsStep, RowsRun, RowsStill
<1> QED BY <1>1, <1>2, PTL DEF Spec

\* What a search shows is what matches now, pinned rows first, then by score, then
\* by the place in the list, whatever was inserted, moved, pinned, removed and
\* reloaded since: rebuildFilter runs wherever mEntries changes.
THEOREM FilterCurrentHolds == Spec => []FilterCurrent
<1>1. RowsInv => FilterCurrent
  <2> SUFFICES ASSUME RowsInv PROVE FilterCurrent
    OBVIOUS
  <2>1. Finds(filtered, entries, query) BY Rebuilt, RowsFacts DEF RowsInv
  <2> QED BY <2>1 DEF FilterCurrent, Finds, RowsInv
<1> QED BY <1>1, RowsInvCorrect, PTL

LEMMA OrderKept ==
  ASSUME RowsInv, [Next]_vars, Ordered, ~Ordered'
  PROVE  \E j \in RowIds : query = Off /\ Leads(j) /\ BumpToTop(j)
<1>1. Ordered <=> Falls(entries) BY DEF Ordered, Falls
<1>2. Ordered' <=> Falls(entries') BY DEF Ordered, Falls
<1>3. RowsNext BY <1>1, <1>2, RowsRun DEF rows
<1>4. PICK i \in RowIds : Duplicate(i) \/ Copy(i)
  <2>1. \A i \in RowIds : ~Prepend(i) BY <1>1, <1>2, PrependFacts
  <2>2. \A i \in RowIds, b \in BOOLEAN : ~SetPin(i, b) BY <1>2, SetPinKeeps
  <2>3. \A S \in SUBSET RowIds : ~RemoveByIds(S) BY <1>1, <1>2, RemoveByIdsKeeps
  <2>4. \A q \in Queries \cup {Blank, Off} : ~SetFilter(q) BY <1>1, <1>2, SetFilterKeeps
  <2>5. ~\E n \in 0 .. Cardinality(RowIds) : \E age \in [1 .. n -> RowIds] :
          IsInjective(age) /\ \E P \in SUBSET ToSet(age) : Reset(age, P)
    BY <1>2, ResetKeeps
  <2> QED BY <1>3, <2>1, <2>2, <2>3, <2>4, <2>5 DEF RowsNext
<1>5. BumpToTop(i)
  <2>1. CASE Duplicate(i) BY <2>1 DEF Duplicate
  <2>2. CASE Copy(i)
    <3>1. entries' # entries BY <1>1, <1>2
    <3> QED BY <2>2, <3>1, CopyKeeps
  <2> QED BY <1>4, <2>1, <2>2
<1>6. query = Off /\ Heads(entries, i)
  <2>1. query # Off \/ ~Heads(entries, i) =>
          \/ entries' = entries
          \/ Falls(entries) => Falls(entries')
    BY <1>5, BumpFacts
  <2> QED BY <1>1, <1>2, <2>1
<1> QED BY <1>5, <1>6, LeadsFirst

LEMMA NewestLeads ==
  ASSUME RowsInv, NEW i \in RowIds,
         Prepend(i) \/ (BumpToTop(i) /\ running' /\ (query # Off \/ ~Leads(i)))
  PROVE  Leads(i)'
<1>1. Heads(entries', i) => Leads(i)' BY DEF Leads, Heads
<1>2. CASE Prepend(i) BY <1>1, <1>2, PrependFacts
<1>3. CASE BumpToTop(i) /\ running' /\ (query # Off \/ ~Leads(i))
  <2>1. ~(running' = FALSE) BY <1>3
  <2> QED BY <1>1, <1>3, <2>1, BumpFacts, LeadsFirst
<1> QED BY <1>2, <1>3

\* The order is lost by bumping, with no search on, a row that leads its group
\* already, and in no other way; a new row and any other bumped row lead theirs.
THEOREM DisorderOnlyByLeaderHolds == Spec => DisorderOnlyByLeader
<1>1. RowsInv /\ [Next]_vars =>
        [\A i \in RowIds :
           /\ Ordered /\ ~Ordered' => \E j \in RowIds : query = Off /\ Leads(j) /\ BumpToTop(j)
           /\ (\/ Prepend(i)
               \/ BumpToTop(i) /\ running' /\ (query # Off \/ ~Leads(i))) => Leads(i)']_rows
  BY OrderKept, NewestLeads
<1> QED BY <1>1, RowsInvCorrect, PTL DEF Spec, DisorderOnlyByLeader

-----------------------------------------------------------------------------
(* AudioProfiles: the inductive invariant.                                 *)

CardRequests == [kind : {"enum"}, device : Nat, seq : Nat]
                  \cup [kind : {"set"}, device : Nat, version : Nat]

Params == [kind : {"param"}, device : Nat, seq : Nat, profile : Nat \X Nat, active : {FALSE}]
            \cup [kind : {"param"}, device : Nat, seq : Nat, profile : Nat, active : {TRUE}]

CardEvents == [kind : {"global", "remove"}, device : Nat, id : Ids]
                \cup [kind : {"info"}, device : Nat] \cup Params

CardNodes == [id : Ids, staging : Seq(Nat \X Nat), seq : Nat, profiles : Seq(Nat \X Nat),
              active : Nat \cup {None}, stale : BOOLEAN]

CardsTyped ==
  /\ births \in Nat /\ changes \in Nat /\ seqs \in Nat
  /\ DOMAIN pipewire \subseteq 1 .. births
  /\ pipewire \in [DOMAIN pipewire -> [id : Ids, version : Nat]]
  /\ pwRequests \in Seq(CardRequests) /\ pwEvents \in Seq(CardEvents)
  /\ DOMAIN apDevices \subseteq 1 .. births
  /\ apDevices \in [DOMAIN apDevices -> CardNodes]
  /\ \A d \in DOMAIN apDevices : Len(apDevices[d].staging) <= MaxProfiles
  /\ DOMAIN cards \subseteq Ids /\ removedIds \subseteq Ids
  /\ split \subseteq 1 .. births /\ reused \subseteq Ids

\* The k-th event says that device d came, or that it went.
Came(k, d) == k \in DOMAIN pwEvents /\ pwEvents[k].kind = "global" /\ pwEvents[k].device = d
Went(k, d) == k \in DOMAIN pwEvents /\ pwEvents[k].kind = "remove" /\ pwEvents[k].device = d

\* No two present devices, nor two followed ones, have the same id.  A device
\* present is followed, or its global is on its way; a device followed is
\* present, or its remove is on its way.
Tracked ==
  /\ \A d, e \in DOMAIN pipewire : pipewire[d].id = pipewire[e].id => d = e
  /\ \A d, e \in DOMAIN apDevices : apDevices[d].id = apDevices[e].id => d = e
  /\ \A d \in DOMAIN pipewire :
       IF d \in DOMAIN apDevices THEN apDevices[d].id = pipewire[d].id
                                 ELSE \E k \in DOMAIN pwEvents : Came(k, d)
  /\ \A d \in DOMAIN apDevices \ DOMAIN pipewire : \E k \in DOMAIN pwEvents : Went(k, d)

\* The global and the remove of a device are sent once each, in this order.
InOrder ==
  \A k \in DOMAIN pwEvents : LET d == pwEvents[k].device IN
    /\ pwEvents[k].kind = "global" =>
         /\ d \in 1 .. births /\ d \notin DOMAIN apDevices
         /\ \A m \in DOMAIN pwEvents : Came(m, d) => m = k
         /\ \A m \in DOMAIN pwEvents : Went(m, d) => k < m /\ pwEvents[m].id = pwEvents[k].id
         /\ IF d \in DOMAIN pipewire THEN pipewire[d].id = pwEvents[k].id
                                     ELSE \E m \in DOMAIN pwEvents : Went(m, d)
    /\ pwEvents[k].kind = "remove" =>
         /\ d \in 1 .. births /\ d \notin DOMAIN pipewire
         /\ \A m \in DOMAIN pwEvents : Went(m, d) => m = k
         /\ IF d \in DOMAIN apDevices THEN apDevices[d].id = pwEvents[k].id
                                      ELSE \E m \in DOMAIN pwEvents : Came(m, d)

\* An id is given again after the device that had it went.
Renewed ==
  \A m \in DOMAIN pwEvents : pwEvents[m].kind = "global" =>
    /\ \A d \in DOMAIN apDevices : apDevices[d].id = pwEvents[m].id =>
         \E k \in DOMAIN pwEvents : k < m /\ Went(k, d)
    /\ \A l \in DOMAIN pwEvents :
         l < m /\ pwEvents[l].kind = "global" /\ pwEvents[l].id = pwEvents[m].id =>
           \E k \in DOMAIN pwEvents : k < m /\ Went(k, pwEvents[l].device)

Lifecycle == Tracked /\ InOrder /\ Renewed

-----------------------------------------------------------------------------
(* AudioProfiles: devices come and go.                                     *)

LifeKinds == {"global", "remove"}

\* What every step but four leaves of the lifecycles.
LifeSame == /\ births' = births
            /\ DOMAIN pipewire' = DOMAIN pipewire /\ DOMAIN apDevices' = DOMAIN apDevices
            /\ \A d \in DOMAIN pipewire : pipewire'[d].id = pipewire[d].id
            /\ \A d \in DOMAIN apDevices : apDevices'[d].id = apDevices[d].id

LEMMA LifeStays ==
  ASSUME Lifecycle, pwEvents \in Seq(CardEvents), pwEvents' \in Seq(CardEvents),
         NEW c \in {0, 1}, Kept(pwEvents, pwEvents', c, LifeKinds), LifeSame
  PROVE  Lifecycle'
<1> DEFINE q == pwEvents
           r == pwEvents'
<1>1. (\A k \in DOMAIN q : k \in Nat) /\ \A k \in DOMAIN r : k \in Nat
  BY LenProperties
<1>2. \A d : \A k \in DOMAIN q : Came(k, d) => k - c \in DOMAIN r /\ r[k - c] = q[k] /\ Came(k - c, d)'
  BY DEF Kept, LifeKinds, Came
<1>3. \A d : \A k \in DOMAIN q : Went(k, d) => k - c \in DOMAIN r /\ r[k - c] = q[k] /\ Went(k - c, d)'
  BY DEF Kept, LifeKinds, Went
<1>4. \A k \in DOMAIN r : r[k].kind \in LifeKinds => k + c \in DOMAIN q /\ r[k] = q[k + c]
  BY DEF Kept
<1>5. \A d : \A k \in DOMAIN r : Came(k, d)' => k + c \in DOMAIN q /\ r[k] = q[k + c] /\ Came(k + c, d)
  BY <1>4 DEF LifeKinds, Came
<1>6. \A d : \A k \in DOMAIN r : Went(k, d)' => k + c \in DOMAIN q /\ r[k] = q[k + c] /\ Went(k + c, d)
  BY <1>4 DEF LifeKinds, Went
<1>7. Tracked' BY <1>2, <1>3 DEF Lifecycle, Tracked, LifeSame
<1>8. InOrder'
  <2>1. ASSUME NEW k \in DOMAIN r, NEW d, d = r[k].device, r[k].kind = "global"
        PROVE  /\ d \in 1 .. births' /\ d \notin DOMAIN apDevices'
               /\ \A m \in DOMAIN r : Came(m, d)' => m = k
               /\ \A m \in DOMAIN r : Went(m, d)' => k < m /\ r[m].id = r[k].id
               /\ IF d \in DOMAIN pipewire' THEN pipewire'[d].id = r[k].id
                                            ELSE \E m \in DOMAIN r : Went(m, d)'
    <3>1. k + c \in DOMAIN q /\ q[k + c] = r[k] BY <1>4, <2>1 DEF LifeKinds
    <3>2. /\ d \in 1 .. births /\ d \notin DOMAIN apDevices
          /\ \A m \in DOMAIN q : Came(m, d) => m = k + c
          /\ \A m \in DOMAIN q : Went(m, d) => k + c < m /\ q[m].id = q[k + c].id
          /\ IF d \in DOMAIN pipewire THEN pipewire[d].id = q[k + c].id
                                      ELSE \E m \in DOMAIN q : Went(m, d)
      BY <2>1, <3>1 DEF Lifecycle, InOrder
    <3>3. \A m \in DOMAIN r : (m + c = k + c => m = k) /\ (k + c < m + c => k < m) BY <1>1
    <3>4. \A m \in DOMAIN r : Came(m, d)' => m = k BY <1>5, <3>2, <3>3
    <3>5. \A m \in DOMAIN r : Went(m, d)' => k < m /\ r[m].id = r[k].id
      BY <1>6, <3>1, <3>2, <3>3
    <3> QED BY <1>3, <3>1, <3>2, <3>4, <3>5 DEF LifeSame
  <2>2. ASSUME NEW k \in DOMAIN r, NEW d, d = r[k].device, r[k].kind = "remove"
        PROVE  /\ d \in 1 .. births' /\ d \notin DOMAIN pipewire'
               /\ \A m \in DOMAIN r : Went(m, d)' => m = k
               /\ IF d \in DOMAIN apDevices' THEN apDevices'[d].id = r[k].id
                                             ELSE \E m \in DOMAIN r : Came(m, d)'
    <3>1. k + c \in DOMAIN q /\ q[k + c] = r[k] BY <1>4, <2>2 DEF LifeKinds
    <3>2. /\ d \in 1 .. births /\ d \notin DOMAIN pipewire
          /\ \A m \in DOMAIN q : Went(m, d) => m = k + c
          /\ IF d \in DOMAIN apDevices THEN apDevices[d].id = q[k + c].id
                                       ELSE \E m \in DOMAIN q : Came(m, d)
      BY <2>2, <3>1 DEF Lifecycle, InOrder
    <3>3. \A m \in DOMAIN r : m + c = k + c => m = k BY <1>1
    <3>4. \A m \in DOMAIN r : Went(m, d)' => m = k BY <1>6, <3>2, <3>3
    <3> QED BY <1>2, <3>1, <3>2, <3>4 DEF LifeSame
  <2> QED BY <2>1, <2>2 DEF InOrder
<1>9. Renewed'
  <2>1. ASSUME NEW m \in DOMAIN r, r[m].kind = "global",
               NEW d \in DOMAIN apDevices', apDevices'[d].id = r[m].id
        PROVE  \E k \in DOMAIN r : k < m /\ Went(k, d)'
    <3>1. m + c \in DOMAIN q /\ q[m + c] = r[m] BY <1>4, <2>1 DEF LifeKinds
    <3>2. PICK k \in DOMAIN q : k < m + c /\ Went(k, d)
      BY <2>1, <3>1 DEF Lifecycle, Renewed, LifeSame
    <3>3. k - c \in DOMAIN r /\ Went(k - c, d)' BY <1>3, <3>2
    <3>4. k - c < m BY <1>1, <3>2
    <3> QED BY <3>3, <3>4
  <2>2. ASSUME NEW m \in DOMAIN r, r[m].kind = "global", NEW l \in DOMAIN r,
               l < m, r[l].kind = "global", r[l].id = r[m].id, NEW d, d = r[l].device
        PROVE  \E k \in DOMAIN r : k < m /\ Went(k, d)'
    <3>1. /\ m + c \in DOMAIN q /\ q[m + c] = r[m]
          /\ l + c \in DOMAIN q /\ q[l + c] = r[l]
      BY <1>4, <2>2 DEF LifeKinds
    <3>2. l + c < m + c BY <1>1, <2>2
    <3>3. PICK k \in DOMAIN q : k < m + c /\ Went(k, d)
      BY <2>2, <3>1, <3>2 DEF Lifecycle, Renewed
    <3>4. k - c \in DOMAIN r /\ Went(k - c, d)' BY <1>3, <3>3
    <3>5. k - c < m BY <1>1, <3>3
    <3> QED BY <3>4, <3>5
  <2> QED BY <2>1, <2>2 DEF Renewed
<1> QED BY <1>7, <1>8, <1>9 DEF Lifecycle

LEMMA AppearsLife ==
  ASSUME Lifecycle, CardsTyped, pwEvents' \in Seq(CardEvents), NEW i \in Ids, Appears(i)
  PROVE  Lifecycle'
<1> DEFINE q == pwEvents
           r == pwEvents'
<1>1. PICK D, L, e : /\ D = births + 1 /\ L = Len(q) + 1
                     /\ e = [kind |-> "global", device |-> D, id |-> i]
  OBVIOUS
<1>2. /\ births \in Nat /\ q \in Seq(CardEvents)
      /\ DOMAIN pipewire \subseteq 1 .. births /\ DOMAIN apDevices \subseteq 1 .. births
  BY DEF CardsTyped
<1>3. /\ births' = D /\ apDevices' = apDevices /\ r = Append(q, e)
      /\ DOMAIN pipewire' = DOMAIN pipewire \cup {D}
      /\ pipewire'[D].id = i /\ \A d \in DOMAIN pipewire : d # D => pipewire'[d] = pipewire[d]
      /\ \A d \in DOMAIN pipewire : pipewire[d].id # i
  BY <1>1 DEF Appears, watcher
<1>4. e \in CardEvents /\ e.kind = "global" /\ e.device = D /\ e.id = i
  BY <1>1, <1>2 DEF CardEvents
<1>5. D \notin 1 .. births /\ 1 .. births \subseteq 1 .. D /\ D \in 1 .. D BY <1>1, <1>2
<1>6. /\ \A j \in DOMAIN q : j \in DOMAIN r /\ r[j] = q[j] /\ j < L /\ j # L
      /\ L \in DOMAIN r /\ r[L].kind = "global" /\ r[L].device = D /\ r[L].id = i
      /\ \A k \in DOMAIN r : k \in DOMAIN q \/ k = L
      /\ ~(L < L)
  <2>1. Len(q) \in Nat /\ DOMAIN q = 1 .. Len(q) BY <1>2, LenProperties
  <2>2. /\ \A j \in DOMAIN q : j \in DOMAIN r /\ r[j] = q[j]
        /\ L \in DOMAIN r /\ r[L] = e
        /\ \A k \in DOMAIN r : k \in DOMAIN q \/ k = L
    BY <1>1, <1>2, <1>3, <1>4, Appended
  <2>3. \A j \in DOMAIN q : j < L /\ j # L BY <1>1, <2>1
  <2>4. ~(L < L) BY <1>1, <2>1
  <2> QED BY <1>4, <2>2, <2>3, <2>4
<1>7. \A d : \A k \in DOMAIN q : Came(k, d)' <=> Came(k, d) BY <1>6 DEF Came
<1>8. \A d : \A k \in DOMAIN q : Went(k, d)' <=> Went(k, d) BY <1>6 DEF Went
<1>9. \A d : (Came(L, d)' <=> d = D) /\ ~Went(L, d)' BY <1>6 DEF Came, Went
<1>10. \A k \in DOMAIN q : ~Came(k, D) /\ ~Went(k, D)
  BY <1>5 DEF Lifecycle, InOrder, Came, Went
<1>11. D \notin DOMAIN apDevices /\ D \notin DOMAIN pipewire BY <1>2, <1>5
<1>12. Tracked'
  BY <1>3, <1>6, <1>7, <1>8, <1>9, <1>11 DEF Lifecycle, Tracked
<1>13. InOrder'
  <2>1. ASSUME NEW k \in DOMAIN r, NEW d, d = r[k].device, r[k].kind = "global"
        PROVE  /\ d \in 1 .. births' /\ d \notin DOMAIN apDevices'
               /\ \A m \in DOMAIN r : Came(m, d)' => m = k
               /\ \A m \in DOMAIN r : Went(m, d)' => k < m /\ r[m].id = r[k].id
               /\ IF d \in DOMAIN pipewire' THEN pipewire'[d].id = r[k].id
                                            ELSE \E m \in DOMAIN r : Went(m, d)'
    <3>1. CASE k = L
      <4>1. d = D BY <1>6, <2>1, <3>1
      <4> QED BY <1>3, <1>5, <1>6, <1>7, <1>8, <1>9, <1>10, <1>11, <3>1, <4>1
    <3>2. CASE k \in DOMAIN q
      <4>1. q[k].kind = "global" /\ q[k].device = d /\ r[k] = q[k] BY <1>6, <2>1, <3>2
      <4>2. /\ d \in 1 .. births /\ d \notin DOMAIN apDevices
            /\ \A m \in DOMAIN q : Came(m, d) => m = k
            /\ \A m \in DOMAIN q : Went(m, d) => k < m /\ q[m].id = q[k].id
            /\ IF d \in DOMAIN pipewire THEN pipewire[d].id = q[k].id
                                        ELSE \E m \in DOMAIN q : Went(m, d)
        BY <3>2, <4>1 DEF Lifecycle, InOrder
      <4>3. d # D BY <1>5, <4>2
      <4> QED BY <1>3, <1>5, <1>6, <1>7, <1>8, <1>9, <4>1, <4>2, <4>3
    <3> QED BY <1>6, <3>1, <3>2
  <2>2. ASSUME NEW k \in DOMAIN r, NEW d, d = r[k].device, r[k].kind = "remove"
        PROVE  /\ d \in 1 .. births' /\ d \notin DOMAIN pipewire'
               /\ \A m \in DOMAIN r : Went(m, d)' => m = k
               /\ IF d \in DOMAIN apDevices' THEN apDevices'[d].id = r[k].id
                                             ELSE \E m \in DOMAIN r : Came(m, d)'
    <3>1. k \in DOMAIN q /\ q[k].kind = "remove" /\ q[k].device = d /\ r[k] = q[k]
      BY <1>6, <2>2
    <3>2. /\ d \in 1 .. births /\ d \notin DOMAIN pipewire
          /\ \A m \in DOMAIN q : Went(m, d) => m = k
          /\ IF d \in DOMAIN apDevices THEN apDevices[d].id = q[k].id
                                       ELSE \E m \in DOMAIN q : Came(m, d)
      BY <3>1 DEF Lifecycle, InOrder
    <3>3. d # D BY <1>5, <3>2
    <3> QED BY <1>3, <1>5, <1>6, <1>7, <1>8, <1>9, <3>1, <3>2, <3>3
  <2> QED BY <2>1, <2>2 DEF InOrder
<1>14. Renewed'
  <2>1. ASSUME NEW m \in DOMAIN r, r[m].kind = "global",
               NEW d \in DOMAIN apDevices', apDevices'[d].id = r[m].id
        PROVE  \E k \in DOMAIN r : k < m /\ Went(k, d)'
    <3>1. CASE m = L
      <4>1. d \notin DOMAIN pipewire BY <1>3, <1>6, <2>1, <3>1 DEF Lifecycle, Tracked
      <4>2. PICK k \in DOMAIN q : Went(k, d) BY <1>3, <4>1 DEF Lifecycle, Tracked
      <4> QED BY <1>6, <1>8, <3>1, <4>2
    <3>2. CASE m \in DOMAIN q
      <4>1. PICK k \in DOMAIN q : k < m /\ Went(k, d)
        BY <1>3, <1>6, <2>1, <3>2 DEF Lifecycle, Renewed
      <4> QED BY <1>6, <1>8, <4>1
    <3> QED BY <1>6, <3>1, <3>2
  <2>2. ASSUME NEW m \in DOMAIN r, r[m].kind = "global", NEW l \in DOMAIN r,
               l < m, r[l].kind = "global", r[l].id = r[m].id, NEW d, d = r[l].device
        PROVE  \E k \in DOMAIN r : k < m /\ Went(k, d)'
    <3>1. CASE m = L
      <4>1. l \in DOMAIN q /\ q[l] = r[l] BY <1>6, <2>2, <3>1
      <4>2. d \notin DOMAIN pipewire
        BY <1>3, <1>6, <2>2, <3>1, <4>1 DEF Lifecycle, InOrder
      <4>3. PICK k \in DOMAIN q : Went(k, d) BY <2>2, <4>1, <4>2 DEF Lifecycle, InOrder
      <4> QED BY <1>6, <1>8, <3>1, <4>3
    <3>2. CASE m \in DOMAIN q
      <4>1. l \in DOMAIN q
        <5>1. \A k \in DOMAIN q : ~(L < k) BY <1>1, <1>2, LenProperties
        <5> QED BY <1>6, <2>2, <3>2, <5>1
      <4>2. PICK k \in DOMAIN q : k < m /\ Went(k, d)
        BY <1>6, <2>2, <3>2, <4>1 DEF Lifecycle, Renewed
      <4> QED BY <1>6, <1>8, <4>2
    <3> QED BY <1>6, <3>1, <3>2
  <2> QED BY <2>1, <2>2 DEF Renewed
<1> QED BY <1>12, <1>13, <1>14 DEF Lifecycle

LEMMA DisappearsLife ==
  ASSUME Lifecycle, CardsTyped, pwEvents' \in Seq(CardEvents), NEW D \in DOMAIN pipewire,
         Disappears(D)
  PROVE  Lifecycle'
<1> DEFINE q == pwEvents
           r == pwEvents'
<1>1. PICK i, L, e : /\ i = pipewire[D].id /\ L = Len(q) + 1
                     /\ e = [kind |-> "remove", device |-> D, id |-> i]
  OBVIOUS
<1>2. /\ q \in Seq(CardEvents) /\ D \in 1 .. births /\ D \in Nat /\ i \in Ids
  BY <1>1 DEF CardsTyped
<1>3. /\ births' = births /\ apDevices' = apDevices /\ r = Append(q, e)
      /\ DOMAIN pipewire' = DOMAIN pipewire \ {D}
      /\ \A d \in DOMAIN pipewire : d # D => pipewire'[d] = pipewire[d]
  BY <1>1 DEF Disappears, watcher
<1>4. e \in CardEvents /\ e.kind = "remove" /\ e.device = D /\ e.id = i
  BY <1>1, <1>2 DEF CardEvents
<1>5. /\ \A j \in DOMAIN q : j \in DOMAIN r /\ r[j] = q[j] /\ j < L /\ j # L
      /\ L \in DOMAIN r /\ r[L].kind = "remove" /\ r[L].device = D /\ r[L].id = i
      /\ \A k \in DOMAIN r : k \in DOMAIN q \/ k = L
  <2>1. Len(q) \in Nat /\ DOMAIN q = 1 .. Len(q) BY <1>2, LenProperties
  <2>2. /\ \A j \in DOMAIN q : j \in DOMAIN r /\ r[j] = q[j]
        /\ L \in DOMAIN r /\ r[L] = e
        /\ \A k \in DOMAIN r : k \in DOMAIN q \/ k = L
    BY <1>1, <1>2, <1>3, <1>4, Appended
  <2>3. \A j \in DOMAIN q : j < L /\ j # L BY <1>1, <2>1
  <2> QED BY <1>4, <2>2, <2>3
<1>6. \A d : \A k \in DOMAIN q : Came(k, d)' <=> Came(k, d) BY <1>5 DEF Came
<1>7. \A d : \A k \in DOMAIN q : Went(k, d)' <=> Went(k, d) BY <1>5 DEF Went
<1>8. \A d : (Went(L, d)' <=> d = D) /\ ~Came(L, d)' BY <1>5 DEF Came, Went
<1>9. \A k \in DOMAIN q : ~Went(k, D) BY DEF Lifecycle, InOrder, Went
<1>10. /\ D \in DOMAIN apDevices => apDevices[D].id = i
       /\ D \notin DOMAIN apDevices => \E k \in DOMAIN q : Came(k, D)
       /\ \A k \in DOMAIN q : Came(k, D) => q[k].id = i
  BY <1>1 DEF Lifecycle, Tracked, InOrder, Came
<1>11. Tracked' BY <1>3, <1>5, <1>6, <1>7, <1>8 DEF Lifecycle, Tracked
<1>12. InOrder'
  <2>1. ASSUME NEW k \in DOMAIN r, NEW d, d = r[k].device, r[k].kind = "global"
        PROVE  /\ d \in 1 .. births' /\ d \notin DOMAIN apDevices'
               /\ \A m \in DOMAIN r : Came(m, d)' => m = k
               /\ \A m \in DOMAIN r : Went(m, d)' => k < m /\ r[m].id = r[k].id
               /\ IF d \in DOMAIN pipewire' THEN pipewire'[d].id = r[k].id
                                            ELSE \E m \in DOMAIN r : Went(m, d)'
    <3>1. k \in DOMAIN q /\ q[k].kind = "global" /\ q[k].device = d /\ r[k] = q[k]
      BY <1>5, <2>1
    <3>2. /\ d \in 1 .. births /\ d \notin DOMAIN apDevices
          /\ \A m \in DOMAIN q : Came(m, d) => m = k
          /\ \A m \in DOMAIN q : Went(m, d) => k < m /\ q[m].id = q[k].id
          /\ IF d \in DOMAIN pipewire THEN pipewire[d].id = q[k].id
                                      ELSE \E m \in DOMAIN q : Went(m, d)
      BY <3>1 DEF Lifecycle, InOrder
    <3>3. \A m \in DOMAIN r : Came(m, d)' => m = k BY <1>5, <1>6, <1>8, <3>2
    <3>4. d = D => q[k].id = i BY <1>10, <3>1 DEF Came
    <3>5. \A m \in DOMAIN r : Went(m, d)' => k < m /\ r[m].id = r[k].id
      BY <1>5, <1>7, <1>8, <3>1, <3>2, <3>4
    <3>6. IF d \in DOMAIN pipewire' THEN pipewire'[d].id = r[k].id
                                    ELSE \E m \in DOMAIN r : Went(m, d)'
      BY <1>3, <1>5, <1>7, <1>8, <3>1, <3>2
    <3> QED BY <1>3, <3>2, <3>3, <3>5, <3>6
  <2>2. ASSUME NEW k \in DOMAIN r, NEW d, d = r[k].device, r[k].kind = "remove"
        PROVE  /\ d \in 1 .. births' /\ d \notin DOMAIN pipewire'
               /\ \A m \in DOMAIN r : Went(m, d)' => m = k
               /\ IF d \in DOMAIN apDevices' THEN apDevices'[d].id = r[k].id
                                             ELSE \E m \in DOMAIN r : Came(m, d)'
    <3>1. CASE k = L
      <4>1. d = D BY <1>5, <2>2, <3>1
      <4> QED BY <1>2, <1>3, <1>5, <1>6, <1>7, <1>8, <1>9, <1>10, <3>1, <4>1
    <3>2. CASE k \in DOMAIN q
      <4>1. q[k].kind = "remove" /\ q[k].device = d /\ r[k] = q[k] BY <1>5, <2>2, <3>2
      <4>2. /\ d \in 1 .. births /\ d \notin DOMAIN pipewire
            /\ \A m \in DOMAIN q : Went(m, d) => m = k
            /\ IF d \in DOMAIN apDevices THEN apDevices[d].id = q[k].id
                                         ELSE \E m \in DOMAIN q : Came(m, d)
        BY <3>2, <4>1 DEF Lifecycle, InOrder
      <4>3. d # D BY <4>2
      <4> QED BY <1>3, <1>5, <1>6, <1>7, <1>8, <4>1, <4>2, <4>3
    <3> QED BY <1>5, <3>1, <3>2
  <2> QED BY <2>1, <2>2 DEF InOrder
<1>13. Renewed'
  <2>1. ASSUME NEW m \in DOMAIN r, r[m].kind = "global",
               NEW d \in DOMAIN apDevices', apDevices'[d].id = r[m].id
        PROVE  \E k \in DOMAIN r : k < m /\ Went(k, d)'
    <3>1. m \in DOMAIN q /\ q[m] = r[m] BY <1>5, <2>1
    <3>2. PICK k \in DOMAIN q : k < m /\ Went(k, d)
      BY <1>3, <2>1, <3>1 DEF Lifecycle, Renewed
    <3> QED BY <1>5, <1>7, <3>2
  <2>2. ASSUME NEW m \in DOMAIN r, r[m].kind = "global", NEW l \in DOMAIN r,
               l < m, r[l].kind = "global", r[l].id = r[m].id, NEW d, d = r[l].device
        PROVE  \E k \in DOMAIN r : k < m /\ Went(k, d)'
    <3>1. m \in DOMAIN q /\ q[m] = r[m] /\ l \in DOMAIN q /\ q[l] = r[l] BY <1>5, <2>2
    <3>2. PICK k \in DOMAIN q : k < m /\ Went(k, d) BY <2>2, <3>1 DEF Lifecycle, Renewed
    <3> QED BY <1>5, <1>7, <3>2
  <2> QED BY <2>1, <2>2 DEF Renewed
<1> QED BY <1>11, <1>12, <1>13 DEF Lifecycle

LEMMA GlobalLife ==
  ASSUME Lifecycle, CardsTyped, RegistryEventGlobal
  PROVE  Lifecycle'
<1> DEFINE q == pwEvents
           r == pwEvents'
<1>1. q \in Seq(CardEvents) /\ q # <<>> /\ r = Tail(q) /\ Head(q).kind = "global"
  BY DEF CardsTyped, RegistryEventGlobal, PwEvent
<1>2. /\ 1 \in DOMAIN q /\ Head(q) = q[1]
      /\ \A j \in DOMAIN r : j + 1 \in DOMAIN q /\ r[j] = q[j + 1]
      /\ \A j \in DOMAIN q : j = 1 \/ (j - 1 \in DOMAIN r /\ r[j - 1] = q[j])
      /\ \A j \in DOMAIN r : j \in Nat \ {0}
      /\ \A j \in DOMAIN q : j \in Nat \ {0}
  BY <1>1, Popped
<1>3. PICK D, i : D = q[1].device /\ i = q[1].id OBVIOUS
<1>4. /\ births' = births /\ pipewire' = pipewire
      /\ DOMAIN apDevices' = DOMAIN apDevices \cup {D}
      /\ apDevices'[D].id = i
      /\ \A d \in DOMAIN apDevices : d # D => apDevices'[d] = apDevices[d]
  BY <1>2, <1>3 DEF RegistryEventGlobal, Requested, pwGraph
<1>5. /\ D \in 1 .. births /\ D \notin DOMAIN apDevices
      /\ \A m \in DOMAIN q : Came(m, D) => m = 1
      /\ \A m \in DOMAIN q : Went(m, D) => 1 < m /\ q[m].id = i
      /\ IF D \in DOMAIN pipewire THEN pipewire[D].id = i ELSE \E m \in DOMAIN q : Went(m, D)
  BY <1>1, <1>2, <1>3 DEF Lifecycle, InOrder
<1>6. \A d \in DOMAIN apDevices : apDevices[d].id # i
  <2>1. \A k \in DOMAIN q : ~(k < 1) BY <1>2
  <2> QED BY <1>1, <1>2, <1>3, <2>1 DEF Lifecycle, Renewed
<1>7. \A d : \A k \in DOMAIN q : Went(k, d) => k - 1 \in DOMAIN r /\ r[k - 1] = q[k] /\ Went(k - 1, d)'
  BY <1>1, <1>2 DEF Went
<1>8. \A d : \A k \in DOMAIN q :
        Came(k, d) /\ d # D => k - 1 \in DOMAIN r /\ r[k - 1] = q[k] /\ Came(k - 1, d)'
  BY <1>2, <1>3 DEF Came
<1>9. \A d : \A k \in DOMAIN r : Went(k, d)' => k + 1 \in DOMAIN q /\ Went(k + 1, d)
  BY <1>2 DEF Went
<1>10. \A d : \A k \in DOMAIN r : Came(k, d)' => k + 1 \in DOMAIN q /\ Came(k + 1, d) /\ d # D
  <2>1. \A k \in DOMAIN r : k + 1 # 1 BY <1>2
  <2>2. \A d : \A k \in DOMAIN r : Came(k, d)' => k + 1 \in DOMAIN q /\ Came(k + 1, d)
    BY <1>2 DEF Came
  <2> QED BY <1>5, <2>1, <2>2
<1>11. Tracked'
  BY <1>4, <1>5, <1>6, <1>7, <1>8 DEF Lifecycle, Tracked
<1>12. \A k, m \in DOMAIN r : (m + 1 = k + 1 => m = k) /\ (k + 1 < m + 1 <=> k < m) BY <1>2
<1>13. InOrder'
  <2>1. ASSUME NEW k \in DOMAIN r, NEW d, d = r[k].device, r[k].kind = "global"
        PROVE  /\ d \in 1 .. births' /\ d \notin DOMAIN apDevices'
               /\ \A m \in DOMAIN r : Came(m, d)' => m = k
               /\ \A m \in DOMAIN r : Went(m, d)' => k < m /\ r[m].id = r[k].id
               /\ IF d \in DOMAIN pipewire' THEN pipewire'[d].id = r[k].id
                                            ELSE \E m \in DOMAIN r : Went(m, d)'
    <3>1. k + 1 \in DOMAIN q /\ q[k + 1] = r[k] BY <1>2
    <3>2. /\ d \in 1 .. births /\ d \notin DOMAIN apDevices
          /\ \A m \in DOMAIN q : Came(m, d) => m = k + 1
          /\ \A m \in DOMAIN q : Went(m, d) => k + 1 < m /\ q[m].id = q[k + 1].id
          /\ IF d \in DOMAIN pipewire THEN pipewire[d].id = q[k + 1].id
                                      ELSE \E m \in DOMAIN q : Went(m, d)
      BY <2>1, <3>1 DEF Lifecycle, InOrder
    <3>3. d # D BY <1>10, <2>1 DEF Came
    <3>4. \A m \in DOMAIN r : Came(m, d)' => m = k BY <1>10, <1>12, <3>2
    <3>5. \A m \in DOMAIN r : Went(m, d)' => k < m /\ r[m].id = r[k].id
      BY <1>2, <1>9, <1>12, <3>1, <3>2
    <3> QED BY <1>4, <1>7, <3>1, <3>2, <3>3, <3>4, <3>5
  <2>2. ASSUME NEW k \in DOMAIN r, NEW d, d = r[k].device, r[k].kind = "remove"
        PROVE  /\ d \in 1 .. births' /\ d \notin DOMAIN pipewire'
               /\ \A m \in DOMAIN r : Went(m, d)' => m = k
               /\ IF d \in DOMAIN apDevices' THEN apDevices'[d].id = r[k].id
                                             ELSE \E m \in DOMAIN r : Came(m, d)'
    <3>1. k + 1 \in DOMAIN q /\ q[k + 1] = r[k] BY <1>2
    <3>2. /\ d \in 1 .. births /\ d \notin DOMAIN pipewire
          /\ \A m \in DOMAIN q : Went(m, d) => m = k + 1
          /\ IF d \in DOMAIN apDevices THEN apDevices[d].id = q[k + 1].id
                                       ELSE \E m \in DOMAIN q : Came(m, d)
      BY <2>2, <3>1 DEF Lifecycle, InOrder
    <3>3. \A m \in DOMAIN r : Went(m, d)' => m = k BY <1>9, <1>12, <3>2
    <3>4. d = D => q[k + 1].id = i BY <1>5, <2>2, <3>1 DEF Went
    <3> QED BY <1>4, <1>8, <3>1, <3>2, <3>3, <3>4
  <2> QED BY <2>1, <2>2 DEF InOrder
<1>14. Renewed'
  <2>1. \A m \in DOMAIN r : 1 < m + 1 BY <1>2
  <2>2. ASSUME NEW m \in DOMAIN r, NEW d, NEW k \in DOMAIN q, k < m + 1, Went(k, d)
        PROVE  \E j \in DOMAIN r : j < m /\ Went(j, d)'
    <3>1. k - 1 \in DOMAIN r /\ Went(k - 1, d)' BY <1>7, <2>2
    <3>2. k - 1 < m BY <1>2, <2>2
    <3> QED BY <3>1, <3>2
  <2>3. ASSUME NEW m \in DOMAIN r, r[m].kind = "global",
               NEW d \in DOMAIN apDevices', apDevices'[d].id = r[m].id
        PROVE  \E k \in DOMAIN r : k < m /\ Went(k, d)'
    <3>1. m + 1 \in DOMAIN q /\ q[m + 1] = r[m] BY <1>2
    <3>2. \E k \in DOMAIN q : k < m + 1 /\ Went(k, d)
      <4>1. CASE d = D
        BY <1>1, <1>2, <1>3, <1>4, <2>1, <2>3, <3>1, <4>1 DEF Lifecycle, Renewed
      <4>2. CASE d # D BY <1>4, <2>3, <3>1, <4>2 DEF Lifecycle, Renewed
      <4> QED BY <4>1, <4>2
    <3> QED BY <2>2, <3>2
  <2>4. ASSUME NEW m \in DOMAIN r, r[m].kind = "global", NEW l \in DOMAIN r,
               l < m, r[l].kind = "global", r[l].id = r[m].id, NEW d, d = r[l].device
        PROVE  \E k \in DOMAIN r : k < m /\ Went(k, d)'
    <3>1. m + 1 \in DOMAIN q /\ q[m + 1] = r[m] /\ l + 1 \in DOMAIN q /\ q[l + 1] = r[l]
      BY <1>2
    <3>2. l + 1 < m + 1 BY <1>12, <2>4
    <3>3. \E k \in DOMAIN q : k < m + 1 /\ Went(k, d)
      BY <2>4, <3>1, <3>2 DEF Lifecycle, Renewed
    <3> QED BY <2>2, <3>3
  <2> QED BY <2>3, <2>4 DEF Renewed
<1> QED BY <1>11, <1>13, <1>14 DEF Lifecycle

LEMMA RemoveLife ==
  ASSUME Lifecycle, CardsTyped, RegistryEventGlobalRemove
  PROVE  Lifecycle'
<1> DEFINE q == pwEvents
           r == pwEvents'
<1>1. q \in Seq(CardEvents) /\ q # <<>> /\ r = Tail(q) /\ Head(q).kind = "remove"
  BY DEF CardsTyped, RegistryEventGlobalRemove, PwEvent
<1>2. /\ 1 \in DOMAIN q /\ Head(q) = q[1]
      /\ \A j \in DOMAIN r : j + 1 \in DOMAIN q /\ r[j] = q[j + 1]
      /\ \A j \in DOMAIN q : j = 1 \/ (j - 1 \in DOMAIN r /\ r[j - 1] = q[j])
      /\ \A j \in DOMAIN r : j \in Nat \ {0}
      /\ \A j \in DOMAIN q : j \in Nat \ {0}
  BY <1>1, Popped
<1>3. PICK D, i : D = q[1].device /\ i = q[1].id OBVIOUS
<1>4. /\ births' = births /\ pipewire' = pipewire
      /\ DOMAIN apDevices' = DOMAIN apDevices \ {D}
      /\ \A d \in DOMAIN apDevices : d # D => apDevices'[d] = apDevices[d]
  BY <1>2, <1>3 DEF RegistryEventGlobalRemove, pwGraph
<1>5. D \notin DOMAIN pipewire /\ \A m \in DOMAIN q : Went(m, D) => m = 1
  BY <1>1, <1>2, <1>3 DEF Lifecycle, InOrder
<1>6. \A m \in DOMAIN q : ~Came(m, D)
  <2>1. \A m \in DOMAIN q : ~(m < 1) BY <1>2
  <2>2. Went(1, D) BY <1>1, <1>2, <1>3 DEF Went
  <2> QED BY <1>2, <2>1, <2>2 DEF Lifecycle, InOrder, Came
<1>7. \A d : \A k \in DOMAIN q :
        Went(k, d) /\ d # D => k - 1 \in DOMAIN r /\ r[k - 1] = q[k] /\ Went(k - 1, d)'
  BY <1>2, <1>3 DEF Went
<1>8. \A d : \A k \in DOMAIN q :
        Came(k, d) => k - 1 \in DOMAIN r /\ r[k - 1] = q[k] /\ Came(k - 1, d)'
  BY <1>1, <1>2 DEF Came
<1>9. \A d : \A k \in DOMAIN r : Went(k, d)' => k + 1 \in DOMAIN q /\ Went(k + 1, d) /\ d # D
  <2>1. \A k \in DOMAIN r : k + 1 # 1 BY <1>2
  <2>2. \A d : \A k \in DOMAIN r : Went(k, d)' => k + 1 \in DOMAIN q /\ Went(k + 1, d)
    BY <1>2 DEF Went
  <2> QED BY <1>5, <2>1, <2>2
<1>10. \A d : \A k \in DOMAIN r : Came(k, d)' => k + 1 \in DOMAIN q /\ Came(k + 1, d) /\ d # D
  <2>1. \A d : \A k \in DOMAIN r : Came(k, d)' => k + 1 \in DOMAIN q /\ Came(k + 1, d)
    BY <1>2 DEF Came
  <2> QED BY <1>6, <2>1
<1>11. Tracked'
  BY <1>4, <1>5, <1>7, <1>8 DEF Lifecycle, Tracked
<1>12. \A k, m \in DOMAIN r : (m + 1 = k + 1 => m = k) /\ (k + 1 < m + 1 <=> k < m) BY <1>2
<1>13. InOrder'
  <2>1. ASSUME NEW k \in DOMAIN r, NEW d, d = r[k].device, r[k].kind = "global"
        PROVE  /\ d \in 1 .. births' /\ d \notin DOMAIN apDevices'
               /\ \A m \in DOMAIN r : Came(m, d)' => m = k
               /\ \A m \in DOMAIN r : Went(m, d)' => k < m /\ r[m].id = r[k].id
               /\ IF d \in DOMAIN pipewire' THEN pipewire'[d].id = r[k].id
                                            ELSE \E m \in DOMAIN r : Went(m, d)'
    <3>1. k + 1 \in DOMAIN q /\ q[k + 1] = r[k] BY <1>2
    <3>2. /\ d \in 1 .. births /\ d \notin DOMAIN apDevices
          /\ \A m \in DOMAIN q : Came(m, d) => m = k + 1
          /\ \A m \in DOMAIN q : Went(m, d) => k + 1 < m /\ q[m].id = q[k + 1].id
          /\ IF d \in DOMAIN pipewire THEN pipewire[d].id = q[k + 1].id
                                      ELSE \E m \in DOMAIN q : Went(m, d)
      BY <2>1, <3>1 DEF Lifecycle, InOrder
    <3>3. d # D BY <1>10, <2>1 DEF Came
    <3>4. \A m \in DOMAIN r : Came(m, d)' => m = k BY <1>10, <1>12, <3>2
    <3>5. \A m \in DOMAIN r : Went(m, d)' => k < m /\ r[m].id = r[k].id
      BY <1>2, <1>9, <1>12, <3>1, <3>2
    <3> QED BY <1>4, <1>7, <3>1, <3>2, <3>3, <3>4, <3>5
  <2>2. ASSUME NEW k \in DOMAIN r, NEW d, d = r[k].device, r[k].kind = "remove"
        PROVE  /\ d \in 1 .. births' /\ d \notin DOMAIN pipewire'
               /\ \A m \in DOMAIN r : Went(m, d)' => m = k
               /\ IF d \in DOMAIN apDevices' THEN apDevices'[d].id = r[k].id
                                             ELSE \E m \in DOMAIN r : Came(m, d)'
    <3>1. k + 1 \in DOMAIN q /\ q[k + 1] = r[k] BY <1>2
    <3>2. /\ d \in 1 .. births /\ d \notin DOMAIN pipewire
          /\ \A m \in DOMAIN q : Went(m, d) => m = k + 1
          /\ IF d \in DOMAIN apDevices THEN apDevices[d].id = q[k + 1].id
                                       ELSE \E m \in DOMAIN q : Came(m, d)
      BY <2>2, <3>1 DEF Lifecycle, InOrder
    <3>3. \A m \in DOMAIN r : Went(m, d)' => m = k BY <1>9, <1>12, <3>2
    <3>4. d # D BY <1>9, <2>2 DEF Went
    <3> QED BY <1>4, <1>8, <3>1, <3>2, <3>3, <3>4
  <2> QED BY <2>1, <2>2 DEF InOrder
<1>14. Renewed'
  <2>1. ASSUME NEW m \in DOMAIN r, NEW d, d # D, NEW k \in DOMAIN q, k < m + 1, Went(k, d)
        PROVE  \E j \in DOMAIN r : j < m /\ Went(j, d)'
    <3>1. k - 1 \in DOMAIN r /\ Went(k - 1, d)' BY <1>7, <2>1
    <3>2. k - 1 < m BY <1>2, <2>1
    <3> QED BY <3>1, <3>2
  <2>2. ASSUME NEW m \in DOMAIN r, r[m].kind = "global",
               NEW d \in DOMAIN apDevices', apDevices'[d].id = r[m].id
        PROVE  \E k \in DOMAIN r : k < m /\ Went(k, d)'
    <3>1. m + 1 \in DOMAIN q /\ q[m + 1] = r[m] BY <1>2
    <3>2. \E k \in DOMAIN q : k < m + 1 /\ Went(k, d)
      BY <1>4, <2>2, <3>1 DEF Lifecycle, Renewed
    <3> QED BY <1>4, <2>1, <2>2, <3>2
  <2>3. ASSUME NEW m \in DOMAIN r, r[m].kind = "global", NEW l \in DOMAIN r,
               l < m, r[l].kind = "global", r[l].id = r[m].id, NEW d, d = r[l].device
        PROVE  \E k \in DOMAIN r : k < m /\ Went(k, d)'
    <3>1. m + 1 \in DOMAIN q /\ q[m + 1] = r[m] /\ l + 1 \in DOMAIN q /\ q[l + 1] = r[l]
      BY <1>2
    <3>2. l + 1 < m + 1 BY <1>12, <2>3
    <3>3. \E k \in DOMAIN q : k < m + 1 /\ Went(k, d)
      BY <2>3, <3>1, <3>2 DEF Lifecycle, Renewed
    <3>4. d # D BY <1>10, <2>3 DEF Came
    <3> QED BY <2>1, <3>3, <3>4
  <2> QED BY <2>2, <2>3 DEF Renewed
<1> QED BY <1>11, <1>13, <1>14 DEF Lifecycle

-----------------------------------------------------------------------------
(* AudioProfiles: types.                                                   *)

LEMMA ProfilesBounds ==
  /\ Offered \in Nat /\ Offered >= 1 /\ MaxProfiles \in Nat /\ MaxProfiles >= 1
  /\ MaxDevices \in Nat
BY ProfilesAssumption

\* The m-th answer to the enumeration s of device d, whose version is v.
NthAnswer(d, s, v, m) ==
  [kind |-> "param", device |-> d, seq |-> s,
   profile |-> IF m <= Offered THEN <<v, m>> ELSE v, active |-> m > Offered]

LEMMA AnswerTyped ==
  ASSUME NEW d \in Nat, NEW s \in Nat, NEW v \in Nat, NEW m \in 1 .. Offered + 1
  PROVE  NthAnswer(d, s, v, m) \in Params
<1>1. m \in Nat BY ProfilesBounds
<1>2. CASE m <= Offered
  <2>1. (m > Offered) = FALSE /\ <<v, m>> \in Nat \X Nat BY <1>1, <1>2, ProfilesBounds
  <2>2. NthAnswer(d, s, v, m) = [kind |-> "param", device |-> d, seq |-> s,
                                 profile |-> <<v, m>>, active |-> FALSE]
    BY <1>2, <2>1 DEF NthAnswer
  <2> QED BY <2>1, <2>2 DEF Params
<1>3. CASE ~(m <= Offered)
  <2>1. (m > Offered) = TRUE BY <1>1, <1>3, ProfilesBounds
  <2>2. NthAnswer(d, s, v, m) = [kind |-> "param", device |-> d, seq |-> s,
                                 profile |-> v, active |-> TRUE]
    BY <1>3, <2>1 DEF NthAnswer
  <2> QED BY <2>2 DEF Params
<1> QED BY <1>2, <1>3

\* t answers the enumeration s of device d, whose version is v.
AnswersAll(t, d, s, v) ==
  /\ t \in Seq(Params) /\ Len(t) = Offered + 1 /\ DOMAIN t = 1 .. Offered + 1
  /\ \A m \in 1 .. Offered + 1 : t[m] = NthAnswer(d, s, v, m)

LEMMA AnsweredFacts ==
  ASSUME NEW r, r.device \in Nat, r.seq \in Nat, pipewire[r.device].version \in Nat
  PROVE  AnswersAll(Answered(r), r.device, r.seq, pipewire[r.device].version)
<1> DEFINE v == pipewire[r.device].version
           a(m) == NthAnswer(r.device, r.seq, v, m)
           t == [m \in 1 .. Offered + 1 |-> a(m)]
<1>1. \A m \in 1 .. Offered + 1 :
        (IF m <= Offered THEN ProfilesOf(v)[m] ELSE v) = IF m <= Offered THEN <<v, m>> ELSE v
  BY ProfilesBounds DEF ProfilesOf
<1>2. Answered(r) = t BY <1>1 DEF Answered, NthAnswer
<1>3. \A m \in 1 .. Offered + 1 : a(m) \in Params BY AnswerTyped
<1>4. Offered + 1 \in Nat BY ProfilesBounds
<1> HIDE DEF a
<1>5. t \in [1 .. Offered + 1 -> Params] BY <1>3
<1>6. t \in Seq(Params) BY <1>4, <1>5
<1>7. Len(t) = Offered + 1 BY <1>4, <1>6, LenProperties
<1> USE DEF a
<1> QED BY <1>2, <1>6, <1>7 DEF AnswersAll

LEMMA EventKinds ==
  /\ \A d \in Nat, i \in Ids : /\ [kind |-> "global", device |-> d, id |-> i] \in CardEvents
                               /\ [kind |-> "remove", device |-> d, id |-> i] \in CardEvents
  /\ \A d \in Nat : [kind |-> "info", device |-> d] \in CardEvents
  /\ Seq(Params) \subseteq Seq(CardEvents)
<1>1. Params \subseteq CardEvents BY DEF CardEvents
<1>2. Seq(Params) \subseteq Seq(CardEvents) BY <1>1
<1> QED BY <1>2 DEF CardEvents

\* What an event of each kind holds.
LEMMA EventFacts ==
  ASSUME NEW e \in CardEvents
  PROVE  /\ e.kind \in {"global", "remove", "info", "param"} /\ e.device \in Nat
         /\ e.kind \in {"global", "remove"} => e.id \in Ids
         /\ e.kind = "param" => e.seq \in Nat /\ e \in Params
         /\ e.kind = "param" /\ e.active => e.profile \in Nat
         /\ e.kind = "param" /\ ~e.active => e.profile \in Nat \X Nat
<1>1. CASE e \in [kind : {"global", "remove"}, device : Nat, id : Ids] BY <1>1
<1>2. CASE e \in [kind : {"info"}, device : Nat] BY <1>2
<1>3. CASE e \in Params BY <1>3 DEF Params
<1> QED BY <1>1, <1>2, <1>3 DEF CardEvents

LEMMA RequestFacts ==
  ASSUME NEW r \in CardRequests
  PROVE  /\ r.kind \in {"enum", "set"} /\ r.device \in Nat
         /\ r.kind = "enum" => r.seq \in Nat
         /\ r.kind = "set" => r.version \in Nat
BY DEF CardRequests

LEMMA CardFacts ==
  ASSUME CardsTyped, NEW d \in DOMAIN apDevices
  PROVE  /\ apDevices[d].id \in Ids /\ apDevices[d].staging \in Seq(Nat \X Nat)
         /\ apDevices[d].seq \in Nat /\ apDevices[d].profiles \in Seq(Nat \X Nat)
         /\ apDevices[d].active \in Nat \cup {None} /\ apDevices[d].stale \in BOOLEAN
         /\ d \in Nat /\ d \in 1 .. births
BY DEF CardsTyped, CardNodes

PipeWireTyped ==
  /\ births \in Nat /\ changes \in Nat
  /\ DOMAIN pipewire \subseteq 1 .. births
  /\ pipewire \in [DOMAIN pipewire -> [id : Ids, version : Nat]]
  /\ pwRequests \in Seq(CardRequests) /\ pwEvents \in Seq(CardEvents)

WatcherTyped ==
  /\ seqs \in Nat
  /\ DOMAIN apDevices \subseteq 1 .. births
  /\ apDevices \in [DOMAIN apDevices -> CardNodes]
  /\ \A d \in DOMAIN apDevices : Len(apDevices[d].staging) <= MaxProfiles
  /\ DOMAIN cards \subseteq Ids /\ removedIds \subseteq Ids
  /\ split \subseteq 1 .. births /\ reused \subseteq Ids

LEMMA CardsTypedParts == CardsTyped <=> PipeWireTyped /\ WatcherTyped
BY DEF CardsTyped, PipeWireTyped, WatcherTyped

LEMMA AppearsTyped ==
  ASSUME CardsTyped, NEW i \in Ids, Appears(i)
  PROVE  CardsTyped'
<1> DEFINE e == [kind |-> "global", device |-> births', id |-> i]
<1>1. /\ births \in Nat /\ births' = births + 1 /\ changes' = changes /\ pwRequests' = pwRequests
      /\ pwEvents' = Append(pwEvents, e)
      /\ UNCHANGED <<watcher, cards, split, reused>>
  BY DEF Appears, CardsTyped
<1>2. births' \in Nat /\ 1 .. births \subseteq 1 .. births' /\ births' \in 1 .. births'
  BY <1>1
<1>3. pwEvents' \in Seq(CardEvents)
  <2>1. e \in CardEvents BY <1>2, EventKinds
  <2> HIDE DEF e
  <2> QED BY <1>1, <2>1 DEF CardsTyped
<1>4. /\ DOMAIN pipewire' = DOMAIN pipewire \cup {births'}
      /\ \A d \in DOMAIN pipewire' : pipewire'[d] \in [id : Ids, version : Nat]
      /\ pipewire' = [d \in DOMAIN pipewire' |-> pipewire'[d]]
  BY <1>2 DEF Appears, CardsTyped
<1>5. pipewire' \in [DOMAIN pipewire' -> [id : Ids, version : Nat]] BY <1>4
<1>6. PipeWireTyped' BY <1>1, <1>2, <1>3, <1>4, <1>5 DEF PipeWireTyped, CardsTyped
<1>7. WatcherTyped' BY <1>1, <1>2 DEF WatcherTyped, CardsTyped, watcher
<1> QED BY <1>6, <1>7, CardsTypedParts DEF CardsTyped, PipeWireTyped, WatcherTyped

LEMMA DisappearsTyped ==
  ASSUME CardsTyped, NEW d \in DOMAIN pipewire, Disappears(d)
  PROVE  CardsTyped'
<1> DEFINE e == [kind |-> "remove", device |-> d, id |-> pipewire[d].id]
<1>1. /\ pwEvents' = Append(pwEvents, e)
      /\ UNCHANGED <<births, changes, pwRequests, watcher, cards, split, reused>>
      /\ pipewire' = [x \in DOMAIN pipewire \ {d} |-> pipewire[x]]
  BY DEF Disappears
<1>2. pwEvents' \in Seq(CardEvents)
  <2>1. d \in Nat /\ pipewire[d].id \in Ids BY DEF CardsTyped
  <2>2. e \in CardEvents BY <2>1, EventKinds
  <2> HIDE DEF e
  <2> QED BY <1>1, <2>2 DEF CardsTyped
<1> QED BY <1>1, <1>2 DEF CardsTyped, watcher

LEMMA ChangedTyped ==
  ASSUME CardsTyped, NEW d \in DOMAIN pipewire, NEW v \in Nat, Changed(d, v)
  PROVE  /\ DOMAIN pipewire' = DOMAIN pipewire
         /\ pipewire' \in [DOMAIN pipewire -> [id : Ids, version : Nat]]
         /\ pipewire'[d].version = v
         /\ \A e \in DOMAIN pipewire : pipewire'[e].id = pipewire[e].id
         /\ \A e \in DOMAIN pipewire : e # d => pipewire'[e] = pipewire[e]
BY DEF CardsTyped, Changed

LEMMA ChangesTyped ==
  ASSUME CardsTyped, NEW d \in DOMAIN pipewire, Changes(d)
  PROVE  CardsTyped' /\ MaxDevices + changes' \in Nat
<1> DEFINE e == [kind |-> "info", device |-> d]
<1>1. /\ pwEvents' = Append(pwEvents, e) /\ changes' = changes + 1
      /\ UNCHANGED <<births, pwRequests, watcher, cards, split, reused>>
      /\ Changed(d, MaxDevices + changes')
  BY DEF Changes
<1>2. changes' \in Nat /\ MaxDevices + changes' \in Nat
  BY <1>1, ProfilesBounds DEF CardsTyped
<1>3. pwEvents' \in Seq(CardEvents)
  <2>1. e \in CardEvents BY EventKinds DEF CardsTyped
  <2> HIDE DEF e
  <2> QED BY <1>1, <2>1 DEF CardsTyped
<1>4. DOMAIN pipewire' = DOMAIN pipewire
      /\ pipewire' \in [DOMAIN pipewire -> [id : Ids, version : Nat]]
  BY <1>1, <1>2, ChangedTyped
<1> QED BY <1>1, <1>2, <1>3, <1>4 DEF CardsTyped, watcher

LEMMA ServeTyped ==
  ASSUME CardsTyped, Serve
  PROVE  CardsTyped'
<1> DEFINE r == Head(pwRequests)
           d == r.device
<1>1. /\ pwRequests # <<>> /\ pwRequests' = Tail(pwRequests)
      /\ UNCHANGED <<births, changes, watcher, cards, split, reused>>
  BY DEF Serve
<1>2. r \in CardRequests /\ pwRequests' \in Seq(CardRequests)
  BY <1>1, Popped DEF CardsTyped
<1>3. CASE UNCHANGED <<pipewire, pwEvents>> BY <1>1, <1>2, <1>3 DEF CardsTyped, watcher
<1>4. CASE /\ d \in DOMAIN pipewire /\ r.kind = "set" /\ Changed(d, r.version)
           /\ pwEvents' = Append(pwEvents, [kind |-> "info", device |-> d])
  <2>1. r.version \in Nat /\ d \in Nat BY <1>2, <1>4, RequestFacts
  <2>2. DOMAIN pipewire' = DOMAIN pipewire
        /\ pipewire' \in [DOMAIN pipewire -> [id : Ids, version : Nat]]
    BY <1>4, <2>1, ChangedTyped
  <2> DEFINE e == [kind |-> "info", device |-> d]
  <2>3. e \in CardEvents BY <2>1, EventKinds
  <2> HIDE DEF e
  <2>4. pwEvents' \in Seq(CardEvents) BY <1>4, <2>3 DEF CardsTyped, e
  <2> QED BY <1>1, <1>2, <2>2, <2>4 DEF CardsTyped, watcher
<1>5. CASE d \in DOMAIN pipewire /\ r.kind = "enum" /\ pwEvents' = pwEvents \o Answered(r)
           /\ UNCHANGED pipewire
  <2>1. d \in Nat /\ r.seq \in Nat /\ pipewire[d].version \in Nat
    BY <1>2, <1>5, RequestFacts DEF CardsTyped
  <2>2. Answered(r) \in Seq(CardEvents)
    <3> HIDE DEF r
    <3> QED BY <2>1, AnsweredFacts, EventKinds DEF AnswersAll
  <2>3. pwEvents' \in Seq(CardEvents) BY <1>5, <2>2, Grown DEF CardsTyped
  <2> QED BY <1>1, <1>2, <1>5, <2>3 DEF CardsTyped, watcher
<1>6. r.kind \in {"enum", "set"} BY <1>2, RequestFacts
<1> QED BY <1>3, <1>4, <1>5, <1>6 DEF Serve

LEMMA SetProfileTyped ==
  ASSUME CardsTyped, NEW d \in DOMAIN apDevices, SetProfile(d)
  PROVE  CardsTyped'
<1> DEFINE r == [kind |-> "set", device |-> d, version |-> MaxDevices + changes']
<1>1. /\ changes' = changes + 1 /\ pwRequests' = Append(pwRequests, r)
      /\ UNCHANGED <<pipewire, births, pwEvents, watcher, cards, split, reused>>
  BY DEF SetProfile
<1>2. changes' \in Nat /\ MaxDevices + changes' \in Nat /\ d \in Nat
  BY <1>1, ProfilesBounds DEF CardsTyped
<1>3. r \in CardRequests BY <1>2 DEF CardRequests
<1> HIDE DEF r
<1>4. pwRequests' \in Seq(CardRequests) BY <1>1, <1>3 DEF CardsTyped
<1> QED BY <1>1, <1>2, <1>4 DEF CardsTyped, watcher

EnumRequest(d, s) == [kind |-> "enum", device |-> d, seq |-> s]

LEMMA RequestedFacts ==
  ASSUME CardsTyped, NEW d \in 1 .. births, NEW n \in CardNodes, Requested(d, n)
  PROVE  /\ seqs' = seqs + 1 /\ seqs' \in Nat
         /\ EnumRequest(d, seqs') \in CardRequests
         /\ pwRequests' = Append(pwRequests, EnumRequest(d, seqs'))
         /\ pwRequests' \in Seq(CardRequests)
         /\ DOMAIN apDevices' = DOMAIN apDevices \cup {d}
         /\ apDevices'[d] = [n EXCEPT !.staging = <<>>, !.seq = seqs']
         /\ apDevices'[d] \in CardNodes /\ apDevices'[d].staging = <<>>
         /\ \A e \in DOMAIN apDevices : e # d => apDevices'[e] = apDevices[e]
         /\ apDevices' \in [DOMAIN apDevices' -> CardNodes]
         /\ \A e \in DOMAIN apDevices' : Len(apDevices'[e].staging) <= MaxProfiles
         /\ split' = split \ {d}
<1>1. /\ seqs' = seqs + 1 /\ pwRequests' = Append(pwRequests, EnumRequest(d, seqs'))
      /\ split' = split \ {d}
      /\ DOMAIN apDevices' = DOMAIN apDevices \cup {d}
      /\ apDevices'[d] = [n EXCEPT !.staging = <<>>, !.seq = seqs']
      /\ \A e \in DOMAIN apDevices : e # d => apDevices'[e] = apDevices[e]
      /\ apDevices' = [e \in DOMAIN apDevices' |-> apDevices'[e]]
  BY DEF Requested, EnumRequest
<1>2. seqs' \in Nat /\ d \in Nat BY <1>1 DEF CardsTyped
<1>3. EnumRequest(d, seqs') \in CardRequests BY <1>2 DEF EnumRequest, CardRequests
<1>4. pwRequests' \in Seq(CardRequests)
  <2>1. pwRequests \in Seq(CardRequests) BY DEF CardsTyped
  <2> QED BY <1>1, <1>3, <2>1
<1>5. /\ apDevices'[d] \in CardNodes /\ apDevices'[d].staging = <<>>
  <2>1. <<>> \in Seq(Nat \X Nat) OBVIOUS
  <2>2. [n EXCEPT !.staging = <<>>, !.seq = seqs'] \in CardNodes BY <1>2, <2>1 DEF CardNodes
  <2>3. [n EXCEPT !.staging = <<>>, !.seq = seqs'].staging = <<>> BY DEF CardNodes
  <2> QED BY <1>1, <2>2, <2>3
<1>6. \A e \in DOMAIN apDevices' : apDevices'[e] \in CardNodes
  <2>1. \A e \in DOMAIN apDevices : apDevices[e] \in CardNodes BY DEF CardsTyped
  <2> QED BY <1>1, <1>5, <2>1
<1>7. apDevices' \in [DOMAIN apDevices' -> CardNodes] BY <1>1, <1>6
<1>8. \A e \in DOMAIN apDevices' : Len(apDevices'[e].staging) <= MaxProfiles
  <2>1. Len(apDevices'[d].staging) <= MaxProfiles BY <1>5, ProfilesBounds
  <2>2. \A e \in DOMAIN apDevices : Len(apDevices[e].staging) <= MaxProfiles BY DEF CardsTyped
  <2> QED BY <1>1, <2>1, <2>2
<1> QED BY <1>1, <1>2, <1>3, <1>4, <1>5, <1>7, <1>8

\* The head of the events, of kind k.
LEMMA HeadFacts ==
  ASSUME CardsTyped, NEW k, PwEvent(k)
  PROVE  /\ pwEvents # <<>> /\ Head(pwEvents) \in CardEvents /\ Head(pwEvents).kind = k
         /\ pwEvents' = Tail(pwEvents) /\ pwEvents' \in Seq(CardEvents)
         /\ 1 \in DOMAIN pwEvents /\ Head(pwEvents) = pwEvents[1]
BY Popped DEF PwEvent, CardsTyped

LEMMA NewNode ==
  ASSUME NEW i \in Ids
  PROVE  [id |-> i, staging |-> <<>>, seq |-> 0, profiles |-> <<>>, active |-> None,
          stale |-> TRUE] \in CardNodes
BY DEF CardNodes

LEMMA GlobalTyped ==
  ASSUME CardsTyped, InOrder, RegistryEventGlobal
  PROVE  CardsTyped'
<1> DEFINE e == Head(pwEvents)
           n == [id |-> e.id, staging |-> <<>>, seq |-> 0, profiles |-> <<>>, active |-> None,
                 stale |-> TRUE]
<1>1. /\ PwEvent("global") /\ Requested(e.device, n)
      /\ reused' = reused \cup ({e.id} \cap removedIds)
      /\ UNCHANGED <<pwGraph, removedIds, cards>>
  BY DEF RegistryEventGlobal
<1>2. /\ e \in CardEvents /\ pwEvents' \in Seq(CardEvents) /\ e.kind = "global"
      /\ 1 \in DOMAIN pwEvents /\ e = pwEvents[1]
  BY <1>1, HeadFacts
<1>3. e.device \in 1 .. births /\ e.id \in Ids
  BY <1>2, EventFacts DEF InOrder
<1>4. n \in CardNodes BY <1>3, NewNode
<1> HIDE DEF e, n
<1>5. /\ seqs' \in Nat /\ pwRequests' \in Seq(CardRequests)
      /\ DOMAIN apDevices' = DOMAIN apDevices \cup {e.device}
      /\ apDevices' \in [DOMAIN apDevices' -> CardNodes]
      /\ \A d \in DOMAIN apDevices' : Len(apDevices'[d].staging) <= MaxProfiles
      /\ split' = split \ {e.device}
  BY <1>1, <1>3, <1>4, RequestedFacts
<1> QED BY <1>1, <1>2, <1>3, <1>5 DEF CardsTyped, pwGraph

LEMMA RemoveTyped ==
  ASSUME CardsTyped, RegistryEventGlobalRemove
  PROVE  CardsTyped'
<1> DEFINE e == Head(pwEvents)
<1>1. /\ PwEvent("remove")
      /\ apDevices' = [d \in DOMAIN apDevices \ {e.device} |-> apDevices[d]]
      /\ removedIds' = removedIds \cup {e.id}
      /\ UNCHANGED <<pwGraph, pwRequests, cards, seqs, split, reused>>
  BY DEF RegistryEventGlobalRemove
<1>2. e \in CardEvents /\ pwEvents' \in Seq(CardEvents) /\ e.kind = "remove"
  BY <1>1, HeadFacts
<1>3. e.id \in Ids BY <1>2, EventFacts
<1> QED BY <1>1, <1>2, <1>3 DEF CardsTyped, pwGraph

LEMMA InfoTyped ==
  ASSUME CardsTyped, DeviceEventInfo
  PROVE  CardsTyped'
<1> DEFINE d == Head(pwEvents).device
<1>1. /\ PwEvent("info")
      /\ IF d \in DOMAIN apDevices THEN Requested(d, apDevices[d])
         ELSE UNCHANGED <<apDevices, pwRequests, seqs, split>>
      /\ UNCHANGED <<pwGraph, removedIds, cards, reused>>
  BY DEF DeviceEventInfo
<1>2. pwEvents' \in Seq(CardEvents) BY <1>1, HeadFacts
<1> HIDE DEF d
<1>3. CASE d \notin DOMAIN apDevices BY <1>1, <1>2, <1>3 DEF CardsTyped, pwGraph
<1>4. CASE d \in DOMAIN apDevices
  <2>1. d \in 1 .. births /\ apDevices[d] \in CardNodes BY <1>4 DEF CardsTyped
  <2>2. /\ seqs' \in Nat /\ pwRequests' \in Seq(CardRequests)
        /\ DOMAIN apDevices' = DOMAIN apDevices \cup {d}
        /\ apDevices' \in [DOMAIN apDevices' -> CardNodes]
        /\ \A x \in DOMAIN apDevices' : Len(apDevices'[x].staging) <= MaxProfiles
        /\ split' = split \ {d}
    BY <1>1, <1>4, <2>1, RequestedFacts
  <2> QED BY <1>1, <1>2, <1>4, <2>1, <2>2 DEF CardsTyped, pwGraph
<1> QED BY <1>3, <1>4

\* What an event about profiles makes of a device.
LEMMA ParamFacts ==
  ASSUME CardsTyped, DeviceEventParam
  PROVE  LET e == Head(pwEvents)
             d == e.device
         IN /\ DOMAIN apDevices' = DOMAIN apDevices
            /\ apDevices' \in [DOMAIN apDevices -> CardNodes]
            /\ \A x \in DOMAIN apDevices : x # d => apDevices'[x] = apDevices[x]
            /\ d \in DOMAIN apDevices /\ e.seq # apDevices[d].seq => apDevices'[d] = apDevices[d]
            /\ d \in DOMAIN apDevices /\ e.seq = apDevices[d].seq /\ e.active =>
                 apDevices'[d] = [apDevices[d] EXCEPT !.active = e.profile, !.stale = TRUE]
            /\ d \in DOMAIN apDevices /\ e.seq = apDevices[d].seq /\ ~e.active =>
                 apDevices'[d] = IF Len(apDevices[d].staging) < MaxProfiles
                                 THEN [apDevices[d] EXCEPT !.staging = Append(@, e.profile),
                                                           !.stale = TRUE]
                                 ELSE apDevices[d]
            /\ \A x \in DOMAIN apDevices : Len(apDevices'[x].staging) <= MaxProfiles
<1> DEFINE e == Head(pwEvents)
           d == e.device
           n == apDevices[d]
<1>1. e \in Params /\ d \in Nat
  <2>1. PwEvent("param") BY DEF DeviceEventParam
  <2>2. e \in CardEvents /\ e.kind = "param" BY <2>1, HeadFacts
  <2> QED BY <2>2, EventFacts
<1>2. /\ e.active => e.profile \in Nat
      /\ ~e.active => e.profile \in Nat \X Nat
  BY <1>1, EventFacts DEF Params
<1>3. /\ apDevices \in [DOMAIN apDevices -> CardNodes]
      /\ \A x \in DOMAIN apDevices : Len(apDevices[x].staging) <= MaxProfiles
  BY DEF CardsTyped
<1>4. \/ /\ d \notin DOMAIN apDevices \/ e.seq # n.seq
         /\ UNCHANGED apDevices
      \/ /\ d \in DOMAIN apDevices /\ e.seq = n.seq /\ e.active
         /\ apDevices' = [apDevices EXCEPT ![d] = [n EXCEPT !.active = e.profile, !.stale = TRUE]]
      \/ /\ d \in DOMAIN apDevices /\ e.seq = n.seq /\ ~e.active
         /\ Len(n.staging) < MaxProfiles
         /\ apDevices' = [apDevices EXCEPT ![d] = [n EXCEPT !.staging = Append(@, e.profile),
                                                             !.stale = TRUE]]
      \/ /\ d \in DOMAIN apDevices /\ e.seq = n.seq /\ ~e.active
         /\ ~(Len(n.staging) < MaxProfiles)
         /\ UNCHANGED apDevices
  BY DEF DeviceEventParam, Accepts
<1> HIDE DEF e, d
<1>5. CASE UNCHANGED apDevices
  BY <1>3, <1>4, <1>5 DEF e, d
<1>6. CASE /\ d \in DOMAIN apDevices /\ e.seq = n.seq /\ e.active
           /\ apDevices' = [apDevices EXCEPT ![d] = [n EXCEPT !.active = e.profile, !.stale = TRUE]]
  <2>1. [n EXCEPT !.active = e.profile, !.stale = TRUE] \in CardNodes
    BY <1>2, <1>3, <1>6 DEF CardNodes
  <2>2. [n EXCEPT !.active = e.profile, !.stale = TRUE].staging = n.staging
    BY <1>3, <1>6 DEF CardNodes
  <2> QED BY <1>3, <1>6, <2>1, <2>2 DEF e, d
<1>7. CASE /\ d \in DOMAIN apDevices /\ e.seq = n.seq /\ ~e.active
           /\ Len(n.staging) < MaxProfiles
           /\ apDevices' = [apDevices EXCEPT ![d] = [n EXCEPT !.staging = Append(@, e.profile),
                                                               !.stale = TRUE]]
  <2>1. /\ n.staging \in Seq(Nat \X Nat) /\ Append(n.staging, e.profile) \in Seq(Nat \X Nat)
        /\ Len(Append(n.staging, e.profile)) = Len(n.staging) + 1 /\ Len(n.staging) \in Nat
    BY <1>2, <1>3, <1>7, AppendProperties, LenProperties DEF CardNodes
  <2>2. [n EXCEPT !.staging = Append(@, e.profile), !.stale = TRUE] \in CardNodes
    BY <1>3, <1>7, <2>1 DEF CardNodes
  <2>3. [n EXCEPT !.staging = Append(@, e.profile), !.stale = TRUE].staging
          = Append(n.staging, e.profile)
    BY <1>3, <1>7 DEF CardNodes
  <2>4. Len(n.staging) + 1 <= MaxProfiles BY <1>7, <2>1, ProfilesBounds
  <2> QED BY <1>3, <1>7, <2>1, <2>2, <2>3, <2>4 DEF e, d
<1> QED BY <1>4, <1>5, <1>6, <1>7

LEMMA ParamTyped ==
  ASSUME CardsTyped, DeviceEventParam
  PROVE  CardsTyped'
<1>1. /\ DOMAIN apDevices' = DOMAIN apDevices /\ apDevices' \in [DOMAIN apDevices -> CardNodes]
      /\ \A x \in DOMAIN apDevices : Len(apDevices'[x].staging) <= MaxProfiles
  BY ParamFacts
<1>2. pwEvents' \in Seq(CardEvents)
  <2>1. PwEvent("param") BY DEF DeviceEventParam
  <2> QED BY <2>1, HeadFacts
<1> QED BY <1>1, <1>2 DEF CardsTyped, DeviceEventParam, pwGraph

LEMMA TakenFacts ==
  ASSUME NEW n \in CardNodes
  PROVE  /\ Taken(n) \in CardNodes
         /\ Taken(n).id = n.id /\ Taken(n).seq = n.seq /\ Taken(n).active = n.active
         /\ ~Taken(n).stale
         /\ n.stale => /\ Taken(n).staging = <<>>
                       /\ Taken(n).profiles = IF n.staging # <<>> THEN n.staging ELSE n.profiles
         /\ ~n.stale => Taken(n) = n
<1>1. CASE n.stale
  <2> DEFINE p == IF n.staging # <<>> THEN n.staging ELSE n.profiles
  <2>1. Taken(n) = [n EXCEPT !.profiles = p, !.staging = <<>>, !.stale = FALSE]
    BY <1>1 DEF Taken
  <2>2. p \in Seq(Nat \X Nat) BY DEF CardNodes
  <2>3. <<>> \in Seq(Nat \X Nat) OBVIOUS
  <2> HIDE DEF p
  <2>4. [n EXCEPT !.profiles = p, !.staging = <<>>, !.stale = FALSE] \in CardNodes
    BY <2>2, <2>3 DEF CardNodes
  <2>5. LET t == [n EXCEPT !.profiles = p, !.staging = <<>>, !.stale = FALSE]
        IN /\ t.id = n.id /\ t.seq = n.seq /\ t.active = n.active /\ ~t.stale
           /\ t.staging = <<>> /\ t.profiles = p
    BY DEF CardNodes
  <2> QED BY <1>1, <2>1, <2>4, <2>5 DEF p
<1>2. CASE ~n.stale BY <1>2 DEF Taken
<1> QED BY <1>1, <1>2

\* What a poll leaves of the devices, and what it shows of them.
LEMMA PollFacts ==
  ASSUME CardsTyped, Tracked, Poll
  PROVE  /\ DOMAIN apDevices' = DOMAIN apDevices
         /\ apDevices' \in [DOMAIN apDevices -> CardNodes]
         /\ \A d \in DOMAIN apDevices : apDevices'[d] = Taken(apDevices[d])
         /\ DOMAIN cards' = (DOMAIN cards \cup StaleIds) \ removedIds
         /\ \A d \in DOMAIN apDevices :
              LET i == apDevices[d].id
                  n == Taken(apDevices[d])
              IN /\ apDevices[d].stale <=> i \in StaleIds
                 /\ i \in StaleIds \ removedIds =>
                      cards'[i] = [profiles |-> n.profiles, active |-> n.active]
         /\ \A i \in DOMAIN cards \ removedIds : i \notin StaleIds => cards'[i] = cards[i]
<1>1. /\ apDevices' = [d \in DOMAIN apDevices |-> Taken(apDevices[d])]
      /\ cards' = [i \in (DOMAIN cards \cup StaleIds) \ removedIds |->
                    IF i \in StaleIds
                    THEN [profiles |-> NodeOf(apDevices', i).profiles,
                          active |-> NodeOf(apDevices', i).active]
                    ELSE cards[i]]
  BY DEF Poll
<1>2. \A d \in DOMAIN apDevices : apDevices[d] \in CardNodes BY DEF CardsTyped
<1>3. /\ DOMAIN apDevices' = DOMAIN apDevices
      /\ \A d \in DOMAIN apDevices : /\ apDevices'[d] = Taken(apDevices[d])
                                     /\ apDevices'[d] \in CardNodes
                                     /\ apDevices'[d].id = apDevices[d].id
  BY <1>1, <1>2, TakenFacts
<1>4. apDevices' \in [DOMAIN apDevices -> CardNodes] BY <1>1, <1>3
<1>5. \A d \in DOMAIN apDevices : apDevices[d].stale <=> apDevices[d].id \in StaleIds
  BY DEF StaleIds, Tracked
<1>6. \A d \in DOMAIN apDevices : NodeOf(apDevices', apDevices[d].id) = Taken(apDevices[d])
  <2> SUFFICES ASSUME NEW d \in DOMAIN apDevices
               PROVE  NodeOf(apDevices', apDevices[d].id) = Taken(apDevices[d])
    OBVIOUS
  <2>1. \A e \in DOMAIN apDevices' : apDevices'[e].id = apDevices[d].id <=> e = d
    BY <1>3 DEF Tracked
  <2>2. (CHOOSE e \in DOMAIN apDevices' : apDevices'[e].id = apDevices[d].id) = d
    BY <1>3, <2>1
  <2> QED BY <1>3, <2>2 DEF NodeOf
<1>7. DOMAIN cards' = (DOMAIN cards \cup StaleIds) \ removedIds BY <1>1
<1>8. \A i \in StaleIds \ removedIds :
        cards'[i] = [profiles |-> NodeOf(apDevices', i).profiles,
                     active |-> NodeOf(apDevices', i).active]
  BY <1>1
<1>9. \A i \in DOMAIN cards \ removedIds : i \notin StaleIds => cards'[i] = cards[i]
  BY <1>1
<1>10. \A d \in DOMAIN apDevices : apDevices[d].id \in StaleIds \ removedIds =>
         cards'[apDevices[d].id] = [profiles |-> Taken(apDevices[d]).profiles,
                                    active |-> Taken(apDevices[d]).active]
  BY <1>6, <1>8
<1> QED BY <1>3, <1>4, <1>5, <1>7, <1>9, <1>10

LEMMA PollTyped ==
  ASSUME CardsTyped, Tracked, Poll
  PROVE  CardsTyped'
<1>1. /\ DOMAIN apDevices' = DOMAIN apDevices /\ apDevices' \in [DOMAIN apDevices' -> CardNodes]
      /\ \A d \in DOMAIN apDevices : apDevices'[d] = Taken(apDevices[d])
      /\ DOMAIN cards' = (DOMAIN cards \cup StaleIds) \ removedIds
  BY PollFacts
<1>2. \A d \in DOMAIN apDevices : Len(apDevices'[d].staging) <= MaxProfiles
  <2> SUFFICES ASSUME NEW d \in DOMAIN apDevices
               PROVE  Len(apDevices'[d].staging) <= MaxProfiles
    OBVIOUS
  <2>1. apDevices[d] \in CardNodes /\ Len(apDevices[d].staging) <= MaxProfiles
    BY DEF CardsTyped
  <2>2. apDevices'[d].staging = <<>> \/ apDevices'[d] = apDevices[d]
    BY <1>1, <2>1, TakenFacts
  <2> QED BY <2>1, <2>2, ProfilesBounds
<1>3. StaleIds \subseteq Ids BY CardFacts DEF StaleIds
<1>4. /\ UNCHANGED <<pwGraph, pwRequests, pwEvents, seqs>> /\ removedIds' = {}
      /\ split' \subseteq split \cup DOMAIN apDevices /\ reused' \subseteq reused
  BY DEF Poll
<1> QED BY <1>1, <1>2, <1>3, <1>4 DEF CardsTyped, pwGraph

-----------------------------------------------------------------------------
(* AudioProfiles: what the cards show of the devices followed.             *)

\* The id of a device that waits for the poll to remove it was given again;
\* what is staged waits for the poll; the card is as the poll left it.
AsPublished(d) ==
  LET n == apDevices[d] IN
  /\ n.id \in removedIds => n.id \in reused
  /\ n.staging # <<>> => n.stale
  /\ ~n.stale /\ n.id \notin reused =>
       n.id \in DOMAIN cards /\ cards[n.id] = [profiles |-> n.profiles, active |-> n.active]

Published ==
  /\ \A i \in DOMAIN cards : i \in removedIds \/ \E d \in DOMAIN apDevices : apDevices[d].id = i
  /\ \A d \in DOMAIN apDevices : AsPublished(d)

LEMMA PublishedStays ==
  ASSUME Published, UNCHANGED <<apDevices, cards, removedIds, reused>>
  PROVE  Published'
BY DEF Published, AsPublished

\* An enumeration is requested for the device d.
LEMMA RequestedPublished ==
  ASSUME CardsTyped, Published, NEW d \in 1 .. births, NEW n \in CardNodes, Requested(d, n),
         UNCHANGED <<cards, removedIds>>, reused \subseteq reused',
         d \in DOMAIN apDevices => n = apDevices[d],
         d \notin DOMAIN apDevices => n.stale /\ (n.id \in removedIds => n.id \in reused')
  PROVE  Published'
<1>1. /\ DOMAIN apDevices' = DOMAIN apDevices \cup {d}
      /\ apDevices'[d] = [n EXCEPT !.staging = <<>>, !.seq = seqs']
      /\ apDevices'[d].staging = <<>>
      /\ \A e \in DOMAIN apDevices : e # d => apDevices'[e] = apDevices[e]
  BY RequestedFacts
<1>2. LET m == [n EXCEPT !.staging = <<>>, !.seq = seqs']
      IN m.id = n.id /\ m.stale = n.stale /\ m.profiles = n.profiles /\ m.active = n.active
  BY DEF CardNodes
<1>3. \A e \in DOMAIN apDevices : apDevices'[e].id = apDevices[e].id
  BY <1>1, <1>2
<1>4. \A e \in DOMAIN apDevices : AsPublished(e)'
  <2> SUFFICES ASSUME NEW e \in DOMAIN apDevices PROVE AsPublished(e)'
    OBVIOUS
  <2>1. AsPublished(e) BY DEF Published
  <2>2. CASE e # d
    <3>1. apDevices'[e] = apDevices[e] BY <1>1, <2>2
    <3> QED BY <2>1, <3>1 DEF AsPublished
  <2>3. CASE e = d
    <3>1. apDevices'[e].id = n.id /\ apDevices'[e].stale = n.stale /\ n = apDevices[e]
          /\ apDevices'[e].profiles = n.profiles /\ apDevices'[e].active = n.active
          /\ apDevices'[e].staging = <<>>
      BY <1>1, <1>2, <2>3
    <3> QED BY <2>1, <3>1 DEF AsPublished
  <2> QED BY <2>2, <2>3
<1>5. AsPublished(d)'
  <2>1. CASE d \in DOMAIN apDevices BY <1>4, <2>1
  <2>2. CASE d \notin DOMAIN apDevices BY <1>1, <1>2, <2>2 DEF AsPublished
  <2> QED BY <2>1, <2>2
<1> QED BY <1>1, <1>3, <1>4, <1>5 DEF Published

LEMMA GlobalPublished ==
  ASSUME CardsTyped, InOrder, Published, RegistryEventGlobal
  PROVE  Published'
<1> DEFINE e == Head(pwEvents)
           n == [id |-> e.id, staging |-> <<>>, seq |-> 0, profiles |-> <<>>, active |-> None,
                 stale |-> TRUE]
<1>1. /\ PwEvent("global") /\ Requested(e.device, n)
      /\ reused' = reused \cup ({e.id} \cap removedIds)
      /\ UNCHANGED <<cards, removedIds>>
  BY DEF RegistryEventGlobal
<1>2. e \in CardEvents /\ e.kind = "global" /\ 1 \in DOMAIN pwEvents /\ e = pwEvents[1]
  BY <1>1, HeadFacts
<1>3. e.device \in 1 .. births /\ e.id \in Ids /\ e.device \notin DOMAIN apDevices
  BY <1>2, EventFacts DEF InOrder
<1>4. n \in CardNodes /\ n.stale /\ n.id = e.id BY <1>3, NewNode
<1> HIDE DEF e, n
<1>5. n.id \in removedIds => n.id \in reused' BY <1>1, <1>4
<1> QED BY <1>1, <1>3, <1>4, <1>5, RequestedPublished

LEMMA InfoPublished ==
  ASSUME CardsTyped, Published, DeviceEventInfo
  PROVE  Published'
<1> DEFINE d == Head(pwEvents).device
<1>1. /\ IF d \in DOMAIN apDevices THEN Requested(d, apDevices[d]) ELSE UNCHANGED apDevices
      /\ UNCHANGED <<cards, removedIds, reused>>
  BY DEF DeviceEventInfo
<1> HIDE DEF d
<1>2. CASE d \notin DOMAIN apDevices BY <1>1, <1>2, PublishedStays
<1>3. CASE d \in DOMAIN apDevices
  <2>1. d \in 1 .. births /\ apDevices[d] \in CardNodes BY <1>3 DEF CardsTyped
  <2> QED BY <1>1, <1>3, <2>1, RequestedPublished
<1> QED BY <1>2, <1>3

\* The device of a remove is followed, and was the only one with its id.
LEMMA RemovedFacts ==
  ASSUME CardsTyped, Lifecycle, RegistryEventGlobalRemove
  PROVE  /\ Head(pwEvents).device \in DOMAIN apDevices
         /\ apDevices[Head(pwEvents).device].id = Head(pwEvents).id
<1> DEFINE e == Head(pwEvents)
<1>1. PwEvent("remove") BY DEF RegistryEventGlobalRemove
<1>2. e = pwEvents[1] /\ 1 \in DOMAIN pwEvents /\ e.kind = "remove" BY <1>1, HeadFacts
<1>3. \A k \in DOMAIN pwEvents : ~(k < 1) BY LenProperties DEF CardsTyped
<1>4. \A k \in DOMAIN pwEvents : ~Came(k, e.device)
  <2> SUFFICES ASSUME NEW k \in DOMAIN pwEvents, Came(k, e.device) PROVE FALSE OBVIOUS
  <2>1. Went(1, e.device) BY <1>2 DEF Went
  <2>2. k < 1 BY <1>2, <2>1 DEF Lifecycle, InOrder, Came
  <2> QED BY <1>3, <2>2
<1> QED BY <1>2, <1>4 DEF Lifecycle, InOrder

LEMMA RemovePublished ==
  ASSUME CardsTyped, Lifecycle, Published, RegistryEventGlobalRemove
  PROVE  Published'
<1> DEFINE e == Head(pwEvents)
<1>1. /\ apDevices' = [d \in DOMAIN apDevices \ {e.device} |-> apDevices[d]]
      /\ removedIds' = removedIds \cup {e.id}
      /\ UNCHANGED <<cards, reused>>
  BY DEF RegistryEventGlobalRemove
<1>2. e.device \in DOMAIN apDevices /\ apDevices[e.device].id = e.id BY RemovedFacts
<1> HIDE DEF e
<1>3. \A d \in DOMAIN apDevices' : apDevices'[d] = apDevices[d] /\ apDevices[d].id # e.id
  BY <1>1, <1>2 DEF Lifecycle, Tracked
<1>4. \A d \in DOMAIN apDevices' : AsPublished(d)'
  BY <1>1, <1>3 DEF Published, AsPublished
<1>5. \A i \in DOMAIN cards' :
        i \in removedIds' \/ \E d \in DOMAIN apDevices' : apDevices'[d].id = i
  BY <1>1, <1>2 DEF Published
<1> QED BY <1>4, <1>5 DEF Published

LEMMA ParamPublished ==
  ASSUME CardsTyped, Published, DeviceEventParam
  PROVE  Published'
<1> DEFINE e == Head(pwEvents)
           d == e.device
<1>1. /\ DOMAIN apDevices' = DOMAIN apDevices
      /\ \A x \in DOMAIN apDevices : x # d => apDevices'[x] = apDevices[x]
      /\ d \in DOMAIN apDevices =>
           \/ apDevices'[d] = apDevices[d]
           \/ apDevices'[d] = [apDevices[d] EXCEPT !.active = e.profile, !.stale = TRUE]
           \/ apDevices'[d] = [apDevices[d] EXCEPT !.staging = Append(@, e.profile), !.stale = TRUE]
  BY ParamFacts
<1>2. UNCHANGED <<cards, removedIds, reused>> BY DEF DeviceEventParam
<1> HIDE DEF e, d
<1>3. \A x \in DOMAIN apDevices :
        /\ apDevices'[x].id = apDevices[x].id
        /\ apDevices'[x] = apDevices[x] \/ apDevices'[x].stale
  <2>1. \A x \in DOMAIN apDevices : apDevices[x] \in CardNodes BY DEF CardsTyped
  <2>2. d \in DOMAIN apDevices =>
          /\ apDevices'[d].id = apDevices[d].id
          /\ apDevices'[d] = apDevices[d] \/ apDevices'[d].stale
    BY <1>1, <2>1 DEF CardNodes
  <2> QED BY <1>1, <2>2
<1>4. \A x \in DOMAIN apDevices' : AsPublished(x)'
  BY <1>1, <1>2, <1>3 DEF Published, AsPublished
<1> QED BY <1>1, <1>2, <1>3, <1>4 DEF Published

LEMMA PollPublished ==
  ASSUME CardsTyped, Tracked, Published, Poll
  PROVE  Published'
<1>1. /\ DOMAIN apDevices' = DOMAIN apDevices
      /\ \A d \in DOMAIN apDevices : /\ apDevices'[d] = Taken(apDevices[d])
                                     /\ apDevices[d] \in CardNodes
      /\ DOMAIN cards' = (DOMAIN cards \cup StaleIds) \ removedIds
      /\ \A d \in DOMAIN apDevices :
           /\ apDevices[d].stale <=> apDevices[d].id \in StaleIds
           /\ apDevices[d].id \in StaleIds \ removedIds =>
                cards'[apDevices[d].id] = [profiles |-> Taken(apDevices[d]).profiles,
                                           active |-> Taken(apDevices[d]).active]
      /\ \A i \in DOMAIN cards \ removedIds : i \notin StaleIds => cards'[i] = cards[i]
  BY PollFacts DEF CardsTyped
<1>2. removedIds' = {} /\ reused' = {i \in reused : i \in removedIds \/ i \notin StaleIds}
  BY DEF Poll
<1>3. \A i \in DOMAIN cards' : \E d \in DOMAIN apDevices' : apDevices'[d].id = i
  <2>1. \A i \in StaleIds : \E d \in DOMAIN apDevices : apDevices[d].id = i BY DEF StaleIds
  <2> QED BY <1>1, <2>1, TakenFacts DEF Published
<1>4. \A d \in DOMAIN apDevices' : AsPublished(d)'
  <2> SUFFICES ASSUME NEW d \in DOMAIN apDevices PROVE AsPublished(d)'
    BY <1>1
  <2> DEFINE n == apDevices[d]
  <2>1. /\ n \in CardNodes /\ AsPublished(d) /\ apDevices'[d] = Taken(n)
        /\ n.stale <=> n.id \in StaleIds
    BY <1>1 DEF Published
  <2>2. CASE n.stale
    <3>1. Taken(n).id = n.id /\ Taken(n).staging = <<>> BY <2>1, <2>2, TakenFacts
    <3>2. n.id \notin reused' => n.id \notin removedIds BY <1>2, <2>1, <2>2 DEF AsPublished
    <3>3. n.id \notin reused' =>
            n.id \in DOMAIN cards'
            /\ cards'[n.id] = [profiles |-> Taken(n).profiles, active |-> Taken(n).active]
      BY <1>1, <2>1, <2>2, <3>2
    <3> QED BY <1>2, <2>1, <3>1, <3>3 DEF AsPublished
  <2>3. CASE ~n.stale
    <3>1. Taken(n) = n BY <2>1, <2>3, TakenFacts
    <3>2. n.id \notin reused' => n.id \notin reused BY <1>2, <2>1, <2>3
    <3>3. n.id \notin reused' => n.id \in DOMAIN cards \ removedIds /\ cards'[n.id] = cards[n.id]
      BY <1>1, <2>1, <2>3, <3>2 DEF AsPublished
    <3> QED BY <1>1, <1>2, <2>1, <2>3, <3>1, <3>2, <3>3 DEF AsPublished
  <2> QED BY <2>2, <2>3
<1> QED BY <1>2, <1>3, <1>4 DEF Published

-----------------------------------------------------------------------------
(* AudioProfiles: enumerations and their answers.                          *)

\* Each enumeration has a number of its own.
EnumsNumbered ==
  /\ \A d \in DOMAIN apDevices : apDevices[d].seq <= seqs
  /\ \A k \in DOMAIN pwEvents : pwEvents[k].kind = "param" => pwEvents[k].seq <= seqs
  /\ \A k \in DOMAIN pwRequests : pwRequests[k].kind = "enum" =>
       /\ pwRequests[k].seq <= seqs
       /\ \A m \in DOMAIN pwRequests :
            pwRequests[m].kind = "enum" /\ pwRequests[m].seq = pwRequests[k].seq => m = k

\* Requests and devices keep their numbers, and answers may go but none comes.
LEMMA NumbersStay ==
  ASSUME CardsTyped, EnumsNumbered, seqs' = seqs, pwRequests' = pwRequests,
         \A d \in DOMAIN apDevices' : d \in DOMAIN apDevices /\ apDevices'[d].seq = apDevices[d].seq,
         \A k \in DOMAIN pwEvents' : \/ pwEvents'[k].kind # "param"
                                     \/ \E m \in DOMAIN pwEvents : pwEvents'[k] = pwEvents[m]
  PROVE  EnumsNumbered'
<1>1. \A d \in DOMAIN apDevices' : apDevices'[d].seq <= seqs' BY DEF EnumsNumbered
<1>2. \A k \in DOMAIN pwEvents' : pwEvents'[k].kind = "param" => pwEvents'[k].seq <= seqs'
  BY DEF EnumsNumbered
<1> QED BY <1>1, <1>2 DEF EnumsNumbered

\* The first event was taken, or one that is no answer was added.
LEMMA EventsTaken ==
  ASSUME CardsTyped, pwEvents # <<>>, pwEvents' = Tail(pwEvents)
  PROVE  \A k \in DOMAIN pwEvents' : \E m \in DOMAIN pwEvents : pwEvents'[k] = pwEvents[m]
BY Popped DEF CardsTyped

LEMMA EventAdded ==
  ASSUME CardsTyped, NEW e \in CardEvents, e.kind # "param", pwEvents' = Append(pwEvents, e)
  PROVE  \A k \in DOMAIN pwEvents' : \/ pwEvents'[k].kind # "param"
                                     \/ \E m \in DOMAIN pwEvents : pwEvents'[k] = pwEvents[m]
BY Appended DEF CardsTyped

LEMMA RequestedNumbered ==
  ASSUME CardsTyped, EnumsNumbered, NEW d \in 1 .. births, NEW n \in CardNodes, Requested(d, n),
         pwEvents # <<>>, pwEvents' = Tail(pwEvents)
  PROVE  EnumsNumbered'
<1> DEFINE r == EnumRequest(d, seqs')
<1>1. /\ seqs' = seqs + 1 /\ seqs' \in Nat /\ seqs \in Nat
      /\ r \in CardRequests /\ pwRequests \in Seq(CardRequests) /\ pwRequests' = Append(pwRequests, r)
      /\ DOMAIN apDevices' = DOMAIN apDevices \cup {d}
      /\ apDevices'[d] = [n EXCEPT !.staging = <<>>, !.seq = seqs']
      /\ \A e \in DOMAIN apDevices : e # d => apDevices'[e] = apDevices[e]
  BY RequestedFacts DEF CardsTyped
<1>2. apDevices'[d].seq = seqs' BY <1>1 DEF CardNodes
<1>3. r.kind = "enum" /\ r.seq = seqs' BY DEF EnumRequest
<1>4. /\ \A e \in DOMAIN apDevices : apDevices[e].seq \in Nat
      /\ \A k \in DOMAIN pwEvents : pwEvents[k].kind = "param" => pwEvents[k].seq \in Nat
      /\ \A k \in DOMAIN pwRequests : pwRequests[k].kind = "enum" => pwRequests[k].seq \in Nat
  BY CardFacts, EventFacts, RequestFacts DEF CardsTyped
<1>5. \A e \in DOMAIN apDevices' : apDevices'[e].seq <= seqs'
  <2>1. \A a \in Nat : a <= seqs => a <= seqs' BY <1>1
  <2>2. seqs' <= seqs' BY <1>1
  <2> QED BY <1>1, <1>2, <1>4, <2>1, <2>2 DEF EnumsNumbered
<1>6. \A k \in DOMAIN pwEvents' : pwEvents'[k].kind = "param" => pwEvents'[k].seq <= seqs'
  BY <1>1, <1>4, EventsTaken DEF EnumsNumbered
<1>7. \A k \in DOMAIN pwRequests : pwRequests[k].kind = "enum" =>
        pwRequests[k].seq <= seqs' /\ pwRequests[k].seq # seqs'
  BY <1>1, <1>4 DEF EnumsNumbered
<1> HIDE DEF r
<1>8. /\ \A k \in DOMAIN pwRequests : k \in DOMAIN pwRequests' /\ pwRequests'[k] = pwRequests[k]
      /\ Len(pwRequests) + 1 \in DOMAIN pwRequests' /\ pwRequests'[Len(pwRequests) + 1] = r
      /\ \A k \in DOMAIN pwRequests' : k \in DOMAIN pwRequests \/ k = Len(pwRequests) + 1
  BY <1>1, Appended
<1>9. \A k \in DOMAIN pwRequests' : pwRequests'[k].kind = "enum" =>
        /\ pwRequests'[k].seq <= seqs'
        /\ \A m \in DOMAIN pwRequests' :
             pwRequests'[m].kind = "enum" /\ pwRequests'[m].seq = pwRequests'[k].seq => m = k
  <2> SUFFICES ASSUME NEW k \in DOMAIN pwRequests', pwRequests'[k].kind = "enum"
               PROVE  /\ pwRequests'[k].seq <= seqs'
                      /\ \A m \in DOMAIN pwRequests' :
                           pwRequests'[m].kind = "enum" /\ pwRequests'[m].seq = pwRequests'[k].seq
                             => m = k
    OBVIOUS
  <2>1. CASE k \in DOMAIN pwRequests BY <1>3, <1>7, <1>8, <2>1 DEF EnumsNumbered
  <2>2. CASE k = Len(pwRequests) + 1
    <3>1. pwRequests'[k].seq = seqs' /\ seqs' <= seqs' BY <1>1, <1>3, <1>8, <2>2
    <3> QED BY <1>7, <1>8, <2>2, <3>1
  <2> QED BY <1>8, <2>1, <2>2
<1> QED BY <1>5, <1>6, <1>9 DEF EnumsNumbered

LEMMA ServeNumbered ==
  ASSUME CardsTyped, EnumsNumbered, Serve
  PROVE  EnumsNumbered'
<1> DEFINE r == Head(pwRequests)
           d == r.device
<1>1. /\ pwRequests # <<>> /\ pwRequests' = Tail(pwRequests)
      /\ seqs' = seqs /\ apDevices' = apDevices
  BY DEF Serve, watcher
<1>2. /\ r \in CardRequests /\ 1 \in DOMAIN pwRequests /\ r = pwRequests[1]
      /\ \A k \in DOMAIN pwRequests' : /\ k + 1 \in DOMAIN pwRequests
                                       /\ pwRequests'[k] = pwRequests[k + 1]
                                       /\ k \in Nat
  BY <1>1, Popped DEF CardsTyped
<1>3. \A k, m \in Nat : k + 1 = m + 1 => k = m OBVIOUS
<1>4. \A k \in DOMAIN pwRequests' : pwRequests'[k].kind = "enum" =>
        /\ pwRequests'[k].seq <= seqs'
        /\ \A m \in DOMAIN pwRequests' :
             pwRequests'[m].kind = "enum" /\ pwRequests'[m].seq = pwRequests'[k].seq => m = k
  BY <1>1, <1>2, <1>3 DEF EnumsNumbered
<1>5. \A k \in DOMAIN pwEvents' : pwEvents'[k].kind = "param" => pwEvents'[k].seq <= seqs'
  <2>1. CASE UNCHANGED pwEvents BY <1>1, <2>1 DEF EnumsNumbered
  <2>2. CASE pwEvents' = Append(pwEvents, [kind |-> "info", device |-> d])
    <3> DEFINE e == [kind |-> "info", device |-> d]
    <3>1. d \in Nat BY <1>2, RequestFacts
    <3>2. e \in CardEvents /\ e.kind # "param" BY <3>1, EventKinds
    <3> HIDE DEF e
    <3>3. \A k \in DOMAIN pwEvents' : \/ pwEvents'[k].kind # "param"
                                      \/ \E m \in DOMAIN pwEvents : pwEvents'[k] = pwEvents[m]
      BY <2>2, <3>2, EventAdded DEF e
    <3> QED BY <1>1, <3>3 DEF EnumsNumbered
  <2>3. CASE d \in DOMAIN pipewire /\ r.kind = "enum" /\ pwEvents' = pwEvents \o Answered(r)
    <3>1. d \in Nat /\ r.seq \in Nat /\ pipewire[d].version \in Nat /\ r.seq <= seqs
      BY <1>2, <2>3, RequestFacts DEF CardsTyped, EnumsNumbered
    <3> DEFINE t == Answered(r)
    <3> HIDE DEF r
    <3>2. t \in Seq(CardEvents) /\ \A m \in DOMAIN t : t[m].seq = r.seq
      <4>1. AnswersAll(t, d, r.seq, pipewire[d].version) BY <3>1, AnsweredFacts
      <4> HIDE DEF t
      <4>2. t \in Seq(CardEvents) BY <4>1, EventKinds DEF AnswersAll
      <4>3. \A m \in DOMAIN t : t[m] = NthAnswer(d, r.seq, pipewire[d].version, m)
        BY <4>1 DEF AnswersAll
      <4> QED BY <4>2, <4>3 DEF NthAnswer
    <3> HIDE DEF t
    <3>3. \A k \in DOMAIN pwEvents' :
            \/ k \in DOMAIN pwEvents /\ pwEvents'[k] = pwEvents[k]
            \/ k - Len(pwEvents) \in DOMAIN t /\ pwEvents'[k] = t[k - Len(pwEvents)]
      BY <2>3, <3>2, Grown DEF CardsTyped, t
    <3> QED BY <1>1, <3>1, <3>2, <3>3 DEF EnumsNumbered
  <2>4. r.kind \in {"enum", "set"} BY <1>2, RequestFacts
  <2> QED BY <2>1, <2>2, <2>3, <2>4 DEF Serve
<1> QED BY <1>1, <1>4, <1>5 DEF EnumsNumbered

LEMMA SetProfileNumbered ==
  ASSUME CardsTyped, EnumsNumbered, NEW d \in DOMAIN apDevices, SetProfile(d)
  PROVE  EnumsNumbered'
<1> DEFINE r == [kind |-> "set", device |-> d, version |-> MaxDevices + changes']
<1>1. /\ changes' = changes + 1 /\ pwRequests' = Append(pwRequests, r)
      /\ UNCHANGED <<pwEvents, apDevices, seqs>>
  BY DEF SetProfile, watcher
<1>2. changes' \in Nat /\ MaxDevices + changes' \in Nat /\ d \in Nat
  BY <1>1, ProfilesBounds DEF CardsTyped
<1>3. r \in CardRequests /\ r.kind = "set" BY <1>2 DEF CardRequests
<1> HIDE DEF r
<1>4. \A k \in DOMAIN pwRequests' :
        \/ k \in DOMAIN pwRequests /\ pwRequests'[k] = pwRequests[k]
        \/ pwRequests'[k].kind = "set"
  BY <1>1, <1>3, Appended DEF CardsTyped
<1> QED BY <1>1, <1>4 DEF EnumsNumbered

\* An event says that device d changed; answers its enumeration s.
Turns(e, d)      == e.kind = "info" /\ e.device = d
Replies(e, d, s) == e.kind = "param" /\ e.device = d /\ e.seq = s

Turned(q, d)    == \E k \in DOMAIN q : Turns(q[k], d)
Silent(q, d, s) == \A k \in DOMAIN q : ~Replies(q[k], d, s)
Asked(R, d, s)  ==
  \E k \in DOMAIN R : R[k].kind = "enum" /\ R[k].device = d /\ R[k].seq = s

\* After the first p events of q come the answers after the j-th, and no others.
Coming(q, d, s, v, j, p) ==
  /\ \A m \in 1 .. Offered + 1 - j : p + m \in DOMAIN q /\ q[p + m] = NthAnswer(d, s, v, j + m)
  /\ \A k \in DOMAIN q : Replies(q[k], d, s) => k - p \in 1 .. Offered + 1 - j

\* The first j profiles, as far as there is room.
TookFirst(v, j) == [i \in 1 .. (IF j < MaxProfiles THEN j ELSE MaxProfiles) |-> <<v, i>>]

\* What a device has taken of the first j answers, unless a poll came between.
Holds(n, v, j, whole) ==
  /\ j = Offered + 1 => n.active = v
  /\ whole => IF j < Offered THEN n.staging = TookFirst(v, j)
              ELSE TookFirst(v, Offered) = IF n.staging # <<>> THEN n.staging ELSE n.profiles

\* Device d changed since it was asked; its enumeration is to be answered; or
\* it holds the first j answers and the others are on their way.
Phase(q, R, n, v, whole, d) ==
  \/ Turned(q, d)
  \/ Asked(R, d, n.seq) /\ n.staging = <<>> /\ Silent(q, d, n.seq)
  \/ /\ ~Asked(R, d, n.seq)
     /\ \E j \in 0 .. Offered + 1, p \in Nat : Coming(q, d, n.seq, v, j, p) /\ Holds(n, v, j, whole)

Enumerating ==
  \A d \in DOMAIN apDevices \cap DOMAIN pipewire :
    Phase(pwEvents, pwRequests, apDevices[d], pipewire[d].version, d \notin split, d)

CardsInv ==
  CardsTyped /\ Lifecycle /\ Published /\ EnumsNumbered /\ Enumerating

-----------------------------------------------------------------------------
(* AudioProfiles: events that do not concern a device leave its phase.     *)

Concerns(e, d, s) == Turns(e, d) \/ Replies(e, d, s)

Carried(q, r, c, d, s) ==
  /\ \A k \in DOMAIN r : Concerns(r[k], d, s) => k + c \in DOMAIN q /\ r[k] = q[k + c]
  /\ \A k \in DOMAIN q : Concerns(q[k], d, s) => k - c \in DOMAIN r /\ r[k - c] = q[k]

LEMMA TailCarried ==
  ASSUME NEW q \in Seq(CardEvents), q # <<>>, NEW d, NEW s, ~Concerns(q[1], d, s)
  PROVE  Carried(q, Tail(q), 1, d, s)
BY Popped DEF Carried

LEMMA AppendCarried ==
  ASSUME NEW q \in Seq(CardEvents), NEW e \in CardEvents, NEW d, NEW s, ~Concerns(e, d, s)
  PROVE  Carried(q, Append(q, e), 0, d, s)
<1> DEFINE r == Append(q, e)
<1>1. /\ \A k \in DOMAIN q : k \in DOMAIN r /\ r[k] = q[k]
      /\ \A k \in DOMAIN r : k \in DOMAIN q \/ (k = Len(q) + 1 /\ r[k] = e)
      /\ \A k \in DOMAIN q : k \in Nat
  BY Appended
<1> HIDE DEF r
<1>2. \A k \in DOMAIN q : k + 0 = k /\ k - 0 = k BY <1>1
<1>3. Carried(q, r, 0, d, s) BY <1>1, <1>2 DEF Carried
<1> QED BY <1>3 DEF r

LEMMA ConcatCarried ==
  ASSUME NEW q \in Seq(CardEvents), NEW t \in Seq(CardEvents), NEW d, NEW s,
         \A k \in DOMAIN t : ~Concerns(t[k], d, s)
  PROVE  Carried(q, q \o t, 0, d, s)
<1> DEFINE r == q \o t
<1>1. /\ \A k \in DOMAIN q : k \in DOMAIN r /\ r[k] = q[k]
      /\ \A k \in DOMAIN r : \/ k \in DOMAIN q
                             \/ k - Len(q) \in DOMAIN t /\ r[k] = t[k - Len(q)]
      /\ \A k \in DOMAIN q : k \in Nat
  BY Grown
<1> HIDE DEF r
<1>2. \A k \in DOMAIN q : k + 0 = k /\ k - 0 = k BY <1>1
<1>3. Carried(q, r, 0, d, s) BY <1>1, <1>2 DEF Carried
<1> QED BY <1>3 DEF r

LEMMA SameCarried ==
  ASSUME NEW q \in Seq(CardEvents), NEW d, NEW s
  PROVE  Carried(q, q, 0, d, s)
<1>1. \A k \in DOMAIN q : k + 0 = k /\ k - 0 = k BY LenProperties
<1> QED BY <1>1 DEF Carried

LEMMA NthReplies == \A d, s, v, m : Replies(NthAnswer(d, s, v, m), d, s)
BY DEF Replies, NthAnswer

LEMMA ComingCarried ==
  ASSUME NEW q \in Seq(CardEvents), NEW r \in Seq(CardEvents), NEW c \in {0, 1}, NEW d, NEW s,
         NEW v, NEW j \in 0 .. Offered + 1, NEW p \in Nat,
         Carried(q, r, c, d, s), Coming(q, d, s, v, j, p)
  PROVE  \E i \in Nat : Coming(r, d, s, v, j, i)
<1>1. /\ \A k \in DOMAIN r : Replies(r[k], d, s) => k + c \in DOMAIN q /\ Replies(q[k + c], d, s)
      /\ \A k \in DOMAIN q : Replies(q[k], d, s) => k - c \in DOMAIN r /\ r[k - c] = q[k]
  BY DEF Carried, Concerns
<1>2. (\A k \in DOMAIN q : k \in Nat \ {0}) /\ \A k \in DOMAIN r : k \in Nat \ {0}
  BY LenProperties
<1>3. CASE j = Offered + 1
  <2>1. 1 .. Offered + 1 - j = {} BY <1>3, ProfilesBounds
  <2>2. \A k \in DOMAIN r : ~Replies(r[k], d, s) BY <1>1, <2>1 DEF Coming
  <2> QED BY <2>1, <2>2 DEF Coming
<1>4. CASE j # Offered + 1
  <2>1. 1 \in 1 .. Offered + 1 - j /\ j \in Nat BY <1>4, ProfilesBounds
  <2>2. p + 1 \in DOMAIN q /\ Replies(q[p + 1], d, s) BY <2>1, NthReplies DEF Coming
  <2>3. p + 1 - c \in Nat \ {0} BY <1>1, <1>2, <2>2
  <2>4. p - c \in Nat BY <2>3
  <2>5. \A m \in 1 .. Offered + 1 - j :
          p - c + m \in DOMAIN r /\ r[p - c + m] = NthAnswer(d, s, v, j + m)
    <3> SUFFICES ASSUME NEW m \in 1 .. Offered + 1 - j
                 PROVE  p - c + m \in DOMAIN r /\ r[p - c + m] = NthAnswer(d, s, v, j + m)
      OBVIOUS
    <3>1. p + m \in DOMAIN q /\ q[p + m] = NthAnswer(d, s, v, j + m) BY DEF Coming
    <3>2. p + m - c = p - c + m BY <2>1, ProfilesBounds
    <3> QED BY <1>1, <3>1, <3>2, NthReplies
  <2>6. \A k \in DOMAIN r : Replies(r[k], d, s) => k - (p - c) \in 1 .. Offered + 1 - j
    <3> SUFFICES ASSUME NEW k \in DOMAIN r, Replies(r[k], d, s)
                 PROVE  k - (p - c) \in 1 .. Offered + 1 - j
      OBVIOUS
    <3>1. \A i \in DOMAIN q : Replies(q[i], d, s) => i - p \in 1 .. Offered + 1 - j
      BY DEF Coming
    <3>2. k + c - p \in 1 .. Offered + 1 - j BY <1>1, <3>1
    <3>3. k + c - p = k - (p - c) BY <1>2
    <3> QED BY <3>2, <3>3
  <2> QED BY <2>4, <2>5, <2>6 DEF Coming
<1> QED BY <1>3, <1>4

LEMMA PhaseCarried ==
  ASSUME NEW q \in Seq(CardEvents), NEW r \in Seq(CardEvents), NEW c \in {0, 1},
         NEW n, NEW d, Carried(q, r, c, d, n.seq),
         NEW R, NEW S, Asked(S, d, n.seq) <=> Asked(R, d, n.seq),
         NEW v, NEW w, Phase(q, R, n, v, w, d)
  PROVE  Phase(r, S, n, v, w, d)
<1>1. Turned(q, d) => Turned(r, d) BY DEF Turned, Carried, Concerns
<1>2. Silent(q, d, n.seq) => Silent(r, d, n.seq) BY DEF Silent, Carried, Concerns
<1>3. \A j \in 0 .. Offered + 1, p \in Nat : Coming(q, d, n.seq, v, j, p) =>
        \E i \in Nat : Coming(r, d, n.seq, v, j, i)
  BY ComingCarried
<1> QED BY <1>1, <1>2, <1>3 DEF Phase

\* A device in its phase after the step.
PhaseOf(d) == Phase(pwEvents, pwRequests, apDevices[d], pipewire[d].version, d \notin split, d)

LEMMA PhaseStays ==
  ASSUME CardsTyped, CardsTyped', Enumerating, NEW d \in DOMAIN apDevices \cap DOMAIN pipewire,
         NEW c \in {0, 1}, Carried(pwEvents, pwEvents', c, d, apDevices[d].seq),
         apDevices'[d] = apDevices[d], pipewire'[d].version = pipewire[d].version,
         d \in split' <=> d \in split,
         Asked(pwRequests', d, apDevices[d].seq) <=> Asked(pwRequests, d, apDevices[d].seq)
  PROVE  PhaseOf(d)'
<1> DEFINE n == apDevices[d]
           v == pipewire[d].version
<1>1. pwEvents \in Seq(CardEvents) /\ pwEvents' \in Seq(CardEvents) BY DEF CardsTyped
<1>2. Phase(pwEvents, pwRequests, n, v, d \notin split, d) BY DEF Enumerating
<1>3. (d \notin split') = (d \notin split) OBVIOUS
<1> HIDE DEF n, v
<1>4. Phase(pwEvents', pwRequests', n, v, d \notin split, d) BY <1>1, <1>2, PhaseCarried DEF n
<1>5. Phase(pwEvents', pwRequests', apDevices'[d], pipewire'[d].version, d \notin split', d)
  BY <1>3, <1>4 DEF n, v
<1> QED BY <1>5 DEF PhaseOf

LEMMA EnumeratingPhases ==
  (\A d \in DOMAIN apDevices' \cap DOMAIN pipewire' : PhaseOf(d)') => Enumerating'
BY DEF PhaseOf, Enumerating

\* Only a request to enumerate d with the number s adds to what is asked.
LEMMA AskedAppend ==
  ASSUME NEW R \in Seq(CardRequests), NEW e \in CardRequests, NEW d, NEW s,
         e.kind # "enum" \/ e.device # d \/ e.seq # s
  PROVE  Asked(Append(R, e), d, s) <=> Asked(R, d, s)
BY Appended DEF Asked

LEMMA AskedTail ==
  ASSUME NEW R \in Seq(CardRequests), R # <<>>, NEW d, NEW s,
         R[1].kind # "enum" \/ R[1].device # d \/ R[1].seq # s
  PROVE  Asked(Tail(R), d, s) <=> Asked(R, d, s)
<1> DEFINE S == Tail(R)
<1>1. /\ \A j \in DOMAIN S : j + 1 \in DOMAIN R /\ S[j] = R[j + 1]
      /\ \A j \in DOMAIN R : j = 1 \/ (j - 1 \in DOMAIN S /\ S[j - 1] = R[j])
  BY Popped
<1> HIDE DEF S
<1>2. Asked(S, d, s) => Asked(R, d, s) BY <1>1 DEF Asked
<1>3. Asked(R, d, s) => Asked(S, d, s) BY <1>1 DEF Asked
<1> QED BY <1>2, <1>3 DEF S

-----------------------------------------------------------------------------
(* AudioProfiles: steps of PipeWire and of the shell, phase by phase.      *)

LEMMA AppearsPhases ==
  ASSUME CardsTyped, CardsTyped', Enumerating, NEW i \in Ids, Appears(i)
  PROVE  Enumerating'
<1> DEFINE e == [kind |-> "global", device |-> births', id |-> i]
<1>1. /\ births' = births + 1 /\ births \in Nat
      /\ DOMAIN pipewire' = DOMAIN pipewire \cup {births'}
      /\ \A d \in DOMAIN pipewire : d # births' => pipewire'[d] = pipewire[d]
      /\ pwEvents' = Append(pwEvents, e) /\ pwEvents \in Seq(CardEvents)
      /\ UNCHANGED <<pwRequests, apDevices, split>>
      /\ DOMAIN apDevices \subseteq 1 .. births
  BY DEF Appears, watcher, CardsTyped
<1>2. births' \notin DOMAIN apDevices /\ births' \in Nat BY <1>1
<1>3. e \in CardEvents /\ e.kind = "global" BY <1>2, EventKinds
<1> HIDE DEF e
<1>4. ASSUME NEW d \in DOMAIN apDevices' \cap DOMAIN pipewire'
      PROVE  PhaseOf(d)'
  <2>1. d \in DOMAIN apDevices \cap DOMAIN pipewire /\ pipewire'[d] = pipewire[d]
    BY <1>1, <1>2
  <2>2. ~Concerns(e, d, apDevices[d].seq) BY <1>3 DEF Concerns, Turns, Replies
  <2>3. Carried(pwEvents, pwEvents', 0, d, apDevices[d].seq) BY <1>1, <1>3, <2>2, AppendCarried
  <2> QED BY <1>1, <2>1, <2>3, PhaseStays
<1> QED BY <1>4, EnumeratingPhases

LEMMA DisappearsPhases ==
  ASSUME CardsTyped, CardsTyped', Enumerating, NEW g \in DOMAIN pipewire, Disappears(g)
  PROVE  Enumerating'
<1> DEFINE e == [kind |-> "remove", device |-> g, id |-> pipewire[g].id]
<1>1. /\ DOMAIN pipewire' = DOMAIN pipewire \ {g}
      /\ \A d \in DOMAIN pipewire' : pipewire'[d] = pipewire[d]
      /\ pwEvents' = Append(pwEvents, e) /\ pwEvents \in Seq(CardEvents)
      /\ UNCHANGED <<pwRequests, apDevices, split>>
      /\ g \in Nat /\ pipewire[g].id \in Ids
  BY DEF Disappears, watcher, CardsTyped
<1>2. e \in CardEvents /\ e.kind = "remove" BY <1>1, EventKinds
<1> HIDE DEF e
<1>3. ASSUME NEW d \in DOMAIN apDevices' \cap DOMAIN pipewire'
      PROVE  PhaseOf(d)'
  <2>1. d \in DOMAIN apDevices \cap DOMAIN pipewire /\ pipewire'[d] = pipewire[d]
    BY <1>1
  <2>2. ~Concerns(e, d, apDevices[d].seq) BY <1>2 DEF Concerns, Turns, Replies
  <2>3. Carried(pwEvents, pwEvents', 0, d, apDevices[d].seq) BY <1>1, <1>2, <2>2, AppendCarried
  <2> QED BY <1>1, <2>1, <2>3, PhaseStays
<1> QED BY <1>3, EnumeratingPhases

\* PipeWire says that a device changed, after requests that ask for nothing.
LEMMA ChangedPhases ==
  ASSUME CardsTyped, CardsTyped', Enumerating, NEW g \in DOMAIN pipewire, NEW v, Changed(g, v),
         pwEvents' = Append(pwEvents, [kind |-> "info", device |-> g]),
         UNCHANGED <<apDevices, split>>,
         \A d, s : Asked(pwRequests', d, s) <=> Asked(pwRequests, d, s)
  PROVE  Enumerating'
<1> DEFINE e == [kind |-> "info", device |-> g]
<1>1. /\ DOMAIN pipewire' = DOMAIN pipewire
      /\ \A d \in DOMAIN pipewire : d # g => pipewire'[d] = pipewire[d]
      /\ pwEvents' = Append(pwEvents, e) /\ pwEvents \in Seq(CardEvents)
      /\ g \in Nat
  BY DEF Changed, CardsTyped
<1>2. e \in CardEvents /\ e.kind = "info" /\ e.device = g BY <1>1, EventKinds
<1> HIDE DEF e
<1>3. ASSUME NEW d \in DOMAIN apDevices' \cap DOMAIN pipewire'
      PROVE  PhaseOf(d)'
  <2>1. d \in DOMAIN apDevices \cap DOMAIN pipewire BY <1>1
  <2>2. CASE d = g
    <3>1. Len(pwEvents) + 1 \in DOMAIN pwEvents' /\ pwEvents'[Len(pwEvents) + 1] = e
      BY <1>1, <1>2, Appended
    <3>2. Turned(pwEvents', d) BY <1>2, <2>2, <3>1 DEF Turned, Turns
    <3> QED BY <3>2 DEF PhaseOf, Phase
  <2>3. CASE d # g
    <3>1. ~Concerns(e, d, apDevices[d].seq) BY <1>2, <2>3 DEF Concerns, Turns, Replies
    <3>2. Carried(pwEvents, pwEvents', 0, d, apDevices[d].seq) BY <1>1, <1>2, <3>1, AppendCarried
    <3> QED BY <1>1, <2>1, <2>3, <3>2, PhaseStays
  <2> QED BY <2>2, <2>3
<1> QED BY <1>3, EnumeratingPhases

LEMMA ChangesPhases ==
  ASSUME CardsTyped, CardsTyped', Enumerating, NEW g \in DOMAIN pipewire, Changes(g)
  PROVE  Enumerating'
<1>1. Changed(g, MaxDevices + changes') BY DEF Changes
<1>2. /\ pwEvents' = Append(pwEvents, [kind |-> "info", device |-> g])
      /\ UNCHANGED <<apDevices, split>> /\ pwRequests' = pwRequests
  BY DEF Changes, watcher
<1> QED BY <1>1, <1>2, ChangedPhases

LEMMA SetProfilePhases ==
  ASSUME CardsTyped, CardsTyped', Enumerating, NEW g \in DOMAIN apDevices, SetProfile(g)
  PROVE  Enumerating'
<1> DEFINE r == [kind |-> "set", device |-> g, version |-> MaxDevices + changes']
<1>1. /\ changes' = changes + 1 /\ pwRequests' = Append(pwRequests, r)
      /\ UNCHANGED <<pipewire, pwEvents, apDevices, split>>
      /\ pwRequests \in Seq(CardRequests) /\ pwEvents \in Seq(CardEvents)
  BY DEF SetProfile, watcher, CardsTyped
<1>2. changes' \in Nat /\ MaxDevices + changes' \in Nat /\ g \in Nat
  BY <1>1, ProfilesBounds DEF CardsTyped
<1>3. r \in CardRequests /\ r.kind = "set" BY <1>2 DEF CardRequests
<1> HIDE DEF r
<1>4. ASSUME NEW d \in DOMAIN apDevices' \cap DOMAIN pipewire'
      PROVE  PhaseOf(d)'
  <2>1. Asked(pwRequests', d, apDevices[d].seq) <=> Asked(pwRequests, d, apDevices[d].seq)
    BY <1>1, <1>3, AskedAppend
  <2>2. Carried(pwEvents, pwEvents', 0, d, apDevices[d].seq) BY <1>1, SameCarried
  <2> QED BY <1>1, <2>1, <2>2, PhaseStays
<1> QED BY <1>4, EnumeratingPhases

LEMMA RemovePhases ==
  ASSUME CardsTyped, CardsTyped', Enumerating, RegistryEventGlobalRemove
  PROVE  Enumerating'
<1> DEFINE e == Head(pwEvents)
<1>1. /\ PwEvent("remove")
      /\ apDevices' = [d \in DOMAIN apDevices \ {e.device} |-> apDevices[d]]
      /\ UNCHANGED <<pipewire, pwRequests, split>>
      /\ pwEvents \in Seq(CardEvents)
  BY DEF RegistryEventGlobalRemove, CardsTyped, pwGraph
<1>2. pwEvents # <<>> /\ pwEvents' = Tail(pwEvents) /\ pwEvents[1].kind = "remove"
  BY <1>1, HeadFacts
<1> HIDE DEF e
<1>3. ASSUME NEW d \in DOMAIN apDevices' \cap DOMAIN pipewire'
      PROVE  PhaseOf(d)'
  <2>1. d \in DOMAIN apDevices \cap DOMAIN pipewire /\ apDevices'[d] = apDevices[d] BY <1>1
  <2>2. ~Concerns(pwEvents[1], d, apDevices[d].seq) BY <1>2 DEF Concerns, Turns, Replies
  <2>3. Carried(pwEvents, pwEvents', 1, d, apDevices[d].seq) BY <1>1, <1>2, <2>2, TailCarried
  <2> QED BY <1>1, <2>1, <2>3, PhaseStays
<1> QED BY <1>3, EnumeratingPhases

\* An enumeration is requested for g by the handler of an event about g.
LEMMA RequestedPhases ==
  ASSUME CardsTyped, CardsTyped', EnumsNumbered, Enumerating,
         NEW g \in 1 .. births, NEW n \in CardNodes, Requested(g, n),
         pwEvents # <<>>, pwEvents' = Tail(pwEvents), UNCHANGED pipewire,
         pwEvents[1].device = g, pwEvents[1].kind \in {"global", "info"}
  PROVE  Enumerating'
<1> DEFINE r == EnumRequest(g, seqs')
<1>1. /\ seqs' = seqs + 1 /\ seqs \in Nat
      /\ r \in CardRequests /\ pwRequests \in Seq(CardRequests) /\ pwRequests' = Append(pwRequests, r)
      /\ DOMAIN apDevices' = DOMAIN apDevices \cup {g}
      /\ apDevices'[g] = [n EXCEPT !.staging = <<>>, !.seq = seqs']
      /\ apDevices'[g].staging = <<>>
      /\ \A d \in DOMAIN apDevices : d # g => apDevices'[d] = apDevices[d]
      /\ split' = split \ {g} /\ pwEvents \in Seq(CardEvents)
  BY RequestedFacts DEF CardsTyped
<1>2. apDevices'[g].seq = seqs' BY <1>1 DEF CardNodes
<1>3. r.kind = "enum" /\ r.device = g /\ r.seq = seqs' BY DEF EnumRequest
<1> HIDE DEF r
<1>4. Len(pwRequests) + 1 \in DOMAIN pwRequests' /\ pwRequests'[Len(pwRequests) + 1] = r
  BY <1>1, Appended
<1>5. Asked(pwRequests', g, seqs') BY <1>3, <1>4 DEF Asked
<1>6. \A k \in DOMAIN pwEvents' : ~Replies(pwEvents'[k], g, seqs')
  <2> SUFFICES ASSUME NEW k \in DOMAIN pwEvents', Replies(pwEvents'[k], g, seqs') PROVE FALSE
    OBVIOUS
  <2>1. PICK m \in DOMAIN pwEvents : pwEvents'[k] = pwEvents[m] BY EventsTaken
  <2>2. pwEvents[m].kind = "param" /\ pwEvents[m].seq = seqs' BY <2>1 DEF Replies
  <2>3. pwEvents[m].seq <= seqs BY <2>2 DEF EnumsNumbered
  <2> QED BY <1>1, <2>2, <2>3
<1>7. PhaseOf(g)'
  <2>1. Silent(pwEvents', g, seqs') BY <1>6 DEF Silent
  <2> QED BY <1>1, <1>2, <1>5, <2>1 DEF PhaseOf, Phase
<1>8. ASSUME NEW d \in DOMAIN apDevices' \cap DOMAIN pipewire', d # g
      PROVE  PhaseOf(d)'
  <2>1. d \in DOMAIN apDevices \cap DOMAIN pipewire /\ apDevices'[d] = apDevices[d]
    BY <1>1, <1>8
  <2>2. ~Concerns(pwEvents[1], d, apDevices[d].seq) BY <1>8 DEF Concerns, Turns, Replies
  <2>3. Carried(pwEvents, pwEvents', 1, d, apDevices[d].seq) BY <1>1, <2>2, TailCarried
  <2>4. Asked(pwRequests', d, apDevices[d].seq) <=> Asked(pwRequests, d, apDevices[d].seq)
    BY <1>1, <1>3, <1>8, AskedAppend
  <2> QED BY <1>1, <1>8, <2>1, <2>3, <2>4, PhaseStays
<1> QED BY <1>7, <1>8, EnumeratingPhases

LEMMA GlobalPhases ==
  ASSUME CardsTyped, CardsTyped', InOrder, EnumsNumbered, Enumerating, RegistryEventGlobal
  PROVE  Enumerating'
<1> DEFINE e == Head(pwEvents)
           n == [id |-> e.id, staging |-> <<>>, seq |-> 0, profiles |-> <<>>, active |-> None,
                 stale |-> TRUE]
<1>1. PwEvent("global") /\ Requested(e.device, n) /\ UNCHANGED pipewire
  BY DEF RegistryEventGlobal, pwGraph
<1>2. /\ pwEvents # <<>> /\ pwEvents' = Tail(pwEvents)
      /\ e \in CardEvents /\ e.kind = "global" /\ 1 \in DOMAIN pwEvents /\ e = pwEvents[1]
  BY <1>1, HeadFacts
<1>3. e.device \in 1 .. births /\ e.id \in Ids BY <1>2, EventFacts DEF InOrder
<1>4. n \in CardNodes BY <1>3, NewNode
<1> HIDE DEF e, n
<1> QED BY <1>1, <1>2, <1>3, <1>4, RequestedPhases

LEMMA InfoPhases ==
  ASSUME CardsTyped, CardsTyped', EnumsNumbered, Enumerating, DeviceEventInfo
  PROVE  Enumerating'
<1> DEFINE g == Head(pwEvents).device
<1>1. /\ PwEvent("info") /\ UNCHANGED pipewire
      /\ IF g \in DOMAIN apDevices THEN Requested(g, apDevices[g])
         ELSE UNCHANGED <<apDevices, pwRequests, seqs, split>>
  BY DEF DeviceEventInfo, pwGraph
<1>2. /\ pwEvents # <<>> /\ pwEvents' = Tail(pwEvents)
      /\ pwEvents[1].kind = "info" /\ pwEvents[1].device = g /\ pwEvents \in Seq(CardEvents)
  BY <1>1, HeadFacts DEF CardsTyped
<1> HIDE DEF g
<1>3. CASE g \in DOMAIN apDevices
  <2>1. g \in 1 .. births /\ apDevices[g] \in CardNodes BY <1>3 DEF CardsTyped
  <2> QED BY <1>1, <1>2, <1>3, <2>1, RequestedPhases
<1>4. CASE g \notin DOMAIN apDevices
  <2>1. ASSUME NEW d \in DOMAIN apDevices' \cap DOMAIN pipewire'
        PROVE  PhaseOf(d)'
    <3>1. d \in DOMAIN apDevices \cap DOMAIN pipewire /\ d # g BY <1>1, <1>4
    <3>2. ~Concerns(pwEvents[1], d, apDevices[d].seq)
      BY <1>2, <3>1 DEF Concerns, Turns, Replies
    <3>3. Carried(pwEvents, pwEvents', 1, d, apDevices[d].seq) BY <1>2, <3>2, TailCarried
    <3> QED BY <1>1, <1>4, <3>1, <3>3, PhaseStays
  <2> QED BY <2>1, EnumeratingPhases
<1> QED BY <1>3, <1>4

LEMMA PollPhases ==
  ASSUME CardsTyped, CardsTyped', Tracked, Published, Enumerating, Poll
  PROVE  Enumerating'
<1>1. /\ DOMAIN apDevices' = DOMAIN apDevices
      /\ \A d \in DOMAIN apDevices : apDevices'[d] = Taken(apDevices[d])
      /\ \A d \in DOMAIN apDevices : apDevices[d] \in CardNodes
      /\ pwEvents \in Seq(CardEvents)
  BY PollFacts DEF CardsTyped
<1>2. /\ UNCHANGED <<pipewire, pwRequests, pwEvents>>
      /\ split' = split \cup {d \in DOMAIN apDevices : Partial(d)}
  BY DEF Poll, pwGraph
<1>3. ASSUME NEW d \in DOMAIN apDevices' \cap DOMAIN pipewire'
      PROVE  PhaseOf(d)'
  <2> DEFINE n == apDevices[d]
             m == Taken(n)
             v == pipewire[d].version
  <2>1. /\ d \in DOMAIN apDevices \cap DOMAIN pipewire /\ n \in CardNodes
        /\ apDevices'[d] = m
    BY <1>1, <1>2
  <2>2. /\ m.seq = n.seq /\ m.active = n.active
        /\ n.stale => m.staging = <<>>
                      /\ m.profiles = IF n.staging # <<>> THEN n.staging ELSE n.profiles
        /\ ~n.stale => m = n
    BY <2>1, TakenFacts
  <2>3. n.staging # <<>> => n.stale BY <2>1 DEF Published, AsPublished
  <2>4. Phase(pwEvents, pwRequests, n, v, d \notin split, d) BY <2>1 DEF Enumerating
  <2>5. (d \notin split') => (d \notin split) /\ ~Partial(d) BY <1>1, <1>2, <2>1
  <2>6. n.staging # <<>> /\ d \notin split' =>
          \A k \in DOMAIN pwEvents : ~(Replies(pwEvents[k], d, n.seq) /\ ~pwEvents[k].active)
    BY <2>3, <2>5 DEF Partial, Replies
  <2> HIDE DEF n, m, v
  <2>7. ASSUME NEW j \in 0 .. Offered + 1, NEW p \in Nat,
               Coming(pwEvents, d, n.seq, v, j, p), Holds(n, v, j, d \notin split)
        PROVE  Holds(m, v, j, d \notin split')
    <3>1. CASE d \in split' BY <2>2, <2>7, <3>1 DEF Holds
    <3>2. CASE d \notin split'
      <4>1. /\ j = Offered + 1 => m.active = v
            /\ j < Offered => n.staging = TookFirst(v, j)
            /\ ~(j < Offered) =>
                 TookFirst(v, Offered) = IF n.staging # <<>> THEN n.staging ELSE n.profiles
        BY <2>2, <2>5, <2>7, <3>2 DEF Holds
      <4>2. j < Offered => n.staging = <<>>
        <5> SUFFICES ASSUME j < Offered, n.staging # <<>> PROVE FALSE OBVIOUS
        <5>1. /\ 1 \in 1 .. Offered + 1 - j /\ j + 1 <= Offered /\ ~(j + 1 > Offered)
          BY ProfilesBounds
        <5>2. p + 1 \in DOMAIN pwEvents /\ pwEvents[p + 1] = NthAnswer(d, n.seq, v, j + 1)
          BY <2>7, <5>1 DEF Coming
        <5>3. ~NthAnswer(d, n.seq, v, j + 1).active BY <5>1 DEF NthAnswer
        <5> QED BY <2>6, <3>2, <5>2, <5>3, NthReplies
      <4>3. j < Offered => m.staging = n.staging
        BY <2>2, <4>2
      <4>4. (IF n.staging # <<>> THEN n.staging ELSE n.profiles)
              = IF m.staging # <<>> THEN m.staging ELSE m.profiles
        BY <2>2
      <4> QED BY <4>1, <4>3, <4>4 DEF Holds
    <3> QED BY <3>1, <3>2
  <2>8. n.staging = <<>> => m.staging = <<>> BY <2>2
  <2>9. Phase(pwEvents, pwRequests, m, v, d \notin split', d)
    BY <2>2, <2>4, <2>7, <2>8 DEF Phase
  <2> QED BY <1>2, <2>1, <2>9 DEF PhaseOf, v
<1> QED BY <1>3, EnumeratingPhases

LEMMA NoneTaken == \A v : TookFirst(v, 0) = <<>>
BY ProfilesBounds DEF TookFirst

\* PipeWire answers the enumeration that the device holds the number of.
LEMMA ServedPhase ==
  ASSUME CardsTyped, EnumsNumbered, Enumerating, Serve,
         NEW g \in DOMAIN apDevices \cap DOMAIN pipewire, UNCHANGED <<pipewire, apDevices, split>>,
         NEW t, AnswersAll(t, g, apDevices[g].seq, pipewire[g].version),
         pwRequests[1] = EnumRequest(g, apDevices[g].seq), pwEvents' = pwEvents \o t
  PROVE  PhaseOf(g)'
<1> DEFINE n == apDevices[g]
           v == pipewire[g].version
           q == pwEvents
           r == pwEvents'
<1>1. /\ pwRequests # <<>> /\ pwRequests' = Tail(pwRequests) /\ pwRequests \in Seq(CardRequests)
      /\ q \in Seq(CardEvents) /\ t \in Seq(CardEvents)
      /\ Len(t) = Offered + 1 /\ DOMAIN t = 1 .. Offered + 1
      /\ \A m \in 1 .. Offered + 1 : t[m] = NthAnswer(g, n.seq, v, m)
  BY EventKinds DEF Serve, CardsTyped, AnswersAll
<1>2. /\ \A k \in DOMAIN q : k \in DOMAIN r /\ r[k] = q[k]
      /\ \A k \in DOMAIN t : Len(q) + k \in DOMAIN r /\ r[Len(q) + k] = t[k]
      /\ \A k \in DOMAIN r :
           \/ k \in DOMAIN q
           \/ k - Len(q) \in DOMAIN t /\ r[k] = t[k - Len(q)]
      /\ Len(q) \in Nat
  BY <1>1, Grown
<1>3. Phase(q, pwRequests, n, v, g \notin split, g) BY DEF Enumerating
<1>4. pwRequests[1].kind = "enum" /\ pwRequests[1].device = g /\ pwRequests[1].seq = n.seq
  BY DEF EnumRequest
<1>5. Asked(pwRequests, g, n.seq) BY <1>1, <1>4, Popped DEF Asked
<1>6. ~Asked(pwRequests', g, n.seq)
  <2>1. /\ \A k \in DOMAIN pwRequests' : /\ k + 1 \in DOMAIN pwRequests
                                         /\ pwRequests'[k] = pwRequests[k + 1]
                                         /\ k \in Nat \ {0}
        /\ 1 \in DOMAIN pwRequests
    BY <1>1, Popped
  <2>2. \A k \in Nat \ {0} : k + 1 # 1 OBVIOUS
  <2> QED BY <1>4, <2>1, <2>2 DEF EnumsNumbered, Asked
<1> HIDE DEF n, v
<1>7. CASE Turned(q, g)
  <2>1. Turned(r, g) BY <1>2, <1>7 DEF Turned
  <2> QED BY <2>1 DEF Phase, PhaseOf
<1>8. CASE n.staging = <<>> /\ Silent(q, g, n.seq)
  <2>1. Coming(r, g, n.seq, v, 0, Len(q))
    <3>1. 1 .. Offered + 1 - 0 = 1 .. Offered + 1 BY ProfilesBounds
    <3>2. \A m \in 1 .. Offered + 1 : 0 + m = m BY ProfilesBounds
    <3>3. \A m \in 1 .. Offered + 1 : Len(q) + m \in DOMAIN r
                                      /\ r[Len(q) + m] = NthAnswer(g, n.seq, v, 0 + m)
      BY <1>1, <1>2, <3>2
    <3>4. \A k \in DOMAIN r : Replies(r[k], g, n.seq) => k - Len(q) \in 1 .. Offered + 1
      BY <1>1, <1>2, <1>8 DEF Silent
    <3> HIDE DEF q, r
    <3> QED BY <3>1, <3>3, <3>4 DEF Coming
  <2>2. 0 < Offered /\ ~(0 = Offered + 1) /\ 0 \in 0 .. Offered + 1 BY ProfilesBounds
  <2>3. Holds(n, v, 0, g \notin split) BY <1>8, <2>2, NoneTaken DEF Holds
  <2>4. Phase(r, pwRequests', n, v, g \notin split, g)
    <3> HIDE DEF q, r
    <3> QED BY <1>2, <1>6, <2>1, <2>2, <2>3 DEF Phase
  <2>5. (g \notin split') = (g \notin split) OBVIOUS
  <2> QED BY <2>4, <2>5 DEF PhaseOf, n, v
<1> QED BY <1>3, <1>5, <1>7, <1>8 DEF Phase

LEMMA ServePhases ==
  ASSUME CardsTyped, CardsTyped', EnumsNumbered, Enumerating, Serve
  PROVE  Enumerating'
<1> DEFINE r == Head(pwRequests)
           g == r.device
<1>1. /\ pwRequests # <<>> /\ pwRequests' = Tail(pwRequests) /\ pwRequests \in Seq(CardRequests)
      /\ UNCHANGED <<apDevices, split>> /\ pwEvents \in Seq(CardEvents)
  BY DEF Serve, watcher, CardsTyped
<1>2. r \in CardRequests /\ 1 \in DOMAIN pwRequests /\ r = pwRequests[1]
  BY <1>1, Popped
<1>3. CASE g \notin DOMAIN pipewire
  <2>1. UNCHANGED <<pipewire, pwEvents>> BY <1>3 DEF Serve
  <2>2. ASSUME NEW d \in DOMAIN apDevices' \cap DOMAIN pipewire'
        PROVE  PhaseOf(d)'
    <3>1. d \in DOMAIN apDevices \cap DOMAIN pipewire /\ pwRequests[1].device # d
      BY <1>1, <1>2, <1>3, <2>1
    <3>2. Asked(pwRequests', d, apDevices[d].seq) <=> Asked(pwRequests, d, apDevices[d].seq)
      BY <1>1, <3>1, AskedTail
    <3>3. Carried(pwEvents, pwEvents', 0, d, apDevices[d].seq) BY <1>1, <2>1, SameCarried
    <3> QED BY <1>1, <2>1, <3>1, <3>2, <3>3, PhaseStays
  <2> QED BY <2>2, EnumeratingPhases
<1>4. CASE g \in DOMAIN pipewire /\ r.kind = "set"
  <2>1. Changed(g, r.version) /\ pwEvents' = Append(pwEvents, [kind |-> "info", device |-> g])
    BY <1>4 DEF Serve
  <2>2. \A d, s : Asked(pwRequests', d, s) <=> Asked(pwRequests, d, s)
    BY <1>1, <1>2, <1>4, AskedTail
  <2> HIDE DEF r
  <2> QED BY <1>1, <1>4, <2>1, <2>2, ChangedPhases
<1>5. CASE g \in DOMAIN pipewire /\ r.kind = "enum"
  <2>1. pwEvents' = pwEvents \o Answered(r) /\ UNCHANGED pipewire BY <1>5 DEF Serve
  <2>2. g \in Nat /\ r.seq \in Nat /\ pipewire[g].version \in Nat
    BY <1>2, <1>5, RequestFacts DEF CardsTyped
  <2>3. AnswersAll(Answered(r), g, r.seq, pipewire[g].version) BY <2>2, AnsweredFacts
  <2> DEFINE t == Answered(r)
  <2>4. r = EnumRequest(g, r.seq) BY <1>2, <1>5 DEF CardRequests, EnumRequest
  <2> HIDE DEF t, r
  <2>5. t \in Seq(CardEvents) /\ DOMAIN t = 1 .. Offered + 1
        /\ \A m \in 1 .. Offered + 1 : t[m] = NthAnswer(g, r.seq, pipewire[g].version, m)
    BY <2>3, EventKinds DEF AnswersAll, t
  <2>6. ASSUME NEW d \in DOMAIN apDevices' \cap DOMAIN pipewire'
        PROVE  PhaseOf(d)'
    <3>1. d \in DOMAIN apDevices \cap DOMAIN pipewire BY <1>1, <2>1
    <3>2. CASE d = g /\ apDevices[d].seq = r.seq
      <4>1. pwRequests[1] = EnumRequest(d, apDevices[d].seq)
            /\ AnswersAll(t, d, apDevices[d].seq, pipewire[d].version)
        BY <1>2, <2>3, <2>4, <3>2 DEF t
      <4> QED BY <1>1, <2>1, <3>1, <4>1, ServedPhase DEF t
    <3>3. CASE ~(d = g /\ apDevices[d].seq = r.seq)
      <4>1. \A m \in DOMAIN t : ~Concerns(t[m], d, apDevices[d].seq)
        BY <2>5, <3>3 DEF Concerns, Turns, Replies, NthAnswer
      <4>2. Carried(pwEvents, pwEvents', 0, d, apDevices[d].seq)
        BY <1>1, <2>1, <2>5, <4>1, ConcatCarried DEF t
      <4>3. Asked(pwRequests', d, apDevices[d].seq) <=> Asked(pwRequests, d, apDevices[d].seq)
        BY <1>1, <1>2, <3>3, AskedTail
      <4> QED BY <1>1, <2>1, <3>1, <4>2, <4>3, PhaseStays
    <3> QED BY <3>2, <3>3
  <2> QED BY <2>6, EnumeratingPhases
<1>6. r.kind \in {"enum", "set"} BY <1>2, RequestFacts
<1> QED BY <1>3, <1>4, <1>5, <1>6

LEMMA TookFacts ==
  ASSUME NEW v, NEW j \in Nat
  PROVE  LET t == TookFirst(v, j)
             u == TookFirst(v, j + 1)
         IN /\ u = IF Len(t) < MaxProfiles THEN Append(t, <<v, j + 1>>) ELSE t
            /\ u # <<>>
<1> DEFINE t == TookFirst(v, j)
           u == TookFirst(v, j + 1)
           a == IF j < MaxProfiles THEN j ELSE MaxProfiles
           b == IF j + 1 < MaxProfiles THEN j + 1 ELSE MaxProfiles
           x(i) == <<v, i>>
           S == {x(i) : i \in Nat}
<1>1. a \in Nat /\ b \in Nat /\ b >= 1 BY ProfilesBounds
<1>2. t = [i \in 1 .. a |-> x(i)] /\ u = [i \in 1 .. b |-> x(i)] BY DEF TookFirst
<1> HIDE DEF x, t, u
<1>3. t \in Seq(S) /\ u \in Seq(S) /\ Len(t) = a /\ Len(u) = b
  <2> HIDE DEF a, b
  <2>1. \A i \in 1 .. a : x(i) \in S BY <1>1
  <2>2. \A i \in 1 .. b : x(i) \in S BY <1>1
  <2> HIDE DEF S
  <2>3. t \in [1 .. a -> S] /\ u \in [1 .. b -> S] BY <1>2, <2>1, <2>2
  <2>4. t \in Seq(S) /\ u \in Seq(S) BY <1>1, <2>3
  <2> QED BY <1>1, <2>3, <2>4, LenProperties
<1>4. u # <<>>
  <2>1. Len(u) # 0 BY <1>1, <1>3
  <2> QED BY <2>1
<1>5. CASE j < MaxProfiles
  <2>1. a = j /\ b = j + 1 BY <1>5, ProfilesBounds
  <2>2. x(j + 1) \in S OBVIOUS
  <2> DEFINE w == Append(t, x(j + 1))
  <2> HIDE DEF S, a, b
  <2>3. /\ w \in Seq(S) /\ Len(w) = Len(t) + 1
        /\ \A i \in 1 .. Len(t) : w[i] = t[i]
        /\ w[Len(t) + 1] = x(j + 1)
    BY <1>3, <2>2, AppendProperties
  <2> HIDE DEF w
  <2>4. \A i \in 1 .. j + 1 : i \in 1 .. j \/ i = j + 1 OBVIOUS
  <2>5. \A i \in 1 .. j + 1 : w[i] = u[i] BY <1>2, <1>3, <2>1, <2>3, <2>4
  <2>6. w = u BY <1>3, <2>1, <2>3, <2>5, SeqEqual
  <2> QED BY <1>3, <1>4, <1>5, <2>1, <2>6 DEF w, t, u, x
<1>6. CASE ~(j < MaxProfiles)
  <2>1. a = MaxProfiles /\ b = MaxProfiles /\ ~(a < MaxProfiles) BY <1>6, ProfilesBounds
  <2> HIDE DEF a, b
  <2>2. t = u BY <1>2, <2>1
  <2> QED BY <1>3, <1>4, <2>1, <2>2 DEF t, u
<1> QED BY <1>5, <1>6

\* The device takes one more answer.
LEMMA AcceptedHolds ==
  ASSUME NEW n \in CardNodes, NEW m, NEW v \in Nat, NEW w, NEW j \in 0 .. Offered, Holds(n, v, j, w),
         NEW e, e = NthAnswer(e.device, n.seq, v, j + 1),
         e.active => m = [n EXCEPT !.active = e.profile, !.stale = TRUE],
         ~e.active => m = IF Len(n.staging) < MaxProfiles
                          THEN [n EXCEPT !.staging = Append(@, e.profile), !.stale = TRUE]
                          ELSE n
  PROVE  Holds(m, v, j + 1, w)
<1>1. j \in Nat /\ Offered \in Nat BY ProfilesBounds
<1>2. CASE j = Offered
  <2>1. j + 1 > Offered /\ ~(j + 1 <= Offered) /\ ~(j < Offered) /\ ~(j + 1 < Offered)
    BY <1>1, <1>2
  <2>2. e.active /\ e.profile = v
    <3>1. \A d : NthAnswer(d, n.seq, v, j + 1).active /\ NthAnswer(d, n.seq, v, j + 1).profile = v
      BY <2>1 DEF NthAnswer
    <3> QED BY <3>1
  <2>3. m.active = v /\ m.staging = n.staging /\ m.profiles = n.profiles
    BY <2>2 DEF CardNodes
  <2> QED BY <2>1, <2>3 DEF Holds
<1>3. CASE j # Offered
  <2>1. ~(j + 1 > Offered) /\ j + 1 <= Offered /\ j < Offered /\ j + 1 # Offered + 1
        /\ (~(j + 1 < Offered) => j + 1 = Offered)
    BY <1>1, <1>3
  <2>2. ~e.active /\ e.profile = <<v, j + 1>>
    <3>1. \A d : /\ ~NthAnswer(d, n.seq, v, j + 1).active
                  /\ NthAnswer(d, n.seq, v, j + 1).profile = <<v, j + 1>>
      BY <2>1 DEF NthAnswer
    <3> QED BY <3>1
  <2>3. m.staging = IF Len(n.staging) < MaxProfiles THEN Append(n.staging, <<v, j + 1>>)
                                                    ELSE n.staging
    BY <2>2 DEF CardNodes
  <2>4. w => n.staging = TookFirst(v, j) BY <2>1 DEF Holds
  <2> DEFINE t == TookFirst(v, j)
             u == TookFirst(v, j + 1)
  <2>5. u = (IF Len(t) < MaxProfiles THEN Append(t, <<v, j + 1>>) ELSE t) /\ u # <<>>
    BY <1>1, TookFacts
  <2> HIDE DEF t, u
  <2>6. w => m.staging = u /\ m.staging # <<>> BY <2>3, <2>4, <2>5 DEF t
  <2> QED BY <2>1, <2>6 DEF Holds, u
<1> QED BY <1>2, <1>3

\* An answer to the enumeration that the device holds the number of.
LEMMA AcceptedPhase ==
  ASSUME CardsTyped, Enumerating, DeviceEventParam,
         NEW g \in DOMAIN apDevices \cap DOMAIN pipewire, Replies(pwEvents[1], g, apDevices[g].seq)
  PROVE  PhaseOf(g)'
<1> DEFINE n == apDevices[g]
           v == pipewire[g].version
           q == pwEvents
           r == pwEvents'
           e == Head(pwEvents)
<1>1. /\ PwEvent("param") /\ UNCHANGED <<pipewire, pwRequests, split>>
  BY DEF DeviceEventParam, pwGraph
<1>2. /\ q # <<>> /\ r = Tail(q) /\ q \in Seq(CardEvents) /\ e = q[1] /\ 1 \in DOMAIN q
      /\ e.kind = "param" /\ e.device = g /\ e.seq = n.seq
      /\ n \in CardNodes /\ v \in Nat
  BY <1>1, HeadFacts DEF CardsTyped, Replies
<1>3. /\ \A k \in DOMAIN r : k + 1 \in DOMAIN q /\ r[k] = q[k + 1] /\ k \in Nat \ {0}
      /\ \A k \in DOMAIN q : k = 1 \/ (k - 1 \in DOMAIN r /\ r[k - 1] = q[k])
      /\ \A k \in DOMAIN q : k \in Nat \ {0}
  BY <1>2, Popped
<1>4. /\ e.active => apDevices'[g] = [n EXCEPT !.active = e.profile, !.stale = TRUE]
      /\ ~e.active => apDevices'[g] = IF Len(n.staging) < MaxProfiles
                                      THEN [n EXCEPT !.staging = Append(@, e.profile), !.stale = TRUE]
                                      ELSE n
  BY <1>2, ParamFacts
<1>5. apDevices'[g].seq = n.seq BY <1>2, <1>4 DEF CardNodes
<1>6. Phase(q, pwRequests, n, v, g \notin split, g) BY DEF Enumerating
<1>7. CASE Turned(q, g)
  <2>1. PICK k \in DOMAIN q : Turns(q[k], g) BY <1>7 DEF Turned
  <2>2. k - 1 \in DOMAIN r /\ r[k - 1] = q[k] BY <1>2, <1>3, <2>1 DEF Turns
  <2>3. Turned(r, g) BY <2>1, <2>2 DEF Turned
  <2> QED BY <2>3 DEF Phase, PhaseOf
<1>8. CASE ~Asked(pwRequests, g, n.seq)
           /\ \E j \in 0 .. Offered + 1, p \in Nat :
                Coming(q, g, n.seq, v, j, p) /\ Holds(n, v, j, g \notin split)
  <2>1. PICK j \in 0 .. Offered + 1, p \in Nat :
               Coming(q, g, n.seq, v, j, p) /\ Holds(n, v, j, g \notin split)
    BY <1>8
  <2>2. 1 - p \in 1 .. Offered + 1 - j BY <1>2, <2>1 DEF Coming, Replies
  <2>3. p = 0 /\ j \in 0 .. Offered /\ j \in Nat /\ 1 \in 1 .. Offered + 1 - j
        /\ j + 1 \in 0 .. Offered + 1
    BY <2>2, ProfilesBounds
  <2>4. p + 1 = 1 /\ q[p + 1] = NthAnswer(g, n.seq, v, j + 1) BY <2>1, <2>3 DEF Coming
  <2>5. e = NthAnswer(e.device, n.seq, v, j + 1) BY <1>2, <2>4
  <2> HIDE DEF n, v, e, q, r
  <2>6. Holds(apDevices'[g], v, j + 1, g \notin split)
    BY <1>2, <1>4, <2>1, <2>3, <2>5, AcceptedHolds
  <2>7. Coming(r, g, n.seq, v, j + 1, 0)
    <3>1. \A m \in 1 .. Offered + 1 - (j + 1) :
            /\ m + 1 \in 1 .. Offered + 1 - j /\ p + (m + 1) = m + 1 /\ j + (m + 1) = j + 1 + m
            /\ 0 + m = m /\ m + 1 # 1 /\ (m + 1) - 1 = m
      BY <2>3, ProfilesBounds
    <3>2. \A m \in 1 .. Offered + 1 - (j + 1) :
            0 + m \in DOMAIN r /\ r[0 + m] = NthAnswer(g, n.seq, v, j + 1 + m)
      <4> SUFFICES ASSUME NEW m \in 1 .. Offered + 1 - (j + 1)
                   PROVE  m \in DOMAIN r /\ r[m] = NthAnswer(g, n.seq, v, j + 1 + m)
        BY <3>1
      <4>1. q[m + 1] = NthAnswer(g, n.seq, v, j + 1 + m) /\ m + 1 \in DOMAIN q
        <5>1. p + (m + 1) \in DOMAIN q /\ q[p + (m + 1)] = NthAnswer(g, n.seq, v, j + (m + 1))
          BY <2>1, <3>1 DEF Coming
        <5> QED BY <3>1, <5>1
      <4>2. (m + 1) - 1 \in DOMAIN r /\ r[(m + 1) - 1] = q[m + 1] BY <1>3, <3>1, <4>1
      <4> QED BY <3>1, <4>1, <4>2
    <3>3. \A k \in DOMAIN r : Replies(r[k], g, n.seq) => k - 0 \in 1 .. Offered + 1 - (j + 1)
      <4> SUFFICES ASSUME NEW k \in DOMAIN r, Replies(r[k], g, n.seq)
                   PROVE  k - 0 \in 1 .. Offered + 1 - (j + 1)
        OBVIOUS
      <4>1. k + 1 \in DOMAIN q /\ Replies(q[k + 1], g, n.seq) /\ k \in Nat \ {0} BY <1>3
      <4>2. k + 1 - p \in 1 .. Offered + 1 - j BY <2>1, <4>1 DEF Coming
      <4> QED BY <2>3, <4>1, <4>2, ProfilesBounds
    <3> QED BY <3>2, <3>3 DEF Coming
  <2>8. Phase(r, pwRequests', apDevices'[g], v, g \notin split, g)
    <3>1. ~Asked(pwRequests', g, n.seq) BY <1>1, <1>8
    <3>2. 0 \in Nat OBVIOUS
    <3> QED BY <1>5, <2>3, <2>6, <2>7, <3>1, <3>2 DEF Phase
  <2>9. (g \notin split') = (g \notin split) /\ pipewire' = pipewire BY <1>1
  <2> QED BY <2>8, <2>9 DEF PhaseOf, v, r
<1>9. ~Silent(q, g, n.seq) BY <1>2 DEF Silent
<1> QED BY <1>6, <1>7, <1>8, <1>9 DEF Phase

LEMMA ParamPhases ==
  ASSUME CardsTyped, CardsTyped', Enumerating, DeviceEventParam
  PROVE  Enumerating'
<1> DEFINE e == Head(pwEvents)
<1>1. PwEvent("param") /\ UNCHANGED <<pipewire, pwRequests, split>>
  BY DEF DeviceEventParam, pwGraph
<1>2. /\ pwEvents # <<>> /\ pwEvents' = Tail(pwEvents) /\ pwEvents \in Seq(CardEvents)
      /\ e = pwEvents[1] /\ e.kind = "param"
      /\ DOMAIN apDevices' = DOMAIN apDevices
      /\ \A d \in DOMAIN apDevices : d # e.device => apDevices'[d] = apDevices[d]
      /\ \A d \in DOMAIN apDevices : d = e.device /\ e.seq # apDevices[d].seq =>
                                       apDevices'[d] = apDevices[d]
  BY <1>1, HeadFacts, ParamFacts DEF CardsTyped
<1> HIDE DEF e
<1>3. ASSUME NEW d \in DOMAIN apDevices' \cap DOMAIN pipewire'
      PROVE  PhaseOf(d)'
  <2>1. d \in DOMAIN apDevices \cap DOMAIN pipewire BY <1>1, <1>2
  <2>2. CASE Replies(e, d, apDevices[d].seq) BY <1>2, <2>1, <2>2, AcceptedPhase
  <2>3. CASE ~Replies(e, d, apDevices[d].seq)
    <3>1. apDevices'[d] = apDevices[d] BY <1>2, <2>1, <2>3 DEF Replies
    <3>2. ~Concerns(pwEvents[1], d, apDevices[d].seq) BY <1>2, <2>3 DEF Concerns, Turns
    <3>3. Carried(pwEvents, pwEvents', 1, d, apDevices[d].seq) BY <1>2, <3>2, TailCarried
    <3> QED BY <1>1, <2>1, <3>1, <3>3, PhaseStays
  <2> QED BY <2>2, <2>3
<1> QED BY <1>3, EnumeratingPhases

-----------------------------------------------------------------------------
(* AudioProfiles: every step keeps the invariant.                          *)

LEMMA CardsTogether ==
  ASSUME CardsTyped', Lifecycle', Published', EnumsNumbered', Enumerating'
  PROVE  CardsInv'
BY DEF CardsInv

LEMMA LifecycleParts == Lifecycle => Tracked /\ InOrder BY DEF Lifecycle

\* No event that says that a device came or went is taken or added.
LEMMA TakenKept ==
  ASSUME CardsTyped, pwEvents # <<>>, pwEvents' = Tail(pwEvents), pwEvents[1].kind \notin LifeKinds
  PROVE  Kept(pwEvents, pwEvents', 1, LifeKinds)
BY TailKept, Popped DEF CardsTyped

LEMMA AddedKept ==
  ASSUME CardsTyped, NEW e \in CardEvents, e.kind \notin LifeKinds, pwEvents' = Append(pwEvents, e)
  PROVE  Kept(pwEvents, pwEvents', 0, LifeKinds)
BY AppendKept DEF CardsTyped

LEMMA EventsKept ==
  ASSUME CardsTyped, pwEvents' = pwEvents
  PROVE  Kept(pwEvents, pwEvents', 0, LifeKinds)
BY SameKept DEF CardsTyped

LEMMA AppearsKeeps == ASSUME CardsInv, NEW i \in Ids, Appears(i) PROVE CardsInv'
<1>1. CardsTyped' BY AppearsTyped DEF CardsInv
<1>2. Lifecycle' BY <1>1, AppearsLife DEF CardsInv, CardsTyped
<1>3. Published' BY PublishedStays DEF CardsInv, Appears, watcher
<1>4. EnumsNumbered'
  <2> DEFINE e == [kind |-> "global", device |-> births', id |-> i]
  <2>1. /\ pwEvents' = Append(pwEvents, e) /\ births' = births + 1
        /\ UNCHANGED <<pwRequests, apDevices, seqs>>
    BY DEF Appears, watcher
  <2>2. births' \in Nat BY <2>1 DEF CardsInv, CardsTyped
  <2>3. e \in CardEvents /\ e.kind # "param" BY <2>2, EventKinds
  <2> HIDE DEF e
  <2>4. \A k \in DOMAIN pwEvents' : \/ pwEvents'[k].kind # "param"
                                    \/ \E m \in DOMAIN pwEvents : pwEvents'[k] = pwEvents[m]
    BY <2>1, <2>3, EventAdded DEF CardsInv
  <2> QED BY <2>1, <2>4, NumbersStay DEF CardsInv
<1>5. Enumerating' BY <1>1, AppearsPhases DEF CardsInv
<1> QED BY <1>1, <1>2, <1>3, <1>4, <1>5, CardsTogether

LEMMA DisappearsKeeps == ASSUME CardsInv, NEW d \in DOMAIN pipewire, Disappears(d) PROVE CardsInv'
<1>1. CardsTyped' BY DisappearsTyped DEF CardsInv
<1>2. Lifecycle' BY <1>1, DisappearsLife DEF CardsInv, CardsTyped
<1>3. Published' BY PublishedStays DEF CardsInv, Disappears, watcher
<1>4. EnumsNumbered'
  <2> DEFINE e == [kind |-> "remove", device |-> d, id |-> pipewire[d].id]
  <2>1. /\ pwEvents' = Append(pwEvents, e) /\ UNCHANGED <<pwRequests, apDevices, seqs>>
    BY DEF Disappears, watcher
  <2>2. d \in Nat /\ pipewire[d].id \in Ids BY DEF CardsInv, CardsTyped
  <2>3. e \in CardEvents /\ e.kind # "param" BY <2>2, EventKinds
  <2> HIDE DEF e
  <2>4. \A k \in DOMAIN pwEvents' : \/ pwEvents'[k].kind # "param"
                                    \/ \E m \in DOMAIN pwEvents : pwEvents'[k] = pwEvents[m]
    BY <2>1, <2>3, EventAdded DEF CardsInv
  <2> QED BY <2>1, <2>4, NumbersStay DEF CardsInv
<1>5. Enumerating' BY <1>1, DisappearsPhases DEF CardsInv
<1> QED BY <1>1, <1>2, <1>3, <1>4, <1>5, CardsTogether

LEMMA ChangesKeeps == ASSUME CardsInv, NEW d \in DOMAIN pipewire, Changes(d) PROVE CardsInv'
<1> DEFINE e == [kind |-> "info", device |-> d]
<1>1. CardsTyped' BY ChangesTyped DEF CardsInv
<1>2. /\ pwEvents' = Append(pwEvents, e) /\ births' = births
      /\ UNCHANGED <<pwRequests, apDevices, removedIds, cards, reused, seqs>>
  BY DEF Changes, watcher
<1>3. e \in CardEvents /\ e.kind = "info" BY EventKinds DEF CardsInv, CardsTyped
<1>4. DOMAIN pipewire' = DOMAIN pipewire
      /\ \A x \in DOMAIN pipewire : pipewire'[x].id = pipewire[x].id
  BY ChangesTyped, ChangedTyped DEF CardsInv, Changes
<1> HIDE DEF e
<1>5. Lifecycle'
  <2>1. e.kind \notin LifeKinds BY <1>3 DEF LifeKinds
  <2>2. Kept(pwEvents, pwEvents', 0, LifeKinds) BY <1>2, <1>3, <2>1, AddedKept DEF CardsInv
  <2>3. LifeSame BY <1>2, <1>4 DEF LifeSame
  <2> QED BY <1>1, <2>2, <2>3, LifeStays DEF CardsInv, CardsTyped
<1>6. Published' BY <1>2, PublishedStays DEF CardsInv
<1>7. EnumsNumbered'
  <2>1. \A k \in DOMAIN pwEvents' : \/ pwEvents'[k].kind # "param"
                                    \/ \E m \in DOMAIN pwEvents : pwEvents'[k] = pwEvents[m]
    BY <1>2, <1>3, EventAdded DEF CardsInv
  <2> QED BY <1>2, <2>1, NumbersStay DEF CardsInv
<1>8. Enumerating' BY <1>1, ChangesPhases DEF CardsInv
<1> QED BY <1>1, <1>5, <1>6, <1>7, <1>8, CardsTogether

LEMMA ServeKeeps == ASSUME CardsInv, Serve PROVE CardsInv'
<1> DEFINE r == Head(pwRequests)
           d == r.device
           e == [kind |-> "info", device |-> d]
<1>1. CardsTyped' BY ServeTyped DEF CardsInv
<1>2. /\ births' = births /\ UNCHANGED <<apDevices, removedIds, cards, reused, seqs>>
      /\ pwRequests # <<>> /\ pwEvents \in Seq(CardEvents) /\ pwRequests \in Seq(CardRequests)
  BY DEF Serve, watcher, CardsInv, CardsTyped
<1>3. r \in CardRequests BY <1>2, Popped
<1>4. d \in Nat /\ r.kind \in {"enum", "set"} BY <1>3, RequestFacts
<1>5. /\ DOMAIN pipewire' = DOMAIN pipewire
      /\ \A x \in DOMAIN pipewire : pipewire'[x].id = pipewire[x].id
      /\ Kept(pwEvents, pwEvents', 0, LifeKinds)
  <2>1. CASE UNCHANGED <<pipewire, pwEvents>> BY <2>1, EventsKept DEF CardsInv
  <2>2. CASE d \in DOMAIN pipewire /\ r.kind = "set" /\ Changed(d, r.version)
             /\ pwEvents' = Append(pwEvents, e)
    <3>1. r.version \in Nat BY <1>3, <2>2, RequestFacts
    <3>2. e \in CardEvents /\ e.kind = "info" BY <1>4, EventKinds
    <3> HIDE DEF r, e
    <3>3. e.kind \notin LifeKinds BY <3>2 DEF LifeKinds
    <3>4. Kept(pwEvents, pwEvents', 0, LifeKinds) BY <2>2, <3>2, <3>3, AddedKept DEF CardsInv
    <3> QED BY <2>2, <3>1, <3>4, ChangedTyped DEF CardsInv
  <2>3. CASE d \in DOMAIN pipewire /\ r.kind = "enum" /\ pwEvents' = pwEvents \o Answered(r)
             /\ UNCHANGED pipewire
    <3>1. r.seq \in Nat /\ pipewire[d].version \in Nat
      BY <1>3, <2>3, RequestFacts DEF CardsInv, CardsTyped
    <3> DEFINE t == Answered(r)
    <3> HIDE DEF r
    <3>2. AnswersAll(t, d, r.seq, pipewire[d].version) BY <1>4, <3>1, AnsweredFacts
    <3> HIDE DEF t
    <3>3. t \in Seq(CardEvents) BY <3>2, EventKinds DEF AnswersAll
    <3>4. \A m \in DOMAIN t : t[m].kind \notin LifeKinds
      BY <3>2 DEF AnswersAll, NthAnswer, LifeKinds
    <3>5. Kept(pwEvents, pwEvents', 0, LifeKinds) BY <1>2, <2>3, <3>3, <3>4, ConcatKept DEF t
    <3> QED BY <2>3, <3>5
  <2> QED BY <1>4, <2>1, <2>2, <2>3 DEF Serve
<1>6. Lifecycle'
  <2>1. LifeSame BY <1>2, <1>5 DEF LifeSame
  <2> QED BY <1>1, <1>5, <2>1, LifeStays DEF CardsInv, CardsTyped
<1>7. Published' BY <1>2, PublishedStays DEF CardsInv
<1>8. EnumsNumbered' BY ServeNumbered DEF CardsInv
<1>9. Enumerating' BY <1>1, ServePhases DEF CardsInv
<1> QED BY <1>1, <1>6, <1>7, <1>8, <1>9, CardsTogether

LEMMA SetProfileKeeps == ASSUME CardsInv, NEW d \in DOMAIN apDevices, SetProfile(d) PROVE CardsInv'
<1>1. CardsTyped' BY SetProfileTyped DEF CardsInv
<1>2. UNCHANGED <<births, pipewire, pwEvents, apDevices, removedIds, cards, reused>>
  BY DEF SetProfile, watcher
<1>3. Lifecycle'
  <2>1. Kept(pwEvents, pwEvents', 0, LifeKinds) BY <1>2, EventsKept DEF CardsInv
  <2>2. LifeSame BY <1>2 DEF LifeSame
  <2> QED BY <1>1, <2>1, <2>2, LifeStays DEF CardsInv, CardsTyped
<1>4. Published' BY <1>2, PublishedStays DEF CardsInv
<1>5. EnumsNumbered' BY SetProfileNumbered DEF CardsInv
<1>6. Enumerating' BY <1>1, SetProfilePhases DEF CardsInv
<1> QED BY <1>1, <1>3, <1>4, <1>5, <1>6, CardsTogether

LEMMA GlobalKeeps == ASSUME CardsInv, RegistryEventGlobal PROVE CardsInv'
<1> DEFINE e == Head(pwEvents)
           n == [id |-> e.id, staging |-> <<>>, seq |-> 0, profiles |-> <<>>, active |-> None,
                 stale |-> TRUE]
<1>1. InOrder BY LifecycleParts DEF CardsInv
<1>2. CardsTyped' BY <1>1, GlobalTyped DEF CardsInv
<1>3. Lifecycle' BY GlobalLife DEF CardsInv
<1>4. Published' BY <1>1, GlobalPublished DEF CardsInv
<1>5. EnumsNumbered'
  <2>1. PwEvent("global") /\ Requested(e.device, n) BY DEF RegistryEventGlobal
  <2>2. /\ pwEvents # <<>> /\ pwEvents' = Tail(pwEvents) /\ e \in CardEvents
        /\ e = pwEvents[1] /\ e.kind = "global" /\ 1 \in DOMAIN pwEvents
    BY <2>1, HeadFacts DEF CardsInv
  <2>3. e.device \in 1 .. births /\ e.id \in Ids BY <1>1, <2>2, EventFacts DEF InOrder
  <2>4. n \in CardNodes BY <2>3, NewNode
  <2> HIDE DEF e, n
  <2> QED BY <2>1, <2>2, <2>3, <2>4, RequestedNumbered DEF CardsInv
<1>6. Enumerating' BY <1>1, <1>2, GlobalPhases DEF CardsInv
<1> QED BY <1>2, <1>3, <1>4, <1>5, <1>6, CardsTogether

LEMMA RemoveKeeps == ASSUME CardsInv, RegistryEventGlobalRemove PROVE CardsInv'
<1> DEFINE e == Head(pwEvents)
<1>1. CardsTyped' BY RemoveTyped DEF CardsInv
<1>2. Lifecycle' BY RemoveLife DEF CardsInv
<1>3. Published' BY RemovePublished DEF CardsInv
<1>4. EnumsNumbered'
  <2>1. /\ PwEvent("remove") /\ UNCHANGED <<pwRequests, seqs>>
        /\ apDevices' = [d \in DOMAIN apDevices \ {e.device} |-> apDevices[d]]
    BY DEF RegistryEventGlobalRemove
  <2>2. pwEvents # <<>> /\ pwEvents' = Tail(pwEvents) BY <2>1, HeadFacts DEF CardsInv
  <2> HIDE DEF e
  <2>3. \A k \in DOMAIN pwEvents' : \E m \in DOMAIN pwEvents : pwEvents'[k] = pwEvents[m]
    BY <2>2, EventsTaken DEF CardsInv
  <2> QED BY <2>1, <2>3, NumbersStay DEF CardsInv
<1>5. Enumerating' BY <1>1, RemovePhases DEF CardsInv
<1> QED BY <1>1, <1>2, <1>3, <1>4, <1>5, CardsTogether

LEMMA InfoKeeps == ASSUME CardsInv, DeviceEventInfo PROVE CardsInv'
<1> DEFINE d == Head(pwEvents).device
<1>1. /\ PwEvent("info") /\ UNCHANGED <<pipewire, births>>
      /\ IF d \in DOMAIN apDevices THEN Requested(d, apDevices[d])
         ELSE UNCHANGED <<apDevices, pwRequests, seqs, split>>
  BY DEF DeviceEventInfo, pwGraph
<1>2. pwEvents # <<>> /\ pwEvents' = Tail(pwEvents) /\ pwEvents[1].kind = "info"
  BY <1>1, HeadFacts DEF CardsInv
<1> HIDE DEF d
<1>3. d \in DOMAIN apDevices => d \in 1 .. births /\ apDevices[d] \in CardNodes
  BY DEF CardsInv, CardsTyped
<1>4. CardsTyped' BY InfoTyped DEF CardsInv
<1>5. Lifecycle'
  <2>1. pwEvents[1].kind \notin LifeKinds BY <1>2 DEF LifeKinds
  <2>2. Kept(pwEvents, pwEvents', 1, LifeKinds) BY <1>2, <2>1, TakenKept DEF CardsInv
  <2>3. /\ DOMAIN apDevices' = DOMAIN apDevices
        /\ \A x \in DOMAIN apDevices : apDevices'[x].id = apDevices[x].id
    <3>1. CASE d \notin DOMAIN apDevices BY <1>1, <3>1
    <3>2. CASE d \in DOMAIN apDevices
      <4>1. /\ DOMAIN apDevices' = DOMAIN apDevices \cup {d}
            /\ apDevices'[d] = [apDevices[d] EXCEPT !.staging = <<>>, !.seq = seqs']
            /\ \A x \in DOMAIN apDevices : x # d => apDevices'[x] = apDevices[x]
        BY <1>1, <1>3, <3>2, RequestedFacts DEF CardsInv
      <4>2. apDevices'[d].id = apDevices[d].id BY <1>3, <3>2, <4>1 DEF CardNodes
      <4> QED BY <3>2, <4>1, <4>2
    <3> QED BY <3>1, <3>2
  <2>4. LifeSame BY <1>1, <2>3 DEF LifeSame
  <2> QED BY <1>4, <2>2, <2>4, LifeStays DEF CardsInv, CardsTyped
<1>6. Published' BY InfoPublished DEF CardsInv
<1>7. EnumsNumbered'
  <2>1. CASE d \in DOMAIN apDevices BY <1>1, <1>2, <1>3, <2>1, RequestedNumbered DEF CardsInv
  <2>2. CASE d \notin DOMAIN apDevices
    <3>1. \A k \in DOMAIN pwEvents' : \E m \in DOMAIN pwEvents : pwEvents'[k] = pwEvents[m]
      BY <1>2, EventsTaken DEF CardsInv
    <3> QED BY <1>1, <2>2, <3>1, NumbersStay DEF CardsInv
  <2> QED BY <2>1, <2>2
<1>8. Enumerating' BY <1>4, InfoPhases DEF CardsInv
<1> QED BY <1>4, <1>5, <1>6, <1>7, <1>8, CardsTogether

LEMMA ParamKeeps == ASSUME CardsInv, DeviceEventParam PROVE CardsInv'
<1> DEFINE e == Head(pwEvents)
           d == e.device
<1>1. PwEvent("param") /\ UNCHANGED <<pipewire, births, pwRequests, seqs>>
  BY DEF DeviceEventParam, pwGraph
<1>2. pwEvents # <<>> /\ pwEvents' = Tail(pwEvents) /\ pwEvents[1].kind = "param"
  BY <1>1, HeadFacts DEF CardsInv
<1>3. CardsTyped' BY ParamTyped DEF CardsInv
<1>4. DOMAIN apDevices' = DOMAIN apDevices
      /\ \A x \in DOMAIN apDevices : /\ apDevices'[x].id = apDevices[x].id
                                     /\ apDevices'[x].seq = apDevices[x].seq
  <2>1. /\ DOMAIN apDevices' = DOMAIN apDevices
        /\ \A x \in DOMAIN apDevices : x # d => apDevices'[x] = apDevices[x]
        /\ d \in DOMAIN apDevices =>
             \/ apDevices'[d] = apDevices[d]
             \/ apDevices'[d] = [apDevices[d] EXCEPT !.active = e.profile, !.stale = TRUE]
             \/ apDevices'[d] = [apDevices[d] EXCEPT !.staging = Append(@, e.profile),
                                                     !.stale = TRUE]
    BY ParamFacts DEF CardsInv
  <2> HIDE DEF e, d
  <2>2. \A x \in DOMAIN apDevices : apDevices[x] \in CardNodes BY DEF CardsInv, CardsTyped
  <2>3. d \in DOMAIN apDevices =>
          apDevices'[d].id = apDevices[d].id /\ apDevices'[d].seq = apDevices[d].seq
    BY <2>1, <2>2 DEF CardNodes
  <2> QED BY <2>1, <2>3
<1>5. Lifecycle'
  <2>1. pwEvents[1].kind \notin LifeKinds BY <1>2 DEF LifeKinds
  <2>2. Kept(pwEvents, pwEvents', 1, LifeKinds) BY <1>2, <2>1, TakenKept DEF CardsInv
  <2>3. LifeSame BY <1>1, <1>4 DEF LifeSame
  <2> QED BY <1>3, <2>2, <2>3, LifeStays DEF CardsInv, CardsTyped
<1>6. Published' BY ParamPublished DEF CardsInv
<1>7. EnumsNumbered'
  <2>1. \A k \in DOMAIN pwEvents' : \E m \in DOMAIN pwEvents : pwEvents'[k] = pwEvents[m]
    BY <1>2, EventsTaken DEF CardsInv
  <2> QED BY <1>1, <1>4, <2>1, NumbersStay DEF CardsInv
<1>8. Enumerating' BY <1>3, ParamPhases DEF CardsInv
<1> QED BY <1>3, <1>5, <1>6, <1>7, <1>8, CardsTogether

LEMMA PollKeeps == ASSUME CardsInv, Poll PROVE CardsInv'
<1>1. Tracked BY LifecycleParts DEF CardsInv
<1>2. UNCHANGED <<pipewire, births, pwRequests, pwEvents, seqs>> BY DEF Poll, pwGraph
<1>3. CardsTyped' BY <1>1, PollTyped DEF CardsInv
<1>4. DOMAIN apDevices' = DOMAIN apDevices
      /\ \A x \in DOMAIN apDevices : /\ apDevices'[x].id = apDevices[x].id
                                     /\ apDevices'[x].seq = apDevices[x].seq
  <2>1. \A x \in DOMAIN apDevices : apDevices[x] \in CardNodes BY DEF CardsInv, CardsTyped
  <2>2. DOMAIN apDevices' = DOMAIN apDevices
        /\ \A x \in DOMAIN apDevices : apDevices'[x] = Taken(apDevices[x])
    BY <1>1, PollFacts DEF CardsInv
  <2> QED BY <2>1, <2>2, TakenFacts
<1>5. Lifecycle'
  <2>1. Kept(pwEvents, pwEvents', 0, LifeKinds) BY <1>2, EventsKept DEF CardsInv
  <2>2. LifeSame BY <1>2, <1>4 DEF LifeSame
  <2> QED BY <1>3, <2>1, <2>2, LifeStays DEF CardsInv, CardsTyped
<1>6. Published' BY <1>1, PollPublished DEF CardsInv
<1>7. EnumsNumbered' BY <1>2, <1>4 DEF CardsInv, EnumsNumbered
<1>8. Enumerating' BY <1>1, <1>3, PollPhases DEF CardsInv
<1> QED BY <1>3, <1>5, <1>6, <1>7, <1>8, CardsTogether

LEMMA CardsStart == ProfilesInit => CardsInv
<1> SUFFICES ASSUME ProfilesInit PROVE CardsInv OBVIOUS
<1>1. /\ DOMAIN pipewire = {} /\ births = 0 /\ changes = 0 /\ seqs = 0
      /\ pwRequests = <<>> /\ pwEvents = <<>> /\ DOMAIN pwRequests = {} /\ DOMAIN pwEvents = {}
      /\ DOMAIN apDevices = {} /\ removedIds = {} /\ DOMAIN cards = {}
      /\ split = {} /\ reused = {} /\ pipewire = <<>> /\ apDevices = <<>>
  BY DEF ProfilesInit
<1>2. pwRequests \in Seq(CardRequests) /\ pwEvents \in Seq(CardEvents) BY <1>1
<1>3. /\ pipewire \in [DOMAIN pipewire -> [id : Ids, version : Nat]]
      /\ apDevices \in [DOMAIN apDevices -> CardNodes]
  BY <1>1
<1>4. CardsTyped BY <1>1, <1>2, <1>3 DEF CardsTyped
<1>5. Lifecycle BY <1>1 DEF Lifecycle, Tracked, InOrder, Renewed
<1>6. Published BY <1>1 DEF Published
<1>7. EnumsNumbered BY <1>1 DEF EnumsNumbered
<1>8. Enumerating BY <1>1 DEF Enumerating
<1> QED BY <1>4, <1>5, <1>6, <1>7, <1>8 DEF CardsInv

LEMMA CardsStep == CardsInv /\ ProfilesNext => CardsInv'
BY AppearsKeeps, DisappearsKeeps, ChangesKeeps, ServeKeeps, SetProfileKeeps, GlobalKeeps,
   RemoveKeeps, InfoKeeps, ParamKeeps, PollKeeps DEF ProfilesNext, ProfilesLoop

LEMMA CardsRun == [Next]_vars => [ProfilesNext]_profiles
BY DEF Next, vars, audio

LEMMA CardsStill == ASSUME CardsInv, UNCHANGED profiles PROVE CardsInv'
<1>1. UNCHANGED <<pipewire, births, changes, pwRequests, pwEvents, apDevices, removedIds, seqs,
                  cards, split, reused>>
  BY DEF profiles, pwGraph, watcher
<1>2. CardsTyped' BY <1>1 DEF CardsInv, CardsTyped
<1>3. Lifecycle'
  <2>1. Kept(pwEvents, pwEvents', 0, LifeKinds) BY <1>1, EventsKept DEF CardsInv
  <2>2. LifeSame BY <1>1 DEF LifeSame
  <2> QED BY <1>2, <2>1, <2>2, LifeStays DEF CardsInv, CardsTyped
<1>4. Published' BY <1>1, PublishedStays DEF CardsInv
<1>5. EnumsNumbered' BY <1>1 DEF CardsInv, EnumsNumbered
<1>6. Enumerating' BY <1>1 DEF CardsInv, Enumerating
<1> QED BY <1>2, <1>3, <1>4, <1>5, <1>6, CardsTogether

\* The inductive invariant of the watcher of sound cards.
THEOREM CardsInvCorrect == Spec => []CardsInv
<1>1. Init => CardsInv BY CardsStart DEF Init
<1>2. CardsInv /\ [Next]_vars => CardsInv' BY CardsStep, CardsRun, CardsStill
<1> QED BY <1>1, <1>2, PTL DEF Spec

\* Nothing is on the way: a device has taken all answers to its enumeration.
LEMMA AllTaken ==
  ASSUME CardsInv, pwRequests = <<>>, pwEvents = <<>>,
         NEW d \in DOMAIN apDevices \cap DOMAIN pipewire, apDevices[d].staging = <<>>
  PROVE  /\ apDevices[d].active = pipewire[d].version
         /\ d \notin split =>
              apDevices[d].profiles = TookFirst(pipewire[d].version, Offered)
<1> DEFINE n == apDevices[d]
           v == pipewire[d].version
<1>1. Phase(pwEvents, pwRequests, n, v, d \notin split, d) BY DEF CardsInv, Enumerating
<1> HIDE DEF n, v
<1>2. ~Turned(pwEvents, d) /\ ~Asked(pwRequests, d, n.seq) BY DEF Turned, Asked
<1>3. PICK j \in 0 .. Offered + 1, p \in Nat :
             Coming(pwEvents, d, n.seq, v, j, p) /\ Holds(n, v, j, d \notin split)
  BY <1>1, <1>2 DEF Phase
<1>4. j = Offered + 1
  <2> SUFFICES ASSUME j # Offered + 1 PROVE FALSE OBVIOUS
  <2>1. 1 \in 1 .. Offered + 1 - j BY ProfilesBounds
  <2> QED BY <1>3, <2>1 DEF Coming
<1>5. ~(j < Offered) BY <1>4, ProfilesBounds
<1> QED BY <1>3, <1>4, <1>5 DEF Holds, n, v

LEMMA AllTook == \A v : TookFirst(v, Offered) = Take(ProfilesOf(v), MaxProfiles)
<1> SUFFICES ASSUME NEW v PROVE TookFirst(v, Offered) = Take(ProfilesOf(v), MaxProfiles)
  OBVIOUS
<1> DEFINE s == ProfilesOf(v)
           x(i) == <<v, i>>
           S == {x(i) : i \in Nat}
           a == IF Offered < MaxProfiles THEN Offered ELSE MaxProfiles
<1>1. s = [i \in 1 .. Offered |-> x(i)] BY DEF ProfilesOf
<1>2. \A i \in 1 .. Offered : x(i) \in S BY ProfilesBounds
<1>3. a \in Nat /\ a <= Offered /\ Offered \in Nat BY ProfilesBounds
<1> HIDE DEF s, x, S
<1>4. s \in [1 .. Offered -> S] BY <1>1, <1>2
<1>5. s \in Seq(S) /\ Len(s) = Offered
  <2>1. s \in Seq(S) BY <1>3, <1>4
  <2> QED BY <1>3, <1>4, <2>1, LenProperties
<1>6. Take(s, MaxProfiles) = SubSeq(s, 1, a) BY <1>5 DEF Take
<1> HIDE DEF a
<1>7. SubSeq(s, 1, a) = [i \in 1 .. a |-> s[i]]
  <2>1. SubSeq(s, 1, a) = [i \in 1 .. (a - 1 + 1) |-> s[i + 1 - 1]] BY <1>3, <1>5
  <2>2. a - 1 + 1 = a /\ \A i \in 1 .. a : i + 1 - 1 = i BY <1>3
  <2> QED BY <2>1, <2>2
<1>8. \A i \in 1 .. a : i \in 1 .. Offered BY <1>3
<1>9. SubSeq(s, 1, a) = [i \in 1 .. a |-> x(i)] BY <1>1, <1>7, <1>8
<1> QED BY <1>6, <1>9 DEF TookFirst, s, a, x

\* The registry handlers, the enumerations and poll show the cards that exist,
\* with their profiles and active profile, for any devices and changes, except
\* under an id given again within one poll interval (reused), and but for the
\* profiles of an enumeration that was published in parts (split).
THEOREM CardsMirrorHolds == Spec => []CardsMirror
<1>1. CardsInv => CardsMirror
  <2> SUFFICES ASSUME CardsInv PROVE CardsMirror OBVIOUS
  <2>1. CardsTyped /\ Tracked /\ Published BY LifecycleParts DEF CardsInv
  <2>2. ProfilesTypeOK BY <2>1 DEF CardsTyped, ProfilesTypeOK
  <2>3. ASSUME ProfilesSettled
        PROVE  /\ DOMAIN cards \subseteq {pipewire[d].id : d \in DOMAIN pipewire}
               /\ \A d \in DOMAIN pipewire :
                    LET i == pipewire[d].id
                        v == pipewire[d].version
                    IN i \notin reused =>
                         /\ i \in DOMAIN cards /\ cards[i].active = v
                         /\ d \notin split => cards[i].profiles = Take(ProfilesOf(v), MaxProfiles)
    <3>1. /\ pwRequests = <<>> /\ pwEvents = <<>> /\ DOMAIN pwEvents = {} /\ removedIds = {}
          /\ \A d \in DOMAIN apDevices : ~apDevices[d].stale
      BY <2>3 DEF ProfilesSettled
    <3>2. DOMAIN apDevices = DOMAIN pipewire
          /\ \A d \in DOMAIN pipewire : apDevices[d].id = pipewire[d].id
      BY <2>1, <3>1 DEF Tracked
    <3>3. DOMAIN cards \subseteq {pipewire[d].id : d \in DOMAIN pipewire}
      BY <2>1, <3>1, <3>2 DEF Published
    <3>4. ASSUME NEW d \in DOMAIN pipewire, pipewire[d].id \notin reused
          PROVE  /\ pipewire[d].id \in DOMAIN cards
                 /\ cards[pipewire[d].id].active = pipewire[d].version
                 /\ d \notin split => cards[pipewire[d].id].profiles
                                        = Take(ProfilesOf(pipewire[d].version), MaxProfiles)
      <4> DEFINE n == apDevices[d]
                 v == pipewire[d].version
      <4>1. AsPublished(d) /\ ~n.stale /\ n.id = pipewire[d].id
        BY <2>1, <3>1, <3>2 DEF Published
      <4>2. /\ n.staging = <<>> /\ n.id \in DOMAIN cards
            /\ cards[n.id] = [profiles |-> n.profiles, active |-> n.active]
        BY <3>4, <4>1 DEF AsPublished
      <4>3. n.active = v /\ (d \notin split => n.profiles = TookFirst(v, Offered))
        BY <3>1, <3>2, <4>2, AllTaken
      <4> HIDE DEF n, v
      <4>4. d \notin split => n.profiles = Take(ProfilesOf(v), MaxProfiles) BY <4>3, AllTook
      <4> QED BY <4>1, <4>2, <4>3, <4>4 DEF v
    <3> QED BY <3>3, <3>4
  <2> QED BY <2>2, <2>3 DEF CardsMirror
<1> QED BY <1>1, CardsInvCorrect, PTL

\* Both watchers of PipeWire at once, with what CardsMirror leaves out.
THEOREM AudioMirrorsHolds == Spec => []AudioMirrors
<1>1. CardsMirror /\ DevicesMirror => AudioMirrors BY DEF AudioMirrors
<1> QED BY <1>1, CardsMirrorHolds, DevicesMirrorHolds, PTL

-----------------------------------------------------------------------------
(* MaterialRoles: the recursion descends.                                  *)

SurfaceGrounds ==
  {"background", "surface", "surfaceDim", "surfaceBright", "containerLowest", "containerLow",
   "container", "containerHigh", "containerHighest", "surfaceVariant", "inverseSurface"}
Coloured  == {"primary", "secondary", "tertiary"}
PlainKinds == {"base", "dim", "on", "container", "onContainer"}

\* The roles, as a set.
RoleSet ==
  ({"surface"} \X (SurfaceGrounds \cup SurfaceTexts \cup {"surfaceTint"}))
  \cup ((Coloured \cup {"error"}) \X PlainKinds)
  \cup {<<"primary", "inverse">>}
  \cup (Coloured \X FixedKinds)

\* How far a role's tone is from the tones that need no other.
Rank(r) ==
  IF r[1] = "surface"
  THEN IF r[2] = "surfaceTint" THEN 2 ELSE IF r[2] \in SurfaceTexts THEN 1 ELSE 0
  ELSE IF r[2] \in {"container", "fixed"} THEN 1
  ELSE IF r[2] \in {"base", "fixedDim"} THEN 2 ELSE 3

Below(r) == {q \in RoleSet : Rank(q) < Rank(r)}

\* Each call that has not returned was made by one of higher rank.
Descends(s) == \A i, j \in DOMAIN s : i < j => Rank(s[j]) < Rank(s[i])

PaletteInv ==
  /\ PaletteTypeOK
  /\ stack \in Seq(RoleSet) /\ Descends(stack)
  /\ part = "palette" => scheme \in Schemes /\ defs = [r \in RoleSet |-> Definition(scheme, r)]
-----------------------------------------------------------------------------
(* MaterialRoles: a scheme, and the tones its definitions write.           *)

\* The fields of a scheme, of any variant that one of the rules knows.
SchemeType ==
  [variant : Variants2025 \cup Variants2021, isDark : BOOLEAN, contrast : Int, hue : Int,
   reach : (0 .. 100) \X (0 .. 100), sourceTone : 0 .. 100, disliked : BOOLEAN]

LEMMA SchemeTyped == Schemes \subseteq SchemeType
<1>0. /\ Contrasts \subseteq Int /\ Reaches \subseteq (0 .. 100) \X (0 .. 100)
      /\ Hues \subseteq Int /\ SourceTones \subseteq 0 .. 100
  BY PaletteAssumption
<1>1. ASSUME NEW v \in Variants2025 \cup Variants2021, NEW H, NEW T, H \subseteq Int, T \subseteq 0 .. 100
      PROVE  Source(v, H, T) \subseteq SchemeType
  <2> SUFFICES ASSUME NEW x \in Source(v, H, T) PROVE x \in SchemeType
    OBVIOUS
  <2> QED BY <1>0, <1>1, Zenon DEF Source, SchemeType
<1>2. \A v \in Variants2025 : Source(v, Hues, {50}) \subseteq SchemeType
  <2> SUFFICES ASSUME NEW v \in Variants2025 PROVE Source(v, Hues, {50}) \subseteq SchemeType
    OBVIOUS
  <2>1. {50} \subseteq 0 .. 100 OBVIOUS
  <2> QED BY ONLY <1>0, <1>1, <2>1
<1>3. ASSUME NEW v \in Variants2021
      PROVE  Source(v, {0}, SourceTones) \subseteq SchemeType /\ Source(v, {0}, {50}) \subseteq SchemeType
  <2>1. {50} \subseteq 0 .. 100 /\ {0} \subseteq Int OBVIOUS
  <2> QED BY ONLY <1>0, <1>1, <2>1
<1> DEFINE New(v) == {s \in Source(v, Hues, {50}) : ~s.disliked}
           Old(v) == {s \in Source(v, {0}, IF IsFidelity([variant |-> v]) THEN SourceTones ELSE {50}) :
                        s.disliked => IsFidelity(s)}
<1>4. \A v \in Variants2025 : New(v) \subseteq SchemeType
  BY <1>2
<1>5. ASSUME NEW v \in Variants2021 PROVE Old(v) \subseteq SchemeType
  <2>1. CASE IsFidelity([variant |-> v]) BY <1>3, <2>1
  <2>2. CASE ~IsFidelity([variant |-> v]) BY <1>3, <2>2
  <2> QED BY <2>1, <2>2
<1>6. Schemes = (UNION {New(v) : v \in Variants2025}) \cup (UNION {Old(v) : v \in Variants2021})
  BY DEF Schemes
<1> HIDE DEF New, Old
<1> QED BY <1>4, <1>5, <1>6

LEMMA SchemeFields ==
  ASSUME NEW s \in SchemeType
  PROVE  /\ s.isDark \in BOOLEAN /\ s.contrast \in Int /\ s.hue \in Int /\ s.disliked \in BOOLEAN
         /\ s.reach[1] \in 0 .. 100 /\ s.reach[2] \in 0 .. 100 /\ s.sourceTone \in 0 .. 100
         /\ s.variant \in Variants2025 \cup Variants2021
         /\ [s EXCEPT !.isDark = FALSE, !.contrast = 0] \in SchemeType
         /\ [s EXCEPT !.isDark = FALSE, !.contrast = 0].variant = s.variant
<1>1. /\ s.isDark \in BOOLEAN /\ s.contrast \in Int /\ s.hue \in Int /\ s.disliked \in BOOLEAN
      /\ s.sourceTone \in 0 .. 100 /\ s.variant \in Variants2025 \cup Variants2021
      /\ s.reach \in (0 .. 100) \X (0 .. 100)
  BY DEF SchemeType
<1>2. s.reach[1] \in 0 .. 100 /\ s.reach[2] \in 0 .. 100
  BY ONLY <1>1
<1>3. [s EXCEPT !.isDark = FALSE, !.contrast = 0] \in SchemeType
  <2>1. [s EXCEPT !.isDark = FALSE] \in SchemeType BY Zenon DEF SchemeType
  <2>2. \A x \in SchemeType : [x EXCEPT !.contrast = 0] \in SchemeType BY DEF SchemeType
  <2>3. [[s EXCEPT !.isDark = FALSE] EXCEPT !.contrast = 0] = [s EXCEPT !.isDark = FALSE, !.contrast = 0]
    BY DEF SchemeType
  <2> QED BY <2>1, <2>2, <2>3
<1>4. [s EXCEPT !.isDark = FALSE, !.contrast = 0].variant = s.variant
  BY DEF SchemeType
<1> QED BY <1>1, <1>2, <1>3, <1>4

LEMMA ClampIn ==
  ASSUME NEW l \in 0 .. 100, NEW h \in 0 .. 100, NEW t \in 0 .. 100
  PROVE  Clamp(l, h, t) \in 0 .. 100
  BY DEF Clamp

LEMMA ReachIn ==
  ASSUME NEW s \in SchemeType, NEW l \in 0 .. 100, NEW h \in 0 .. 100
  PROVE  TMaxC(s, l, h) \in 0 .. 100 /\ TMinC(s, l, h) \in 0 .. 100
  BY SchemeFields, ClampIn, Zenon DEF TMaxC, TMinC

LEMMA ShareBetween ==
  ASSUME NEW x \in 0 .. 100, NEW n \in 0 .. 100, NEW w \in {50, 100}, n <= w
  PROVE  (x * n) \div w \in 0 .. x
<1>1. x * n \in Int /\ 0 <= x * n /\ x * n <= x * w
  OBVIOUS
<1>2. CASE w = 50 BY <1>1, <1>2
<1>3. CASE w = 100 BY <1>1, <1>3
<1> QED BY <1>2, <1>3

\* A tone between two tones, as Lerp() takes it.
Lerp(a, b, n, w) == a + ((b - a) * n) \div w

LEMMA LerpIn ==
  ASSUME NEW a \in 0 .. 100, NEW b \in 0 .. 100, NEW n \in 0 .. 100, NEW w \in {50, 100}, n <= w
  PROVE  Lerp(a, b, n, w) \in 0 .. 100
<1>1. CASE a <= b
  <2>1. b - a \in 0 .. 100 BY <1>1
  <2>2. ((b - a) * n) \div w \in 0 .. b - a BY <2>1, ShareBetween
  <2> HIDE <2>1
  <2> DEFINE q == ((b - a) * n) \div w
  <2> HIDE DEF q
  <2>3. q \in 0 .. b - a BY <2>2 DEF q
  <2>4. a + q \in 0 .. 100 BY <2>3, <1>1
  <2> QED BY <2>4 DEF Lerp, q
<1>2. CASE b < a
  <2> DEFINE x == (a - b) * n
  <2>1. x \in Int /\ 0 <= x /\ x <= (a - b) * w
    BY <1>2
  <2>2. (b - a) * n = -x OBVIOUS
  <2> HIDE DEF x
  <2>3. (-x) \div w \in -(a - b) .. 0
    <3>1. CASE w = 50 BY <2>1, <3>1, <1>2
    <3>2. CASE w = 100 BY <2>1, <3>2, <1>2
    <3> QED BY <3>1, <3>2
  <2> DEFINE q == ((b - a) * n) \div w
  <2>4. q \in -(a - b) .. 0 BY <2>2, <2>3
  <2> HIDE DEF q
  <2>5. a + q \in 0 .. 100 BY <2>4, <1>2
  <2> QED BY <2>5 DEF Lerp, q
<1> QED BY <1>1, <1>2

LEMMA CurveIn ==
  ASSUME NEW a \in 0 .. 100, NEW b \in 0 .. 100, NEW c \in 0 .. 100, NEW d \in 0 .. 100,
         NEW level \in Int
  PROVE  CurveAt(<<a, b, c, d>>, level) \in 0 .. 100
<1> DEFINE curve == <<a, b, c, d>>
<1>0. curve[1] = a /\ curve[2] = b /\ curve[3] = c /\ curve[4] = d OBVIOUS
<1> HIDE DEF curve
<1>1. CurveAt(curve, level) =
        CASE level <= -100 -> curve[1]
          [] level > -100 /\ level < 0 -> Lerp(curve[1], curve[2], level + 100, 100)
          [] level >= 0 /\ level < 50 -> Lerp(curve[2], curve[3], level, 50)
          [] level >= 50 /\ level < 100 -> Lerp(curve[3], curve[4], level - 50, 50)
          [] level >= 100 -> curve[4]
  BY DEF CurveAt, Lerp
<1>2. ASSUME NEW x \in 0 .. 100, NEW y \in 0 .. 100, NEW n \in 0 .. 100
      PROVE  Lerp(x, y, n, 100) \in 0 .. 100 /\ (n <= 50 => Lerp(x, y, n, 50) \in 0 .. 100)
  <2>1. 100 \in {50, 100} /\ 50 \in {50, 100} /\ n <= 100 OBVIOUS
  <2>2. Lerp(x, y, n, 100) \in 0 .. 100 BY <2>1, LerpIn, Zenon
  <2>3. n <= 50 => Lerp(x, y, n, 50) \in 0 .. 100 BY <2>1, LerpIn, Zenon
  <2> QED BY <2>2, <2>3
<1>3. level <= -100 => CurveAt(curve, level) = a
  BY <1>0, <1>1
<1>4. level > -100 /\ level < 0 => CurveAt(curve, level) = Lerp(a, b, level + 100, 100)
  BY <1>0, <1>1
<1>5. level >= 0 /\ level < 50 => CurveAt(curve, level) = Lerp(b, c, level, 50)
  BY <1>0, <1>1
<1>6. level >= 50 /\ level < 100 => CurveAt(curve, level) = Lerp(c, d, level - 50, 50)
  BY <1>0, <1>1
<1>8. level >= 100 => CurveAt(curve, level) = d
  BY <1>0, <1>1
<1>7. CurveAt(curve, level) \in 0 .. 100
  <2>1. CASE level <= -100 BY <1>3, <2>1
  <2>2. CASE level > -100 /\ level < 0
    <3>1. level + 100 \in 0 .. 100 BY <2>2
    <3>2. Lerp(a, b, level + 100, 100) \in 0 .. 100 BY <1>2, <3>1, Zenon
    <3>3. CurveAt(curve, level) = Lerp(a, b, level + 100, 100) BY <1>4, <2>2
    <3> QED BY ONLY <3>2, <3>3
  <2>3. CASE level >= 0 /\ level < 50
    <3>1. level \in 0 .. 100 /\ level <= 50 BY <2>3
    <3>2. Lerp(b, c, level, 50) \in 0 .. 100 BY <1>2, <3>1, Zenon
    <3>3. CurveAt(curve, level) = Lerp(b, c, level, 50) BY <1>5, <2>3
    <3> QED BY ONLY <3>2, <3>3
  <2>4. CASE level >= 50 /\ level < 100
    <3>1. level - 50 \in 0 .. 100 /\ level - 50 <= 50 BY <2>4
    <3>2. Lerp(c, d, level - 50, 50) \in 0 .. 100 BY <1>2, <3>1, Zenon
    <3>3. CurveAt(curve, level) = Lerp(c, d, level - 50, 50) BY <1>6, <2>4
    <3> QED BY ONLY <3>2, <3>3
  <2>5. CASE level >= 100 BY <1>8, <2>5
  <2> QED BY <2>1, <2>2, <2>3, <2>4, <2>5
<1> QED BY <1>7 DEF curve

-----------------------------------------------------------------------------
(* MaterialRoles: what a definition may be.                                *)

LEMMA HighestIs == \A s : \E k \in SurfaceGrounds : HighestSurface(s) = <<"surface", k>>
  BY DEF HighestSurface, Surface, SurfaceGrounds, ByMode

LEMMA SurfaceRank ==
  ASSUME NEW k \in SurfaceGrounds
  PROVE  <<"surface", k>> \in RoleSet /\ Rank(<<"surface", k>>) = 0
  BY DEF SurfaceGrounds, SurfaceTexts, RoleSet, Rank

LEMMA AccentRoles ==
  ASSUME NEW f \in Coloured \cup {"error"}
  PROVE  /\ \A k \in PlainKinds : <<f, k>> \in RoleSet
         /\ f \in Coloured => \A k \in FixedKinds : <<f, k>> \in RoleSet
  BY DEF Coloured, RoleSet

LEMMA RankNat == \A r : Rank(r) \in 0 .. 3
  BY DEF Rank

-----------------------------------------------------------------------------
(* MaterialRoles: the tables, row by row.                                  *)

LEMMA Surface2021Is ==
  ASSUME NEW s \in SchemeType, NEW kind \in SurfaceGrounds \cup {"surfaceTint"}
  PROVE  \E t \in 0 .. 100 : Surface2021(s, kind) = Ground(t)
<1> DEFINE Curve(a, b, c, d) == CurveAt(<<a, b, c, d>>, s.contrast)
           Tone == 0 .. 100
<1>0. s.contrast \in Int BY SchemeFields, Zenon
<1>1. \A a, b, c, d \in Tone : Curve(a, b, c, d) \in Tone BY <1>0, CurveIn, Zenon
<1>2. ASSUME NEW a \in Tone, NEW b \in Tone, Surface2021(s, kind) = Ground(ByMode(s, a, b))
      PROVE  \E t \in 0 .. 100 : Surface2021(s, kind) = Ground(t)
  <2>1. ByMode(s, a, b) \in 0 .. 100 BY Zenon DEF ByMode
  <2> QED BY <1>2, <2>1, Zenon
<1> HIDE DEF Curve, Tone
<1>3. CASE kind = "surfaceDim"
  <2>1. 6 \in Tone /\ 75 \in Tone /\ 80 \in Tone /\ 87 \in Tone BY DEF Tone
  <2>2. Curve(87, 87, 80, 75) \in Tone BY <1>1, <2>1, Zenon
  <2>3. Surface2021(s, kind) = Ground(ByMode(s, 6, Curve(87, 87, 80, 75)))
    BY <1>3, Zenon DEF Surface2021, Curve
  <2> QED BY <1>2, <2>1, <2>2, <2>3, Zenon
<1>4. CASE kind = "surfaceBright"
  <2>1. 24 \in Tone /\ 29 \in Tone /\ 34 \in Tone /\ 98 \in Tone BY DEF Tone
  <2>2. Curve(24, 24, 29, 34) \in Tone BY <1>1, <2>1, Zenon
  <2>3. Surface2021(s, kind) = Ground(ByMode(s, Curve(24, 24, 29, 34), 98))
    BY <1>4, Zenon DEF Surface2021, Curve
  <2> QED BY <1>2, <2>1, <2>2, <2>3, Zenon
<1>5. CASE kind = "containerLowest"
  <2>1. 0 \in Tone /\ 2 \in Tone /\ 4 \in Tone /\ 100 \in Tone BY DEF Tone
  <2>2. Curve(4, 4, 2, 0) \in Tone BY <1>1, <2>1, Zenon
  <2>3. Surface2021(s, kind) = Ground(ByMode(s, Curve(4, 4, 2, 0), 100))
    BY <1>5, Zenon DEF Surface2021, Curve
  <2> QED BY <1>2, <2>1, <2>2, <2>3, Zenon
<1>6. CASE kind = "containerLow"
  <2>1. 10 \in Tone /\ 11 \in Tone /\ 12 \in Tone /\ 95 \in Tone /\ 96 \in Tone BY DEF Tone
  <2>2. Curve(10, 10, 11, 12) \in Tone BY <1>1, <2>1, Zenon
  <2>3. Curve(96, 96, 96, 95) \in Tone BY <1>1, <2>1, Zenon
  <2>4. Surface2021(s, kind) = Ground(ByMode(s, Curve(10, 10, 11, 12), Curve(96, 96, 96, 95)))
    BY <1>6, Zenon DEF Surface2021, Curve
  <2> QED BY <1>2, <2>1, <2>2, <2>3, <2>4, Zenon
<1>7. CASE kind = "container"
  <2>1. 12 \in Tone /\ 16 \in Tone /\ 20 \in Tone /\ 90 \in Tone /\ 92 \in Tone /\ 94 \in Tone BY DEF Tone
  <2>2. Curve(12, 12, 16, 20) \in Tone BY <1>1, <2>1, Zenon
  <2>3. Curve(94, 94, 92, 90) \in Tone BY <1>1, <2>1, Zenon
  <2>4. Surface2021(s, kind) = Ground(ByMode(s, Curve(12, 12, 16, 20), Curve(94, 94, 92, 90)))
    BY <1>7, Zenon DEF Surface2021, Curve
  <2> QED BY <1>2, <2>1, <2>2, <2>3, <2>4, Zenon
<1>8. CASE kind = "containerHigh"
  <2>1. 17 \in Tone /\ 21 \in Tone /\ 25 \in Tone /\ 85 \in Tone /\ 88 \in Tone /\ 92 \in Tone BY DEF Tone
  <2>2. Curve(17, 17, 21, 25) \in Tone BY <1>1, <2>1, Zenon
  <2>3. Curve(92, 92, 88, 85) \in Tone BY <1>1, <2>1, Zenon
  <2>4. Surface2021(s, kind) = Ground(ByMode(s, Curve(17, 17, 21, 25), Curve(92, 92, 88, 85)))
    BY <1>8, Zenon DEF Surface2021, Curve
  <2> QED BY <1>2, <2>1, <2>2, <2>3, <2>4, Zenon
<1>9. CASE kind = "containerHighest"
  <2>1. 22 \in Tone /\ 26 \in Tone /\ 30 \in Tone /\ 80 \in Tone /\ 84 \in Tone /\ 90 \in Tone BY DEF Tone
  <2>2. Curve(22, 22, 26, 30) \in Tone BY <1>1, <2>1, Zenon
  <2>3. Curve(90, 90, 84, 80) \in Tone BY <1>1, <2>1, Zenon
  <2>4. Surface2021(s, kind) = Ground(ByMode(s, Curve(22, 22, 26, 30), Curve(90, 90, 84, 80)))
    BY <1>9, Zenon DEF Surface2021, Curve
  <2> QED BY <1>2, <2>1, <2>2, <2>3, <2>4, Zenon
<1>10. CASE kind = "surfaceVariant"
  <2>1. 30 \in Tone /\ 90 \in Tone BY DEF Tone
  <2>2. Surface2021(s, kind) = Ground(ByMode(s, 30, 90))
    BY <1>10, Zenon DEF Surface2021, Curve
  <2> QED BY <1>2, <2>1, <2>2, Zenon
<1>11. CASE kind = "inverseSurface"
  <2>1. 20 \in Tone /\ 90 \in Tone BY DEF Tone
  <2>2. Surface2021(s, kind) = Ground(ByMode(s, 90, 20))
    BY <1>11, Zenon DEF Surface2021, Curve
  <2> QED BY <1>2, <2>1, <2>2, Zenon
<1>12. CASE kind = "surfaceTint"
  <2>1. 40 \in Tone /\ 80 \in Tone BY DEF Tone
  <2>2. Surface2021(s, kind) = Ground(ByMode(s, 80, 40))
    BY <1>12, Zenon DEF Surface2021, Curve
  <2> QED BY <1>2, <2>1, <2>2, Zenon
<1>13. CASE kind \in {"background", "surface"}
  <2>1. 6 \in Tone /\ 98 \in Tone BY DEF Tone
  <2>2. Surface2021(s, kind) = Ground(ByMode(s, 6, 98))
    BY <1>13, Zenon DEF Surface2021, Curve
  <2> QED BY <1>2, <2>1, <2>2, Zenon
<1> QED BY <1>3, <1>4, <1>5, <1>6, <1>7, <1>8, <1>9, <1>10, <1>11, <1>12, <1>13, Zenon DEF SurfaceGrounds

LEMMA Surface2025Is ==
  ASSUME NEW s \in SchemeType, NEW kind \in SurfaceGrounds
  PROVE  \E t \in 0 .. 100 : Surface2025(s, kind) = Ground(t)
<1> DEFINE Tone == 0 .. 100
           Paper(a, b, c, d) == Ground(IF s.isDark THEN a
                                       ELSE IF IsYellowHue(NeutralHue(s)) THEN b
                                       ELSE IF s.variant = "vibrant" THEN c ELSE d)
           Toned(g) == \E t \in Tone : g = Ground(t)
<1> SUFFICES Toned(Surface2025(s, kind)) OBVIOUS
<1>1. \A a, b, c, d \in Tone : Toned(Paper(a, b, c, d)) OBVIOUS
<1>2. /\ 0 \in Tone /\ 4 \in Tone /\ 6 \in Tone /\ 9 \in Tone /\ 12 \in Tone /\ 15 \in Tone /\ 18 \in Tone
      /\ 85 \in Tone /\ 87 \in Tone /\ 88 \in Tone /\ 90 \in Tone /\ 92 \in Tone /\ 94 \in Tone
      /\ 95 \in Tone /\ 96 \in Tone /\ 97 \in Tone /\ 98 \in Tone /\ 99 \in Tone /\ 100 \in Tone
  OBVIOUS
<1>3. CASE kind \in {"background", "surface"}
  <2>1. Surface2025(s, kind) = Paper(4, 99, 97, 98) BY <1>3, Zenon DEF Surface2025
  <2> HIDE DEF Paper, Toned, Tone
  <2>2. Toned(Paper(4, 99, 97, 98)) BY <1>1, <1>2, Zenon
  <2> QED BY <2>1, <2>2, Zenon
<1>4. CASE kind = "surfaceDim"
  <2>1. Surface2025(s, kind) = Paper(4, 90, 85, 87) BY <1>4, Zenon DEF Surface2025
  <2> HIDE DEF Paper, Toned, Tone
  <2>2. Toned(Paper(4, 90, 85, 87)) BY <1>1, <1>2, Zenon
  <2> QED BY <2>1, <2>2, Zenon
<1>5. CASE kind = "surfaceBright"
  <2>1. Surface2025(s, kind) = Paper(18, 99, 97, 98) BY <1>5, Zenon DEF Surface2025
  <2> HIDE DEF Paper, Toned, Tone
  <2>2. Toned(Paper(18, 99, 97, 98)) BY <1>1, <1>2, Zenon
  <2> QED BY <2>1, <2>2, Zenon
<1>6. CASE kind = "containerLow"
  <2>1. Surface2025(s, kind) = Paper(6, 98, 95, 96) BY <1>6, Zenon DEF Surface2025
  <2> HIDE DEF Paper, Toned, Tone
  <2>2. Toned(Paper(6, 98, 95, 96)) BY <1>1, <1>2, Zenon
  <2> QED BY <2>1, <2>2, Zenon
<1>7. CASE kind = "container"
  <2>1. Surface2025(s, kind) = Paper(9, 96, 92, 94) BY <1>7, Zenon DEF Surface2025
  <2> HIDE DEF Paper, Toned, Tone
  <2>2. Toned(Paper(9, 96, 92, 94)) BY <1>1, <1>2, Zenon
  <2> QED BY <2>1, <2>2, Zenon
<1>8. CASE kind = "containerHigh"
  <2>1. Surface2025(s, kind) = Paper(12, 94, 90, 92) BY <1>8, Zenon DEF Surface2025
  <2> HIDE DEF Paper, Toned, Tone
  <2>2. Toned(Paper(12, 94, 90, 92)) BY <1>1, <1>2, Zenon
  <2> QED BY <2>1, <2>2, Zenon
<1>9. CASE kind \in {"containerHighest", "surfaceVariant"}
  <2>1. Surface2025(s, kind) = Paper(15, 92, 88, 90) BY <1>9, Zenon DEF Surface2025
  <2> HIDE DEF Paper, Toned, Tone
  <2>2. Toned(Paper(15, 92, 88, 90)) BY <1>1, <1>2, Zenon
  <2> QED BY <2>1, <2>2, Zenon
<1>10. CASE kind = "containerLowest" BY <1>2, <1>10 DEF Surface2025, ByMode
<1>11. CASE kind = "inverseSurface" BY <1>2, <1>11 DEF Surface2025, ByMode
<1> HIDE DEF Toned
<1> QED BY <1>3, <1>4, <1>5, <1>6, <1>7, <1>8, <1>9, <1>10, <1>11 DEF SurfaceGrounds

\* A text on a surface, with a tone of its own or from a surface.
SurfaceText(d) ==
  /\ d.tone \in Tones /\ d.isBackground = FALSE /\ d.pair = {}
  /\ d.like = {} \/ \E k \in SurfaceGrounds : d.like = {<<"surface", k>>}
  /\ d.curve = <<>> \/ \E k \in SurfaceGrounds : d.on = <<<<"surface", k>>>>

LEMMA SurfaceText2021Is ==
  ASSUME NEW s \in SchemeType, NEW kind \in SurfaceTexts
  PROVE  SurfaceText(SurfaceText2021(s, kind)) /\ SurfaceText2021(s, kind).like = {}
<1>1. "background" \in SurfaceGrounds /\ "inverseSurface" \in SurfaceGrounds BY DEF SurfaceGrounds
<1>3. CASE kind \in {"shadow", "scrim"} BY <1>1, <1>3 DEF SurfaceText2021, ByMode, Surface, SurfaceText, Text, TextLike, Tones
<1>4. CASE kind = "onBackground" BY <1>1, HighestIs, <1>4 DEF SurfaceText2021, ByMode, Surface, SurfaceText, Text, TextLike, Tones
<1>5. CASE kind = "onSurface" BY <1>1, HighestIs, <1>5 DEF SurfaceText2021, ByMode, Surface, SurfaceText, Text, TextLike, Tones
<1>6. CASE kind = "onSurfaceVariant" BY <1>1, HighestIs, <1>6 DEF SurfaceText2021, ByMode, Surface, SurfaceText, Text, TextLike, Tones
<1>7. CASE kind = "inverseOnSurface" BY <1>1, HighestIs, <1>7 DEF SurfaceText2021, ByMode, Surface, SurfaceText, Text, TextLike, Tones
<1>8. CASE kind = "outline" BY <1>1, HighestIs, <1>8 DEF SurfaceText2021, ByMode, Surface, SurfaceText, Text, TextLike, Tones
<1>9. CASE kind = "outlineVariant" BY <1>1, HighestIs, <1>9 DEF SurfaceText2021, ByMode, Surface, SurfaceText, Text, TextLike, Tones
<1> QED BY <1>3, <1>4, <1>5, <1>6, <1>7, <1>8, <1>9 DEF SurfaceTexts

LEMMA LikeSurface ==
  ASSUME NEW k \in SurfaceGrounds, NEW c
  PROVE  SurfaceText(TextLike(<<"surface", k>>, <<<<"surface", k>>>>, c))
<1> DEFINE q == <<"surface", k>>
           d == TextLike(q, <<q>>, c)
<1>1. /\ d.tone = 5 * 0 /\ d.isBackground = FALSE /\ d.pair = {} /\ d.like = {q} /\ d.on = <<q>>
  BY DEF TextLike, Text
<1>2. 5 * 0 \in Tones BY DEF Tones
<1> HIDE DEF d
<1>3. SurfaceText(d) BY <1>1, <1>2, Zenon DEF SurfaceText
<1> QED BY <1>3 DEF d

LEMMA SurfaceText2025Is ==
  ASSUME NEW s \in SchemeType, NEW kind \in SurfaceTexts \ {"shadow", "scrim"}
  PROVE  SurfaceText(SurfaceText2025(s, kind))
<1>1. \A c : SurfaceText(TextLike(HighestSurface(s), <<HighestSurface(s)>>, c))
  <2>1. PICK k \in SurfaceGrounds : HighestSurface(s) = <<"surface", k>> BY HighestIs, Zenon
  <2> QED BY <2>1, LikeSurface, Zenon
<1>2. TMaxC(s, 0, 100) \in 0 .. 100
  <2>1. 0 \in 0 .. 100 /\ 100 \in 0 .. 100 OBVIOUS
  <2> QED BY <2>1, ReachIn, Zenon
<1>3. CASE kind \in {"onSurface", "onBackground"}
  <2>1. CASE s.variant = "vibrant"
    <3> DEFINE t == TMaxC(s, 0, 100)
    <3> HIDE DEF t
    <3>1. 5 * t \in 0 .. 500 BY <1>2 DEF t
    <3>2. PICK c : SurfaceText2025(s, kind) = Text(t, <<HighestSurface(s)>>, c)
      BY <1>3, <2>1 DEF SurfaceText2025, t
    <3> QED BY <3>1, <3>2, HighestIs DEF SurfaceText, Text, Tones
  <2>2. CASE s.variant # "vibrant"
    <3>1. PICK c : SurfaceText2025(s, kind) = TextLike(HighestSurface(s), <<HighestSurface(s)>>, c)
      BY <1>3, <2>2 DEF SurfaceText2025
    <3> QED BY <1>1, <3>1, Zenon
  <2> QED BY <2>1, <2>2
<1>4. CASE kind \in {"onSurfaceVariant", "outline", "outlineVariant"}
  <2>1. PICK c : SurfaceText2025(s, kind) = TextLike(HighestSurface(s), <<HighestSurface(s)>>, c)
    BY <1>4 DEF SurfaceText2025
  <2> QED BY <1>1, <2>1, Zenon
<1>5. CASE kind = "inverseOnSurface"
  <2>1. "inverseSurface" \in SurfaceGrounds BY Zenon DEF SurfaceGrounds
  <2> DEFINE q == Surface("inverseSurface")
  <2>2. PICK c : SurfaceText2025(s, kind) = TextLike(q, <<q>>, c)
    BY <1>5 DEF SurfaceText2025
  <2>3. q = <<"surface", "inverseSurface">> BY DEF Surface
  <2> HIDE DEF q
  <2> QED BY <2>1, <2>2, <2>3, LikeSurface, Zenon
<1> QED BY <1>3, <1>4, <1>5, Zenon DEF SurfaceTexts

LEMMA LargestOf ==
  ASSUME NEW n \in Nat, NEW S \in SUBSET (0 .. n), S # {}
  PROVE  Max(S) \in S
<1> DEFINE D == {n - x : x \in S}
<1>1. D \in SUBSET Nat /\ D # {}
  <2>1. \A x \in S : n - x \in Nat OBVIOUS
  <2> QED BY <2>1
<1>2. PICK z \in D : \A y \in D : z <= y BY <1>1, LeastExists
<1>3. PICK x \in S : z = n - x BY <1>2
<1>4. \A y \in S : x >= y
  <2> SUFFICES ASSUME NEW y \in S PROVE x >= y OBVIOUS
  <2>1. n - y \in D OBVIOUS
  <2>2. z <= n - y BY <1>2, <2>1
  <2> QED BY <1>3, <2>2
<1> QED BY <1>4 DEF Max

LEMMA ForegroundIn ==
  ASSUME NEW t \in Tones, NEW ratio
  PROVE  ForegroundTone(t, ratio) \in Tones
<1>1. LighterUnsafe(t, ratio) \in Tones
  <2> DEFINE reaching == {u \in t .. 500 : RatioOfTones(t, u) >= ratio}
  <2>1. reaching \in SUBSET Nat /\ \A u \in reaching : u \in 0 .. 500 BY DEF Tones
  <2> HIDE DEF reaching
  <2>2. reaching # {} => Min(reaching) \in 0 .. 500 BY <2>1, SmallestOf, Zenon
  <2>3. LighterUnsafe(t, ratio) =
          IF reaching = {} \/ Min(reaching) + 2 > 500 THEN 500 ELSE Min(reaching) + 2
    BY DEF LighterUnsafe, reaching
  <2> QED BY <2>2, <2>3 DEF Tones
<1>2. DarkerUnsafe(t, ratio) \in Tones
  <2> DEFINE reaching == {u \in 0 .. t : RatioOfTones(t, u) >= ratio}
  <2>1. t \in Nat /\ reaching \in SUBSET (0 .. t) /\ t <= 500 BY DEF Tones
  <2> HIDE DEF reaching
  <2>2. reaching # {} => Max(reaching) \in 0 .. t BY <2>1, LargestOf
  <2>3. DarkerUnsafe(t, ratio) =
          IF reaching = {} \/ Max(reaching) - 2 < 0 THEN 0 ELSE Max(reaching) - 2
    BY DEF DarkerUnsafe, reaching
  <2> QED BY <2>1, <2>2, <2>3 DEF Tones
<1> QED BY <1>1, <1>2 DEF ForegroundTone

LEMMA ChromaIn ==
  ASSUME NEW s \in SchemeType, NEW tone \in 1 .. 99, NEW down \in BOOLEAN
  PROVE  DesiredChromaTone(s, tone, down) \in 0 .. 100 /\ LikedTone(s) \in 0 .. 100
<1>1. s.reach[1] \in 0 .. 100 /\ s.reach[2] \in 0 .. 100 /\ s.sourceTone \in 0 .. 100
  BY SchemeFields, Zenon
<1>2. DesiredChromaTone(s, tone, down) \in 0 .. 100
  <2>1. \A l, h \in 0 .. 100 : s.reach[1] = l /\ s.reach[2] = h =>
          DesiredChromaTone(s, tone, down) \in 0 .. 100
    BY DEF DesiredChromaTone
  <2> QED BY <1>1, <2>1, Zenon
<1>3. LikedTone(s) \in 0 .. 100
  <2>1. \A t \in 0 .. 100 : s.sourceTone = t => LikedTone(s) \in 0 .. 100 BY DEF LikedTone
  <2> QED BY <1>1, <2>1, Zenon
<1> QED BY <1>2, <1>3, Zenon

Accents == Coloured \cup {"error"}

LEMMA Container2021In ==
  ASSUME NEW s \in SchemeType, NEW family \in Accents
  PROVE  Container2021(s, family) \in 0 .. 100
<1>1. \A a, b \in 0 .. 100 : ByMode(s, a, b) \in 0 .. 100 BY DEF ByMode
<1>2. /\ DesiredChromaTone(s, ByMode(s, 30, 90), ~s.isDark) \in 0 .. 100 /\ LikedTone(s) \in 0 .. 100
      /\ s.sourceTone \in 0 .. 100
  <2> DEFINE tone == ByMode(s, 30, 90)
             down == ~s.isDark
  <2>1. tone \in 1 .. 99 BY DEF ByMode
  <2>2. down \in BOOLEAN OBVIOUS
  <2> HIDE DEF tone, down
  <2>3. DesiredChromaTone(s, tone, down) \in 0 .. 100 /\ LikedTone(s) \in 0 .. 100
    BY <2>1, <2>2, ChromaIn, Zenon
  <2>4. s.sourceTone \in 0 .. 100 BY SchemeFields, Zenon
  <2> QED BY <2>3, <2>4, Zenon DEF tone, down
<1>3. CASE family = "primary" BY <1>2, <1>3 DEF Container2021, ByMode
<1>4. CASE family = "secondary" BY <1>2, <1>4 DEF Container2021, ByMode
<1>5. CASE family = "tertiary" BY <1>2, <1>5 DEF Container2021, ByMode
<1>6. CASE family = "error" BY <1>2, <1>6 DEF Container2021, ByMode
<1> QED BY <1>3, <1>4, <1>5, <1>6 DEF Accents, Coloured

LEMMA ReachesIn ==
  ASSUME NEW s \in SchemeType
  PROVE  \A l, h \in 0 .. 100 : TMaxC(s, l, h) \in 0 .. 100 /\ TMinC(s, l, h) \in 0 .. 100
  BY ReachIn, Zenon

LEMMA KnownVariant ==
  ASSUME NEW s \in SchemeType, Spec2025(s)
  PROVE  s.variant \in {"tonalSpot", "neutral", "vibrant", "expressive"}
  BY PaletteAssumption DEF Spec2025

LEMMA BaseTone2025In ==
  ASSUME NEW s \in SchemeType, NEW family \in Accents
  PROVE  BaseTone2025(s, family) \in 0 .. 100
<1> DEFINE Tone == 0 .. 100
<1> SUFFICES BaseTone2025(s, family) \in Tone OBVIOUS
<1>1. \A l, h \in Tone : TMaxC(s, l, h) \in Tone /\ TMinC(s, l, h) \in Tone BY ReachesIn, Zenon
<1>2. /\ 0 \in Tone /\ 25 \in Tone /\ 40 \in Tone /\ 80 \in Tone /\ 88 \in Tone /\ 90 \in Tone
      /\ 98 \in Tone /\ 100 \in Tone
  OBVIOUS
<1> HIDE DEF Tone
<1>3. /\ TMaxC(s, 0, 25) \in Tone /\ TMaxC(s, 0, 88) \in Tone /\ TMaxC(s, 0, 90) \in Tone
      /\ TMaxC(s, 0, 98) \in Tone /\ TMaxC(s, 0, 100) \in Tone /\ TMinC(s, 0, 98) \in Tone
  BY <1>1, <1>2, Zenon
<1>4. CASE family = "primary" BY <1>2, <1>3, <1>4 DEF BaseTone2025, ByMode
<1>5. CASE family = "secondary" BY <1>2, <1>3, <1>5 DEF BaseTone2025, ByMode
<1>6. CASE family = "tertiary" BY <1>3, <1>6 DEF BaseTone2025, ByMode
<1>7. CASE family = "error" BY <1>3, <1>7 DEF BaseTone2025, ByMode
<1> QED BY <1>4, <1>5, <1>6, <1>7 DEF Accents, Coloured

LEMMA ContainerTone2025In ==
  ASSUME NEW s \in SchemeType, NEW family \in Accents,
         s.variant \in {"tonalSpot", "neutral", "vibrant", "expressive"}
  PROVE  ContainerTone2025(s, family) \in 0 .. 100
<1> DEFINE Tone == 0 .. 100
<1> SUFFICES ContainerTone2025(s, family) \in Tone OBVIOUS
<1>1. \A l, h \in Tone : TMaxC(s, l, h) \in Tone /\ TMinC(s, l, h) \in Tone BY ReachesIn, Zenon
<1>2. /\ 0 \in Tone /\ 15 \in Tone /\ 25 \in Tone /\ 30 \in Tone /\ 35 \in Tone /\ 40 \in Tone
      /\ 66 \in Tone /\ 72 \in Tone /\ 75 \in Tone /\ 78 \in Tone /\ 84 \in Tone /\ 88 \in Tone
      /\ 90 \in Tone /\ 93 \in Tone /\ 95 \in Tone /\ 96 \in Tone /\ 100 \in Tone
  OBVIOUS
<1> HIDE DEF Tone
<1>3. CASE family = "primary"
  <2>1. CASE s.variant = "neutral" BY <1>2, <1>3, <2>1 DEF ContainerTone2025, ByMode
  <2>2. CASE s.variant = "tonalSpot"
    <3>1. TMinC(s, 35, 93) \in Tone /\ TMaxC(s, 0, 90) \in Tone BY <1>1, <1>2, Zenon
    <3> QED BY <1>3, <2>2, <3>1 DEF ContainerTone2025, ByMode
  <2>3. CASE s.variant = "expressive"
    <3>1. TMaxC(s, 30, 93) \in Tone /\ TMaxC(s, 78, 88) \in Tone /\ TMaxC(s, 78, 90) \in Tone
      BY <1>1, <1>2, Zenon
    <3> QED BY <1>3, <2>3, <3>1 DEF ContainerTone2025, ByMode
  <2>4. CASE s.variant = "vibrant"
    <3>1. TMinC(s, 66, 93) \in Tone /\ TMaxC(s, 66, 88) \in Tone /\ TMaxC(s, 66, 93) \in Tone
      BY <1>1, <1>2, Zenon
    <3> QED BY <1>3, <2>4, <3>1 DEF ContainerTone2025, ByMode
  <2> QED BY <2>1, <2>2, <2>3, <2>4
<1>4. CASE family = "secondary"
  <2>1. /\ TMinC(s, 30, 40) \in Tone /\ TMaxC(s, 84, 90) \in Tone /\ TMaxC(s, 90, 95) \in Tone
    BY <1>1, <1>2, Zenon
  <2> QED BY <1>2, <1>4, <2>1 DEF ContainerTone2025, ByMode
<1>5. CASE family = "tertiary"
  <2>1. CASE s.variant = "neutral"
    <3>1. TMaxC(s, 0, 93) \in Tone /\ TMaxC(s, 0, 96) \in Tone BY <1>1, <1>2, Zenon
    <3> QED BY <1>5, <2>1, <3>1 DEF ContainerTone2025, ByMode
  <2>2. CASE s.variant = "tonalSpot"
    <3>1. TMaxC(s, 0, 93) \in Tone /\ TMaxC(s, 0, 100) \in Tone BY <1>1, <1>2, Zenon
    <3> QED BY <1>5, <2>2, <3>1 DEF ContainerTone2025, ByMode
  <2>3. CASE s.variant = "expressive"
    <3>1. TMaxC(s, 75, 88) \in Tone /\ TMaxC(s, 75, 93) \in Tone /\ TMaxC(s, 75, 100) \in Tone
      BY <1>1, <1>2, Zenon
    <3> QED BY <1>5, <2>3, <3>1 DEF ContainerTone2025, ByMode
  <2>4. CASE s.variant = "vibrant"
    <3>1. TMaxC(s, 0, 93) \in Tone /\ TMaxC(s, 72, 100) \in Tone BY <1>1, <1>2, Zenon
    <3> QED BY <1>5, <2>4, <3>1 DEF ContainerTone2025, ByMode
  <2> QED BY <2>1, <2>2, <2>3, <2>4
<1>6. CASE family = "error"
  <2>1. TMinC(s, 30, 93) \in Tone /\ TMaxC(s, 0, 90) \in Tone BY <1>1, <1>2, Zenon
  <2> QED BY <1>6, <2>1 DEF ContainerTone2025, ByMode
<1> QED BY <1>3, <1>4, <1>5, <1>6 DEF Accents, Coloured

-----------------------------------------------------------------------------
(* MaterialRoles: a definition asks for tones of lower rank only.          *)

Starts(r, d) ==
  /\ d.tone \in Tones /\ d.isBackground \in BOOLEAN
  /\ d.like = {} \/ \E q \in Below(r) : d.like = {q}

Painted(r, d) ==
  \/ d.curve = <<>>
  \/ \E q \in Below(r) : d.on = <<q>>
  \/ \E q1, q2 \in Below(r) : d.on = <<q1, q2>>

\* What r is kept apart from: the raw tone of the other one under 2021; under
\* 2025 its resolved tone, of a role of lower rank.
KeptApart(s, r, d, p) ==
  /\ p.a \in RoleSet /\ p.b \in RoleSet /\ p.delta \in {25, 50}
  /\ ~Spec2025(s) => d.curve # <<>> /\ r \in {p.a, p.b}
  /\ Spec2025(s) =>
       \/ p.constraint = "exact" /\ d.curve = <<>> /\ r = p.a /\ p.b \in Below(r)
       \/ /\ p.constraint = "farther" /\ d.isBackground /\ r[2] # "fixedDim"
          /\ \/ r = p.a /\ p.b \in Below(r)
             \/ r # p.a /\ p.a \in Below(r) /\ \E f \in Accents : p.b = <<f, "base">>

Sound(s, r, d) ==
  /\ Starts(r, d) /\ Painted(r, d)
  /\ d.pair = {} \/ \E p : d.pair = {p} /\ KeptApart(s, r, d, p)

LEMMA AccentBelow ==
  ASSUME NEW f \in Accents
  PROVE  /\ <<f, "container">> \in Below(<<f, "base">>) /\ <<f, "base">> \in Below(<<f, "on">>)
         /\ <<f, "container">> \in Below(<<f, "onContainer">>) /\ <<f, "base">> \in Below(<<f, "dim">>)
         /\ f \in Coloured =>
              /\ <<f, "fixed">> \in Below(<<f, "fixedDim">>)
              /\ \A k \in {"onFixed", "onFixedVariant"} :
                   <<f, "fixed">> \in Below(<<f, k>>) /\ <<f, "fixedDim">> \in Below(<<f, k>>)
<1>1. /\ <<f, "container">> \in RoleSet /\ <<f, "base">> \in RoleSet
      /\ f \in Coloured => <<f, "fixed">> \in RoleSet /\ <<f, "fixedDim">> \in RoleSet
  BY AccentRoles DEF Accents, PlainKinds, FixedKinds
<1>2. /\ Rank(<<f, "container">>) < Rank(<<f, "base">>) /\ Rank(<<f, "base">>) < Rank(<<f, "on">>)
      /\ Rank(<<f, "container">>) < Rank(<<f, "onContainer">>) /\ Rank(<<f, "base">>) < Rank(<<f, "dim">>)
  BY DEF Rank, Accents, Coloured
<1>3. /\ Rank(<<f, "fixed">>) < Rank(<<f, "fixedDim">>)
      /\ \A k \in {"onFixed", "onFixedVariant"} :
           Rank(<<f, "fixed">>) < Rank(<<f, k>>) /\ Rank(<<f, "fixedDim">>) < Rank(<<f, k>>)
  BY DEF Rank, Accents, Coloured
<1> QED BY <1>1, <1>2, <1>3 DEF Below

LEMMA SurfaceBelow ==
  ASSUME NEW k \in SurfaceGrounds
  PROVE  /\ \A t \in SurfaceTexts \cup {"surfaceTint"} : <<"surface", k>> \in Below(<<"surface", t>>)
         /\ <<"surface", k>> \in Below(<<"primary", "inverse">>)
         /\ \A f \in Accents : \A j \in PlainKinds : <<"surface", k>> \in Below(<<f, j>>)
         /\ \A f \in Coloured : \A j \in FixedKinds : <<"surface", k>> \in Below(<<f, j>>)
<1>1. <<"surface", k>> \in RoleSet /\ Rank(<<"surface", k>>) = 0
  BY SurfaceRank
<1>2. \A t \in SurfaceTexts \cup {"surfaceTint"} : Rank(<<"surface", t>>) > 0
  BY DEF Rank, SurfaceTexts
<1>3. \A f \in Accents : \A j \in PlainKinds : Rank(<<f, j>>) > 0
  BY DEF Rank, Accents, Coloured, PlainKinds
<1>4. \A f \in Coloured : \A j \in FixedKinds : Rank(<<f, j>>) > 0
  BY DEF Rank, Coloured, FixedKinds
<1>5. \A r : Rank(r) > 0 => <<"surface", k>> \in Below(r)
  BY <1>1 DEF Below
<1>6. Rank(<<"primary", "inverse">>) > 0
  BY DEF Rank
<1> QED BY <1>2, <1>3, <1>4, <1>5, <1>6

-----------------------------------------------------------------------------
(* MaterialRoles: the accents, row by row.                                 *)

LEMMA TextSound ==
  ASSUME NEW s, NEW r, NEW q \in Below(r), NEW t \in 0 .. 100, NEW c, NEW d, d = Text(t, <<q>>, c)
  PROVE  Sound(s, r, d) /\ d.like = {}
<1>1. Starts(r, d) /\ d.like = {} /\ d.pair = {} BY DEF Text, Starts, Tones
<1>2. Painted(r, d) BY DEF Text, Painted
<1> QED BY <1>1, <1>2 DEF Sound

LEMMA TwoGroundsSound ==
  ASSUME NEW s, NEW r, NEW q1 \in Below(r), NEW q2 \in Below(r), NEW t \in 0 .. 100, NEW c,
         NEW d, d = Text(t, <<q1, q2>>, c)
  PROVE  Sound(s, r, d) /\ d.like = {}
<1>1. Starts(r, d) /\ d.like = {} /\ d.pair = {} BY DEF Text, Starts, Tones
<1>2. Painted(r, d) BY DEF Text, Painted
<1> QED BY <1>1, <1>2 DEF Sound

LEMMA LikeSound ==
  ASSUME NEW s, NEW r, NEW q \in Below(r), NEW c, NEW d, d = TextLike(q, <<q>>, c)
  PROVE  Sound(s, r, d)
<1>1. Starts(r, d) /\ d.pair = {} BY DEF Text, TextLike, Starts, Tones
<1>2. Painted(r, d) BY DEF Text, TextLike, Painted
<1> QED BY <1>1, <1>2 DEF Sound

LEMMA AccentAlone ==
  ASSUME NEW s, NEW r, NEW q \in Below(r), NEW t \in 0 .. 100, NEW c,
         NEW d, d = Accent(t, <<q>>, c, {})
  PROVE  Sound(s, r, d) /\ d.like = {}
<1>1. Starts(r, d) /\ d.like = {} /\ d.pair = {} BY DEF Accent, Text, Starts, Tones
<1>2. Painted(r, d) BY DEF Accent, Text, Painted
<1> QED BY <1>1, <1>2 DEF Sound

\* The pair of a and b.
IsPair(x, a, b, constraint) ==
  \E p : x = {p} /\ p.a = a /\ p.b = b /\ p.delta \in {25, 50} /\ p.constraint = constraint
LEMMA PairIs ==
  ASSUME NEW a, NEW b, NEW delta \in {5, 10}, NEW pol, NEW tog, NEW con
  PROVE  IsPair(Pair(a, b, delta, pol, tog, con), a, b, con)
<1> DEFINE p == [a |-> a, b |-> b, delta |-> 5 * delta, polarity |-> pol, stayTogether |-> tog, constraint |-> con]
<1>1. p.a = a /\ p.b = b /\ p.delta \in {25, 50} /\ p.constraint = con OBVIOUS
<1>2. Pair(a, b, delta, pol, tog, con) = {p} BY DEF Pair
<1> HIDE DEF p
<1> QED BY <1>1, <1>2 DEF IsPair

LEMMA Apart2021 ==
  ASSUME NEW s, ~Spec2025(s), NEW r, NEW q \in Below(r), NEW t \in 0 .. 100, NEW c, c # <<>>,
         NEW a \in RoleSet, NEW b \in RoleSet, r \in {a, b}, NEW pair, IsPair(pair, a, b, "exact"),
         NEW d, d = Accent(t, <<q>>, c, pair)
  PROVE  Sound(s, r, d) /\ d.like = {}
<1>1. /\ d.tone = 5 * t /\ d.like = {} /\ d.curve = c /\ d.pair = pair /\ d.on = <<q>>
      /\ d.isBackground = TRUE
  BY DEF Accent, Text
<1>9. Starts(r, d)
  <2>1. 5 * t \in Tones BY DEF Tones
  <2> QED BY <1>1, <2>1 DEF Starts
<1>2. Painted(r, d) BY <1>1 DEF Painted
<1>3. PICK p : pair = {p} /\ p.a = a /\ p.b = b /\ p.delta \in {25, 50} BY DEF IsPair
<1>4. KeptApart(s, r, d, p) BY <1>1, <1>3 DEF KeptApart
<1> QED BY <1>1, <1>2, <1>3, <1>4, <1>9 DEF Sound

LEMMA Farther ==
  ASSUME NEW s, NEW r, r[2] # "fixedDim", NEW q \in Below(r), NEW t \in 0 .. 100, NEW c,
         NEW a \in RoleSet, NEW b \in RoleSet, ~Spec2025(s) => c # <<>> /\ r \in {a, b},
         \/ r = a /\ b \in Below(r)
         \/ r # a /\ a \in Below(r) /\ \E f \in Accents : b = <<f, "base">>,
         NEW pair, IsPair(pair, a, b, "farther"),
         NEW d, d = Accent(t, <<q>>, c, pair)
  PROVE  Sound(s, r, d) /\ d.like = {}
<1>1. /\ d.tone = 5 * t /\ d.like = {} /\ d.curve = c /\ d.pair = pair /\ d.on = <<q>>
      /\ d.isBackground = TRUE
  BY DEF Accent, Text
<1>2. Starts(r, d)
  <2>1. 5 * t \in Tones BY DEF Tones
  <2> QED BY <1>1, <2>1 DEF Starts
<1>3. Painted(r, d) BY <1>1 DEF Painted
<1>4. PICK p : pair = {p} /\ p.a = a /\ p.b = b /\ p.delta \in {25, 50} /\ p.constraint = "farther"
  BY DEF IsPair
<1>5. KeptApart(s, r, d, p) BY <1>1, <1>4 DEF KeptApart
<1> QED BY <1>1, <1>2, <1>3, <1>4, <1>5 DEF Sound

LEMMA Accent2021Sound ==
  ASSUME NEW s \in SchemeType, ~Spec2025(s), NEW f \in Accents,
         NEW kind \in {"base", "container", "on", "onContainer", "inverse"}, kind = "inverse" => f = "primary"
  PROVE  Sound(s, <<f, kind>>, Accent2021(s, f, kind)) /\ Accent2021(s, f, kind).like = {}
<1> DEFINE d == Accent2021(s, f, kind)
           r == <<f, kind>>
<1>1. PICK k \in SurfaceGrounds : HighestSurface(s) = <<"surface", k>> BY HighestIs
<1>2. /\ <<f, "base">> \in RoleSet /\ <<f, "container">> \in RoleSet
  BY AccentRoles DEF Accents, PlainKinds
<1>3. CASE kind = "base"
  <2>1. <<"surface", k>> \in Below(r) BY SurfaceBelow, <1>3 DEF PlainKinds
  <2> DEFINE n == 10
             c == <<300, 450, 700, 700>>
             pair == Pair(<<f, "container">>, <<f, "base">>, n, "nearer", FALSE, "exact")
  <2>2. PICK t \in 0 .. 100 : d = Accent(t, <<<<"surface", k>>>>, c, pair)
    <3> DEFINE t == IF IsMonochrome(s) /\ f = "primary" THEN ByMode(s, 100, 0)
                    ELSE IF IsMonochrome(s) /\ f = "tertiary" THEN ByMode(s, 90, 25) ELSE ByMode(s, 80, 40)
    <3>1. t \in 0 .. 100 BY DEF ByMode
    <3>2. d = Accent(t, <<<<"surface", k>>>>, c, pair) BY <1>1, <1>3 DEF Accent2021
    <3> HIDE DEF t, c, pair, d
    <3> QED BY <3>1, <3>2
  <2>3. c # <<>> /\ r \in {<<f, "container">>, <<f, "base">>} BY <1>3
  <2>5. n \in {5, 10} OBVIOUS
  <2> HIDE DEF n
  <2>6. IsPair(pair, <<f, "container">>, <<f, "base">>, "exact") BY <2>5, PairIs
  <2> HIDE DEF d, r, c, pair
  <2>4. Sound(s, r, d) /\ d.like = {} BY <1>2, <2>1, <2>2, <2>3, <2>6, Apart2021
  <2> QED BY <2>4 DEF d, r
<1>4. CASE kind = "container"
  <2>1. <<"surface", k>> \in Below(r) BY SurfaceBelow, <1>4 DEF PlainKinds
  <2> DEFINE n == 10
             c == <<100, 100, 300, 450>>
             pair == Pair(<<f, "container">>, <<f, "base">>, n, "nearer", FALSE, "exact")
  <2>2. PICK t \in 0 .. 100 : d = Accent(t, <<<<"surface", k>>>>, c, pair)
    <3>1. d = Accent(Container2021(s, f), <<<<"surface", k>>>>, c, pair) BY <1>1, <1>4 DEF Accent2021
    <3>2. Container2021(s, f) \in 0 .. 100 BY Container2021In, Zenon
    <3> HIDE DEF c, pair, d
    <3> QED BY <3>1, <3>2, Zenon
  <2>3. c # <<>> /\ r \in {<<f, "container">>, <<f, "base">>} BY <1>4
  <2>5. n \in {5, 10} OBVIOUS
  <2> HIDE DEF n
  <2>6. IsPair(pair, <<f, "container">>, <<f, "base">>, "exact") BY <2>5, PairIs
  <2> HIDE DEF d, r, c, pair
  <2>4. Sound(s, r, d) /\ d.like = {} BY <1>2, <2>1, <2>2, <2>3, <2>6, Apart2021
  <2> QED BY <2>4 DEF d, r
<1>5. CASE kind = "on"
  <2>1. <<f, "base">> \in Below(r) BY AccentBelow, <1>5, Zenon
  <2> DEFINE c == <<450, 700, 1100, 2100>>
  <2>2. PICK t \in 0 .. 100 : d = Text(t, <<<<f, "base">>>>, c)
    BY <1>5 DEF Accent2021, ByMode
  <2> HIDE DEF d, r, c
  <2>4. Sound(s, r, d) /\ d.like = {} BY <2>1, <2>2, TextSound
  <2> QED BY <2>4 DEF d, r
<1>6. CASE kind = "onContainer"
  <2>1. <<f, "container">> \in Below(r) BY AccentBelow, <1>6
  <2>2. CASE IsFidelity(s) /\ f # "error"
    <3>1. ForegroundTone(5 * Container2021(s, f), 450) \in Tones
      <4>1. 5 * Container2021(s, f) \in Tones BY Container2021In DEF Tones
      <4> QED BY <4>1, ForegroundIn
    <3>2. d = [Text(0, <<<<f, "container">>>>, <<300, 450, 700, 1100>>)
                 EXCEPT !.tone = ForegroundTone(5 * Container2021(s, f), 450)]
      BY <1>6, <2>2 DEF Accent2021
    <3> HIDE DEF d, r
    <3>3. Starts(r, d) /\ d.like = {} /\ d.pair = {} BY <3>1, <3>2 DEF Text, Starts
    <3>4. Painted(r, d) BY <2>1, <3>2 DEF Text, Painted
    <3>5. Sound(s, r, d) /\ d.like = {} BY <3>3, <3>4 DEF Sound
    <3> QED BY <3>5 DEF d, r
  <2>3. CASE ~(IsFidelity(s) /\ f # "error")
    <3> DEFINE c == <<300, 450, 700, 1100>>
    <3>1. PICK t \in 0 .. 100 : d = Text(t, <<<<f, "container">>>>, c)
      BY <1>6, <2>3 DEF Accent2021, ByMode
    <3> HIDE DEF d, r, c
    <3>2. Sound(s, r, d) /\ d.like = {} BY <2>1, <3>1, TextSound, Zenon
    <3> QED BY <3>2 DEF d, r
  <2> QED BY <2>2, <2>3
<1>7. CASE kind = "inverse"
  <2>1. <<"surface", "inverseSurface">> \in Below(r)
    BY SurfaceBelow, <1>7 DEF SurfaceGrounds
  <2> DEFINE c == <<300, 450, 700, 700>>
  <2>2. PICK t \in 0 .. 100 : d = Text(t, <<<<"surface", "inverseSurface">>>>, c)
    BY <1>7 DEF Accent2021, ByMode, Surface
  <2> HIDE DEF d, r, c
  <2>3. Sound(s, r, d) /\ d.like = {} BY <2>1, <2>2, TextSound
  <2> QED BY <2>3 DEF d, r
<1> QED BY <1>3, <1>4, <1>5, <1>6, <1>7

LEMMA Fixed2021Sound ==
  ASSUME NEW s \in SchemeType, ~Spec2025(s), NEW f \in Coloured, NEW kind \in FixedKinds
  PROVE  Sound(s, <<f, kind>>, Fixed2021(s, f, kind)) /\ Fixed2021(s, f, kind).like = {}
<1> DEFINE d == Fixed2021(s, f, kind)
           r == <<f, kind>>
<1>1. PICK k \in SurfaceGrounds : HighestSurface(s) = <<"surface", k>> BY HighestIs
<1>2. /\ <<f, "fixed">> \in RoleSet /\ <<f, "fixedDim">> \in RoleSet
  BY AccentRoles DEF Accents, FixedKinds
<1>3. CASE kind \in {"fixed", "fixedDim"}
  <2>1. <<"surface", k>> \in Below(r) BY SurfaceBelow
  <2> DEFINE n == 10
             c == <<100, 100, 300, 450>>
             pair == Pair(<<f, "fixed">>, <<f, "fixedDim">>, n, "lighter", TRUE, "exact")
  <2>2. PICK t \in 0 .. 100 : d = Accent(t, <<<<"surface", k>>>>, c, pair)
    <3> DEFINE Grey(x, y) == IF ~(f = "secondary") THEN x ELSE y
               t == IF IsMonochrome(s) THEN Grey(40, 80) ELSE 90
               u == IF IsMonochrome(s) THEN Grey(30, 70) ELSE 80
    <3>1. t \in 0 .. 100 /\ u \in 0 .. 100 OBVIOUS
    <3>2. CASE kind = "fixed"
      <4>1. d = Accent(t, <<<<"surface", k>>>>, c, pair) BY <1>1, <3>2 DEF Fixed2021
      <4> HIDE DEF t, d, c, pair
      <4> QED BY <3>1, <4>1, Zenon
    <3>3. CASE kind = "fixedDim"
      <4>1. d = Accent(u, <<<<"surface", k>>>>, c, pair) BY <1>1, <3>3 DEF Fixed2021
      <4> HIDE DEF u, d, c, pair
      <4> QED BY <3>1, <4>1, Zenon
    <3> QED BY <1>3, <3>2, <3>3, Zenon
  <2>3. c # <<>> /\ r \in {<<f, "fixed">>, <<f, "fixedDim">>} BY <1>3
  <2>5. n \in {5, 10} OBVIOUS
  <2> HIDE DEF n
  <2>6. IsPair(pair, <<f, "fixed">>, <<f, "fixedDim">>, "exact") BY <2>5, PairIs
  <2> HIDE DEF d, r, c, pair
  <2>4. Sound(s, r, d) /\ d.like = {} BY <1>2, <2>1, <2>2, <2>3, <2>6, Apart2021
  <2> QED BY <2>4 DEF d, r
<1>4. CASE kind \in {"onFixed", "onFixedVariant"}
  <2>1. <<f, "fixed">> \in Below(r) /\ <<f, "fixedDim">> \in Below(r)
    BY AccentBelow, <1>4 DEF Accents
  <2>2. ASSUME NEW c, NEW t \in 0 .. 100, d = Text(t, <<<<f, "fixedDim">>, <<f, "fixed">>>>, c)
        PROVE  Sound(s, r, d) /\ d.like = {}
    <3> HIDE DEF d, r
    <3> QED BY <2>1, <2>2, TwoGroundsSound
  <2>3. CASE kind = "onFixed"
    <3> DEFINE c == <<450, 700, 1100, 2100>>
    <3>1. PICK t \in 0 .. 100 : d = Text(t, <<<<f, "fixedDim">>, <<f, "fixed">>>>, c)
      BY <2>3 DEF Fixed2021
    <3> HIDE DEF d, r, c
    <3>2. Sound(s, r, d) /\ d.like = {} BY <2>2, <3>1
    <3> QED BY <3>2 DEF d, r
  <2>4. CASE kind = "onFixedVariant"
    <3> DEFINE c == <<300, 450, 700, 1100>>
    <3>1. PICK t \in 0 .. 100 : d = Text(t, <<<<f, "fixedDim">>, <<f, "fixed">>>>, c)
      BY <2>4 DEF Fixed2021
    <3> HIDE DEF d, r, c
    <3>2. Sound(s, r, d) /\ d.like = {} BY <2>2, <3>1
    <3> QED BY <3>2 DEF d, r
  <2> QED BY <1>4, <2>3, <2>4
<1> QED BY <1>3, <1>4 DEF FixedKinds

LEMMA DimSound ==
  ASSUME NEW s \in SchemeType, NEW f \in Accents
  PROVE  Sound(s, <<f, "dim">>, Dim(s, f)) /\ Dim(s, f).like = {}
<1> DEFINE d == Dim(s, f)
           r == <<f, "dim">>
           b == <<f, "base">>
           c == DefaultContrastCurve(450)
           n == 5
           pair == Pair(r, b, n, "darker", TRUE, "farther")
<1>1. /\ TMaxC(s, 0, 90) \in 0 .. 100 /\ TMaxC(s, 0, 100) \in 0 .. 100 /\ TMinC(s, 0, 100) \in 0 .. 100
  <2>1. 0 \in 0 .. 100 /\ 90 \in 0 .. 100 /\ 100 \in 0 .. 100 OBVIOUS
  <2> QED BY <2>1, ReachesIn, Zenon
<1>2. PICK t \in 0 .. 100 : d = Accent(t, <<<<"surface", "containerHigh">>>>, c, pair)
  <2> DEFINE tone ==
        CASE f = "primary" -> IF s.variant = "neutral" THEN 85
                              ELSE TMaxC(s, 0, IF s.variant = "tonalSpot" THEN 90 ELSE 100)
          [] f = "secondary" -> IF s.variant = "neutral" THEN 85 ELSE TMaxC(s, 0, 90)
          [] f = "tertiary" -> TMaxC(s, 0, IF s.variant = "tonalSpot" THEN 90 ELSE 100)
          [] f = "error" -> TMinC(s, 0, 100)
  <2>1. d = Accent(tone, <<<<"surface", "containerHigh">>>>, c, pair)
    BY Zenon DEF Dim, Surface
  <2>2. tone \in 0 .. 100
    <3>1. CASE f = "primary" BY <1>1, <3>1
    <3>2. CASE f = "secondary" BY <1>1, <3>2
    <3>3. CASE f = "tertiary" BY <1>1, <3>3
    <3>4. CASE f = "error" BY <1>1, <3>4
    <3> QED BY <3>1, <3>2, <3>3, <3>4 DEF Accents, Coloured
  <2> HIDE DEF tone, d, c, pair
  <2> QED BY <2>1, <2>2, Zenon
<1>3. <<"surface", "containerHigh">> \in Below(r)
  BY SurfaceBelow DEF SurfaceGrounds, PlainKinds
<1>4. c # <<>> BY DEF DefaultContrastCurve
<1>5. r \in RoleSet /\ b \in RoleSet /\ b \in Below(r) /\ r[2] # "fixedDim"
  BY AccentRoles, AccentBelow DEF Accents, PlainKinds
<1>6. n \in {5, 10} OBVIOUS
<1> HIDE DEF n
<1>7. IsPair(pair, r, b, "farther") BY <1>6, PairIs
<1> HIDE DEF d, r, b, c, pair
<1>8. Sound(s, r, d) /\ d.like = {} BY <1>2, <1>3, <1>4, <1>5, <1>7, Farther, Zenon
<1> QED BY <1>8 DEF d, r

LEMMA Base2025Sound ==
  ASSUME NEW s \in SchemeType, Spec2025(s), NEW f \in Accents, NEW r,
         r = <<f, "base">> \/ (f = "primary" /\ r = <<"surface", "surfaceTint">>)
  PROVE  Sound(s, r, Accent2025(s, f, "base")) /\ Accent2025(s, f, "base").like = {}
<1> DEFINE d == Accent2025(s, f, "base")
           t == BaseTone2025(s, f)
           a == <<f, "container">>
           b == <<f, "base">>
           c == DefaultContrastCurve(450)
           n == 5
           pair == Pair(a, b, n, "relativeLighter", TRUE, "farther")
<1>1. PICK k \in SurfaceGrounds : HighestSurface(s) = <<"surface", k>> BY HighestIs
<1>2. <<"surface", k>> \in Below(r)
  BY SurfaceBelow DEF PlainKinds
<1>3. d = Accent(t, <<<<"surface", k>>>>, c, pair) BY <1>1 DEF Accent2025
<1>4. t \in 0 .. 100 BY BaseTone2025In
<1>5. a \in RoleSet /\ b \in RoleSet BY AccentRoles DEF Accents, PlainKinds
<1>6. a \in Below(r)
  <2>1. CASE r = <<f, "base">> BY <2>1, AccentBelow
  <2>2. CASE f = "primary" /\ r = <<"surface", "surfaceTint">>
    BY <1>5, <2>2 DEF Below, Rank
  <2> QED BY <2>1, <2>2
<1>7. r # a /\ r[2] # "fixedDim" OBVIOUS
<1>8. n \in {5, 10} OBVIOUS
<1> HIDE DEF n
<1>9. IsPair(pair, a, b, "farther") BY <1>8, PairIs
<1>10. \E g \in Accents : b = <<g, "base">> OBVIOUS
<1> HIDE DEF d, t, a, b, c, pair
<1>11. Sound(s, r, d) /\ d.like = {}
  BY <1>2, <1>3, <1>4, <1>5, <1>6, <1>7, <1>9, <1>10, Farther, Zenon
<1> QED BY <1>11 DEF d

LEMMA Accent2025Sound ==
  ASSUME NEW s \in SchemeType, Spec2025(s), NEW f \in Accents,
         NEW kind \in {"container", "on", "onContainer", "inverse"}, kind = "inverse" => f = "primary"
  PROVE  Sound(s, <<f, kind>>, Accent2025(s, f, kind))
<1> DEFINE d == Accent2025(s, f, kind)
           r == <<f, kind>>
<1>1. PICK k \in SurfaceGrounds : HighestSurface(s) = <<"surface", k>> BY HighestIs
<1>2. CASE kind = "container"
  <2> DEFINE t == ContainerTone2025(s, f)
  <2>1. <<"surface", k>> \in Below(r) BY SurfaceBelow, <1>2 DEF PlainKinds
  <2>2. t \in 0 .. 100 BY KnownVariant, ContainerTone2025In
  <2>3. PICK c : d = Accent(t, <<<<"surface", k>>>>, c, {}) BY <1>1, <1>2 DEF Accent2025
  <2> HIDE DEF d, r, t
  <2>4. Sound(s, r, d) BY <2>1, <2>2, <2>3, AccentAlone
  <2> QED BY <2>4 DEF d, r
<1>3. CASE kind = "on"
  <2> DEFINE c == DefaultContrastCurve(600)
  <2>1. <<f, "base">> \in Below(r) BY AccentBelow, <1>3
  <2>2. d = TextLike(<<f, "base">>, <<<<f, "base">>>>, c) BY <1>3 DEF Accent2025
  <2> HIDE DEF d, r, c
  <2>3. Sound(s, r, d) BY <2>1, <2>2, LikeSound
  <2> QED BY <2>3 DEF d, r
<1>4. CASE kind = "onContainer"
  <2> DEFINE c == DefaultContrastCurve(IF f = "error" THEN 450 ELSE 600)
  <2>1. <<f, "container">> \in Below(r) BY AccentBelow, <1>4
  <2>2. d = TextLike(<<f, "container">>, <<<<f, "container">>>>, c) BY <1>4 DEF Accent2025
  <2> HIDE DEF d, r, c
  <2>3. Sound(s, r, d) BY <2>1, <2>2, LikeSound
  <2> QED BY <2>3 DEF d, r
<1>5. CASE kind = "inverse"
  <2> DEFINE c == DefaultContrastCurve(600)
             t == TMaxC(s, 0, 100)
  <2>1. <<"surface", "inverseSurface">> \in Below(r)
    BY SurfaceBelow, <1>5 DEF SurfaceGrounds
  <2>2. d = Text(t, <<<<"surface", "inverseSurface">>>>, c) BY <1>5 DEF Accent2025, Surface
  <2>3. t \in 0 .. 100
    <3>1. 0 \in 0 .. 100 /\ 100 \in 0 .. 100 OBVIOUS
    <3> QED BY <3>1, ReachIn, Zenon
  <2> HIDE DEF d, r, c, t
  <2>4. Sound(s, r, d) BY <2>1, <2>2, <2>3, TextSound
  <2> QED BY <2>4 DEF d, r
<1> QED BY <1>2, <1>3, <1>4, <1>5

LEMMA Fixed2025Sound ==
  ASSUME NEW s \in SchemeType, Spec2025(s), NEW f \in Coloured, NEW kind \in FixedKinds
  PROVE  Sound(s, <<f, kind>>, Fixed2025(s, f, kind))
<1> DEFINE d == Fixed2025(s, f, kind)
           r == <<f, kind>>
<1>1. PICK k \in SurfaceGrounds : HighestSurface(s) = <<"surface", k>> BY HighestIs
<1>2. CASE kind = "fixed"
  <2> DEFINE light == [s EXCEPT !.isDark = FALSE, !.contrast = 0]
             t == ContainerTone2025(light, f)
  <2>1. <<"surface", k>> \in Below(r) BY SurfaceBelow, <1>2
  <2>2. light \in SchemeType /\ light.variant = s.variant BY SchemeFields, Zenon
  <2>3. PICK c : d = Accent(t, <<<<"surface", k>>>>, c, {}) BY <1>1, <1>2 DEF Fixed2025
  <2> HIDE DEF light
  <2>4. t \in 0 .. 100 BY <2>2, KnownVariant, ContainerTone2025In DEF Accents
  <2> HIDE DEF d, r, t
  <2>5. Sound(s, r, d) BY <2>1, <2>3, <2>4, AccentAlone
  <2> QED BY <2>5 DEF d, r
<1>3. CASE kind = "fixedDim"
  <2> DEFINE n == 5
             b == <<f, "fixed">>
             pair == Pair(r, b, n, "darker", TRUE, "exact")
  <2>1. b \in Below(r) /\ r \in RoleSet /\ b \in RoleSet
    BY <1>3, AccentBelow, AccentRoles DEF Accents, FixedKinds
  <2>2. n \in {5, 10} OBVIOUS
  <2>3. d = [Accent(0, <<>>, <<>>, pair) EXCEPT !.like = {b}] BY <1>3 DEF Fixed2025
  <2> HIDE DEF n
  <2>4. IsPair(pair, r, b, "exact") BY <2>2, PairIs
  <2> HIDE DEF d, r, b, pair
  <2>5. /\ d.tone = 0 /\ d.like = {b} /\ d.curve = <<>> /\ d.pair = pair /\ d.isBackground = TRUE
    BY <2>3 DEF Accent, Text
  <2>6. Starts(r, d) /\ Painted(r, d)
    <3>1. 0 \in Tones BY DEF Tones
    <3>2. Starts(r, d) BY <2>1, <2>5, <3>1 DEF Starts
    <3>3. Painted(r, d) BY <2>5 DEF Painted
    <3> QED BY <3>2, <3>3
  <2>7. PICK p : pair = {p} /\ p.a = r /\ p.b = b /\ p.delta \in {25, 50} /\ p.constraint = "exact"
    BY <2>4 DEF IsPair
  <2>8. KeptApart(s, r, d, p) BY <2>1, <2>5, <2>7 DEF KeptApart
  <2>9. Sound(s, r, d) BY <2>5, <2>6, <2>7, <2>8 DEF Sound
  <2> QED BY <2>9 DEF d, r
<1>4. CASE kind \in {"onFixed", "onFixedVariant"}
  <2> DEFINE c == DefaultContrastCurve(IF kind = "onFixed" THEN 700 ELSE 450)
  <2>1. <<f, "fixedDim">> \in Below(r) BY AccentBelow, <1>4 DEF Accents
  <2>2. d = TextLike(<<f, "fixedDim">>, <<<<f, "fixedDim">>>>, c) BY <1>4 DEF Fixed2025
  <2> HIDE DEF d, r, c
  <2>3. Sound(s, r, d) BY <2>1, <2>2, LikeSound
  <2> QED BY <2>3 DEF d, r
<1> QED BY <1>2, <1>3, <1>4 DEF FixedKinds

LEMMA GroundSound ==
  ASSUME NEW s, NEW r, NEW t \in 0 .. 100, NEW d, d = Ground(t)
  PROVE  Sound(s, r, d) /\ d.like = {}
<1>1. d.tone = 5 * t /\ d.like = {} /\ d.curve = <<>> /\ d.pair = {} /\ d.isBackground = TRUE
  BY DEF Ground, Text
<1>2. 5 * t \in Tones BY DEF Tones
<1>3. Starts(r, d) BY <1>1, <1>2 DEF Starts
<1> QED BY <1>1, <1>3 DEF Sound, Painted

LEMMA SurfaceTextSound ==
  ASSUME NEW s, NEW kind \in SurfaceTexts, NEW d, SurfaceText(d)
  PROVE  Sound(s, <<"surface", kind>>, d)
<1>1. \A k \in SurfaceGrounds : <<"surface", k>> \in Below(<<"surface", kind>>)
  BY SurfaceBelow, Zenon
<1>2. Starts(<<"surface", kind>>, d) BY <1>1 DEF SurfaceText, Starts
<1>3. Painted(<<"surface", kind>>, d) BY <1>1 DEF SurfaceText, Painted
<1> QED BY <1>2, <1>3 DEF Sound, SurfaceText

LEMMA RoleCases ==
  ASSUME NEW r \in RoleSet
  PROVE  \/ \E k \in SurfaceGrounds : r = <<"surface", k>>
         \/ \E k \in SurfaceTexts : r = <<"surface", k>>
         \/ r = <<"surface", "surfaceTint">>
         \/ \E f \in Accents, k \in {"base", "container", "on", "onContainer"} : r = <<f, k>>
         \/ \E f \in Accents : r = <<f, "dim">>
         \/ r = <<"primary", "inverse">>
         \/ \E f \in Coloured, k \in FixedKinds : r = <<f, k>>
  BY DEF RoleSet, Accents, PlainKinds

LEMMA Sound2021 ==
  ASSUME NEW s \in SchemeType, ~Spec2025(s), NEW r \in RoleSet
  PROVE  Sound(s, r, Definition2021(s, r)) /\ Definition2021(s, r).like = {}
<1>1. ASSUME NEW k \in SurfaceGrounds \cup {"surfaceTint"}, r = <<"surface", k>>
      PROVE  Sound(s, r, Definition2021(s, r)) /\ Definition2021(s, r).like = {}
  <2>0. r[1] = "surface" /\ r[2] = k BY <1>1
  <2>3. k \notin SurfaceTexts BY DEF SurfaceTexts, SurfaceGrounds
  <2>1. Definition2021(s, r) = Surface2021(s, k)
    BY <2>0, <2>3 DEF Definition2021, FixedKinds, SurfaceGrounds
  <2>2. PICK t \in 0 .. 100 : Surface2021(s, k) = Ground(t) BY Surface2021Is
  <2> QED BY <2>1, <2>2, GroundSound
<1>2. ASSUME NEW k \in SurfaceTexts, r = <<"surface", k>>
      PROVE  Sound(s, r, Definition2021(s, r)) /\ Definition2021(s, r).like = {}
  <2>0. r[1] = "surface" /\ r[2] = k BY <1>2
  <2>1. Definition2021(s, r) = SurfaceText2021(s, k)
    BY <2>0 DEF Definition2021, FixedKinds, SurfaceTexts
  <2> QED BY <1>2, <2>1, SurfaceText2021Is, SurfaceTextSound
<1>3. ASSUME NEW f \in Accents, NEW k \in {"base", "container", "on", "onContainer"}, r = <<f, k>>
      PROVE  Sound(s, r, Definition2021(s, r)) /\ Definition2021(s, r).like = {}
  <2>1. Definition2021(s, r) = Accent2021(s, f, k)
    BY <1>3 DEF Definition2021, Accents, Coloured, FixedKinds
  <2> QED BY <1>3, <2>1, Accent2021Sound
<1>4. ASSUME NEW f \in Accents, r = <<f, "dim">>
      PROVE  Sound(s, r, Definition2021(s, r)) /\ Definition2021(s, r).like = {}
  <2>1. Definition2021(s, r) = Dim(s, f)
    BY <1>4 DEF Definition2021, Accents, Coloured, FixedKinds
  <2> QED BY <1>4, <2>1, DimSound
<1>5. ASSUME r = <<"primary", "inverse">>
      PROVE  Sound(s, r, Definition2021(s, r)) /\ Definition2021(s, r).like = {}
  <2>1. Definition2021(s, r) = Accent2021(s, "primary", "inverse")
    BY <1>5 DEF Definition2021, FixedKinds
  <2>2. "primary" \in Accents BY DEF Accents, Coloured
  <2> QED BY <1>5, <2>1, <2>2, Accent2021Sound
<1>6. ASSUME NEW f \in Coloured, NEW k \in FixedKinds, r = <<f, k>>
      PROVE  Sound(s, r, Definition2021(s, r)) /\ Definition2021(s, r).like = {}
  <2>0. r[1] = f /\ r[2] = k /\ f # "surface" BY <1>6 DEF Coloured
  <2>1. Definition2021(s, r) = Fixed2021(s, f, k)
    BY <2>0 DEF Definition2021, FixedKinds
  <2> QED BY <1>6, <2>1, Fixed2021Sound
<1> QED BY <1>1, <1>2, <1>3, <1>4, <1>5, <1>6, RoleCases

LEMMA Sound2025 ==
  ASSUME NEW s \in SchemeType, Spec2025(s), NEW r \in RoleSet
  PROVE  Sound(s, r, Definition2025(s, r))
<1>1. ASSUME NEW k \in SurfaceGrounds, r = <<"surface", k>>
      PROVE  Sound(s, r, Definition2025(s, r))
  <2>0. r[1] = "surface" /\ r[2] = k /\ r # Surface("surfaceTint") BY <1>1 DEF Surface, SurfaceGrounds
  <2>3. k \notin SurfaceTexts \cup {"surfaceTint"} BY DEF SurfaceTexts, SurfaceGrounds
  <2>4. k \notin SurfaceTexts \ {"shadow", "scrim"} /\ k \notin {"shadow", "scrim"}
    BY DEF SurfaceTexts, SurfaceGrounds
  <2>1. Definition2025(s, r) = Surface2025(s, k)
    BY <2>0, <2>3, <2>4 DEF Definition2025, FixedKinds, SurfaceGrounds
  <2>2. PICK t \in 0 .. 100 : Surface2025(s, k) = Ground(t) BY Surface2025Is
  <2> QED BY <2>1, <2>2, GroundSound
<1>2. ASSUME NEW k \in {"shadow", "scrim"}, r = <<"surface", k>>
      PROVE  Sound(s, r, Definition2025(s, r))
  <2>0. r[1] = "surface" /\ r[2] = k /\ r # Surface("surfaceTint") BY <1>2 DEF Surface
  <2>2. k \in SurfaceTexts BY DEF SurfaceTexts
  <2>3. Definition2025(s, r) = Definition2021(s, r)
    BY <2>0, <2>2 DEF Definition2025, FixedKinds
  <2>4. Definition2021(s, r) = SurfaceText2021(s, k)
    BY <2>0, <2>2 DEF Definition2021, FixedKinds
  <2>1. Definition2025(s, r) = SurfaceText2021(s, k) BY <2>3, <2>4
  <2> QED BY <1>2, <2>1, <2>2, SurfaceText2021Is, SurfaceTextSound
<1>3. ASSUME NEW k \in SurfaceTexts \ {"shadow", "scrim"}, r = <<"surface", k>>
      PROVE  Sound(s, r, Definition2025(s, r))
  <2>0. r[1] = "surface" /\ r[2] = k /\ r # Surface("surfaceTint") BY <1>3 DEF Surface, SurfaceTexts
  <2>2. k \notin FixedKinds /\ k # "dim" BY DEF SurfaceTexts, FixedKinds
  <2>1. Definition2025(s, r) = SurfaceText2025(s, k)
    BY <2>0, <2>2 DEF Definition2025
  <2> QED BY <1>3, <2>1, SurfaceText2025Is, SurfaceTextSound
<1>4. ASSUME r = <<"surface", "surfaceTint">>
      PROVE  Sound(s, r, Definition2025(s, r))
  <2>1. Definition2025(s, r) = Accent2025(s, "primary", "base")
    BY <1>4 DEF Definition2025, SurfaceTexts, FixedKinds, Surface
  <2>2. "primary" \in Accents BY DEF Accents, Coloured
  <2> QED BY <1>4, <2>1, <2>2, Base2025Sound
<1>5. ASSUME NEW f \in Accents, NEW k \in {"base", "container", "on", "onContainer"}, r = <<f, k>>
      PROVE  Sound(s, r, Definition2025(s, r))
  <2>1. Definition2025(s, r) = Accent2025(s, f, k)
    BY <1>5 DEF Definition2025, Accents, Coloured, FixedKinds, Surface
  <2>2. CASE k = "base" BY <1>5, <2>1, <2>2, Base2025Sound
  <2>3. CASE k # "base" BY <1>5, <2>1, <2>3, Accent2025Sound
  <2> QED BY <2>2, <2>3
<1>6. ASSUME NEW f \in Accents, r = <<f, "dim">>
      PROVE  Sound(s, r, Definition2025(s, r))
  <2>1. Definition2025(s, r) = Dim(s, f)
    BY <1>6 DEF Definition2025, Definition2021, Accents, Coloured, FixedKinds, Surface
  <2> QED BY <1>6, <2>1, DimSound
<1>7. ASSUME r = <<"primary", "inverse">>
      PROVE  Sound(s, r, Definition2025(s, r))
  <2>1. Definition2025(s, r) = Accent2025(s, "primary", "inverse")
    BY <1>7 DEF Definition2025, FixedKinds, Surface
  <2>2. "primary" \in Accents BY DEF Accents, Coloured
  <2> QED BY <1>7, <2>1, <2>2, Accent2025Sound
<1>8. ASSUME NEW f \in Coloured, NEW k \in FixedKinds, r = <<f, k>>
      PROVE  Sound(s, r, Definition2025(s, r))
  <2>1. Definition2025(s, r) = Fixed2025(s, f, k)
    BY <1>8 DEF Definition2025, Coloured, FixedKinds, Surface
  <2> QED BY <1>8, <2>1, Fixed2025Sound
<1> QED BY <1>1, <1>2, <1>3, <1>4, <1>5, <1>6, <1>7, <1>8, RoleCases

LEMMA DefinitionSound ==
  ASSUME NEW s \in SchemeType, NEW r \in RoleSet
  PROVE  /\ Sound(s, r, Definition(s, r))
         /\ ~Spec2025(s) => Definition(s, r).like = {}
  BY Sound2021, Sound2025 DEF Definition

LEMMA BaseHasOwn ==
  ASSUME NEW s \in SchemeType, NEW f \in Accents
  PROVE  Definition(s, <<f, "base">>).like = {}
<1>1. <<f, "base">> \in RoleSet BY AccentRoles DEF Accents, PlainKinds
<1>2. CASE Spec2025(s)
  <2>1. Definition(s, <<f, "base">>) = Accent2025(s, f, "base")
    BY <1>2 DEF Definition, Definition2025, Accents, Coloured, FixedKinds, Surface
  <2> QED BY <1>2, <2>1, Base2025Sound
<1>3. CASE ~Spec2025(s) BY <1>1, <1>3, DefinitionSound
<1> QED BY <1>2, <1>3

-----------------------------------------------------------------------------
(* MaterialRoles: the enumeration of the roles.                            *)

\* One family of the enumeration.
Family(f, kinds) == [i \in DOMAIN kinds |-> <<f, kinds[i]>>]

\* s has the elements of S, once or more.
Enumerates(s, S) == s \in Seq(S) /\ ToSet(s) = S

LEMMA FamilyIs ==
  ASSUME NEW f, NEW K, NEW kinds, Enumerates(kinds, K)
  PROVE  Enumerates(Family(f, kinds), {f} \X K)
<1>0. kinds \in Seq(K) /\ ToSet(kinds) = K BY DEF Enumerates
<1>1. Len(kinds) \in Nat /\ DOMAIN kinds = 1 .. Len(kinds) /\ \A i \in DOMAIN kinds : kinds[i] \in K
  BY <1>0, LenProperties
<1>2. Family(f, kinds) \in Seq({f} \X K)
  BY <1>1 DEF Family
<1>3. ToSet(Family(f, kinds)) = {<<f, kinds[i]>> : i \in DOMAIN kinds}
  BY DEF ToSet, Family
<1>4. K = {kinds[i] : i \in DOMAIN kinds}
  BY <1>0 DEF ToSet
<1> QED BY <1>2, <1>3, <1>4 DEF Enumerates

LEMMA JoinIs ==
  ASSUME NEW A, NEW B, NEW s, NEW t, Enumerates(s, A), Enumerates(t, B)
  PROVE  Enumerates(s \o t, A \cup B)
<1>0. s \in Seq(A) /\ t \in Seq(B) /\ ToSet(s) = A /\ ToSet(t) = B BY DEF Enumerates
<1>1. s \in Seq(A \cup B) /\ t \in Seq(A \cup B)
  BY <1>0, LenProperties
<1>2. s \o t \in Seq(A \cup B) BY <1>1
<1>3. A \subseteq ToSet(s \o t)
  <2>1. A = {s[i] : i \in DOMAIN s} BY <1>0 DEF ToSet
  <2>2. \A j \in DOMAIN s : j \in DOMAIN (s \o t) /\ (s \o t)[j] = s[j] BY <1>1, Grown
  <2> QED BY <2>1, <2>2 DEF ToSet
<1>4. B \subseteq ToSet(s \o t)
  <2>1. B = {t[i] : i \in DOMAIN t} BY <1>0 DEF ToSet
  <2>2. \A j \in DOMAIN t : Len(s) + j \in DOMAIN (s \o t) /\ (s \o t)[Len(s) + j] = t[j] BY <1>1, Grown
  <2> QED BY <2>1, <2>2 DEF ToSet
<1>5. ToSet(s \o t) \subseteq A \cup B
  <2>1. \A i \in DOMAIN (s \o t) : (s \o t)[i] \in A \cup B BY <1>2, LenProperties
  <2> QED BY <2>1 DEF ToSet
<1> QED BY <1>2, <1>3, <1>4, <1>5 DEF Enumerates

LEMMA RolesAre == Roles \in Seq(RoleSet) /\ ToSet(Roles) = RoleSet
<1> DEFINE surfaces == <<"background", "onBackground", "surface", "surfaceDim", "surfaceBright",
                        "containerLowest", "containerLow", "container", "containerHigh",
                        "containerHighest", "onSurface", "surfaceVariant", "onSurfaceVariant",
                        "outline", "outlineVariant", "inverseSurface", "inverseOnSurface",
                        "shadow", "scrim", "surfaceTint">>
           fixed == <<"fixed", "fixedDim", "onFixed", "onFixedVariant">>
           plain == <<"base", "dim", "on", "container", "onContainer">>
           inverse == <<"inverse">>
           K == SurfaceGrounds \cup SurfaceTexts \cup {"surfaceTint"}
<1>1. Enumerates(surfaces, K)
  <2>1. surfaces \in Seq(K) BY DEF SurfaceGrounds, SurfaceTexts
  <2>2. ToSet(surfaces) = {surfaces[i] : i \in 1 .. 20} BY DEF ToSet
  <2>3. K \subseteq ToSet(surfaces) BY <2>2 DEF SurfaceGrounds, SurfaceTexts
  <2>4. ToSet(surfaces) \subseteq K BY <2>1, LenProperties DEF ToSet
  <2> QED BY <2>1, <2>3, <2>4 DEF Enumerates
<1>2. Enumerates(fixed, FixedKinds) BY DEF FixedKinds, ToSet, Enumerates
<1>3. Enumerates(plain, PlainKinds) BY DEF PlainKinds, ToSet, Enumerates
<1>4. Enumerates(inverse, {"inverse"}) BY DEF ToSet, Enumerates
<1>5. Roles = Family("surface", surfaces) \o Family("primary", plain \o inverse \o fixed)
                \o Family("secondary", plain \o fixed) \o Family("tertiary", plain \o fixed)
                \o Family("error", plain)
  BY DEF Roles, Family
<1> HIDE DEF surfaces, fixed, plain, inverse, K
<1>6. Enumerates(plain \o fixed, PlainKinds \cup FixedKinds) BY <1>2, <1>3, JoinIs
<1>7. Enumerates(plain \o inverse \o fixed, PlainKinds \cup {"inverse"} \cup FixedKinds)
  <2>1. Enumerates(plain \o inverse, PlainKinds \cup {"inverse"}) BY <1>3, <1>4, JoinIs
  <2> QED BY <1>2, <2>1, JoinIs
<1> DEFINE s1 == Family("surface", surfaces)
           s2 == Family("primary", plain \o inverse \o fixed)
           s3 == Family("secondary", plain \o fixed)
           s4 == Family("tertiary", plain \o fixed)
           s5 == Family("error", plain)
           K1 == {"surface"} \X K
           K2 == {"primary"} \X (PlainKinds \cup {"inverse"} \cup FixedKinds)
           K3 == {"secondary"} \X (PlainKinds \cup FixedKinds)
           K4 == {"tertiary"} \X (PlainKinds \cup FixedKinds)
           K5 == {"error"} \X PlainKinds
<1>8. Enumerates(s1, K1) /\ Enumerates(s2, K2) /\ Enumerates(s3, K3) /\ Enumerates(s4, K4) /\ Enumerates(s5, K5)
  BY <1>1, <1>3, <1>6, <1>7, FamilyIs
<1>9. Roles = s1 \o s2 \o s3 \o s4 \o s5 BY <1>5
<1>10. RoleSet = K1 \cup K2 \cup K3 \cup K4 \cup K5
  BY DEF RoleSet, K, Coloured
<1> HIDE DEF s1, s2, s3, s4, s5, K1, K2, K3, K4, K5
<1>11. Enumerates(s1 \o s2, K1 \cup K2) BY <1>8, JoinIs
<1>12. Enumerates(s1 \o s2 \o s3, K1 \cup K2 \cup K3) BY <1>8, <1>11, JoinIs
<1>13. Enumerates(s1 \o s2 \o s3 \o s4, K1 \cup K2 \cup K3 \cup K4) BY <1>8, <1>12, JoinIs
<1>14. Enumerates(s1 \o s2 \o s3 \o s4 \o s5, K1 \cup K2 \cup K3 \cup K4 \cup K5) BY <1>8, <1>13, JoinIs
<1>15. Enumerates(Roles, RoleSet) BY <1>9, <1>10, <1>14
<1> QED BY <1>15 DEF Enumerates

-----------------------------------------------------------------------------
(* MaterialRoles: the tones a role asks for, and the tone it gets.         *)

LEMMA DefinedSound ==
  ASSUME NEW s \in SchemeType, defs = [r \in RoleSet |-> Definition(s, r)], NEW r \in RoleSet
  PROVE  /\ Sound(s, r, defs[r])
         /\ ~Spec2025(s) => defs[r].like = {}
         /\ defs[r].tone \in Tones /\ defs[r].isBackground \in BOOLEAN
         /\ \A f \in Accents : r = <<f, "base">> => defs[r].like = {}
<1>1. defs[r] = Definition(s, r) OBVIOUS
<1>2. ~Spec2025(s) => defs[r].like = {} BY <1>1, DefinitionSound
<1>3. Sound(s, r, defs[r]) BY <1>1, DefinitionSound
<1>4. defs[r].tone \in Tones /\ defs[r].isBackground \in BOOLEAN BY <1>3 DEF Sound, Starts
<1>5. \A f \in Accents : r = <<f, "base">> => defs[r].like = {} BY <1>1, BaseHasOwn, Zenon
<1> QED BY <1>2, <1>3, <1>4, <1>5

LEMMA GroundsBelow ==
  ASSUME NEW s, NEW r, Painted(r, defs[r])
  PROVE  /\ Grounds(s, r) \subseteq Below(r)
         /\ defs[r].curve # <<>> => /\ defs[r].on[1] \in Grounds(s, r)
                                    /\ Len(defs[r].on) # 1 => defs[r].on[2] \in Grounds(s, r)
<1> DEFINE d == defs[r]
<1>1. CASE d.curve = <<>> BY <1>1 DEF Grounds
<1>2. ASSUME NEW q \in Below(r), d.curve # <<>>, d.on = <<q>>
      PROVE  /\ Grounds(s, r) \subseteq Below(r) /\ d.on[1] \in Grounds(s, r) /\ Len(d.on) = 1
  <2>1. DOMAIN d.on = {1} /\ d.on[1] = q /\ Len(d.on) = 1 BY <1>2
  <2>2. Grounds(s, r) = {d.on[i] : i \in DOMAIN d.on} BY <1>2 DEF Grounds
  <2> QED BY <2>1, <2>2
<1>3. ASSUME NEW q1 \in Below(r), NEW q2 \in Below(r), d.curve # <<>>, d.on = <<q1, q2>>
      PROVE  /\ Grounds(s, r) \subseteq Below(r)
             /\ d.on[1] \in Grounds(s, r) /\ d.on[2] \in Grounds(s, r)
  <2>1. DOMAIN d.on = {1, 2} /\ d.on[1] = q1 /\ d.on[2] = q2 BY <1>3
  <2>2. Grounds(s, r) = {d.on[i] : i \in DOMAIN d.on} BY <1>3 DEF Grounds
  <2> QED BY <2>1, <2>2
<1> QED BY <1>1, <1>2, <1>3 DEF Painted

\* The tones of a pair that its member r asks for.
PairNeeds(s, r, p) ==
  IF Spec2025(s) THEN IF r = p.a THEN defs[r].like \cup {p.b} ELSE defs[p.b].like \cup {p.a}
  ELSE defs[p.a].like \cup defs[p.b].like

LEMMA NeedsAre ==
  ASSUME NEW s, NEW r
  PROVE  /\ defs[r].pair = {} => Needs(s, r) = Grounds(s, r) \cup defs[r].like
         /\ \A p : defs[r].pair = {p} => Needs(s, r) = Grounds(s, r) \cup PairNeeds(s, r, p)
<1> DEFINE P(p) == PairNeeds(s, r, p)
<1>1. defs[r].pair # {} => Needs(s, r) = Grounds(s, r) \cup (UNION {P(p) : p \in defs[r].pair})
  BY DEF Needs, PairNeeds
<1>2. \A p : (UNION {P(x) : x \in {p}}) = P(p)
  <2> HIDE DEF P
  <2> QED OBVIOUS
<1>3. defs[r].pair = {} => Needs(s, r) = Grounds(s, r) \cup defs[r].like
  BY DEF Needs
<1>4. ASSUME NEW p, defs[r].pair = {p} PROVE Needs(s, r) = Grounds(s, r) \cup PairNeeds(s, r, p)
  <2>1. Needs(s, r) = Grounds(s, r) \cup (UNION {P(x) : x \in {p}}) BY <1>1, <1>4
  <2> QED BY <2>1, <1>2
<1> QED BY <1>3, <1>4

LEMMA NeedsBelow ==
  ASSUME NEW s \in SchemeType, defs = [r \in RoleSet |-> Definition(s, r)], NEW r \in RoleSet
  PROVE  Needs(s, r) \subseteq Below(r)
<1> DEFINE d == defs[r]
<1>1. Sound(s, r, d) BY DefinedSound
<1>2. Grounds(s, r) \subseteq Below(r) BY <1>1, GroundsBelow DEF Sound
<1>3. d.like \subseteq Below(r) BY <1>1 DEF Sound, Starts
<1>4. CASE d.pair = {} BY <1>2, <1>3, <1>4, NeedsAre
<1>5. ASSUME NEW p, d.pair = {p}, KeptApart(s, r, d, p) PROVE Needs(s, r) \subseteq Below(r)
  <2>1. Needs(s, r) = Grounds(s, r) \cup PairNeeds(s, r, p) BY <1>5, NeedsAre
  <2>2. p.a \in RoleSet /\ p.b \in RoleSet BY <1>5 DEF KeptApart
  <2>3. CASE ~Spec2025(s)
    <3>1. defs[p.a].like = {} /\ defs[p.b].like = {} BY <2>2, <2>3, DefinedSound
    <3> QED BY <1>2, <2>1, <2>3, <3>1 DEF PairNeeds
  <2>4. CASE Spec2025(s) /\ r = p.a
    <3>1. p.b \in Below(r) BY <1>5, <2>4 DEF KeptApart
    <3> QED BY <1>2, <1>3, <2>1, <2>4, <3>1 DEF PairNeeds
  <2>5. CASE Spec2025(s) /\ r # p.a
    <3>1. p.a \in Below(r) /\ \E f \in Accents : p.b = <<f, "base">> BY <1>5, <2>5 DEF KeptApart
    <3>2. defs[p.b].like = {} BY <2>2, <3>1, DefinedSound
    <3> QED BY <1>2, <2>1, <2>5, <3>1, <3>2 DEF PairNeeds
  <2> QED BY <2>3, <2>4, <2>5
<1> QED BY <1>1, <1>4, <1>5 DEF Sound

LEMMA SettledIn ==
  ASSUME NEW role, NEW d, NEW t \in Int, t \in Tones \/ (d.isBackground /\ role[2] # "fixedDim")
  PROVE  Settle2025(role, d, t) \in Tones
  BY DEF Settle2025, Clamp, Tones

LEMMA CalmIn ==
  ASSUME NEW d, NEW t \in Tones, NEW ground, NEW ratio
  PROVE  Settle2021(d, t, ground, ratio) \in Tones
  BY DEF Settle2021, Tones

LEMMA LegibleIn ==
  ASSUME NEW s, NEW t, NEW ground \in Tones, NEW ratio
  PROVE  Legibly(s, t, ground, ratio) = t \/ Legibly(s, t, ground, ratio) \in Tones
  BY ForegroundIn DEF Legibly

LEMMA OnBothIn ==
  ASSUME NEW t \in Tones, NEW ground \in Tones, NEW other \in Tones, NEW ratio
  PROVE  OnBoth(t, ground, other, ratio) \in Tones
<1> DEFINE upper == IF ground > other THEN ground ELSE other
           lower == IF ground > other THEN other ELSE ground
<1>1. upper \in Tones /\ lower \in Tones OBVIOUS
<1> DEFINE lights == {u \in upper .. 500 : RatioOfTones(upper, u) >= ratio /\ u + 2 <= 500}
           darks  == {u \in 0 .. lower : RatioOfTones(lower, u) >= ratio /\ u >= 2}
           light == IF lights = {} THEN 500 ELSE Min(lights) + 2
           dark  == IF darks = {} THEN 0 ELSE Max(darks) - 2
<1>2. OnBoth(t, ground, other, ratio) \in {t, light, dark}
  BY DEF OnBoth
<1> HIDE DEF upper, lower
<1>3. lights \in SUBSET Nat /\ \A u \in lights : u + 2 \in Tones
  BY <1>1 DEF Tones
<1>4. lower \in Nat /\ darks \in SUBSET (0 .. lower) /\ \A u \in darks : u - 2 \in Tones
  BY <1>1 DEF Tones
<1> HIDE DEF lights, darks
<1>5. light \in Tones
  <2>1. lights # {} => Min(lights) \in lights BY <1>3, SmallestOf
  <2>2. CASE lights = {} BY <2>2 DEF Tones
  <2>3. CASE lights # {} BY <1>3, <2>1, <2>3
  <2> QED BY <2>2, <2>3
<1>6. dark \in Tones
  <2>1. darks # {} => Max(darks) \in darks BY <1>4, LargestOf
  <2>2. CASE darks = {} BY <2>2 DEF Tones
  <2>3. CASE darks # {} BY <1>4, <2>1, <2>3
  <2> QED BY <2>2, <2>3
<1> QED BY <1>2, <1>5, <1>6

LEMMA ClampTone ==
  ASSUME NEW t \in Int
  PROVE  Clamp(0, 500, t) \in Tones
  BY DEF Clamp, Tones

\* The tone a role starts from, of its own or of a role it asked for.
LEMMA RawIn ==
  ASSUME NEW s, NEW r, NEW tones, defs[r].tone \in Tones,
         defs[r].like = {} \/ \E q : defs[r].like = {q} /\ tones[q] \in Tones
  PROVE  RawTone(s, r, tones) \in Tones
<1>1. CASE defs[r].like = {} BY <1>1 DEF RawTone
<1>2. ASSUME NEW q, defs[r].like = {q}, tones[q] \in Tones PROVE RawTone(s, r, tones) \in Tones
  <2>1. (CHOOSE x \in defs[r].like : TRUE) = q BY <1>2
  <2>2. RawTone(s, r, tones) = tones[q] BY <1>2, <2>1 DEF RawTone
  <2> QED BY <1>2, <2>2
<1> QED BY <1>1, <1>2

LEMMA SingleIn ==
  ASSUME NEW s, NEW r, NEW tones, Starts(r, defs[r]), Painted(r, defs[r]), defs[r].pair = {},
         \A q \in Needs(s, r) : tones[q] \in Tones
  PROVE  Single(s, r, defs[r], tones) \in Tones
<1> DEFINE d == defs[r]
           raw == RawTone(s, r, tones)
           ground == GroundTone(s, d.on[1], tones)
           ratio == CurveAt(d.curve, s.contrast)
           one == Legibly(s, raw, ground, ratio)
           calm == IF Spec2025(s) THEN Settle2025(r, d, one) ELSE Settle2021(d, one, ground, ratio)
           both == OnBoth(calm, ground, tones[d.on[2]], ratio)
<1>1. Needs(s, r) = Grounds(s, r) \cup d.like BY NeedsAre
<1>2. raw \in Tones
  <2>1. d.like = {} \/ \E q : d.like = {q} /\ tones[q] \in Tones BY <1>1 DEF Starts
  <2> QED BY <2>1, RawIn DEF Starts
<1>3. Single(s, r, d, tones) = IF d.curve = <<>> THEN raw ELSE IF Len(d.on) = 1 THEN calm ELSE both
  BY DEF Single
<1>4. CASE d.curve # <<>>
  <2>1. ground \in Tones /\ (Len(d.on) # 1 => tones[d.on[2]] \in Tones)
    BY <1>1, <1>4, GroundsBelow DEF GroundTone
  <2> HIDE DEF raw, ground, ratio
  <2>2. one \in Tones BY <1>2, <2>1, LegibleIn
  <2> HIDE DEF one, d
  <2>3. Settle2025(r, d, one) \in Tones
    <3>1. one \in Int BY <2>2 DEF Tones
    <3> QED BY <2>2, <3>1, SettledIn
  <2>4. Settle2021(d, one, ground, ratio) \in Tones BY <2>2, CalmIn
  <2>5. calm \in Tones BY <2>3, <2>4
  <2> HIDE DEF calm
  <2>6. Len(d.on) # 1 => both \in Tones BY <2>1, <2>5, OnBothIn
  <2> HIDE DEF both
  <2>7. Single(s, r, d, tones) \in Tones BY <1>3, <1>4, <2>5, <2>6
  <2> QED BY <2>7 DEF d
<1>5. CASE d.curve = <<>> BY <1>2, <1>3, <1>5
<1> QED BY <1>4, <1>5

LEMMA Pair2021In ==
  ASSUME NEW s, NEW r, NEW d, NEW p, NEW tones, r \in {p.a, p.b}, p.delta \in {25, 50},
         \A q \in {p.a, p.b} : RawTone(s, q, tones) \in Tones,
         tones[d.on[1]] \in Tones
  PROVE  Pair2021(s, r, d, p, tones) \in Tones
<1> DEFINE aIsNearer == p.polarity = "nearer" \/ p.polarity = ByMode(s, "darker", "lighter")
           near == IF aIsNearer THEN p.a ELSE p.b
           far  == IF aIsNearer THEN p.b ELSE p.a
           dir  == ByMode(s, 1, -1)
           edge == ByMode(s, 300, 245)
           Awkward(t) == 250 <= t /\ t < 300
           Start(x) == Legibly(s, RawTone(s, x, tones), tones[d.on[1]], CurveAt(defs[x].curve, s.contrast))
           near0 == Start(near)
           far0  == Start(far)
           close == (far0 - near0) * dir < p.delta
           far1  == IF close THEN Clamp(0, 500, near0 + p.delta * dir) ELSE far0
           near1 == IF close /\ (far1 - near0) * dir < p.delta
                    THEN Clamp(0, 500, far1 - p.delta * dir) ELSE near0
           both  == Awkward(near1) \/ (Awkward(far1) /\ p.stayTogether)
           past  == edge + p.delta * dir
<1>1. \A x \in {p.a, p.b} : Start(x) \in Tones
  BY LegibleIn
<1>2. near \in {p.a, p.b} /\ far \in {p.a, p.b} OBVIOUS
<1>3. near0 \in Tones /\ far0 \in Tones BY <1>1, <1>2
<1>4. dir \in {1, -1} /\ edge \in Tones /\ past \in Tones
  BY DEF ByMode, Tones
<1>5. p.delta * dir \in Int
  <2> HIDE DEF dir
  <2> QED BY <1>4
<1>6. Pair2021(s, r, d, p, tones) =
        IF r = near THEN IF both THEN edge ELSE near1
        ELSE IF both THEN IF (far1 - past) * dir > 0 THEN far1 ELSE past
        ELSE IF Awkward(far1) THEN edge ELSE far1
  BY Zenon DEF Pair2021
<1> HIDE DEF near0, far0, dir, edge, past, near, far, Start, aIsNearer
<1>7. far1 \in Tones
  <2>1. near0 + p.delta * dir \in Int BY <1>3, <1>5 DEF Tones
  <2>2. Clamp(0, 500, near0 + p.delta * dir) \in Tones BY <2>1, ClampTone
  <2> HIDE DEF close
  <2> QED BY <1>3, <2>2
<1> HIDE DEF far1
<1>8. near1 \in Tones
  <2>1. far1 - p.delta * dir \in Int BY <1>5, <1>7 DEF Tones
  <2>2. Clamp(0, 500, far1 - p.delta * dir) \in Tones BY <2>1, ClampTone
  <2> HIDE DEF close
  <2> QED BY <1>3, <2>2
<1> HIDE DEF near1, both, Awkward
<1> QED BY <1>4, <1>6, <1>7, <1>8

\* A member of a 2025 pair, before it is settled: a tone, or beyond the tones by its delta.
LEMMA Pair2025In ==
  ASSUME NEW s, NEW r, NEW d, NEW p, NEW tones, p.delta \in {25, 50},
         RawTone(s, IF r = p.a THEN p.a ELSE p.b, tones) \in Tones,
         tones[IF r = p.a THEN p.b ELSE p.a] \in Tones,
         d.curve # <<>> => tones[d.on[1]] \in Tones,
         p.constraint \in {"exact", "farther"}
  PROVE  /\ Pair2025(s, r, d, p, tones) \in Int
         /\ p.constraint = "exact" => Pair2025(s, r, d, p, tones) \in Tones
<1> DEFINE lower == p.polarity = "darker" \/ p.polarity = ByMode(s, "relativeLighter", "relativeDarker")
           amA   == r = p.a
           ref   == tones[IF amA THEN p.b ELSE p.a]
           raw   == RawTone(s, IF amA THEN p.a ELSE p.b, tones)
           delta == IF lower = amA THEN -p.delta ELSE p.delta
           kept  ==
             CASE p.constraint = "exact" -> Clamp(0, 500, ref + delta)
               [] p.constraint = "farther" /\ delta > 0  -> Clamp(ref + delta, 500, raw)
               [] p.constraint = "farther" /\ delta <= 0 -> Clamp(0, ref + delta, raw)
           clear == Legibly(s, kept, tones[d.on[1]], CurveAt(d.curve, s.contrast))
<1>1. Pair2025(s, r, d, p, tones) = IF d.curve = <<>> THEN kept ELSE clear
  BY DEF Pair2025
<1>2. ref \in Tones /\ raw \in Tones /\ delta \in Int OBVIOUS
<1> HIDE DEF ref, raw, delta
<1>3. ref + delta \in Int /\ raw \in Int BY <1>2 DEF Tones
<1>4. kept \in Int /\ (p.constraint = "exact" => kept \in Tones)
  <2>1. CASE p.constraint = "exact"
    <3>1. kept = Clamp(0, 500, ref + delta) BY <2>1
    <3>2. Clamp(0, 500, ref + delta) \in Tones BY <1>3, ClampTone
    <3>3. kept \in Tones BY <3>1, <3>2
    <3> HIDE DEF kept
    <3> QED BY <3>3 DEF Tones
  <2>2. CASE p.constraint = "farther"
    <3>1. kept = Clamp(ref + delta, 500, raw) \/ kept = Clamp(0, ref + delta, raw) BY <1>2, <2>2
    <3>2. Clamp(ref + delta, 500, raw) \in Int /\ Clamp(0, ref + delta, raw) \in Int BY <1>3 DEF Clamp
    <3> QED BY <2>2, <3>1, <3>2, Zenon
  <2> QED BY <2>1, <2>2
<1> HIDE DEF kept
<1>5. CASE d.curve = <<>> BY <1>1, <1>4, <1>5
<1>6. CASE d.curve # <<>>
  <2>1. clear = kept \/ clear \in Tones BY <1>6, LegibleIn
  <2>2. Tones \subseteq Int BY DEF Tones
  <2> HIDE DEF clear
  <2> QED BY <1>1, <1>4, <1>6, <2>1, <2>2
<1> QED BY <1>5, <1>6

LEMMA ToneIn ==
  ASSUME NEW s \in SchemeType, defs = [x \in RoleSet |-> Definition(s, x)], NEW r \in RoleSet,
         NEW tones, \A q \in Needs(s, r) : tones[q] \in Tones
  PROVE  ToneOf(s, r, tones) \in Tones
<1> DEFINE d == defs[r]
<1>1. Sound(s, r, d) /\ Starts(r, d) /\ Painted(r, d) BY DefinedSound DEF Sound
<1>2. CASE d.pair = {}
  <2>1. ToneOf(s, r, tones) = Single(s, r, defs[r], tones) BY <1>2 DEF ToneOf
  <2> QED BY <1>1, <1>2, <2>1, SingleIn
<1>3. ASSUME NEW p, d.pair = {p}, KeptApart(s, r, d, p) PROVE ToneOf(s, r, tones) \in Tones
  <2>1. Needs(s, r) = Grounds(s, r) \cup PairNeeds(s, r, p) BY <1>3, NeedsAre
  <2>2. p.a \in RoleSet /\ p.b \in RoleSet /\ p.delta \in {25, 50} BY <1>3 DEF KeptApart
  <2>3. d.curve # <<>> => tones[d.on[1]] \in Tones BY <1>1, <2>1, GroundsBelow
  <2>4. (CHOOSE x \in d.pair : TRUE) = p BY <1>3
  <2>5. d.pair # {} BY <1>3
  <2>6. defs[p.a].tone \in Tones /\ defs[p.b].tone \in Tones BY <2>2, DefinedSound
  <2>7. CASE ~Spec2025(s)
    <3>1. ToneOf(s, r, tones) = Pair2021(s, r, d, p, tones) BY <2>4, <2>5, <2>7 DEF ToneOf
    <3>2. defs[p.a].like = {} /\ defs[p.b].like = {} BY <2>2, <2>7, DefinedSound
    <3>3. \A q \in {p.a, p.b} : RawTone(s, q, tones) \in Tones BY <2>6, <3>2, RawIn
    <3>4. d.curve # <<>> /\ r \in {p.a, p.b} BY <1>3, <2>7 DEF KeptApart
    <3>5. tones[d.on[1]] \in Tones BY <2>3, <3>4
    <3> HIDE DEF d
    <3>6. Pair2021(s, r, d, p, tones) \in Tones BY <2>2, <3>3, <3>4, <3>5, Pair2021In
    <3> QED BY <3>1, <3>6
  <2>8. CASE Spec2025(s)
    <3> DEFINE t == Pair2025(s, r, d, p, tones)
    <3>1. ToneOf(s, r, tones) = Settle2025(r, d, t) BY <2>4, <2>5, <2>8 DEF ToneOf
    <3>2. /\ p.constraint \in {"exact", "farther"}
          /\ p.constraint = "exact" => r = p.a
          /\ p.constraint = "farther" => d.isBackground /\ r[2] # "fixedDim"
          /\ r # p.a => \E f \in Accents : p.b = <<f, "base">>
      BY <1>3, <2>8 DEF KeptApart
    <3>3. /\ RawTone(s, IF r = p.a THEN p.a ELSE p.b, tones) \in Tones
          /\ tones[IF r = p.a THEN p.b ELSE p.a] \in Tones
      <4>1. CASE r = p.a
        <5>1. Needs(s, r) = Grounds(s, r) \cup (d.like \cup {p.b}) BY <2>1, <2>8, <4>1 DEF PairNeeds
        <5>2. d.like = {} \/ \E q : d.like = {q} /\ tones[q] \in Tones BY <1>1, <5>1 DEF Starts
        <5>3. RawTone(s, r, tones) \in Tones BY <2>6, <4>1, <5>2, RawIn
        <5> QED BY <4>1, <5>1, <5>3
      <4>2. CASE r # p.a
        <5>1. Needs(s, r) = Grounds(s, r) \cup (defs[p.b].like \cup {p.a}) BY <2>1, <2>8, <4>2 DEF PairNeeds
        <5>2. defs[p.b].like = {} BY <2>2, <3>2, <4>2, DefinedSound, Zenon
        <5>3. RawTone(s, p.b, tones) \in Tones BY <2>6, <5>2, RawIn
        <5> QED BY <4>2, <5>1, <5>3
      <4> QED BY <4>1, <4>2
    <3> HIDE DEF d
    <3>4. t \in Int /\ (p.constraint = "exact" => t \in Tones)
      BY <2>2, <2>3, <3>2, <3>3, Pair2025In
    <3>5. t \in Tones \/ (d.isBackground /\ r[2] # "fixedDim") BY <3>2, <3>4
    <3> HIDE DEF t
    <3>6. Settle2025(r, d, t) \in Tones BY <3>4, <3>5, SettledIn
    <3> QED BY <3>1, <3>6
  <2> QED BY <2>7, <2>8
<1> QED BY <1>1, <1>2, <1>3 DEF Sound

-----------------------------------------------------------------------------
(* MaterialRoles: the invariant is kept.                                   *)

LEMMA PaletteInitially == Init => PaletteInv
<1> SUFFICES ASSUME Init PROVE PaletteInv
  OBVIOUS
<1>1. PaletteInit BY DEF Init
<1>2. scheme \in Initially("palette", Schemes) /\ stack = <<>> /\ toneCache = <<>> /\ built = 0
      /\ verdict = "building"
  BY <1>1 DEF PaletteInit
<1>3. Len(Roles) \in Nat BY RolesAre
<1>4. DOMAIN toneCache = {} /\ DOMAIN stack = {} /\ stack \in Seq(RoleSet) BY <1>2
<1>5. PaletteTypeOK BY <1>2, <1>3, <1>4 DEF PaletteTypeOK
<1>6. Descends(stack) BY <1>4 DEF Descends
<1>7. ASSUME part = "palette" PROVE scheme \in Schemes /\ defs = [r \in RoleSet |-> Definition(scheme, r)]
  <2>1. scheme \in Schemes BY <1>2, <1>7 DEF Initially
  <2>2. defs = [r \in {q \in ToSet(Roles) : part = "palette"} |-> Definition(scheme, r)]
    BY <1>1 DEF PaletteInit
  <2>3. {q \in ToSet(Roles) : part = "palette"} = RoleSet BY <1>7, RolesAre
  <2> QED BY <2>1, <2>2, <2>3
<1> QED BY <1>4, <1>5, <1>6, <1>7 DEF PaletteInv

\* The innermost call may only be followed by one of lower rank.
LEMMA DescendsFurther ==
  ASSUME NEW s \in Seq(RoleSet), Descends(s), s # <<>>, NEW r \in Below(Last(s))
  PROVE  Append(s, r) \in Seq(RoleSet) /\ Descends(Append(s, r))
<1>1. r \in RoleSet /\ Rank(r) < Rank(Last(s)) BY DEF Below
<1>2. Len(s) \in Nat /\ Len(s) > 0 /\ DOMAIN s = 1 .. Len(s) /\ Last(s) = s[Len(s)]
  BY LenProperties DEF Last
<1>3. /\ Append(s, r) \in Seq(RoleSet) /\ DOMAIN Append(s, r) = 1 .. Len(s) + 1
      /\ \A i \in 1 .. Len(s) : Append(s, r)[i] = s[i]
      /\ Append(s, r)[Len(s) + 1] = r
  BY <1>1, <1>2
<1>4. \A i \in 1 .. Len(s) : Rank(r) < Rank(s[i])
  <2> SUFFICES ASSUME NEW i \in 1 .. Len(s) PROVE Rank(r) < Rank(s[i])
    OBVIOUS
  <2>1. Rank(r) \in Int /\ Rank(s[i]) \in Int /\ Rank(s[Len(s)]) \in Int BY RankNat
  <2>2. i < Len(s) => Rank(s[Len(s)]) < Rank(s[i]) BY <1>2 DEF Descends
  <2> QED BY <1>1, <1>2, <2>1, <2>2
<1> DEFINE a == Append(s, r)
<1>5. ASSUME NEW i \in DOMAIN a, NEW j \in DOMAIN a, i < j PROVE Rank(a[j]) < Rank(a[i])
  <2>1. CASE j = Len(s) + 1 BY <1>2, <1>3, <1>4, <1>5, <2>1
  <2>2. CASE j # Len(s) + 1
    <3>1. i \in DOMAIN s /\ j \in DOMAIN s BY <1>2, <1>3, <1>5, <2>2
    <3>2. a[i] = s[i] /\ a[j] = s[j] BY <1>2, <1>3, <3>1
    <3> QED BY <1>5, <3>1, <3>2 DEF Descends
  <2> QED BY <2>1, <2>2
<1> QED BY <1>3, <1>5 DEF Descends

LEMMA DescendsBack ==
  ASSUME NEW s \in Seq(RoleSet), Descends(s), s # <<>>
  PROVE  Front(s) \in Seq(RoleSet) /\ Descends(Front(s)) /\ Last(s) \in RoleSet
<1>1. Len(s) \in Nat /\ Len(s) > 0 /\ DOMAIN s = 1 .. Len(s) /\ \A i \in DOMAIN s : s[i] \in RoleSet
  BY LenProperties
<1>2. Front(s) = SubSeq(s, 1, Len(s) - 1) /\ Last(s) = s[Len(s)] BY DEF Front, Last
<1>3. /\ Front(s) \in Seq(RoleSet) /\ DOMAIN Front(s) = 1 .. Len(s) - 1
      /\ \A i \in 1 .. Len(s) - 1 : Front(s)[i] = s[i]
  BY <1>1, <1>2
<1> QED BY <1>1, <1>2, <1>3 DEF Descends

LEMMA PaletteStep ==
  ASSUME PaletteInv, part = "palette", part' = part, PaletteNext
  PROVE  PaletteInv'
<1>1. /\ scheme \in Schemes /\ defs = [r \in RoleSet |-> Definition(scheme, r)] /\ Descends(stack)
      /\ stack \in Seq(RoleSet) /\ PaletteTypeOK
  BY DEF PaletteInv
<1>2. scheme \in SchemeType BY <1>1, SchemeTyped
<1>3. /\ built \in 0 .. Len(Roles) /\ verdict \in {"building", "accepted", "rejected"}
      /\ DOMAIN toneCache \subseteq RoleSet /\ \A r \in DOMAIN toneCache : toneCache[r] \in Tones
  BY <1>1, RolesAre DEF PaletteTypeOK
<1>4. Len(Roles) \in Nat /\ \A i \in 1 .. Len(Roles) : Roles[i] \in RoleSet
  BY RolesAre, LenProperties
<1>5. scheme' = scheme /\ defs' = defs
  BY DEF PaletteNext, NextRole, Recurse, Return, Validate
<1>6. /\ stack' \in Seq(RoleSet) /\ Descends(stack')
      /\ built' \in 0 .. Len(Roles) /\ verdict' \in {"building", "accepted", "rejected"}
      /\ DOMAIN toneCache' \subseteq RoleSet /\ \A r \in DOMAIN toneCache' : toneCache'[r] \in Tones
  <2>1. CASE NextRole
    <3>1. built' \in 0 .. Len(Roles) /\ built + 1 \in 1 .. Len(Roles) BY <1>3, <1>4, <2>1 DEF NextRole
    <3>2. stack' = <<>> \/ stack' = <<Roles[built + 1]>> BY <2>1 DEF NextRole
    <3>3. Roles[built + 1] \in RoleSet BY <1>4, <3>1
    <3>4. Descends(<<>>) /\ \A r \in RoleSet : <<r>> \in Seq(RoleSet) /\ Descends(<<r>>) BY DEF Descends
    <3>5. <<>> \in Seq(RoleSet) OBVIOUS
    <3>6. stack' \in Seq(RoleSet) /\ Descends(stack') BY <3>2, <3>3, <3>4, <3>5
    <3>7. verdict' = verdict /\ toneCache' = toneCache BY <2>1 DEF NextRole
    <3> QED BY <1>3, <3>1, <3>6, <3>7
  <2>2. CASE Recurse
    <3> DEFINE missing == Needs(scheme, Last(stack)) \ DOMAIN toneCache
    <3>1. stack # <<>> /\ missing # {} /\ stack' = Append(stack, CHOOSE r \in missing : TRUE)
      BY <2>2 DEF Recurse
    <3>2. Last(stack) \in RoleSet BY <1>1, <3>1, DescendsBack
    <3>3. missing \subseteq Below(Last(stack)) BY <1>1, <1>2, <3>2, NeedsBelow
    <3> HIDE DEF missing
    <3>4. (CHOOSE r \in missing : TRUE) \in Below(Last(stack)) BY <3>1, <3>3
    <3>5. stack' \in Seq(RoleSet) /\ Descends(stack') BY <1>1, <3>1, <3>4, DescendsFurther
    <3>6. verdict' = verdict /\ toneCache' = toneCache /\ built' = built BY <2>2 DEF Recurse
    <3> QED BY <1>3, <3>5, <3>6
  <2>3. CASE Return
    <3> DEFINE r == Last(stack)
               t == ToneOf(scheme, r, toneCache)
    <3>1. stack # <<>> /\ Needs(scheme, r) \subseteq DOMAIN toneCache /\ stack' = Front(stack)
          /\ toneCache' = [x \in DOMAIN toneCache \cup {r} |-> IF x = r THEN t ELSE toneCache[x]]
          /\ built' = built /\ verdict' = verdict
      BY <2>3 DEF Return
    <3>2. r \in RoleSet /\ stack' \in Seq(RoleSet) /\ Descends(stack') BY <1>1, <3>1, DescendsBack
    <3>3. \A q \in Needs(scheme, r) : toneCache[q] \in Tones BY <1>3, <3>1
    <3>4. t \in Tones BY <1>1, <1>2, <3>2, <3>3, ToneIn
    <3> HIDE DEF r, t
    <3>5. /\ DOMAIN toneCache' = {r} \cup DOMAIN toneCache
          /\ \A q \in DOMAIN toneCache' : toneCache'[q] = IF q = r THEN t ELSE toneCache[q]
      BY <3>1
    <3> QED BY <1>3, <3>1, <3>2, <3>4, <3>5
  <2>4. CASE Validate
    <3>1. verdict' \in {"accepted", "rejected"} /\ stack' = stack /\ built' = built /\ toneCache' = toneCache
      BY <2>4 DEF Validate
    <3> QED BY <1>1, <1>3, <3>1
  <2> QED BY <2>1, <2>2, <2>3, <2>4 DEF PaletteNext
<1>7. PaletteTypeOK'
  <2>1. \A i \in DOMAIN stack' : stack'[i] \in ToSet(Roles) BY <1>6, RolesAre, LenProperties
  <2>2. scheme' \in Initially("palette", Schemes)' BY <1>1, <1>5 DEF Initially
  <2> QED BY <1>6, <2>1, <2>2, RolesAre DEF PaletteTypeOK
<1> QED BY <1>1, <1>5, <1>6, <1>7 DEF PaletteInv

\* The inductive invariant of the resolution of tones: each call of resolveTone
\* that has not returned is for a role of lower rank than its caller's.
THEOREM PaletteInvCorrect == Spec => []PaletteInv
<1>1. PaletteInv /\ [Next]_vars => PaletteInv'
  <2> SUFFICES ASSUME PaletteInv, [Next]_vars PROVE PaletteInv'
    OBVIOUS
  <2>1. CASE part = "palette" /\ PaletteNext /\ part' = part BY <2>1, PaletteStep
  <2>2. CASE part' = part /\ palette' = palette
    BY <2>2 DEF PaletteInv, PaletteTypeOK, palette, Initially, Descends
  <2>3. (part = "palette" /\ PaletteNext /\ part' = part) \/ (part' = part /\ palette' = palette)
    BY DEF Next, vars, palette
  <2> QED BY <2>1, <2>2, <2>3
<1> QED BY <1>1, PaletteInitially, PTL DEF Spec

\* The recursion of resolveTone ends: no role's tone is asked for while it is
\* being resolved, in either edition, for any variant, hue, reach and contrast.
THEOREM NoRoleWaitsForItselfHolds == Spec => []NoRoleWaitsForItself
<1>1. PaletteInv => NoRoleWaitsForItself
  <2> SUFFICES ASSUME PaletteInv, NEW i \in DOMAIN stack, NEW j \in DOMAIN stack, stack[i] = stack[j]
               PROVE  i = j
    BY DEF PaletteInv, NoRoleWaitsForItself
  <2>1. i \in Int /\ j \in Int BY LenProperties DEF PaletteInv
  <2>2. Rank(stack[i]) \in Int BY RankNat
  <2>3. ~(i < j) /\ ~(j < i) BY <2>2 DEF PaletteInv, Descends
  <2> QED BY <2>1, <2>3
<1> QED BY <1>1, PaletteInvCorrect, PTL
=============================================================================
