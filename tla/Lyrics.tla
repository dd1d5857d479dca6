------------------------------- MODULE Lyrics -------------------------------
(***************************************************************************)
(* LyricsProvider, its parser and cache, and LyricsScheduler: the lyrics   *)
(* of the track that plays, and the word highlighted at the position of    *)
(* the player.  A single-shot timer moves the highlight from boundary to   *)
(* boundary; a seek, an offset or new lyrics search for it anew.           *)
(*                                                                         *)
(* Time is in ticks; the rate is 1.  A slot reads the clock once.  A token *)
(* of a line is its length.  Words whose times are given are boundaries as *)
(* they stand; durations are left out.  Boundaries are sorted by time, so   *)
(* the set of those passed stands for their number.                        *)
(***************************************************************************)
EXTENDS Parts, SequencesExt

CONSTANTS
  Songs,      \* what lrclib has of each track: synced or plain lyrics, or none
  Offsets,    \* values of mOffsetMs
  PerToken,   \* 800 ms: the longest a token lasts
  LastLine,   \* 5000 ms: the shortest the last line lasts
  MaxDelay,   \* 60 000 ms: the longest delay a timer is started with
  MaxPosition, \* bound: of the player
  MaxActs     \* bound: acts of the user and the player

Tracks == DOMAIN Songs

VARIABLES
  state,        \* mState
  lyrics,       \* mLines: the track they are of
  wordLines,    \* mWordLines of the scheduler: the track they are of
  boundaryPos,  \* mBoundaryPos: the boundaries passed
  highlight,    \* mCurLine and mCurWord
  position,     \* the player's position that mAnchorMs and the clock give
  offset,       \* mOffsetMs
  playing,      \* mPlaying
  timer,        \* mWordTimer: ticks left, or None
  requests,     \* network requests under way
  cached,       \* tracks with a cache file
  fetched,      \* ghost: the track last fetched, or None after clear
  overtaken,    \* ghost: since the last fetch or clear, the last
                \* reply was to another track
  farAhead,     \* ghost: the next boundary was too far for a timer
  acts          \* acts so far

scheduler == <<wordLines, boundaryPos, highlight, position, offset, playing, timer, farAhead>>
provider  == <<state, lyrics, requests, cached, fetched, overtaken>>
lyricsVars == <<scheduler, provider, acts>>

-----------------------------------------------------------------------------
(* The parser: the boundaries of a track.                                  *)

Least(a, b) == IF a < b THEN a ELSE b
SumOf(s)    == FoldLeft(LAMBDA a, b : a + b, 0, s)

Gap(tokens, start, end) == Least(end - start, PerToken * Len(tokens))

\* interpolateWords: each token starts after the shares of those before it.
InterpolateWords(tokens, start, end) ==
  LET weight == SumOf(tokens) + Len(tokens)
      share  == [j \in DOMAIN tokens |->
                   (Gap(tokens, start, end) * (tokens[j] + 1)) \div weight]
  IN [j \in DOMAIN tokens |-> start + SumOf(SubSeq(share, 1, j - 1))]

\* parseLrc: the times of the words of each line.
WordTimes(t) ==
  LET raw == Songs[t].lines
      end(i) == IF i < Len(raw) THEN raw[i + 1].time
                ELSE IF raw[i].time + LastLine > Songs[t].length
                     THEN raw[i].time + LastLine ELSE Songs[t].length
  IN [i \in DOMAIN raw |->
        IF raw[i].words # <<>> THEN raw[i].words
        ELSE InterpolateWords(raw[i].tokens, raw[i].time, end(i))]

\* The order of a stable sort by time.
Earlier(a, b) ==
  \/ a.time < b.time
  \/ a.time = b.time /\ (a.line < b.line \/ (a.line = b.line /\ a.word < b.word))

\* rebuildBoundaries: plain lyrics have none.
Boundaries ==
  [t \in Tracks \cup {None} |->
     IF t = None \/ Songs[t].kind # "synced" THEN {}
     ELSE LET times == WordTimes(t) IN
          UNION {{[time |-> times[i][j], line |-> i, word |-> j] :
                    j \in DOMAIN times[i]} : i \in DOMAIN times}]

\* Times are whole numbers, and nothing else is called None.
ASSUME LyricsAssumption ==
  /\ None \notin Tracks /\ None \notin Nat
  /\ Offsets # {} /\ Offsets \subseteq Int
  /\ MaxDelay \in Nat /\ MaxPosition \in Nat /\ MaxActs \in Nat
  /\ \A t \in Tracks : \A b \in Boundaries[t] : b.time \in Int

-----------------------------------------------------------------------------
(* The scheduler.                                                          *)

Nothing == [line |-> 0, word |-> 0]

\* The boundaries of b at or before position p.
Passed(b, p) == {k \in b : k.time <= p}

\* The word of the last boundary passed.
WordAt(passed) ==
  IF passed = {} THEN Nothing
  ELSE LET last == CHOOSE k \in passed : \A j \in passed : j = k \/ Earlier(j, k)
       IN [line |-> last.line, word |-> last.word]

\* How far the next boundary is.
Ahead(b, p) == Min({k.time - p : k \in b \ Passed(b, p)})

\* scheduleNext at position p, with the boundaries b.
ScheduleNext(b, p) ==
  LET done == Passed(b, p) = b
      far  == ~done /\ Ahead(b, p) > MaxDelay
  IN /\ boundaryPos' = Passed(b, p)
     /\ timer' = IF done \/ far THEN None ELSE Ahead(b, p)
     /\ farAhead' = far

\* reschedule: nothing happens without boundaries, not even a search.
Reschedule(b, p, plays) ==
  IF b = {}
  THEN timer' = None /\ farAhead' = FALSE /\ UNCHANGED <<boundaryPos, highlight>>
  ELSE /\ highlight' = WordAt(Passed(b, p))
       /\ IF plays THEN ScheduleNext(b, p)
          ELSE /\ boundaryPos' = Passed(b, p)
               /\ timer' = None /\ farAhead' = FALSE

SetWordLines(t) ==
  /\ wordLines' = t
  /\ Reschedule(Boundaries[t], position + offset, playing)

\* A tick of the clock.
Tick ==
  /\ playing /\ position < MaxPosition
  /\ position' = position + 1
  /\ timer' = IF timer \in {None, 0} THEN timer ELSE timer - 1
  /\ UNCHANGED <<wordLines, boundaryPos, highlight, offset, playing, farAhead, provider, acts>>

OnWordTimerOnce ==  \* fault: only one boundary is passed
  /\ timer = 0 /\ playing
  /\ LET ahead == Boundaries[wordLines] \ boundaryPos IN
       highlight' = IF ahead = {} THEN highlight
                    ELSE WordAt(boundaryPos \cup
                           {CHOOSE k \in ahead : \A j \in ahead : j = k \/ Earlier(k, j)})
  /\ ScheduleNext(Boundaries[wordLines], position + offset)
  /\ UNCHANGED <<wordLines, position, offset, playing, provider, acts>>

OnWordTimer ==
  /\ timer = 0 /\ playing
  /\ LET passed == Passed(Boundaries[wordLines], position + offset) IN
       highlight' = IF passed \ boundaryPos # {} THEN WordAt(passed) ELSE highlight
  /\ ScheduleNext(Boundaries[wordLines], position + offset)
  /\ UNCHANGED <<wordLines, position, offset, playing, provider, acts>>

-----------------------------------------------------------------------------
(* The provider.                                                           *)

Act == acts < MaxActs /\ acts' = acts + 1

\* applyParseResult.
Apply(t) == state' = "Ready" /\ lyrics' = t /\ SetWordLines(t)

Unapplied == UNCHANGED <<lyrics, wordLines, boundaryPos, highlight, timer, farAhead>>

\* fetch: the cache answers at once.
Fetch(t) ==
  /\ fetched' = t /\ overtaken' = FALSE
  /\ IF t \in cached THEN UNCHANGED requests ELSE requests' = requests \cup {t}

\* Another player is chosen: its track is fetched over what is shown.
ChoosePlayer(t) ==
  /\ Act /\ Fetch(t)
  /\ IF t \in cached THEN Apply(t) ELSE state' = "Loading" /\ Unapplied
  /\ UNCHANGED <<position, offset, playing, cached>>

\* The track changes: clear, setPlayback at 0, fetch.
TrackChanges(t) ==
  /\ Act /\ Fetch(t)
  /\ position' = 0
  /\ IF t \in cached
     THEN /\ state' = "Ready" /\ lyrics' = t /\ wordLines' = t
          /\ IF Boundaries[t] # {} THEN Reschedule(Boundaries[t], offset, playing)
             ELSE /\ boundaryPos' = {} /\ highlight' = Nothing
                  /\ timer' = None /\ farAhead' = FALSE
     ELSE /\ state' = "Loading" /\ lyrics' = None /\ wordLines' = None
          /\ boundaryPos' = {} /\ highlight' = Nothing /\ timer' = None /\ farAhead' = FALSE
  /\ UNCHANGED <<offset, playing, cached>>

\* clear: playback stops, or the track has neither title nor artist.
Cleared ==
  /\ Act /\ state # "Idle"
  /\ state' = "Idle" /\ lyrics' = None /\ wordLines' = None
  /\ fetched' = None /\ overtaken' = FALSE
  /\ boundaryPos' = {} /\ highlight' = Nothing /\ timer' = None /\ farAhead' = FALSE
  /\ UNCHANGED <<position, offset, playing, requests, cached>>

SilentNotFound(t) == state  \* fault: the state stays
NotFoundState(t) == "NotFound"

\* A reply: an error, a code, or lyrics, which are saved.
Reply(t) ==
  /\ t \in requests
  /\ requests' = requests \ {t}
  /\ overtaken' = (t # fetched)
  /\ \/ /\ Songs[t].kind # "none"
        /\ Apply(t)
        /\ cached' = cached \cup {t}
     \/ /\ Songs[t].kind = "none"
        /\ state' = NotFoundState(t) /\ Unapplied /\ UNCHANGED <<wordLines, cached>>
     \/ /\ state' = "Error" /\ Unapplied /\ UNCHANGED <<wordLines, cached>>
  /\ UNCHANGED <<position, offset, playing, fetched, acts>>

\* What setPlayback and setOffsetMs do with the same lyrics.
Moved == UNCHANGED <<wordLines, provider>> /\ Reschedule(Boundaries[wordLines], position' + offset', playing')

SetPlayback(p, plays) ==
  /\ Act
  /\ position' = p /\ playing' = plays /\ UNCHANGED offset
  /\ Moved

SetOffsetMs(o) ==
  /\ o # offset /\ Act
  /\ offset' = o /\ UNCHANGED <<position, playing>>
  /\ Moved

-----------------------------------------------------------------------------
LyricsInit ==
  /\ state = "Idle" /\ lyrics = None
  /\ wordLines = None /\ boundaryPos = {} /\ highlight = Nothing
  /\ position = 0 /\ offset \in Initially("lyrics", Offsets) /\ playing = FALSE /\ timer = None
  /\ requests = {}
  /\ cached \in Initially("lyrics", SUBSET {t \in Tracks : Songs[t].kind # "none"})
  /\ fetched = None /\ overtaken = FALSE /\ farAhead = FALSE /\ acts = 0

LyricsNext ==
  \/ \E t \in Tracks : ChoosePlayer(t) \/ TrackChanges(t) \/ Reply(t)
  \/ Cleared
  \/ \E p \in 0 .. MaxPosition, plays \in BOOLEAN : SetPlayback(p, plays)
  \/ \E o \in Offsets : SetOffsetMs(o)
  \/ Tick \/ OnWordTimer

-----------------------------------------------------------------------------
(* Properties.                                                             *)

LyricsTypeOK ==
  /\ state \in {"Idle", "Loading", "Ready", "NotFound", "Error"}
  /\ {lyrics, wordLines, fetched} \subseteq Tracks \cup {None}
  /\ boundaryPos \subseteq UNION {Boundaries[t] : t \in Tracks}
  /\ offset \in Offsets /\ acts \in 0 .. MaxActs
  /\ position \in 0 .. MaxPosition /\ timer \in 0 .. MaxDelay \cup {None}
  /\ {playing, overtaken, farAhead} \subseteq BOOLEAN
  /\ requests \subseteq Tracks /\ cached \subseteq Tracks

\* While synced lyrics are shown the highlight is the last word at or before the
\* position, whatever was sought, shifted, paused or fetched, until the timer
\* fires; only a boundary too far ahead for a timer leaves it behind.
HighlightFollows ==
  Boundaries[wordLines] # {} /\ timer # 0 /\ ~farAhead =>
    /\ wordLines = lyrics
    /\ highlight = WordAt(Passed(Boundaries[lyrics], position + offset))

\* Types are correct; the state Loading, which shows the spinner, ends with a
\* reply to the track last fetched, that is still to come; and what is shown is
\* that track, or that there is nothing of it, whatever came for tracks left
\* before, unless such a reply is the last that came: then it stays over the
\* right one, or after a clear.
LyricsOfTrack ==
  /\ LyricsTypeOK
  /\ state = "Loading" => fetched \in requests
  /\ ~overtaken => /\ state = "Ready" => lyrics = fetched
                   /\ state = "NotFound" => Songs[fetched].kind = "none"

\* docs/Testing.md: unsynced lyrics never highlight.
UnsyncedNeverHighlight ==
  state = "Ready" /\ Songs[lyrics].kind = "plain" => highlight = Nothing
=============================================================================
