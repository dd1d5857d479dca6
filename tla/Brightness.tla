----------------------------- MODULE Brightness -----------------------------
(***************************************************************************)
(* BrightnessManager: a worker object per display, made anew by every      *)
(* scan; a value set is left pending in the worker, and one write job per  *)
(* worker carries the latest pending value to the hardware.                *)
(*                                                                         *)
(* A backlight is written and read in hardware units, truncated both ways; *)
(* a DDC display is written in percent and read as a part of its maximum.  *)
(* The hardware, and which displays are connected, are external.           *)
(***************************************************************************)
EXTENDS JobExecutor, FiniteSets, SequencesExt

CONSTANTS
  Displays,     \* display ids
  Internal,     \* those with a backlight in sysfs, always there
  Place,        \* the place of each display's id in the order of the ids
  HardwareMax,  \* the maximum each display's hardware reports
  MaxPercent,   \* K_MAX_PERCENT
  Fallback      \* shown when a display cannot be read

ASSUME BrightnessAssumption ==
  /\ Internal \subseteq Displays /\ None \notin Displays /\ None \notin Nat
  /\ IsFiniteSet(Displays)
  /\ Place \in [Displays -> Nat] /\ IsInjective(Place)
  /\ "brightness" \in Users /\ MaxCalls \in [Users -> Nat]
  /\ HardwareMax \in [Displays -> Nat]
  /\ MaxPercent \in Nat \ {0} /\ Fallback \in 0 .. MaxPercent

Percents == 0 .. MaxPercent
Scans    == 1 .. MaxCalls["brightness"] + 1
Workers  == Displays \X Scans
Levels   == {l \in [Displays -> UNION {0 .. HardwareMax[d] : d \in Displays}] :
                 \A d \in Displays : l[d] <= HardwareMax[d]}

VARIABLES
  published,   \* mWorkers: the scan each display's worker is of; 0 is none
  pending,     \* mPendingValue of each worker
  inFlight,    \* the workers with mWriteInFlight set
  current,     \* mCurrentBrightness of each worker that is listed
  primary,     \* primaryId of the brightness service
  scans,       \* scans run
  connected,   \* the displays that answer
  level,       \* the brightness each display has, in hardware units
  guessed,     \* ghost: displays shown as nothing that was read or reached
  asked        \* ghost: the worker and value last asked of a display, if
               \* no write of it failed and the display was not replugged

brightness == <<published, pending, inFlight, current, primary, scans,
                connected, level, guessed, asked>>

BrightnessInit ==
  /\ published = [d \in Displays |-> 0]
  /\ pending = [w \in Workers |-> None]
  /\ inFlight = {}
  /\ current = [w \in Workers |-> Fallback]
  /\ primary = None
  /\ scans = 0
  /\ connected = Displays
  /\ level \in Levels
  /\ guessed = {}
  /\ asked = [d \in Displays |-> None]

Scan       == [kind |-> "scan"]
Write(w)   == [kind |-> "write", worker |-> w]
Listed     == {d \in Displays : published[d] # 0}
WorkerOf(d) == <<d, published[d]>>

\* What is written to d for p percent: a DDC display gets the percent itself.
Raw(d, p) == IF d \in Internal THEN (p * HardwareMax[d]) \div MaxPercent ELSE p

\* What is read of a display at l, in percent.
Percent(d, l) == (l * MaxPercent) \div HardwareMax[d]

First(S) == IF S = {} THEN None
            ELSE CHOOSE d \in S : \A e \in S : Place[d] <= Place[e]

\* The displays of D, one after the other in the order of their ids.
InTurn(D) == {ds \in SetToSeqs(D) :
                \A i, j \in DOMAIN ds : i < j => Place[ds[i]] < Place[ds[j]]}

\* dispatchWrite for each worker in turn that has no write in flight.
Dispatched(ds) == [i \in DOMAIN ds |-> Write(WorkerOf(ds[i]))]

-----------------------------------------------------------------------------
(* The main thread.                                                        *)

StoredIfEmpty(S, targets) ==  \* fault: a value that is pending already is kept
  [w \in Workers |-> IF w[1] \in S /\ w = WorkerOf(w[1]) /\ pending[w] = None
                     THEN targets[w[1]] ELSE pending[w]]

\* storePending for each display of S.
Stored(S, targets) ==
  [w \in Workers |-> IF w[1] \in S /\ w = WorkerOf(w[1]) THEN targets[w[1]]
                     ELSE pending[w]]

\* setBrightness (one display), setBrightnessGroup and applyProfile (some),
\* setBrightnessAll (all listed, one value).  Every caller clamps.
SetBrightness(targets) ==
  LET S == DOMAIN targets \cap Listed IN
  /\ S # {}
  /\ \E ds \in InTurn({d \in S : WorkerOf(d) \notin inFlight}) :
       Call("brightness", Dispatched(ds))
  /\ pending' = Stored(S, targets)
  /\ inFlight' = inFlight \cup {WorkerOf(d) : d \in S}
  /\ asked' = [d \in Displays |-> IF d \in S THEN <<WorkerOf(d), targets[d]>>
                                  ELSE asked[d]]
  /\ UNCHANGED <<replies, published, current, primary, scans, connected,
                 level, guessed>>

\* refresh of the service: the primary display stays while it is listed.
PrimaryOf(listed) ==
  IF primary \in listed THEN primary
  ELSE First(IF listed \cap Internal # {} THEN listed \cap Internal ELSE listed)

\* The queued call of a scan: publishDisplays, and refresh in the service.
PublishDisplays ==
  /\ Deliver("published")
  /\ LET r == Head(replies)
         found == DOMAIN r.value
     IN /\ published' = [d \in Displays |-> IF d \in found THEN r.scan ELSE 0]
        /\ current' = [w \in Workers |-> IF w[1] \in found /\ w[2] = r.scan
                                         THEN r.value[w[1]] ELSE Fallback]
        /\ guessed' = r.unread
        /\ primary' = PrimaryOf(found)
  /\ UNCHANGED <<jobs, pending, inFlight, scans, connected, level, asked>>

Forgotten(w) == FALSE  \* fault: what was set during the write stays behind

\* A value set during a write is dispatched, unless a scan replaced the worker.
Again(w) == w[1] \in Listed /\ WorkerOf(w[1]) = w /\ pending[w] # None

\* setCurrentBrightness of the listed worker.
Shown(w, v) == [current EXCEPT ![WorkerOf(w[1])] = v]

\* The queued call of a write.
EndWrite(w) ==
  /\ Deliver("written") /\ Head(replies).worker = w
  /\ LET r == Head(replies)
         shows == r.ok /\ w[1] \in Listed
     IN /\ current' = IF shows THEN Shown(w, r.value) ELSE current
        /\ guessed' = IF ~shows THEN guessed
                      ELSE IF r.reached THEN guessed \ {w[1]} ELSE guessed \cup {w[1]}
  /\ inFlight' = IF Again(w) THEN inFlight ELSE inFlight \ {w}
  /\ jobs' = IF Again(w) THEN Append(jobs, Write(w)) ELSE jobs
  /\ UNCHANGED <<published, pending, primary, scans, connected, level, asked>>

\* onScreensChanged: initialize.
OnScreensChanged ==
  /\ Deliver("screens")
  /\ jobs' = Append(jobs, Scan)
  /\ UNCHANGED brightness

-----------------------------------------------------------------------------
(* The worker thread.                                                      *)

\* scanDisplays.  A DDC display that does not open is dropped; a display that
\* opens and is not read, or whose maximum is 0, is given the fallback, and a
\* backlight whose file opens and holds nothing is taken for 0.
ScanDisplays ==
  \E found, unread, blank \in SUBSET Displays :
    /\ Internal \subseteq found /\ found \subseteq connected
    /\ unread \subseteq found /\ blank \subseteq unread \cap Internal
    /\ \A d \in found : HardwareMax[d] = 0 => d \in unread
    /\ Run("scan", [kind |-> "published", scan |-> scans + 1, unread |-> unread,
                    value |-> [d \in found |-> IF d \in blank THEN 0
                                               ELSE IF d \in unread THEN Fallback
                                               ELSE Percent(d, level[d])]])
    /\ scans' = scans + 1
    /\ UNCHANGED <<published, pending, inFlight, current, primary, connected,
                   level, guessed, asked>>

\* The write job.  An empty worker would yield -1, which is clamped to 0.  A
\* write that is told to have succeeded need not have reached the display: what
\* sysfs takes, or tells of its maximum, is not looked at, and above its maximum
\* a DDC display does what it likes.
WriteBrightness ==
  \E ok, reached \in BOOLEAN :
    LET w == Head(jobs).worker
        d == w[1]
        p == IF pending[w] = None THEN 0 ELSE pending[w]
    IN /\ Run("write", [kind |-> "written", worker |-> w, value |-> p, ok |-> ok,
                        reached |-> reached])
       /\ ok => d \in connected
       /\ reached => ok /\ Raw(d, p) <= HardwareMax[d]
       /\ pending' = [pending EXCEPT ![w] = None]
       /\ level' \in {[level EXCEPT ![d] = l] :
                      l \in IF reached THEN {Raw(d, p)}
                           ELSE IF ~ok THEN {level[d]}
                           ELSE IF d \in Internal THEN {level[d], 0}
                           ELSE {n \in 0 .. HardwareMax[d] : Raw(d, p) > HardwareMax[d]}}
       /\ asked' = IF ~reached /\ asked[d] = <<w, p>> THEN [asked EXCEPT ![d] = None]
                   ELSE asked
       /\ UNCHANGED <<published, inFlight, current, primary, scans, connected,
                      guessed>>

-----------------------------------------------------------------------------
\* A display is unplugged, or plugged in with the brightness it has.
PlugOrUnplug(d, l) ==
  /\ d \notin Internal
  /\ Call("brightness", <<>>)
  /\ replies' = Append(replies, [kind |-> "screens"])
  /\ connected' = IF d \in connected THEN connected \ {d} ELSE connected \cup {d}
  /\ level' = [level EXCEPT ![d] = l]
  /\ d \in connected => l = level[d]
  /\ asked' = [asked EXCEPT ![d] = None]
  /\ UNCHANGED <<published, pending, inFlight, current, primary, scans, guessed>>

Targets == UNION {[S -> Percents] : S \in (SUBSET Displays) \ {{}}}

BrightnessCall ==
  \/ \E targets \in Targets : SetBrightness(targets)
  \/ \E d \in Displays : \E l \in 0 .. HardwareMax[d] : PlugOrUnplug(d, l)

BrightnessWork == ScanDisplays \/ WriteBrightness
BrightnessReply ==
  \/ PublishDisplays \/ OnScreensChanged \/ \E w \in Workers : EndWrite(w)

-----------------------------------------------------------------------------
(* Properties.                                                             *)

\* Type correctness; the primary display is one that is listed.
BrightnessTypeOK ==
  /\ published \in [Displays -> Scans \cup {0}]
  /\ pending \in [Workers -> Percents \cup {None}]
  /\ inFlight \subseteq Workers
  /\ current \in [Workers -> Percents]
  /\ primary \in (IF Listed = {} THEN {None} ELSE Listed)
  /\ scans \in Scans \cup {0}
  /\ connected \subseteq Displays /\ guessed \subseteq Displays
  /\ level \in Levels
  /\ asked \in [Displays -> {None} \cup (Workers \X Percents)]

Holds(q, k, w) == {i \in DOMAIN q : q[i].kind = k /\ q[i].worker = w}

\* Types are correct and no value is forgotten: a listed display's pending value
\* has a write in flight to carry it, what is in flight is one job or one reply,
\* and a write job finds a value, whatever is set, rescanned and finished around
\* it: without one the display would be turned down to 0.
NothingForgotten ==
  BrightnessTypeOK /\ \A w \in Workers :
    /\ w[2] = published[w[1]] /\ pending[w] # None => w \in inFlight
    /\ w \in inFlight <=>
         Cardinality(Holds(jobs, "write", w)) + Cardinality(Holds(replies, "written", w)) = 1
    /\ Cardinality(Holds(jobs, "write", w)) + Cardinality(Holds(replies, "written", w)) <= 1
    /\ Holds(jobs, "write", w) # {} => pending[w] # None

\* The value last asked of d is not left behind in the worker that got it.
Settled(d) == asked[d] # None /\ pending[asked[d][1]] = None

\* What is shown of d is what can be read of it, or what was written to it:
\* the value last asked, if that was written.
ShownTrue(d, v) ==
  \/ HardwareMax[d] # 0 /\ v = Percent(d, level[d])
  \/ level[d] = Raw(d, v) /\ (Settled(d) => v = asked[d][2])

\* Once all is handled a display has the value last asked of it, unless that
\* was left behind in a worker a scan replaced, or a write of it failed since or
\* did not reach it; the listed show what was written or is read, save those
\* that were not read or reached; and a backlight shows no more than was asked,
\* and at most one percent less if it has a step for each percent, however
\* writes, scans and plugs were queued around each other.
QuietAgrees ==
  Quiet =>
    /\ \A d \in Displays : Settled(d) => level[d] = Raw(d, asked[d][2])
    /\ \A d \in Listed \ guessed :
         LET v == current[WorkerOf(d)] IN
         /\ ShownTrue(d, v)
         /\ d \in Internal /\ Settled(d) =>
              /\ v <= asked[d][2]
              /\ HardwareMax[d] >= MaxPercent => asked[d][2] <= v + 1
=============================================================================
