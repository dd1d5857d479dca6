---------------------------- MODULE AudioProfiles ----------------------------
(***************************************************************************)
(* AudioProfilesWatcher: PipeWire's sound cards and their profiles.  Its   *)
(* loop thread follows the registry and the cards under a lock; the main   *)
(* thread polls what they left into the model of the user interface.       *)
(*                                                                         *)
(* PipeWire is external.  It gives each device an id no present one has,   *)
(* answers requests in order, and reports one profile per event with       *)
(* nothing after the last.  A device's profiles and the active one are     *)
(* told by a version.  The poll timer is always armed again, so that the   *)
(* length of its interval is left out.                                     *)
(***************************************************************************)
EXTENDS Parts

CONSTANTS
  Ids,          \* PipeWire ids
  Offered,      \* profiles each device offers
  MaxProfiles,  \* K_MAX_PROFILES
  MaxDevices,   \* bound: devices that appear
  MaxChanges    \* bound: changes of profiles

ASSUME ProfilesAssumption ==
  /\ Offered \in Nat \ {0} /\ MaxProfiles \in Nat \ {0}
  /\ MaxDevices \in Nat

VARIABLES
  pipewire,   \* the devices present: their id and version
  births,     \* devices that have appeared
  changes,    \* changes so far
  pwRequests, \* what the shell asked of PipeWire
  pwEvents,   \* what PipeWire sent to the loop thread
  apDevices,  \* mDevices
  removedIds, \* mRemovedIds
  cards,      \* mCards: the profiles and the active one each id shows
  seqs,       \* sequence numbers given to enumerations
  split,      \* ghost: devices whose enumeration was published in parts
  reused      \* ghost: ids given again before the poll saw them go

pwGraph  == <<pipewire, births, changes>>
watcher  == <<apDevices, removedIds, seqs>>
profiles == <<pwGraph, pwRequests, pwEvents, watcher, cards, split, reused>>

ProfilesOf(v) == [i \in 1 .. Offered |-> <<v, i>>]
Take(s, n)    == SubSeq(s, 1, IF Len(s) < n THEN Len(s) ELSE n)

-----------------------------------------------------------------------------
(* PipeWire.                                                               *)

Appears(i) ==
  /\ births < MaxDevices
  /\ \A d \in DOMAIN pipewire : pipewire[d].id # i
  /\ births' = births + 1
  /\ pipewire' = [d \in DOMAIN pipewire \cup {births'} |->
                    IF d = births' THEN [id |-> i, version |-> births'] ELSE pipewire[d]]
  /\ pwEvents' = Append(pwEvents, [kind |-> "global", device |-> births', id |-> i])
  /\ UNCHANGED <<changes, pwRequests, watcher, cards, split, reused>>

Disappears(d) ==
  /\ pipewire' = [e \in DOMAIN pipewire \ {d} |-> pipewire[e]]
  /\ pwEvents' = Append(pwEvents, [kind |-> "remove", device |-> d, id |-> pipewire[d].id])
  /\ UNCHANGED <<births, changes, pwRequests, watcher, cards, split, reused>>

Changed(d, v) == pipewire' = [pipewire EXCEPT ![d].version = v]

\* A plug, a switch of profile by another program.
Changes(d) ==
  /\ changes < MaxChanges
  /\ changes' = changes + 1
  /\ Changed(d, MaxDevices + changes')
  /\ pwEvents' = Append(pwEvents, [kind |-> "info", device |-> d])
  /\ UNCHANGED <<births, pwRequests, watcher, cards, split, reused>>

Answered(r) ==
  LET v == pipewire[r.device].version IN
  [i \in 1 .. Offered + 1 |->
     [kind |-> "param", device |-> r.device, seq |-> r.seq,
      profile |-> IF i <= Offered THEN ProfilesOf(v)[i] ELSE v,
      active |-> i > Offered]]

\* The next request: an enumeration of both kinds, or a profile to switch to.
Serve ==
  /\ pwRequests # <<>>
  /\ pwRequests' = Tail(pwRequests)
  /\ LET r == Head(pwRequests) IN
       IF r.device \notin DOMAIN pipewire THEN UNCHANGED <<pipewire, pwEvents>>
       ELSE IF r.kind = "set"
       THEN /\ Changed(r.device, r.version)
            /\ pwEvents' = Append(pwEvents, [kind |-> "info", device |-> r.device])
       ELSE pwEvents' = pwEvents \o Answered(r) /\ UNCHANGED pipewire
  /\ UNCHANGED <<births, changes, watcher, cards, split, reused>>

-----------------------------------------------------------------------------
(* The loop thread.                                                        *)

\* apRequestProfiles, for the node n of a device.
Requested(d, n) ==
  /\ seqs' = seqs + 1
  /\ pwRequests' = Append(pwRequests, [kind |-> "enum", device |-> d, seq |-> seqs'])
  /\ apDevices' = [e \in DOMAIN apDevices \cup {d} |->
       IF e = d THEN [n EXCEPT !.staging = <<>>, !.seq = seqs'] ELSE apDevices[e]]
  /\ split' = split \ {d}

PwEvent(kind) == pwEvents # <<>> /\ Head(pwEvents).kind = kind /\ pwEvents' = Tail(pwEvents)

RegistryEventGlobal ==
  /\ PwEvent("global")
  /\ LET e == Head(pwEvents) IN
       /\ Requested(e.device, [id |-> e.id, staging |-> <<>>, seq |-> 0, profiles |-> <<>>,
                               active |-> None, stale |-> TRUE])
       /\ reused' = reused \cup ({e.id} \cap removedIds)
  /\ UNCHANGED <<pwGraph, removedIds, cards>>

RegistryEventGlobalRemove ==
  /\ PwEvent("remove")
  /\ LET e == Head(pwEvents) IN
       /\ apDevices' = [d \in DOMAIN apDevices \ {e.device} |-> apDevices[d]]
       /\ removedIds' = removedIds \cup {e.id}
  /\ UNCHANGED <<pwGraph, pwRequests, cards, seqs, split, reused>>

\* An info event that says the parameters changed.
DeviceEventInfo ==
  /\ PwEvent("info")
  /\ LET d == Head(pwEvents).device IN
       IF d \in DOMAIN apDevices THEN Requested(d, apDevices[d])
                             ELSE UNCHANGED <<apDevices, pwRequests, seqs, split>>
  /\ UNCHANGED <<pwGraph, removedIds, cards, reused>>

AcceptsAll(n, e) == TRUE  \* fault: the sequence number is not compared
Accepts(n, e) == e.seq = n.seq

\* Events of a destroyed proxy are dropped by the library.
DeviceEventParam ==
  /\ PwEvent("param")
  /\ LET e == Head(pwEvents)
         d == e.device
     IN IF d \notin DOMAIN apDevices \/ ~Accepts(apDevices[d], e) THEN UNCHANGED apDevices
        ELSE \/ /\ e.active
                /\ apDevices' = [apDevices EXCEPT ![d].active = e.profile, ![d].stale = TRUE]
             \/ /\ ~e.active
                /\ apDevices' = IF Len(apDevices[d].staging) < MaxProfiles
                            THEN [apDevices EXCEPT ![d].staging = Append(@, e.profile),
                                               ![d].stale = TRUE]
                            ELSE apDevices
  /\ UNCHANGED <<pwGraph, pwRequests, removedIds, cards, seqs, split, reused>>

-----------------------------------------------------------------------------
(* The main thread, under the lock of the loop.                            *)

\* Every device apTakeStale finds, published.
Taken(n) ==
  IF ~n.stale THEN n
  ELSE [n EXCEPT !.profiles = IF n.staging # <<>> THEN n.staging ELSE n.profiles,
                 !.staging = <<>>, !.stale = FALSE]

StaleIds == {apDevices[d].id : d \in {e \in DOMAIN apDevices : apDevices[e].stale}}
NodeOf(N, i) == N[CHOOSE d \in DOMAIN N : N[d].id = i]

\* A profile of the same enumeration is still on its way.
Partial(d) ==
  apDevices[d].staging # <<>> /\ apDevices[d].stale
  /\ \E i \in DOMAIN pwEvents : /\ pwEvents[i].kind = "param" /\ pwEvents[i].device = d
                              /\ pwEvents[i].seq = apDevices[d].seq /\ ~pwEvents[i].active

Poll ==
  /\ apDevices' = [d \in DOMAIN apDevices |-> Taken(apDevices[d])]
  /\ LET upserted == DOMAIN cards \cup StaleIds IN
       cards' = [i \in upserted \ removedIds |->
                   IF i \in StaleIds
                   THEN [profiles |-> NodeOf(apDevices', i).profiles, active |-> NodeOf(apDevices', i).active]
                   ELSE cards[i]]
  /\ removedIds' = {}
  /\ split' = split \cup {d \in DOMAIN apDevices : Partial(d)}
  /\ reused' = {i \in reused : i \in removedIds \/ i \notin StaleIds}
  /\ UNCHANGED <<pwGraph, pwRequests, pwEvents, seqs>>

SetProfile(d) ==
  /\ d \in DOMAIN apDevices /\ changes < MaxChanges
  /\ changes' = changes + 1
  /\ pwRequests' = Append(pwRequests, [kind |-> "set", device |-> d,
                                      version |-> MaxDevices + changes'])
  /\ UNCHANGED <<pipewire, births, pwEvents, watcher, cards, split, reused>>

-----------------------------------------------------------------------------
ProfilesInit ==
  /\ pipewire = <<>> /\ births = 0 /\ changes = 0
  /\ pwRequests = <<>> /\ pwEvents = <<>>
  /\ apDevices = <<>> /\ removedIds = {} /\ cards = <<>>
  /\ seqs = 0 /\ split = {} /\ reused = {}

ProfilesLoop ==
  \/ RegistryEventGlobal \/ RegistryEventGlobalRemove
  \/ DeviceEventInfo \/ DeviceEventParam

ProfilesNext ==
  \/ ProfilesLoop \/ Poll \/ Serve
  \/ \E i \in Ids : Appears(i)
  \/ \E d \in DOMAIN pipewire : Disappears(d) \/ Changes(d)
  \/ \E d \in DOMAIN apDevices : SetProfile(d)

-----------------------------------------------------------------------------
(* Properties.                                                             *)

ProfilesTypeOK ==
  /\ DOMAIN pipewire \subseteq 1 .. births /\ DOMAIN apDevices \subseteq 1 .. births
  /\ DOMAIN cards \subseteq Ids /\ removedIds \subseteq Ids
  /\ \A d \in DOMAIN apDevices : Len(apDevices[d].staging) <= MaxProfiles
  /\ split \subseteq 1 .. births /\ reused \subseteq Ids

\* Everything PipeWire said has been handled and polled.
ProfilesSettled == /\ pwRequests = <<>> /\ pwEvents = <<>> /\ removedIds = {}
                   /\ \A d \in DOMAIN apDevices : ~apDevices[d].stale

\* Types are correct, and once all is handled and polled the cards shown are
\* those present, each with its own profiles and the active one, however
\* devices came, went and changed during enumerations; unless a poll came
\* between the answers of the last enumeration, or an id was given again
\* within one interval of the poll.
CardsMirror ==
  /\ ProfilesTypeOK
  /\ ProfilesSettled =>
       /\ DOMAIN cards \subseteq {pipewire[d].id : d \in DOMAIN pipewire}
       /\ \A d \in DOMAIN pipewire :
            LET i == pipewire[d].id
                v == pipewire[d].version
            IN i \notin reused =>
                 /\ i \in DOMAIN cards /\ cards[i].active = v
                 /\ d \notin split => cards[i].profiles = Take(ProfilesOf(v), MaxProfiles)

\* AudioProfilesWatcher.cpp: a detected device is never silently missing from
\* the model, once all is handled and polled.
DetectedIsListed ==
  ProfilesSettled => \A d \in DOMAIN apDevices : apDevices[d].id \in DOMAIN cards
=============================================================================
