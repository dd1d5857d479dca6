------------------------------- MODULE Keylock -------------------------------
(***************************************************************************)
(* Keylock: the state of Caps Lock, read from the keyboards' event files.  *)
(* A keyboard with LEDs reports what the compositor sets; one without only *)
(* its keys, from which the lock is inferred.  Num Lock is alike.          *)
(*                                                                         *)
(* The compositor, which holds the lock, and the kernel are external.  A   *)
(* batch of events is read one by one.                                     *)
(***************************************************************************)
EXTENDS Parts

CONSTANTS
  Keyboards,   \* event files of keyboards, all opened at the start
  MaxPresses   \* bound: presses of the lock key

ASSUME LocksAssumption == MaxPresses \in Nat

VARIABLES
  leds,       \* the keyboards with LEDs
  plugged,    \* the keyboards there are
  lock,       \* the compositor's lock
  typed,      \* presses the compositor has yet to handle
  presses,    \* presses so far
  queue,      \* the unread events of each keyboard
  unread,     \* keyboards whose initial state is still to be read
  open,       \* mOpen
  capsLock,   \* mCapsLock
  ledSeen,    \* ghost: the press of the last LED event applied
  doubtful    \* ghost: the inferred state may be wrong

external == <<leds, plugged, lock, typed, presses>>
locks    == <<external, queue, unread, open, capsLock, ledSeen, doubtful>>

KeyEvent(v, n) == [type |-> "key", value |-> v, press |-> n]
LedEvent(v, n) == [type |-> "led", value |-> v, press |-> n]

-----------------------------------------------------------------------------
(* The user, the kernel and the compositor.                                *)

Press(k) ==
  /\ k \in plugged /\ presses < MaxPresses
  /\ presses' = presses + 1
  /\ typed' = Append(typed, presses')
  /\ queue' = [queue EXCEPT ![k] = @ \o <<KeyEvent("down", presses'), KeyEvent("up", presses')>>]
  /\ UNCHANGED <<leds, plugged, lock, unread, open, capsLock, ledSeen, doubtful>>

\* The compositor toggles the lock and sets the LEDs of every keyboard.
Toggle ==
  /\ typed # <<>>
  /\ typed' = Tail(typed)
  /\ lock' = ~lock
  /\ queue' = [k \in Keyboards |-> IF k \in leds \cap plugged
                                   THEN Append(queue[k], LedEvent(lock', Head(typed)))
                                   ELSE queue[k]]
  /\ UNCHANGED <<leds, plugged, presses, unread, open, capsLock, ledSeen, doubtful>>

\* The events nobody read go with the keyboard.
Unplug(k) ==
  /\ k \in plugged
  /\ plugged' = plugged \ {k}
  /\ queue' = [queue EXCEPT ![k] = <<>>]
  /\ doubtful' = (doubtful \/ queue[k] # <<>> \/ typed # <<>>)
  /\ UNCHANGED <<leds, lock, typed, presses, unread, open, capsLock, ledSeen>>

-----------------------------------------------------------------------------
(* The shell.                                                              *)

\* readInitialState: of the LEDs, or of the console, which may not be had.
ReadInitialState(k) ==
  /\ k \in unread
  /\ unread' = unread \ {k}
  /\ LET consoleUnread == k \notin leds
         pending == typed # <<>> \/ \E j \in open \ leds : queue[j] # <<>>
     IN \/ capsLock' = lock /\ doubtful' = (doubtful \/ pending)
        \/ /\ consoleUnread \/ k \notin plugged
           /\ UNCHANGED capsLock /\ doubtful' = TRUE
  /\ UNCHANGED <<external, queue, open, ledSeen>>

EveryEdge(e) == e.type = "key"  \* fault: a release toggles as well
Toggles(e) == e.type = "key" /\ e.value = "down"

\* applyEvent: LEDs are authoritative, without them a press toggles.
ApplyEvent(k) ==
  /\ unread = {} /\ k \in open /\ queue[k] # <<>>
  /\ queue' = [queue EXCEPT ![k] = Tail(@)]
  /\ LET e == Head(queue[k]) IN
       IF k \in leds
       THEN IF e.type = "led"
            THEN /\ capsLock' = e.value /\ ledSeen' = e.press
                 /\ doubtful' = \E j \in open \ leds : queue[j] # <<>>
            ELSE UNCHANGED <<capsLock, ledSeen, doubtful>>
       ELSE IF Toggles(e)
            THEN /\ capsLock' = ~capsLock
                 /\ doubtful' = (doubtful \/ e.press <= ledSeen)
                 /\ UNCHANGED ledSeen
            ELSE UNCHANGED <<capsLock, ledSeen, doubtful>>
  /\ UNCHANGED <<external, unread, open>>

\* The read of a keyboard that is gone fails.
RemoveDevice(k) ==
  /\ unread = {} /\ k \in open \ plugged
  /\ open' = open \ {k}
  /\ UNCHANGED <<external, queue, unread, capsLock, ledSeen, doubtful>>

-----------------------------------------------------------------------------
LocksInit ==
  /\ leds \in Initially("locks", SUBSET Keyboards) /\ plugged = Keyboards
  /\ lock \in Initially("locks", BOOLEAN) /\ typed = <<>> /\ presses = 0
  /\ queue = [k \in Keyboards |-> <<>>]
  /\ unread = Keyboards /\ open = Keyboards
  /\ capsLock = FALSE /\ ledSeen = 0 /\ doubtful = FALSE

LocksNext ==
  \/ Toggle
  \/ \E k \in Keyboards : \/ Press(k) \/ Unplug(k)
                          \/ ReadInitialState(k) \/ ApplyEvent(k) \/ RemoveDevice(k)

-----------------------------------------------------------------------------
(* Properties.                                                             *)

LocksTypeOK ==
  /\ {lock, capsLock, doubtful} \subseteq BOOLEAN
  /\ unread \subseteq open /\ open \subseteq Keyboards
  /\ presses \in 0 .. MaxPresses /\ ledSeen \in 0 .. presses

\* Types are correct, and once every event is read the shell shows the
\* compositor's lock, whichever keyboard it was pressed on and in whichever
\* order the keyboards are read, while one is left; except that what is
\* inferred from keys alone is wrong after a press during the start, after an
\* LED told of the press before the key was read, and after events that went
\* with their keyboard.
LocksMirror ==
  /\ LocksTypeOK
  /\ unread = {} /\ typed = <<>> /\ plugged # {} /\ (\A k \in plugged : queue[k] = <<>>) /\ ~doubtful
       => capsLock = lock
=============================================================================
