---------------------------- MODULE ShellPlugins -----------------------------
(***************************************************************************)
(* The native plugins that share no state with each other: the Bluetooth   *)
(* agent, the rows of the clipboard, the Wayland selection, the two audio  *)
(* watchers, the lyrics, the keyboard locks and the roles of a colour      *)
(* scheme.  A behaviour follows one of them, chosen at the start; the      *)
(* others keep their initial state.                                        *)
(***************************************************************************)
EXTENDS BluetoothAgent, ClipboardRows, WaylandSelection, AudioProfiles, AudioDevices,
        Lyrics, Keylock, MaterialRoles

audio == <<profiles, audioDevices>>
input == <<wayland, rows, locks>>
vars  == <<part, bluetooth, input, audio, lyricsVars, palette>>

Init ==
  /\ part \in ModelledParts
  /\ AgentInit /\ RowsInit /\ WaylandInit /\ ProfilesInit /\ DevicesInit
  /\ LyricsInit /\ LocksInit /\ PaletteInit

Next ==
  \/ /\ part = "bluetooth" /\ AgentNext
     /\ UNCHANGED <<part, input, audio, lyricsVars, palette>>
  \/ /\ part = "rows" /\ RowsNext
     /\ UNCHANGED <<part, bluetooth, wayland, locks, audio, lyricsVars, palette>>
  \/ /\ part = "wayland" /\ WaylandNext
     /\ UNCHANGED <<part, bluetooth, rows, locks, audio, lyricsVars, palette>>
  \/ /\ part = "locks" /\ LocksNext
     /\ UNCHANGED <<part, bluetooth, wayland, rows, audio, lyricsVars, palette>>
  \/ /\ part = "profiles" /\ ProfilesNext
     /\ UNCHANGED <<part, bluetooth, input, audioDevices, lyricsVars, palette>>
  \/ /\ part = "devices" /\ DevicesNext
     /\ UNCHANGED <<part, bluetooth, input, profiles, lyricsVars, palette>>
  \/ /\ part = "lyrics" /\ LyricsNext
     /\ UNCHANGED <<part, bluetooth, input, audio, palette>>
  \/ /\ part = "palette" /\ PaletteNext
     /\ UNCHANGED <<part, bluetooth, input, audio, lyricsVars>>

Spec == Init /\ [][Next]_vars

\* The event loop of the shell handles what the compositor and the bus send and
\* runs its timers, as long as it runs; the bus and bluetoothd handle what they
\* are sent, and the user answers a dialog in the end.
FairSpec ==
  /\ Spec
  /\ WF_wayland(WaylandLoop)
  /\ WF_bluetooth(part = "bluetooth" /\ ShellStep)
  /\ WF_bluetooth(part = "bluetooth" /\ BluezServes)
  /\ WF_bluetooth(part = "bluetooth" /\ Bounce)
  /\ WF_bluetooth(part = "bluetooth" /\ Complete)

\* The audio page shows what PipeWire has: the devices and their profiles.
AudioMirrors == CardsMirror /\ DevicesMirror

\* After a lost device or a broken connection there is one again; only a
\* reconnect that fails, or whose device is taken at once, ends that.
SelectionReturns == part = "wayland" => DeviceReturns
=============================================================================
