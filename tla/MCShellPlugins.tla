--------------------------- MODULE MCShellPlugins ----------------------------
(* Values for ShellPlugins that a cfg cannot write.                          *)
EXTENDS ShellPlugins

\* A bluetoothd that does its worst, one that the shell keeps up with, and one
\* that the shell lags behind.
Worst     == [refuses |-> TRUE, lag |-> "shell and bus"]
Tame      == [refuses |-> FALSE, lag |-> "nobody"]
MCBuses   == {Worst, Tame}
MCLagging == {[refuses |-> FALSE, lag |-> "shell"]}

\* Two searches, one that matches two rows equally well and one that ranks two.
MCScore == [q \in Queries |-> [i \in RowIds |->
  IF q = "even" THEN IF i = 3 THEN 0 ELSE 1 ELSE IF i = 1 THEN 0 ELSE i]]

MCEntries == {[type |-> "html", name |-> "none"], [type |-> "png", name |-> "file"]}

\* A song with word times and lines out of order, one with plain lyrics, none.
MCSongs ==
  [ballad |-> [kind |-> "synced", length |-> 12,
               lines |-> <<[time |-> 1, tokens |-> <<1, 3>>, words |-> <<>>],
                           [time |-> 4, tokens |-> <<2>>, words |-> <<4, 4, 6>>],
                           [time |-> 3, tokens |-> <<1, 1>>, words |-> <<>>]>>],
   hymn   |-> [kind |-> "plain"],
   noise  |-> [kind |-> "none"]]

\* A palette that is out of reach but at one tone, dark, in the middle and
\* light.
MCReaches == {<<2, 2>>, <<20, 45>>, <<51, 56>>, <<60, 100>>}
=============================================================================
