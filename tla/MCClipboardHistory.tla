------------------------ MODULE MCClipboardHistory ------------------------
(* Instances of ClipboardHistory for TLC: two contents that fit a limit of
   3 alone and a limit of 4 together, and a blank one. *)
EXTENDS ClipboardHistory

MCSize == [c \in Contents |-> CASE c = "short" -> 1
                                [] c = "long" -> 3 [] c = "blank" -> 1]
===========================================================================
