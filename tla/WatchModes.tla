----------------------------- MODULE WatchModes -----------------------------
(***************************************************************************)
(* What the commands promise together, without saying how: watching is in  *)
(* one mode at a time, the modes follow each other in a fixed order, and   *)
(* in each mode a call to a heap function can reach only certain kinds of  *)
(* functions.  Outside of opening and closing a session, and of a capture, *)
(* the four heap functions are all of one kind.  A capture whose function  *)
(* throws leaves its hooks behind, and stop_watching takes them out.       *)
(*                                                                         *)
(* HeapWatcher and KnownLeaks implement it: the mode is told by which      *)
(* command holds command_mutex_, and reach by the hook table.              *)
(***************************************************************************)

VARIABLES
  mode,   \* "quiet", "opening", "watching", "closing", "capturing", "abandoned"
  reach   \* the kinds of function the hook table leads to

mode_vars == <<mode, reach>>

ModeInit == mode = "quiet" /\ reach = {"libc"}

(* start_watching, capture_known_leak, stop_watching begin.  Once a capture *)
(* was abandoned, only stop_watching does anything.                         *)
Begin ==
  /\ \/ mode = "quiet" /\ mode' \in {"opening", "capturing"}
     \/ mode \in {"quiet", "watching", "abandoned"} /\ mode' = "closing"
  /\ UNCHANGED reach

(* The hooks of a session or of a capture replace those of the C library. *)
Instrument(during, kind) ==
  /\ mode = during
  /\ reach \subseteq {"libc", kind}
  /\ reach' \in {{"libc", kind}, {kind}}
  /\ UNCHANGED mode

(* And the other way around. *)
Remove(during) ==
  /\ mode = during
  /\ reach' \in {reach \cup {"libc"}, {"libc"}}
  /\ UNCHANGED mode

Watch == mode = "opening" /\ reach = {"multi"} /\ mode' = "watching" /\ UNCHANGED reach
Rest  == mode \in {"closing", "capturing"} /\ reach = {"libc"} /\ mode' = "quiet" /\ UNCHANGED reach

(* The function a capture ran threw: the hooks stay. *)
Abandon == mode = "capturing" /\ reach = {"single"} /\ mode' = "abandoned" /\ UNCHANGED reach

ModeNext ==
  \/ Begin
  \/ Instrument("opening", "multi") \/ Instrument("capturing", "single")
  \/ Remove("closing") \/ Remove("capturing")
  \/ Watch \/ Rest \/ Abandon

ModeSpec == ModeInit /\ [][ModeNext]_mode_vars
=============================================================================
