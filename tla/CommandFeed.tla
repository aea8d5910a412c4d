----------------------------- MODULE CommandFeed -----------------------------
(***************************************************************************)
(* What the receiving side of a trace connection promises about the        *)
(* commands a client writes: every command is taken once, in the order it  *)
(* was written, and what has been taken is shown to the widgets as one     *)
(* batch, in the same order.  A command that cannot be decoded is skipped  *)
(* and nothing else is.                                                    *)
(*                                                                         *)
(* A command is identified by the offset of its first byte in the stream.  *)
(***************************************************************************)
EXTENDS Integers, Sequences

VARIABLES
  written, (* written[f]: the length, header included, of the command at f *)
  next,    (* the offset of the next command to take                       *)
  taken,   (* commands handled and not yet committed to the widgets        *)
  shown    (* commands committed to the widgets, in order                  *)

feed == << written, next, taken, shown >>

Init ==
  /\ written = << >>
  /\ next = 0
  /\ taken = << >>
  /\ shown = << >>

\* The client appends a command to the stream, after everything written before.
Write ==
  /\ \E f \in DOMAIN written' \ DOMAIN written :
       /\ DOMAIN written' = DOMAIN written \cup {f}
       /\ written'[f] > 0
       /\ next <= f
       /\ \A g \in DOMAIN written :
            /\ written'[g] = written[g]
            /\ g + written[g] <= f
  /\ UNCHANGED << next, taken, shown >>

\* The next command of the stream is handled.
Take ==
  /\ next \in DOMAIN written
  /\ taken' = Append(taken, next)
  /\ next' = next + written[next]
  /\ UNCHANGED << written, shown >>

\* The next command of the stream cannot be decoded.
Skip ==
  /\ next \in DOMAIN written
  /\ next' = next + written[next]
  /\ UNCHANGED << written, taken, shown >>

\* Everything taken so far becomes visible at once.
Show ==
  /\ taken # << >>
  /\ shown' = shown \o taken
  /\ taken' = << >>
  /\ UNCHANGED << written, next >>

Next == Write \/ Take \/ Skip \/ Show

Spec == Init /\ [][Next]_feed
=============================================================================
