----------------------------- MODULE BoundedFifo -----------------------------
(***************************************************************************)
(* What one frame queue promises: frames come out in the order they were   *)
(* put in, none is lost, invented or doubled, and there are never more     *)
(* than its size.                                                      *)
(***************************************************************************)
EXTENDS Naturals, Sequences

CONSTANTS Frames, Size

VARIABLE buffer

Init == buffer = <<>>

Put ==
  /\ Len(buffer) < Size
  /\ \E f \in Frames : buffer' = Append(buffer, f)

Get == buffer # <<>> /\ buffer' = Tail(buffer)

Spec == Init /\ [][Put \/ Get]_buffer
=============================================================================
