--------------------------- MODULE SlidingWindow ---------------------------
(***************************************************************************)
(* What a histogram of response times remembers: the latest observations,  *)
(* as many as there are and at most MaxSize.                               *)
(***************************************************************************)
EXTENDS Sequences, Integers

CONSTANTS MaxSize, Durations

VARIABLE recent   \* the observations, the oldest first

Remember(value) ==
    recent' = Append(IF Len(recent) < MaxSize THEN recent ELSE Tail(recent), value)

WindowSpec == recent = <<>> /\ [][\E d \in Durations : Remember(d)]_recent

=============================================================================
