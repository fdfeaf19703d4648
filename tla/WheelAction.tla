---------------------------- MODULE WheelAction ----------------------------
(***************************************************************************)
(* What the action that builds a wheel promises to what depends on it: its *)
(* output appears at once and whole, it is made of the sources and patches *)
(* of this build alone, and a failed or killed action leaves none.         *)
(***************************************************************************)
CONSTANTS
  Correct(_, _),  \* whether a wheel is one of this job
  NoWheel

VARIABLES job, out, ended

Init == out = NoWheel /\ ended = FALSE

Deliver ==
  /\ ~ended /\ ended' = TRUE
  /\ out' # NoWheel /\ Correct(job, out')
  /\ UNCHANGED job

Fail == ~ended /\ ended' = TRUE /\ UNCHANGED <<job, out>>

\* Bazel drops the output before it runs the action again, with other inputs
\* perhaps.
Again == ended /\ ended' = FALSE /\ out' = NoWheel

Next == Deliver \/ Fail \/ Again
Spec == Init /\ [][Next]_<<job, out, ended>>
=============================================================================
