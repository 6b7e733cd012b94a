----------------------------- MODULE MCLearning -----------------------------
(***************************************************************************)
(* Two courses with two modules and two lessons, two videos, one student's *)
(* progress, and three notifications.                                      *)
(***************************************************************************)
EXTENDS Learning, TLC

CONSTANTS m1, m2, l1, l2, v1

Gives(l, minutes, with) == [id |-> l, durationMinutes |-> minutes, video |-> with]
Section(m, lessons) == [id |-> m, lessons |-> lessons]

\* A lesson with a video and a second one, in a section before the one it may have been in.
MCPlan == {<<Section(m2, <<Gives(l1, 1, v1), Gives(l2, Null, Null)>>), Section(m1, <<>>)>>}

Interchangeable == Permutations(Proc) \cup Permutations(Course)
=============================================================================
