---------------------------- MODULE MCTaskQueue ----------------------------
(* Instances of TaskQueue for TLC. *)
EXTENDS TaskQueue

CONSTANTS l1, l2, u1, o1

\* Tasks call back into their own loop only, as the library's own tasks do.
NoPosts == {}

\* A pipeline: tasks of l1 hand work to l2 and never the other way round.
Pipeline == {<<l1, l2>>}

\* Two loops whose tasks use each other's channels.
Mutual == {<<l1, l2>>, <<l2, l1>>}
=============================================================================
