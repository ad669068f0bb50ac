--------------------------- MODULE JobLifecycleMC ---------------------------
(* Instances of JobLifecycle for TLC: one job, or one batch of two. *)
EXTENDS JobLifecycle

CONSTANTS j1, j2

One    == {j1}
Two    == {j1, j2}
Alone  == {{j1}}
Pair   == {{j1, j2}}
Nobody == {}
=============================================================================
