-------------------------- MODULE MCScheduledTasks --------------------------
(* Instances of ScheduledTasks for TLC.                                     *)
EXTENDS ScheduledTasks

Now          == {0}
OneOrFour    == {1, 4}
Cancel       == {"cancelled"}
=============================================================================
