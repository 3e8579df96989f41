------------------------------ MODULE MCJobRun ------------------------------
(* Instances of JobRun for TLC. *)
EXTENDS JobRun

\* None, no time at all, less than a poll, exactly a poll, more than one.
SomeTimeouts == {Forever, 0, 1, 2, 5}
OneTimeout   == {3}
=============================================================================
