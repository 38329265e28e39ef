-------------------------- MODULE MCSamplePipeline --------------------------
(* Instances of SamplePipeline for TLC. *)
EXTENDS SamplePipeline

TwoHours == 0 .. 1
OneHour == {0}

\* The next file cannot be created, and the writer ends.
Unwritable == {"open"}
NoFault == {}
=============================================================================
