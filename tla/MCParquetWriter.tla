-------------------------- MODULE MCParquetWriter --------------------------
(* An instance of ParquetWriter for TLC. *)
EXTENDS ParquetWriter

\* Two hours, between which the clock goes forwards and back.
TwoHours == 0 .. 1

AnyCall == Calls
=============================================================================
