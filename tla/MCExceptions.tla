----------------------------- MODULE MCExceptions -----------------------------
(* Instances of Exceptions for TLC. *)
EXTENDS Exceptions

MCPrograms ==
  { {"inTry", "flat"}, {"inTry", "flat", "contained"}, {"onlyTop"} }
=============================================================================
