---------------------------- MODULE MCHttpServer ----------------------------
(* Instances of HttpServer for TLC. *)
EXTENDS HttpServer

MCPrograms ==
  { {"one", "fresh", "timeouts", "keyed", "whole", "contained"},
    {"one", "fresh", "mute"},
    {"keyed", "mute", "untimed", "contained"},
    {"one", "keyed", "untimed", "alone"} }
=============================================================================
