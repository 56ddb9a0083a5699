------------------------------ MODULE MCLaunch ------------------------------
(* A small instance of Launch for TLC.                                       *)
EXTENDS Launch
=============================================================================
