------------------------------- MODULE MCLogger -------------------------------
(***************************************************************************)
(* Logger for TLC: three lines into a buffer that two of them fill.        *)
(***************************************************************************)
EXTENDS Logger
=============================================================================
