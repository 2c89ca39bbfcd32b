---------------------------- MODULE MCSourceRegistry ----------------------------
(* An instance of SourceRegistry for TLC: one source is there at first. *)
EXTENDS SourceRegistry, TLC

CONSTANTS s1, s2, s3, u1, u2, t1, t2

OneSource == s1 :> u1
===============================================================================
