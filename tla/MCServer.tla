------------------------------ MODULE MCServer ------------------------------
(* Server with two worker loops.                                              *)
EXTENDS Server

CONSTANTS w1, w2

TwoWorkers == <<w1, w2>>
=============================================================================
