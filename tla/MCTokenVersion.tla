--------------------------- MODULE MCTokenVersion ---------------------------
(* TokenVersion on a small instance.                                        *)
EXTENDS TokenVersion, TLC

OverlapWorkload == {"overlap"}
=============================================================================
