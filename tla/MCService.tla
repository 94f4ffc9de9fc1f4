----------------------------- MODULE MCService -----------------------------
(* The service with two process numbers, so that a number is given out again  *)
(* while another process still knows it, and two segments: the one the name   *)
(* leads to and one that lost its name.                                       *)
EXTENDS Service
=============================================================================
