---------------------------- MODULE MCDashboard ----------------------------
(* Two pages and two messages, a buffer of one or two frames.              *)
EXTENDS Dashboard

CONSTANTS b1, b2
=============================================================================
