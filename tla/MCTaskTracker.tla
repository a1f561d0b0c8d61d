---------------------------- MODULE MCTaskTracker ----------------------------
(***************************************************************************)
(* One chat.  Two runs, so that a late reader of the first meets the       *)
(* second; the subscribers may start, join, be refused or leave.           *)
(***************************************************************************)
EXTENDS TaskTracker
=============================================================================
