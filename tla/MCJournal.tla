------------------------------ MODULE MCJournal ------------------------------
(***************************************************************************)
(* A small instance of Journal: its constants are given in the             *)
(* configuration file.                                                     *)
(***************************************************************************)
EXTENDS Journal
=============================================================================
