----------------------------- MODULE MCCoauthor -----------------------------
(***************************************************************************)
(* An instance of Coauthor for TLC: a value the patterns recognise and one  *)
(* only lobe B can name.                                                    *)
(***************************************************************************)
EXTENDS Coauthor
=============================================================================
