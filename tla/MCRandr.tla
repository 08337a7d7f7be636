------------------------------- MODULE MCRandr ------------------------------
(* Small instances of Randr. *)
EXTENDS Randr
=============================================================================
