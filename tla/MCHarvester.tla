---------------------------- MODULE MCHarvester ----------------------------
(* Instances of Harvester for TLC. *)
EXTENDS HarvesterProperties

CONSTANTS k1, m1, h1

OneKaggle == {k1}
OneModal  == {m1}
OneSpace  == {h1}
=============================================================================
