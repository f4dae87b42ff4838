------------------------------ MODULE MCLoader ------------------------------
(* Instances of the loader for TLC.                                        *)
EXTENDS Loader
=============================================================================
