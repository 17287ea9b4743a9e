------------------------------- MODULE MCHxfs -------------------------------
(* The volume by itself. *)
EXTENDS HxfsVolume

HxSpec == HxInit /\ [][HxNext]_hxVars

MCFiles == <<"f">>
=============================================================================
