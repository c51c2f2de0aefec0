------------------------- MODULE MC_AddonsContents --------------------------
(* The addons window with three languages and three installed user scripts.    *)
EXTENDS AddonsContents

MC_Languages == {"en", "pl", "de"}
MC_AddonOrder == <<"script1", "script2", "script3">>

=============================================================================
