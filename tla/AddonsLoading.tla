--------------------------- MODULE AddonsLoading ----------------------------
(***************************************************************************)
(* What an addons page promises about loading, without timers: it is idle *)
(* until first shown, then loading, then loaded, and never goes back; once *)
(* loading it becomes loaded.  AddonsContents implements it.               *)
(***************************************************************************)
VARIABLE phase

Init == phase = "idle"

\* The page is shown for the first time.
Start == phase = "idle" /\ phase' = "loading"

\* The list is filled and the page reports it is loaded.
Finish == phase = "loading" /\ phase' = "loaded"

Next == Start \/ Finish

Spec == Init /\ [][Next]_phase /\ WF_phase(Finish)

=============================================================================
