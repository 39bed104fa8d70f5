--------------------------- MODULE InstalledRuntime ---------------------------
(***************************************************************************)
(* What `adp-harness self` promises: there is one installed version, at    *)
(* most one version to roll back to, and rolling back uses it up.          *)
(*                                                                         *)
(* Failures are undone and leave no trace.  A crash, or an undo that fails *)
(* as well, may cost the version to roll back to; of the installed one,    *)
(* only an uninstall that crashes or cannot be undone leaves something     *)
(* that does not run.                                                      *)
(***************************************************************************)
CONSTANTS Versions, None, Broken

VARIABLES installed, fallback,
          hurt      \* a crash, or an undo that failed, has happened

vars == <<installed, fallback, hurt>>

Init == installed \in Versions /\ fallback = None /\ hurt = FALSE

(* hurt is for good. *)
Suffer == hurt => hurt'

Update ==
    /\ installed \in Versions
    /\ installed' \in Versions \ {installed}
    /\ \/ fallback' = installed
       \/ hurt' /\ fallback' \in {fallback, None}
    /\ Suffer

Rollback ==
    /\ installed \in Versions /\ fallback # None
    /\ installed' = fallback
    /\ fallback' = None
    /\ Suffer

Uninstall ==
    /\ installed \in Versions
    /\ installed' = None
    /\ fallback' = None
    /\ Suffer

Forget ==
    /\ hurt'
    /\ fallback' \in {fallback, None}
    /\ UNCHANGED installed

Break ==
    /\ installed \in Versions
    /\ hurt'
    /\ installed' = Broken
    /\ UNCHANGED fallback

Next == Update \/ Rollback \/ Uninstall \/ Forget \/ Break

Spec == Init /\ [][Next]_vars
=============================================================================
