-------------------------- MODULE PublicationGate ---------------------------
(***************************************************************************)
(* The publication rules of a project as the docstrings state them:        *)
(* publish_project.py, takedown_project.py, upload_before_image.py,        *)
(* save_project.py and project.py as one small state machine.  Nothing     *)
(* leaves "withdrawn": "A takedown must not be undoable by publishing      *)
(* again without a deliberate, separate reversal - there is none yet."     *)
(***************************************************************************)

VARIABLES
    gate,   \* "absent", "draft", "public" or "withdrawn"
    fit     \* there is a successful render and a before-image

gateVars == <<gate, fit>>

Init == gate = "absent" /\ fit = FALSE

\* A pipeline run is saved: a private draft, and no reversal of a takedown.
Run ==
    /\ gate # "withdrawn"
    /\ gate' = "draft"
    /\ fit' \in BOOLEAN

\* A before-image is uploaded: it can make a project fit, never unfit.
AddImage ==
    /\ gate # "absent"
    /\ UNCHANGED gate
    /\ fit' \in BOOLEAN
    /\ fit => fit'

Publish ==
    /\ gate \in {"draft", "public"}
    /\ fit
    /\ gate' = "public"
    /\ UNCHANGED fit

Takedown ==
    /\ gate # "absent"
    /\ gate' = "withdrawn"
    /\ UNCHANGED fit

Next == Run \/ AddImage \/ Publish \/ Takedown

Spec == Init /\ [][Next]_gateVars
=============================================================================
