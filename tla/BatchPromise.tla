---------------------------- MODULE BatchPromise -----------------------------
(***************************************************************************)
(* What a batch promises whoever started it, whatever the render service   *)
(* does: one verdict for every business, in the order of discovery and     *)
(* never revised, one render asked for at a time, and nothing stored       *)
(* before the last verdict is in (run_makeover_pipeline.py, and the loops  *)
(* over save_project.py in the CLI and the API).                           *)
(***************************************************************************)
EXTENDS Naturals, Sequences

CONSTANT N   \* businesses discovered

VARIABLES
    phase,      \* "working", "storing" or "over"
    verdicts,   \* "rendered" or "failed" for each business so far
    asked,      \* whether the next one's render has been asked for
    stored      \* how many of the verdicts are stored

promiseVars == <<phase, verdicts, asked, stored>>

Init == phase = "working" /\ verdicts = <<>> /\ asked = FALSE /\ stored = 0

Ask ==
    /\ phase = "working" /\ ~asked /\ Len(verdicts) < N
    /\ asked' = TRUE
    /\ UNCHANGED <<phase, verdicts, stored>>

\* A business is rendered only if that was asked for; it may fail before.
Settle ==
    /\ phase = "working" /\ Len(verdicts) < N
    /\ \E verdict \in {"rendered", "failed"} :
         /\ verdict = "rendered" => asked
         /\ verdicts' = Append(verdicts, verdict)
    /\ asked' = FALSE
    /\ phase' = IF Len(verdicts') = N THEN "storing" ELSE "working"
    /\ UNCHANGED stored

\* There was nothing to discover.
Nothing ==
    /\ phase = "working" /\ N = 0
    /\ phase' = "storing"
    /\ UNCHANGED <<verdicts, asked, stored>>

Store ==
    /\ phase = "storing" /\ stored < N
    /\ stored' = stored + 1
    /\ UNCHANGED <<phase, verdicts, asked>>

\* An exception ends the batch at any point; what is not stored is lost.
Stop ==
    /\ phase # "over"
    /\ phase' = "over" /\ asked' = FALSE
    /\ UNCHANGED <<verdicts, stored>>

Next == Ask \/ Settle \/ Nothing \/ Store \/ Stop

Spec == Init /\ [][Next]_promiseVars
=============================================================================
