------------------------------ MODULE CacheEntry ------------------------------
(***************************************************************************)
(* What the response cache promises whoever relies on one of its keys: an  *)
(* entry is what was put there last, it expires a lifetime after that,     *)
(* nothing prolongs or alters it, and it may be gone at any moment         *)
(* (cache/memory.py).  ResponseCache keeps this promise for each of its    *)
(* keys.  Enrichment puts rules no otherwise, and lets go of them whenever *)
(* this module may.                                                        *)
(***************************************************************************)
EXTENDS Naturals

CONSTANTS
    Values,   \* what may be kept
    Ttl,      \* an entry's lifetime; 0 keeps it out
    NONE      \* nothing is kept

VARIABLES
    now,      \* the clock
    kept      \* the entry for the key, or NONE

entryVars == <<now, kept>>

Init == now = 0 /\ kept = NONE

Put ==
    /\ Ttl # 0
    /\ \E v \in Values : kept' = [value |-> v, expires |-> now + Ttl]
    /\ UNCHANGED now

\* Evicted, deleted by the lookup that found it expired, or not usable.
Drop == kept' = NONE /\ UNCHANGED now

Pass == now' = now + 1 /\ UNCHANGED kept

Next == Put \/ Drop \/ Pass

Spec == Init /\ [][Next]_entryVars
=============================================================================
