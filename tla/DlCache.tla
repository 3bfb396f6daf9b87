------------------------------- MODULE DlCache -------------------------------
(***************************************************************************)
(* What the builds that share a download directory can rely on for one     *)
(* file of it: the file appears whole, a rejected content may be thrown    *)
(* away, and a content that is to be kept is there to stay.                *)
(***************************************************************************)
CONSTANTS
    Content,    \* what the file can hold
    Absent      \* no file

VARIABLES
    keep,       \* the contents that are never thrown away, as configured
    cache       \* the file

CacheInit == keep \subseteq Content /\ cache \in Content \cup {Absent}

Place == cache = Absent /\ cache' \in Content

Discard == cache \notin keep /\ cache' = Absent

CacheNext == (Place \/ Discard) /\ keep' = keep

CacheSpec == CacheInit /\ [][CacheNext]_<<cache, keep>>
=============================================================================
