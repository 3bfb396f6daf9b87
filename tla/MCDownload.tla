----------------------------- MODULE MCDownload -----------------------------
(* Two builds; a primary site that may lack the file or have another one,   *)
(* the upstream repository, and a backup that never answers.               *)
EXTENDS GitBackend

CONSTANTS b1, b2

MCServes == <<{"fail", "bad"}, {"fail", "good", "bad"}, {"fail"}>>
MCModes == {"hashes", "nofile", "nohash", "unknown"}
=============================================================================
