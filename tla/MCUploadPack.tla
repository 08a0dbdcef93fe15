---------------------------- MODULE MCUploadPack ----------------------------
(* Instances of UploadPack for TLC.                                        *)
EXTENDS UploadPack, TLC

CONSTANTS blob, base, tip, side

(* A blob (for a tree and what is in it) and three commits: two on top of  *)
(* one, the first of which holds the blob.                                 *)
Fork == (blob :> {}) @@ (base :> {blob}) @@ (tip :> {base}) @@ (side :> {base})
=============================================================================
