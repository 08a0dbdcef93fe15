----------------------------- MODULE ObjectGraph -----------------------------
(***************************************************************************)
(* The repository that Walk and UploadPack read: the Git objects there can *)
(* be, known by their IDs, and those that are there by now.                *)
(***************************************************************************)

CONSTANT
    ID            \* IDs of Git objects

VARIABLE
    objects       \* the IDs of the objects in the repository
=============================================================================
