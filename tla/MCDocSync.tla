------------------------------ MODULE MCDocSync ------------------------------
(* DocSync on the documents of MCDocuments; the constants are in the .cfg. *)
EXTENDS DocSync, MCDocuments
=============================================================================
