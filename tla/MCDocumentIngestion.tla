------------------------ MODULE MCDocumentIngestion ------------------------
(* DocumentIngestion for TLC. *)
EXTENDS DocumentIngestion
=============================================================================
