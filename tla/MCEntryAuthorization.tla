------------------------ MODULE MCEntryAuthorization -------------------------
(* Small instances of EntryAuthorization for TLC. *)
EXTENDS EntryAuthorization
==============================================================================
