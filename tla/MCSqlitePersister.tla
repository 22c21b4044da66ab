-------------------------- MODULE MCSqlitePersister --------------------------
(* SqlitePersister with a tracker row and one check row. *)
EXTENDS SqlitePersister
=============================================================================
