------------------------- MODULE MCSchemaMigration -------------------------
(***************************************************************************)
(* The instance of SchemaMigration for TLC.                                *)
(***************************************************************************)
EXTENDS SchemaMigration, TLC

CONSTANTS c1, c2, c3

\* Two processes with this library and one with a later one.
MixedLibraries == c1 :> 1 @@ c2 :> 1 @@ c3 :> 3

\* One of them has another default than the server's.
MixedLevels == c1 :> "read_committed" @@ c2 :> "repeatable_read" @@ c3 :> "read_committed"
=============================================================================
