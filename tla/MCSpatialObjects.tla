-------------------------- MODULE MCSpatialObjects --------------------------
(* Small instances of SpatialObjects. *)
EXTENDS SpatialObjects
=============================================================================
