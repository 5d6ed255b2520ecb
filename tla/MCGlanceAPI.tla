---------------------------- MODULE MCGlanceAPI ----------------------------
(***************************************************************************)
(* GlanceAPI for TLC.  The configurations keep only the constants that a   *)
(* question needs: credentials for the rotation runs, storage values for   *)
(* the StatefulSet runs, topologies for the topology runs.                 *)
(***************************************************************************)
EXTENDS GlanceAPI, TLC

\* Credentials and topologies are interchangeable.
Symmetry == Permutations(Creds) \cup Permutations(Topologies)

=============================================================================
