------------------------- MODULE MCRmanagerExecutor -------------------------
(***************************************************************************)
(* The instances of MCRmanager, for the refinement.                        *)
(***************************************************************************)
EXTENDS MCRmanager, RmanagerImplements
=============================================================================
