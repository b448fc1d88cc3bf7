--------------------------- MODULE MCInstanceFiles ---------------------------
(***************************************************************************)
(* The runs of InstanceFiles, with what the repository's documents claim   *)
(* of the files and the code does not keep.                                *)
(***************************************************************************)
EXTENDS InstanceFiles

\* SYSTEM_SPECIFICATION 25.3: after a kill the next startup restores the state
\* from disk.  A kill inside a save leaves a .tmp, and loading refuses the file.
RestartCompletes == mode = "down" ~> mode # "down"
=============================================================================
