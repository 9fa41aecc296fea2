------------------------------ MODULE MCSeqBuild -----------------------------
(* Small instances of SeqBuild.                                            *)
EXTENDS SeqBuild, Shapes
=============================================================================
