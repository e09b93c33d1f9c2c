----------------------------- MODULE MCRaftNode -----------------------------
(* A node with two descriptors to share with the rest of the process.       *)
EXTENDS RaftNode
=============================================================================
