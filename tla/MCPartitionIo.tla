--------------------------- MODULE MCPartitionIo ----------------------------
(***************************************************************************)
(* Instance of PartitionIo for TLC: a partition of three bytes inside a    *)
(* disk of five, and buffers shorter and longer than what is left of it.   *)
(***************************************************************************)
EXTENDS PartitionIo

SmallBuffers == { <<>>, <<1>>, <<1, 0>>, <<1, 1, 0, 1>> }

\* Around both ends of the partition.
SmallOffsets == {-4, -3, -1, 0, 1, 2, 3, 4}
=============================================================================
