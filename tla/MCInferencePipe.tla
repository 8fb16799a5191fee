-------------------------- MODULE MCInferencePipe --------------------------
(* A small instance of the pipe for TLC: queue sizes and thread counts.    *)
EXTENDS InferencePipe

SmallQueues == <<2, 2, 1>>
MoreThreads == <<2, 1, 1>>
=============================================================================
