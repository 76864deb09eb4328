-------------------------- MODULE MCPipelineTimeouts --------------------------
(***************************************************************************)
(* Two configurations of the pipeline in one run; config says which one a  *)
(* behaviour has: the one the cfg gives, and AtOnce, where a channel times *)
(* out with its window's last L1 block and one more submission is issued,  *)
(* so that several artifacts and leases hang together when a channel is    *)
(* replayed.                                                               *)
(***************************************************************************)
EXTENDS MCBatchPipeline

VARIABLE config

AtOnce == INSTANCE BatchPipeline
            WITH ChannelTimeout <- 0, MaxL1 <- 1, MaxSubmissions <- 4

MCInit == Init /\ config \in {"window", "at once"}
MCNext ==
    \/ config = "window" /\ Next /\ UNCHANGED config
    \/ config = "at once" /\ AtOnce!Next /\ UNCHANGED config
MCSpec == MCInit /\ [][MCNext]_<<vars, config>>
=============================================================================
