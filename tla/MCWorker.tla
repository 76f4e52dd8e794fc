------------------------------ MODULE MCWorker ------------------------------
(* Model-checking instance of Worker: a relay that sends at most MaxMsgs   *)
(* messages, batches of at most three frames, the code's merge_size of 2.  *)
EXTENDS Worker

CONSTANTS k_none, k_relay

MCMaxMsgs == 4
MCMaxFrames == 3
MCMergeSize == 2
=============================================================================
