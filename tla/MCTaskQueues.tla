----------------------------- MODULE MCTaskQueues -----------------------------
(* Instances of TaskQueues for TLC. *)
EXTENDS TaskQueues, TLC

CONSTANTS platform, ui, raster

\* The pair the raster thread merger of the engine merges.
RasterIntoPlatform == {<<platform, raster>>}

\* Every pair but those that subsume the queue with the micro tasks.
PairsSparingUi == {p \in Queues \X Queues : p[1] # p[2] /\ p[2] # ui}

\* With these pairs the platform and the raster queue play the same part.
PlatformAndRaster == Permutations({platform, raster})
===============================================================================
