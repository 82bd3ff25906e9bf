----------------------------- MODULE MCPlayback -----------------------------
(***************************************************************************)
(* Instances of Playback for TLC.  Requests are interchangeable.           *)
(***************************************************************************)
EXTENDS Playback, TLC

Symmetry == Permutations(Web)

\* Play requests against everything that removes rows, ids or requests, in and out
\* of the shuffled order.
RequestOps == {"play", "next", "skip", "clear", "clearKeep", "delete", "add", "fetchAdd",
               "enqueueGated", "shuffle"}
\* Everything that sends the voice service a command or moves the shuffled order or the
\* index into it, on the event loop.
CommandOps == {"play", "playFirst", "skip", "stop", "pause", "resume", "voicePlay",
               "enqueue", "enqueueGated", "replay", "lookup", "add", "clear", "repeat",
               "shuffle", "next", "previous"}
\* What may happen around a track's end without leaving the queue silent on purpose.
AdvanceOps == {"play", "next", "previous", "clear", "clearKeep", "add", "lookup"}
=============================================================================
