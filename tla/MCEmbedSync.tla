----------------------------- MODULE MCEmbedSync -----------------------------
(***************************************************************************)
(* EmbedSync for TLC: two files, a handful of chunk ids, pages of three  *)
(* and batches of two, so that a page holds both files and a batch can shrink. *)
(***************************************************************************)
EXTENDS EmbedSync

MCChunkCounts == {1, 2}

World(modes, faults, saves, passes, ids) ==
  [modes |-> modes, faults |-> faults, saves |-> saves, passes |-> passes, ids |-> ids]
DaemonWorld == World({"daemon"}, {"transient", "refused"}, FALSE, 2, 2)
BusyWorld == World({"daemon"}, {"refused"}, FALSE, 1, 3)
CliWorld == World({"cli"}, {"transient", "stop"}, FALSE, 1, 4)
CliRefusedWorld == World({"cli"}, {"transient", "refused", "stop"}, FALSE, 1, 3)
CrashWorld ==
  World({"daemon", "cli"}, {"abort", "writeError", "upgrade", "crash", "stop"}, TRUE, 1, 2)

MCWorlds == {DaemonWorld, BusyWorld, CliWorld, CliRefusedWorld, CrashWorld}
=============================================================================
