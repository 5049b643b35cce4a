--------------------------- MODULE MCReplayMemory ---------------------------
(* Small instances of ReplayMemory.                                        *)
EXTENDS ReplayMemory

CONSTANTS MaxAddress, MaxSize

MCEntries == (0 .. MaxAddress) \X (1 .. MaxSize)

(* At most three allocations, which may share pages, overlap or be equal.  *)
(* compute_allocations relies on nothing else about them.                  *)
UpToThree == {{}} \cup {{e, f, g} : e, f, g \in MCEntries}

MCInit == entries \in UpToThree /\ Init
MCSpec == MCInit /\ [][Next]_vars
=============================================================================
