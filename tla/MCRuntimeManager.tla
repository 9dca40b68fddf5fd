--------------------------- MODULE MCRuntimeManager ---------------------------
(* Small instances of RuntimeManager: what may happen is bounded by budgets. *)
EXTENDS RuntimeManager, TLC

CONSTANTS k1, k2, k3, k4, k5, p1, p2, p3, Starts, Stops, Deletes, Losses, Failures, Crashes, Delays, Total

ThreeRuntimes == {k1, k2, k3}
FourRuntimes  == {k1, k2, k3, k4}
FiveRuntimes  == {k1, k2, k3, k4, k5}
TwoProcs      == {p1, p2}
ThreeProcs    == {p1, p2, p3}
OnlyTransient == {"TRANSIENT"}
AnyClosing    == DisconnectType

MCBudget == [start |-> Starts, stop |-> Stops, delete |-> Deletes,
             close |-> Losses, fail |-> Failures, crash |-> Crashes,
             late |-> Delays, any |-> Total]

Symmetry == Permutations(Runtimes) \cup Permutations(Procs)
===============================================================================
