-------------------------- MODULE MCEngineReload --------------------------
(***************************************************************************)
(* One device with two points.  The first is there from the start and      *)
(* owned by an FMU provider; the second is created by a client.            *)
(***************************************************************************)
EXTENDS EngineReload, TLC

CONSTANTS d1, p1, p2, r1, r2, w1

MCDeviceOf == [p \in {p1, p2} |-> d1]

\* The reload tasks are interchangeable.
ReloadSymmetry == Permutations(Reloads)
===========================================================================
