-------------------------- MODULE MCRegistrySystem --------------------------
(* Model values and symmetry for checking RegistrySystem with TLC. *)
EXTENDS RegistrySystem, TLC

CONSTANTS p1, p2, p3

ProcPair == {p1, p2}
Procs == {p1, p2, p3}

(* Ids are issued in order, but no operation depends on which id it is. *)
PairSymmetry == Permutations(ProcPair)
ProcSymmetry == Permutations(Procs)

(* reply is written by every call of the manager before it is read, in the *)
(* same step: its last value tells no two states apart.                    *)
StateButReply ==
  <<key_states, access_granted, token_stream_map, issued, serving, client,
    streams, timeouts, overlapped>>

(* All clients connect before the first makes a call. *)
ConnectedFirst == issued = ProcId \/ \A p \in ProcId : call[p] = NoCall

(* Two clients are left that are in sync and have not ended. What follows  *)
(* is not about one client beside another any more: InSyncExclusion says   *)
(* nothing of it.                                                          *)
InSyncPairLeft == Cardinality(ProcId \ (overlapped \cup closed)) >= 2
============================================================================
