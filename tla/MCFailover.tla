----------------------------- MODULE MCFailover -----------------------------
(* Model values and symmetry for checking Failover with TLC. *)
EXTENDS Failover, TLC

CONSTANTS c1, c2, c3

ClientPair == {c1, c2}
Clients == {c1, c2, c3}

(* Tokens are numbers; the names of the clients are not. *)
PairSymmetry == Permutations(ClientPair)
ClientSymmetry == Permutations(Clients)

(* What tells states apart: not the managers' last replies (see            *)
(* MCRegistrySystem), not what a server that has ended leaves behind except*)
(* to be read, and not the history once the property it serves says no     *)
(* more.                                                                   *)
LivePrimary ==
  IF p_process = "ended" THEN <<>>
  ELSE <<p_key_states, p_access_granted, p_token_stream_map, p_issued,
         p_serving, request_counter, p_to_server, p_closed>>

LiveSecondary ==
  IF s_process = "ended" THEN <<s_key_states, forwards = <<>>, s_issued = {}>>
  ELSE <<s_key_states, s_access_granted, s_token_stream_map, s_issued,
         s_serving, s_to_server, s_closed, forwards>>

UsedHistory ==
  <<IF diverged \/ (s_issued # {} /\ p_process = "ended" /\ forwards = <<>>)
    THEN <<>> ELSE images,
    IF diverged THEN <<>> ELSE <<abandoned, surplus>>>>

StateView ==
  <<LivePrimary, LiveSecondary, p_to_client, s_to_client, calls, owners,
    bounds, diverged, UsedHistory>>

(* A divergence is never repaired, and neither is the id of one that       *)
(* started at the secondary: the properties then say no more. Nor do they  *)
(* once the secondary serves alone and no client that has started can be   *)
(* relied on. Such a state is checked, but not what follows it.            *)
Undecided ==
  /\ ~ diverged
  /\ AllPrimary
  /\ \/ p_process = "running" \/ forwards # <<>>
     \/ \E c \in Reliable : Started(c)

(* A history with a timeout is followed for four calls, one with an order  *)
(* to stop or a lost connection for three, one without for all of Calls,   *)
(* of which at most four while the primary is running.                     *)
OneFaultOrMoreCalls ==
  /\ timeouts + stops <= 1
  /\ \/ made <= IF stops = 0 THEN 4 ELSE 3
     \/ timeouts + stops = 0 /\ p_process = "ended"
============================================================================
