------------------------------ MODULE Streams ------------------------------
(***************************************************************************)
(* The TCP connections between the clients and the registry, as both ends  *)
(* use them: bytes arrive in order or not at all, a message per write.     *)
(* The connection is named by the id the registry gives to it.             *)
(*                                                                         *)
(* External: sockets of std::net and mio.                                  *)
(***************************************************************************)
EXTENDS Protocol

VARIABLES
  to_server,  (* requests written by the client, not yet read              *)
  to_client,  (* responses written by the registry, not yet read           *)
  closed      (* connections whose client has closed its end               *)

streams == <<to_server, to_client, closed>>

StreamsTypeOK ==
  /\ to_server \in [ProcId -> Seq(RequestMessage \cup {StopRequest})]
  /\ to_client \in [ProcId -> Seq(ResponseMessage)]
  /\ closed \in SUBSET ProcId

StreamsInit ==
  /\ to_server = [p \in ProcId |-> <<>>]
  /\ to_client = [p \in ProcId |-> <<>>]
  /\ closed = {}

(* A write to a connection whose other end is closed may still succeed;    *)
(* the message is then lost.                                               *)
Deliver(p, m) ==
  to_client' = IF p \in closed THEN to_client
               ELSE [to_client EXCEPT ![p] = Append(@, m)]

(* ... or it fails with a broken pipe or a reset. *)
WriteFails(p) ==
  /\ p \in closed
  /\ UNCHANGED to_client

(* The client's end reads the next message. *)
Front(p) == Head(to_client[p])

Receive(p) ==
  /\ to_client[p] # <<>>
  /\ to_client' = [to_client EXCEPT ![p] = Tail(@)]

(* The client writes a request. *)
SendRequest(p, m) ==
  to_server' = [to_server EXCEPT ![p] = Append(@, m)]

(* The registry's read returns everything that has arrived: the first n    *)
(* requests.                                                               *)
TakeRequests(p, n) ==
  to_server' = [to_server EXCEPT ![p] = SubSeq(@, n + 1, Len(@))]

(* The client closes; what it has not read is gone, what it has written    *)
(* still arrives.                                                          *)
Close(p) ==
  /\ closed' = closed \cup {p}
  /\ to_client' = [to_client EXCEPT ![p] = <<>>]
  /\ UNCHANGED to_server
============================================================================
