------------------------------ MODULE Protocol ------------------------------
(***************************************************************************)
(* The vocabulary of protocol.rs: process ids, keys, the kinds of request, *)
(* and the messages a client and the registry exchange. A message carries  *)
(* what the handlers look at; its JSON text is left out, and the text of   *)
(* an error with it.                                                       *)
(***************************************************************************)
EXTENDS Naturals, Sequences

CONSTANTS
  ProcId,  (* ids the registry gives to its clients, one per connection    *)
  KeyId,   (* the keys clients may name                                    *)
  NoProc   (* no process: None in an Option<ProcId>                        *)

ASSUME NoProcAssumption == NoProc \notin ProcId

(* The requests that ask for an access; only these are ever queued. *)
AccessType == {"Read", "Write"}

RequestType == AccessType \cup {"Create", "Delete", "Release"}

(* RegistryMessage::Request. A client sends the id it was given when it    *)
(* first connected, whatever connection the request travels on.            *)
RequestMessage == [proc : ProcId, type : RequestType, key : KeyId]

(* What else a server may read: the order to stop, and the primary's note  *)
(* that it has accepted a connection.                                      *)
StopRequest              == [type |-> "Stop"]
ConnectionEstablished(p) == [type |-> "ConnectionEstablished", proc |-> p]

(* RegistryResponse; the address in Holder stands for the process that was *)
(* registered with it.                                                     *)
ResponseMessage ==
  [type : {"Success", "Wait"}, key : KeyId]
    \cup [type : {"Holder"}, key : KeyId, holder : ProcId]
    \cup [type : {"Error"}]

Success(k)   == [type |-> "Success", key |-> k]
Wait(k)      == [type |-> "Wait", key |-> k]
Holder(k, h) == [type |-> "Holder", key |-> k, holder |-> h]
Error        == [type |-> "Error"]

(* The answer to ConnectionEstablished; no client is sent one. *)
Ack == [type |-> "Ack"]
============================================================================
