--------------------------- MODULE ProtocolClient ---------------------------
(***************************************************************************)
(* The calls of protocol_client.rs against the registry a client is        *)
(* connected to, one call at a time per client: the blocking ones          *)
(* (registry_create, _delete, _release, _read_sync, _write_sync) and the   *)
(* ones that ask for an access (registry_read, _write) and await it later  *)
(* (registry_await_read, _await_write). A client is a ProtocolClient       *)
(* value; here c names it and t the connection it uses.                    *)
(*                                                                         *)
(* A call writes its request and peeks for an answer (registry_send_       *)
(* request), reads one message, and if that is Wait a sync call reads      *)
(* another one.                                                            *)
(***************************************************************************)
EXTENDS Streams

CONSTANTS
  ClientId,  (* names of the clients                                       *)
  NoCall,    (* the client is in no call                                   *)
  NoKey      (* the call has not been told to wait                         *)

VARIABLES
  call,  (* the call each client is in, with the key it was told to wait   *)
         (* for                                                            *)
  asked, (* the access each client has asked for and not awaited yet       *)
  held   (* the accesses each client's calls have returned Ok for and the  *)
         (* client has not asked to release since; like asked no field of  *)
         (* the client, but what its owner goes by                         *)

client == <<call, asked, held>>

(* An "ask" call returns when there is an answer to read, an "await" call  *)
(* reads one. A "resent" call is a sync one that has been sent again to    *)
(* the secondary server.                                                   *)
CallKind == {"sync", "resent", "ask", "await"}

Call == [kind : CallKind, type : RequestType, key : KeyId,
         awaits : KeyId \cup {NoKey}]

ASSUME NoCallAssumption == NoCall \notin Call

ASSUME NoKeyAssumption == NoKey \notin KeyId

Access == [key : KeyId, type : AccessType]

ClientTypeOK ==
  /\ call \in [ClientId -> Call \cup {NoCall}]
  /\ asked \in [ClientId -> [access : Access, told : BOOLEAN] \cup {NoCall}]
  /\ held \in [ClientId -> SUBSET Access]

ClientInit ==
  /\ call = [c \in ClientId |-> NoCall]
  /\ asked = [c \in ClientId |-> NoCall]
  /\ held = [c \in ClientId |-> {}]

InCall(c) == call[c] # NoCall

(* registry_send_request is writing or peeking, the first message is not   *)
(* read yet.                                                               *)
Peeking(c) ==
  InCall(c) /\ call[c].kind \in {"sync", "ask"} /\ call[c].awaits = NoKey

(* The call will return when the access is granted. *)
Awaiting(c) == InCall(c) /\ (call[c].awaits # NoKey \/ call[c].kind = "await")

AccessOf(d) == [key |-> d.key, type |-> d.type]

Return(c) == call' = [call EXCEPT ![c] = NoCall]

(* The owner of the client gets an access. *)
Acquire(c, k, t) ==
  held' = [held EXCEPT ![c] = @ \cup {[key |-> k, type |-> t]}]

----------------------------------------------------------------------------
(* A call begins; id is the proc_id of the client. Whoever asks for a      *)
(* release stops using the key.                                            *)
BeginCall(c, t, id, kind, type, k) ==
  /\ ~ InCall(c)
  /\ SendRequest(t, [proc |-> id, type |-> type, key |-> k])
  /\ call' = [call EXCEPT ![c] =
                [kind |-> kind, type |-> type, key |-> k, awaits |-> NoKey]]
  /\ held' = [held EXCEPT ![c] =
                IF type = "Release" THEN {a \in @ : a.key # k} ELSE @]
  /\ UNCHANGED <<asked, to_client, closed>>

(* registry_read and registry_write return when there is something to     *)
(* read.                                                                   *)
AskReturns(c, t) ==
  /\ InCall(c)
  /\ call[c].kind = "ask"
  /\ to_client[t] # <<>>
  /\ asked' = [asked EXCEPT ![c] =
                 [access |-> AccessOf(call[c]), told |-> FALSE]]
  /\ Return(c)
  /\ UNCHANGED <<held, streams>>

(* registry_await_read or _write of an access asked for. *)
BeginAwait(c) ==
  /\ ~ InCall(c)
  /\ asked[c] # NoCall
  /\ LET a == asked[c].access
     IN  call' = [call EXCEPT ![c] = [kind |-> "await", type |-> a.type,
                                      key |-> a.key, awaits |-> NoKey]]
  /\ UNCHANGED <<asked, held, streams>>

(* WaitError: the owner is told that the access is not there yet. *)
AwaitPutOff(c, t) ==
  /\ InCall(c)
  /\ call[c].kind = "await"
  /\ Receive(t)
  /\ Front(t).type = "Wait"
  /\ asked' = [asked EXCEPT ![c].told = TRUE]
  /\ Return(c)
  /\ UNCHANGED <<held, to_server, closed>>

----------------------------------------------------------------------------
BugGrants(d, m) ==
  \/ m.type = (IF d.type = "Read" THEN "Holder" ELSE "Success")
  \/ m.type = "Wait" /\ d.type = "Write"

(* The messages the call in progress takes for the access it asked for.    *)
(* registry_await_read and _write take any key; the key is compared only   *)
(* for a message that comes after Wait, and with the key Wait named.       *)
Grants(d, m) ==
  /\ m.type = (IF d.type = "Read" THEN "Holder" ELSE "Success")
  /\ d.awaits # NoKey => m.key = d.awaits

ReadsAccess(c) == call[c].type \in AccessType /\ call[c].kind # "ask"

(* The call returns Ok, and with it a read or a write access: of the key   *)
(* an await call is told, of the key a sync call was made for.             *)
CallGranted(c, t) ==
  /\ InCall(c)
  /\ ReadsAccess(c)
  /\ Receive(t)
  /\ Grants(call[c], Front(t))
  /\ Acquire(c, IF call[c].kind = "await" THEN Front(t).key ELSE call[c].key,
             call[c].type)
  /\ asked' = [asked EXCEPT ![c] = NoCall]
  /\ Return(c)
  /\ UNCHANGED <<to_server, closed>>

(* A sync call is told to wait, for the key the message names.             *)
CallWaits(c, t) ==
  /\ InCall(c)
  /\ ReadsAccess(c)
  /\ call[c].kind # "await"
  /\ call[c].awaits = NoKey
  /\ Receive(t)
  /\ Front(t).type = "Wait"
  /\ call' = [call EXCEPT ![c].awaits = Front(t).key]
  /\ UNCHANGED <<asked, held, to_server, closed>>

(* The call returns without an access: a create, delete or release does,   *)
(* whatever the answer, and a read or write with any other message.        *)
CallReturns(c, t) ==
  /\ InCall(c)
  /\ call[c].kind # "ask"
  /\ Receive(t)
  /\ call[c].type \in AccessType =>
       /\ ~ Grants(call[c], Front(t))
       /\ call[c].awaits # NoKey \/ Front(t).type # "Wait"
  /\ asked' = [asked EXCEPT ![c] = IF call[c].kind = "await" THEN NoCall ELSE @]
  /\ Return(c)
  /\ UNCHANGED <<held, to_server, closed>>

(* Nothing has arrived for 5 seconds: the peek fails and the call returns  *)
(* NoBackupServer, or the read fails and it returns UnexpectedResponse.    *)
(* The request is not withdrawn.                                           *)
CallTimesOut(c, t) ==
  /\ InCall(c)
  /\ to_client[t] = <<>>
  /\ Return(c)
  /\ UNCHANGED <<asked, held, streams>>

(* registry_stop writes the request and waits for nothing. *)
SendStop(c, t) ==
  /\ ~ InCall(c)
  /\ SendRequest(t, StopRequest)
  /\ UNCHANGED <<client, to_client, closed>>

(* The process ends, in the middle of a call or not; what it held is       *)
(* nobody's.                                                               *)
Leave(c, t) ==
  /\ t \notin closed
  /\ Close(t)
  /\ Return(c)
  /\ asked' = [asked EXCEPT ![c] = NoCall]
  /\ held' = [held EXCEPT ![c] = {}]
============================================================================
