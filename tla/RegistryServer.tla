--------------------------- MODULE RegistryServer ---------------------------
(***************************************************************************)
(* The event loop of registry_server.rs: a single thread that accepts      *)
(* connections, reads requests, calls its AccessManager, writes the        *)
(* response, delivers the accesses the call has granted to processes that  *)
(* were waiting, and, when it has a backup, forwards the request to it.    *)
(*                                                                         *)
(* One read of a request, the manager's call and the response to it are    *)
(* one step: nothing the loop does in between can be seen from outside.    *)
(* Each delivery of a grant is a step of its own, so clients run between   *)
(* them, and so is what follows the last; no other event is handled until  *)
(* the request is done.                                                    *)
(***************************************************************************)
EXTENDS KeyStates, Streams

CONSTANTS
  NoEntry, MaxOutstanding,
  HasBackup,     (* backup_stream is Some: this is the primary             *)
  PrimaryToken,  (* token of the connection the primary made to its backup *)
  ExitAfter      (* how many forwarded requests end the primary            *)

VARIABLES
  key_states, access_granted, reply,  (* access_manager                    *)
  token_stream_map,  (* tokens of the clients' open connections;           *)
                     (* token_addr_map has the same keys at all times      *)
  issued,            (* the ids up to id_counter, never given again        *)
  serving,           (* the request being handled and the token it came    *)
                     (* from, NoProc while the loop is polling             *)
  request_counter,   (* requests handled to the end; read, and here        *)
                     (* counted, by a server with a backup only            *)
  process,           (* "running", or "ended"                             *)
  backup_stream,     (* written to the backup, not yet read by it          *)
  primary_stream,    (* written by the primary, not yet read               *)
  peer_up            (* the server at the other end of either is running   *)

AM == INSTANCE AccessManager

manager == <<key_states, access_granted, reply>>

server == <<manager, token_stream_map, issued, serving, request_counter,
            process>>

links == <<backup_stream, primary_stream>>

Served == [token   : ProcId \cup {PrimaryToken},
           request : RequestMessage
                       \cup {ConnectionEstablished(p) : p \in ProcId}]

ServerTypeOK ==
  /\ AM!TypeOK
  /\ token_stream_map \in SUBSET issued
  /\ issued \in SUBSET ProcId
  /\ serving \in Served \cup {NoProc}
  /\ request_counter \in 0 .. ExitAfter
  /\ process \in {"running", "ended"}

ServerInit ==
  /\ AM!Init
  /\ token_stream_map = {}
  /\ issued = {}
  /\ serving = NoProc
  /\ request_counter = 0
  /\ process = "running"

Polling == process = "running" /\ serving = NoProc

(* proc_id_to_addr: an address is known while the connection is open. *)
KnownHolder(h) == h \in token_stream_map

----------------------------------------------------------------------------
BugForward(m) ==
  backup_stream' = IF HasBackup /\ peer_up /\ m.type # "Read"
                   THEN Append(backup_stream, m) ELSE backup_stream

(* forward_request. A write to a backup that has ended may still succeed;  *)
(* the message is then lost.                                               *)
Forward(m) ==
  backup_stream' = IF HasBackup /\ peer_up THEN Append(backup_stream, m)
                   ELSE backup_stream

ForwardFails ==
  /\ HasBackup /\ ~ peer_up
  /\ UNCHANGED backup_stream

(* handle_response. What is written to the primary's token only tells the  *)
(* primary what it ignores.                                                *)
Answer(t, m) ==
  IF t = PrimaryToken THEN UNCHANGED to_client ELSE Deliver(t, m)

AnswerFails(t) ==
  IF t = PrimaryToken THEN ~ peer_up /\ UNCHANGED to_client
  ELSE WriteFails(t)

(* handle_connection, of a client that reads the id it is written.         *)
(* id_counter is only ever incremented, so every connection gets an id of  *)
(* its own. bind returns when the forwarding fails.                        *)
HandleConnection(p) ==
  /\ Polling
  /\ p \notin issued
  /\ issued' = issued \cup {p}
  /\ token_stream_map' = token_stream_map \cup {p}
  /\ \/ Forward(ConnectionEstablished(p)) /\ UNCHANGED process
     \/ ForwardFails /\ process' = "ended"
  /\ UNCHANGED <<manager, serving, request_counter, primary_stream>>

(* ... and of a client that is gone when its id is to be written to it:    *)
(* bind returns before the connection is kept.                             *)
HandleLostConnection(p) ==
  /\ Polling
  /\ p \notin issued
  /\ issued' = issued \cup {p}
  /\ process' = "ended"
  /\ UNCHANGED <<manager, token_stream_map, serving, request_counter, links>>

----------------------------------------------------------------------------
(* handle_message, the access manager's part. The process is the one the   *)
(* message names. The id of a ConnectionEstablished is not taken over.     *)
CallManager(m) ==
  \/ m.type = "ConnectionEstablished" /\ UNCHANGED manager
  \/ m.type = "Create"  /\ AM!Create(m.proc, m.key)
  \/ m.type = "Delete"  /\ AM!Delete(m.key)
  \/ m.type = "Read"    /\ AM!Read(m.proc, m.key)
  \/ m.type = "Write"   /\ AM!Write(m.proc, m.key)
  \/ m.type = "Release" /\ AM!Release(m.proc, m.key)

BugResponseTo(m, result) ==
  CASE m.type = "ConnectionEstablished" -> Ack
    [] result.res = "RequestAccess"     -> Wait(m.key)
    [] result.res = "Ok"                -> Holder(m.key, result.holder)
    [] OTHER                            -> Error

(* handle_message, the response to what the access manager returned. A     *)
(* reader whose holder is gone gets an error, and stays registered.        *)
ResponseTo(m, result) ==
  CASE m.type = "ConnectionEstablished"      -> Ack
    [] result.res = "RequestAccess"          -> Wait(m.key)
    [] result.res = "Ok" /\ m.type # "Read"  -> Success(m.key)
    [] result.res = "Ok" /\ m.type = "Read"
       /\ KnownHolder(result.holder)         -> Holder(m.key, result.holder)
    [] OTHER                                 -> Error

(* handle_request, up to the loop over the accesses granted. If the        *)
(* response cannot be written, or is an error, the grants in the channel   *)
(* are left there and nothing is forwarded.                                *)
HandleMessage(t, m) ==
  /\ CallManager(m)
  /\ \/ LET resp == ResponseTo(m, reply')
        IN  /\ Answer(t, resp)
            /\ serving' =
                 IF resp # Error /\ (HasBackup \/ access_granted' # <<>>)
                 THEN [token |-> t, request |-> m] ELSE NoProc
     \/ /\ AnswerFails(t)
        /\ serving' = NoProc
  /\ UNCHANGED <<token_stream_map, issued, request_counter, process,
                 backup_stream, closed>>

(* handle_data for a read that returns one request of a client. *)
HandleRequest(p) ==
  /\ Polling
  /\ p \in token_stream_map
  /\ to_server[p] # <<>>
  /\ Head(to_server[p]) # StopRequest
  /\ TakeRequests(p, 1)
  /\ HandleMessage(p, Head(to_server[p]))
  /\ UNCHANGED primary_stream

(* ... and for a read that returns one message of the primary. *)
HandleForwarded ==
  /\ Polling
  /\ primary_stream # <<>>
  /\ primary_stream' = Tail(primary_stream)
  /\ HandleMessage(PrimaryToken, Head(primary_stream))
  /\ UNCHANGED to_server

(* The same when several messages have arrived since the last read: the    *)
(* 256 byte buffer does not parse as one message, and all are dropped with *)
(* one error. From a client, this takes a call that was given up.          *)
HandleCoalesced(p) ==
  /\ Polling
  /\ p \in token_stream_map
  /\ \E n \in 2 .. Len(to_server[p]) : TakeRequests(p, n)
  /\ Answer(p, Error) \/ AnswerFails(p)
  /\ UNCHANGED <<server, links, closed>>

(* The primary waits for nothing before it forwards the next message. (The *)
(* read may also cut the last message and leave its rest to the next read; *)
(* here it ends with one: the copy has diverged either way.)               *)
HandleForwardedCoalesced ==
  /\ Polling
  /\ \E n \in 2 .. Len(primary_stream) :
       primary_stream' = SubSeq(primary_stream, n + 1, Len(primary_stream))
  /\ UNCHANGED <<server, backup_stream, streams>>

(* The server is told to stop: bind returns. *)
HandleStop(p) ==
  /\ Polling
  /\ p \in token_stream_map
  /\ to_server[p] # <<>>
  /\ Head(to_server[p]) = StopRequest
  /\ TakeRequests(p, 1)
  /\ process' = "ended"
  /\ UNCHANGED <<manager, token_stream_map, issued, serving,
                 request_counter, links, to_client, closed>>

(* handle_data when the client has closed: remove_client forgets the       *)
(* connection, and nothing else. It may never come to this: the poll is    *)
(* edge-triggered, and handle_data reads once per event.                   *)
HandleClose(p) ==
  /\ Polling
  /\ p \in token_stream_map \cap closed
  /\ to_server[p] = <<>>
  /\ token_stream_map' = token_stream_map \ {p}
  /\ UNCHANGED <<manager, issued, serving, request_counter, process, links,
                 streams>>

----------------------------------------------------------------------------
(* The loop of handle_request over the accesses granted, and its end.      *)

GrantMessage(g) ==
  IF g.type = "Read" THEN Holder(g.key, g.holder) ELSE Success(g.key)

BugUnknownHolder(g) == g.type = "Read"

(* The holder a waiting reader would be sent to is gone: proc_id_to_addr   *)
(* fails.                                                                  *)
UnknownHolder(g) == g.type = "Read" /\ ~ KnownHolder(g.holder)

NextGrant ==
  /\ AM!TryRecv
  /\ serving' = IF Tail(access_granted) = <<>> /\ ~ HasBackup THEN NoProc
                ELSE serving
  /\ UNCHANGED <<token_stream_map, issued, request_counter, process, links,
                 to_server, closed>>

(* The response goes to the connection whose token is the process's id. *)
SendGrant ==
  /\ serving # NoProc
  /\ access_granted # <<>>
  /\ LET g == Head(access_granted)
     IN  /\ ~ UnknownHolder(g)
         /\ g.proc \in token_stream_map
         /\ Deliver(g.proc, GrantMessage(g))
  /\ NextGrant

(* There is no such connection: InvalidToken is logged. *)
SkipGrant ==
  /\ serving # NoProc
  /\ access_granted # <<>>
  /\ LET g == Head(access_granted)
     IN  /\ ~ UnknownHolder(g)
         /\ g.proc \notin token_stream_map
  /\ UNCHANGED to_client
  /\ NextGrant

(* Any other failure ends handle_request: the grants collected with this   *)
(* one are dropped, the request is not forwarded, and the error goes to    *)
(* the one being served, who has had the response already.                 *)
AbandonGrants ==
  /\ serving # NoProc
  /\ access_granted # <<>>
  /\ LET g == Head(access_granted)
     IN  UnknownHolder(g) \/ g.proc \in token_stream_map \cap closed
  /\ Answer(serving.token, Error)
  /\ access_granted' = <<>>
  /\ serving' = NoProc
  /\ UNCHANGED <<key_states, reply, token_stream_map, issued,
                 request_counter, process, links, to_server, closed>>

DeliverGrants == SendGrant \/ SkipGrant \/ AbandonGrants

(* The end of handle_request: the request is forwarded to the backup, and  *)
(* the primary exits when it has forwarded enough.                         *)
FinishRequest ==
  /\ HasBackup /\ serving # NoProc /\ access_granted = <<>>
  /\ \/ /\ Forward(serving.request)
        /\ request_counter' = request_counter + 1
        /\ process' = IF request_counter' = ExitAfter THEN "ended" ELSE process
        /\ UNCHANGED to_client
     \/ /\ ForwardFails
        /\ Answer(serving.token, Error)
        /\ UNCHANGED <<request_counter, process>>
  /\ serving' = NoProc
  /\ UNCHANGED <<manager, token_stream_map, issued, primary_stream,
                 to_server, closed>>
============================================================================
