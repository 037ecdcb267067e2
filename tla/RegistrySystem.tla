--------------------------- MODULE RegistrySystem ---------------------------
(***************************************************************************)
(* One registry server and its clients, joined by their connections: what  *)
(* the README calls a fair read-write lock, as the processes see it.       *)
(*                                                                         *)
(* The deployment is that of the secondary server after the primary is     *)
(* gone, which is also that of a server started alone once something has   *)
(* made the first connection to it (handle_connection takes that one for   *)
(* the primary's).                                                         *)
(***************************************************************************)
EXTENDS ProtocolClient, KeyStates, FiniteSets

CONSTANTS
  NoEntry, MaxOutstanding,
  Timeouts,    (* bound: how often a client gives up waiting for a message *)
               (* because the registry or the network took 5 seconds       *)
  Leaves,      (* bound: how many processes end                            *)
  Disciplined, (* the owners of the clients follow the lock protocol: see  *)
               (* MayCall                                                  *)
  Asks,        (* the owners also use the calls that do not wait           *)
  MaxUnread    (* bound: messages and requests of one client not yet dealt *)
               (* with when it makes another call                          *)

VARIABLES
  key_states, access_granted, reply,
  token_stream_map, issued, serving,
  timeouts,    (* how often that has happened                              *)
  overlapped   (* history: the clients that made a call while something of *)
               (* an earlier call was still under way                      *)

(* A server without backup, whose primary has gone. *)
Server == INSTANCE RegistryServer WITH
            HasBackup       <- FALSE,
            PrimaryToken    <- NoProc,
            ExitAfter       <- 0,
            request_counter <- 0,
            process         <- "running",
            backup_stream   <- <<>>,
            primary_stream  <- <<>>,
            peer_up         <- FALSE

(* A client is named by the id it gets: it never gets another one. *)
ASSUME ClientsAreNamedByIds == ClientId = ProcId

ASSUME NoEntryAssumption == NoEntry \notin Entry

ASSUME BoundsAssumption == Timeouts \in Nat

server == <<key_states, access_granted, reply, token_stream_map, issued,
            serving>>

vars == <<server, client, streams, timeouts, overlapped>>

(* What the registry has queued for p, or granted it but not delivered.    *)
Pending(k) ==
  IF key_states[k] = NoEntry THEN <<>> ELSE key_states[k].pending

Queued(p) ==
  UNION {{<<k, i>> : i \in {j \in DOMAIN Pending(k) : Pending(k)[j].proc = p}} :
           k \in KeyId}

Undelivered(p) == {i \in DOMAIN access_granted : access_granted[i].proc = p}

Outstanding(p) == Cardinality(Queued(p)) + Cardinality(Undelivered(p))

Unread(p) == Len(to_server[p]) + Len(to_client[p])

(* Nothing is under way for p: no message, no waiting or granted request,  *)
(* no access it has asked for and not awaited.                             *)
InSync(p) ==
  /\ to_server[p] = <<>> /\ to_client[p] = <<>>
  /\ Queued(p) = {} /\ Undelivered(p) = {}
  /\ asked[p] = NoCall

Holding(p, k) == \E a \in held[p] : a.key = k

(* The owner of a client that keeps to the protocol has one request for an *)
(* access at a time, waits for an access only when it has none, and        *)
(* releases what it has. It may ask for an access while it has another     *)
(* one, and when it is told to wait it releases that first, as             *)
(* advanced_usage of bin/client.rs does. An owner that does not keep to it *)
(* may make any call.                                                      *)
MayCall(p, kind, t, k) ==
  Disciplined =>
    CASE t \in AccessType -> asked[p] = NoCall /\ (kind = "sync" => held[p] = {})
      [] t = "Release"    -> Holding(p, k) /\ (asked[p] # NoCall => asked[p].told)
      [] t = "Delete"     -> held[p] = {} /\ asked[p] = NoCall
      [] OTHER            -> asked[p] = NoCall

MayAwait(p) == Disciplined /\ asked[p].told => held[p] = {}

(* A call of the API. The bound is on the environment: it is never reached *)
(* by a client that gives up no call.                                      *)
MakeCall(p, kind, t, k) ==
  /\ p \in issued \ closed
  /\ ~ InCall(p)
  /\ kind = "ask" => Asks /\ t \in AccessType
  /\ Unread(p) + Outstanding(p) < MaxUnread
  /\ MayCall(p, kind, t, k)
  /\ BeginCall(p, p, p, kind, t, k)
  /\ overlapped' = IF InSync(p) THEN overlapped ELSE overlapped \cup {p}
  /\ UNCHANGED <<server, timeouts>>

AwaitAccess(p) ==
  /\ BeginAwait(p)
  /\ MayAwait(p)
  /\ UNCHANGED <<server, timeouts, overlapped>>

TimeOut(p) ==
  /\ timeouts < Timeouts
  /\ timeouts' = timeouts + 1
  /\ CallTimesOut(p, p)
  /\ UNCHANGED <<server, overlapped>>

LeaveRegistry(p) ==
  /\ p \in issued
  /\ Cardinality(closed) < Leaves
  /\ Leave(p, p)
  /\ UNCHANGED <<server, timeouts, overlapped>>

ReadMessage(p) ==
  /\ \/ AskReturns(p, p)
     \/ AwaitPutOff(p, p)
     \/ CallGranted(p, p)
     \/ CallWaits(p, p)
     \/ CallReturns(p, p)
  /\ UNCHANGED <<server, timeouts, overlapped>>

(* The event loop handles what has arrived on a connection. *)
HandleData(p) ==
  /\ \/ Server!HandleRequest(p)
     \/ Server!HandleCoalesced(p)
     \/ Server!HandleClose(p)
  /\ UNCHANGED <<client, timeouts, overlapped>>

(* The loop over the accesses granted goes one step on. *)
HandleGrants ==
  /\ Server!DeliverGrants
  /\ UNCHANGED <<client, timeouts, overlapped>>

(* The connection is accepted, and the client reads its id at once. *)
Connect(p) ==
  /\ Server!HandleConnection(p)
  /\ UNCHANGED <<client, streams, timeouts, overlapped>>

Init ==
  /\ Server!ServerInit
  /\ ClientInit
  /\ StreamsInit
  /\ timeouts = 0
  /\ overlapped = {}

Next ==
  \/ \E p \in ProcId :
       \/ Connect(p)
       \/ \E kind \in {"sync", "ask"}, t \in RequestType, k \in KeyId :
            MakeCall(p, kind, t, k)
       \/ AwaitAccess(p)
       \/ ReadMessage(p)
       \/ TimeOut(p)
       \/ LeaveRegistry(p)
       \/ HandleData(p)
  \/ HandleGrants

Spec == Init /\ [][Next]_vars

(* poll returns every connection where something has arrived and the loop  *)
(* handles each, so none is passed over for ever; it never blocks in       *)
(* between. (A close that arrives together with a request is not reported  *)
(* again and may stay unhandled, so for closes this asks too much; the one *)
(* run with FairSpec and clients that leave refutes its property even so.) *)
(* A client in a call reads what arrives. Owners release what they hold    *)
(* and await what they have asked for, perhaps after other calls: that is  *)
(* theirs to do.                                                           *)
FairSpec ==
  /\ Spec
  /\ WF_vars(HandleGrants)
  /\ \A p \in ProcId :
       /\ SF_vars(HandleData(p))
       /\ WF_vars(ReadMessage(p))
       /\ SF_vars(AwaitAccess(p))
       /\ \A k \in KeyId :
            SF_vars(Holding(p, k) /\ MakeCall(p, "sync", "Release", k))
----------------------------------------------------------------------------
(* PROPERTIES *)

TypeOK ==
  /\ Server!ServerTypeOK /\ ClientTypeOK /\ StreamsTypeOK
  /\ closed \subseteq issued
  /\ timeouts \in 0 .. Timeouts
  /\ overlapped \in SUBSET issued

Registered(p, a) ==
  /\ key_states[a.key] # NoEntry
  /\ IF a.type = "Write" THEN key_states[a.key].writer = p
                         ELSE p \in key_states[a.key].readers

(* No client believes it may write a key while another believes it may     *)
(* access it: the lock as its users see it, across the delay between the   *)
(* registry's decision and the answer, and between giving up a key and the *)
(* registry hearing of it.                                                 *)
ClientExclusion ==
  \A p, q \in ProcId : \A a \in held[p], b \in held[q] :
    p # q /\ a.key = b.key => a.type = "Read" /\ b.type = "Read"

(* Whatever happens (timeouts, dropped grants, requests lost to coalescing,*)
(* clients that come and go), a client that waits for the end of each call *)
(* before it makes the next one never believes in an access the registry   *)
(* has not registered for it.                                              *)
InSyncBeliefsAreTrue ==
  \A p \in ProcId \ overlapped : \A a \in held[p] : Registered(p, a)

(* ... so of the clients that do so none may write a key that another may  *)
(* access, however many others do not.                                     *)
InSyncExclusion ==
  \A p, q \in ProcId \ overlapped : \A a \in held[p], b \in held[q] :
    p # q /\ a.key = b.key => a.type = "Read" /\ b.type = "Read"

(* No access leaks: a client that is in no call, and that the registry is  *)
(* not in the middle of telling, holds what is registered for it.          *)
NoLeakedAccess ==
  \A p \in ProcId, k \in KeyId, t \in AccessType :
    LET a == [key |-> k, type |-> t]
    IN  Registered(p, a) /\ ~ InCall(p) => a \in held[p]

(* Every grant gets to its process: nobody is registered for a key while   *)
(* it still awaits an answer that is not on its way.                       *)
GrantsReachWaiters ==
  \A p \in ProcId \ closed : Awaiting(p) =>
    Queued(p) # {} \/ Undelivered(p) # {} \/ to_client[p] # <<>>

(* A call always returns: every request is answered and every access that  *)
(* is waited for is granted in the end, in spite of the two hops between   *)
(* the owner that releases and the one that waits.                         *)
CallsReturn == \A p \in ProcId : InCall(p) ~> ~ InCall(p)

(* A queued client is served in the end, or leaves. *)
WaitersAreServed ==
  \A p \in ProcId :
    Queued(p) # {} /\ p \notin closed ~> Queued(p) = {} \/ p \in closed
============================================================================
