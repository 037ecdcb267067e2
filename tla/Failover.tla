------------------------------ MODULE Failover ------------------------------
(***************************************************************************)
(* A primary registry server, the secondary it forwards its requests to,   *)
(* and clients that start at the primary and change to the secondary when  *)
(* the primary does not answer (switch_to_secondary of protocol_client.rs).*)
(*                                                                         *)
(* Both servers are the same program: P is the RegistryServer with a       *)
(* backup, S the one without. The variables of P start with p_, those of S *)
(* with s_. The secondary has taken the connection of the primary, its     *)
(* first, before any client comes.                                         *)
(***************************************************************************)
EXTENDS KeyStates, FiniteSets

CONSTANTS
  ClientId, NoEntry, MaxOutstanding, NoCall, NoKey, PrimaryToken,
  ExitAfter,  (* requests the primary handles before it exits: 1 in the    *)
              (* code, which stops there to demonstrate the failover       *)
  Timeouts,   (* bound: how often a client waits 5 seconds for nothing     *)
  Stops,      (* bound: how often a client orders its server to stop, or   *)
              (* connects to it and is gone before it is told its id       *)
  Calls       (* bound: how many calls the owners of the clients make      *)

(* The primary handles at least one request before it exits. *)
ASSUME ExitAfterAssumption == ExitAfter \in Nat \ {0}

ASSUME NoEntryAssumption == NoEntry \notin Entry

ASSUME NoKeyAssumption == NoKey \notin KeyId

(* No client is given the token of the connection between the servers: the *)
(* ids count up from 1, and the 999th has not been given.                  *)
ASSUME PrimaryTokenAssumption == PrimaryToken \notin ProcId

VARIABLES
  p_key_states, p_access_granted, p_reply, p_token_stream_map, p_issued,
  p_serving, p_process, request_counter,
  s_key_states, s_access_granted, s_reply, s_token_stream_map, s_issued,
  s_serving, s_process,
  forwards,         (* forwarded by the primary, not yet read by the       *)
                    (* secondary                                           *)
  p_to_server, p_to_client, p_closed,
  s_to_server, s_to_client, s_closed,
  call, held,
  asked,            (* nothing: the owners only use the calls that wait   *)
  registry_stream,  (* the server and the token of a client's connection   *)
  proc_id,          (* the id each client was given when it started        *)
  is_primary,       (* it started at the primary; a switch does not reset  *)
                    (* it                                                  *)
  spinning,         (* clients caught in the loop of receive_message       *)
  timeouts,         (* how often a client has waited for nothing           *)
  stops,            (* how many orders to stop have been given, and        *)
                    (* connections lost                                    *)
  made,             (* how many calls have been made                       *)
  images,           (* history: the primary's key_states at the last       *)
                    (* message the secondary has read, and at each of      *)
                    (* forwards                                            *)
  diverged,         (* history: a change of one server's key_states has    *)
                    (* been kept from the other, see Unmirrored            *)
  abandoned,        (* history: clients that have not waited for the       *)
                    (* answer to a request: the call returned without one, *)
                    (* or sent the request again while the server that has *)
                    (* it was running, or ordered the server to stop       *)
  surplus           (* history: clients something may have come to that    *)
                    (* answers no request of theirs: they came to the      *)
                    (* secondary before it had dealt with all the primary  *)
                    (* has to say, or it sent them an error after an       *)
                    (* answer                                              *)

P == INSTANCE RegistryServer WITH
       HasBackup        <- TRUE,
       key_states       <- p_key_states,
       access_granted   <- p_access_granted,
       reply            <- p_reply,
       token_stream_map <- p_token_stream_map,
       issued           <- p_issued,
       serving          <- p_serving,
       process          <- p_process,
       backup_stream    <- forwards,
       primary_stream   <- <<>>,
       peer_up          <- (s_process = "running"),
       to_server        <- p_to_server,
       to_client        <- p_to_client,
       closed           <- p_closed

S == INSTANCE RegistryServer WITH
       HasBackup        <- FALSE,
       ExitAfter        <- 0,
       key_states       <- s_key_states,
       access_granted   <- s_access_granted,
       reply            <- s_reply,
       token_stream_map <- s_token_stream_map,
       issued           <- s_issued,
       serving          <- s_serving,
       request_counter  <- 0,
       process          <- s_process,
       backup_stream    <- <<>>,
       primary_stream   <- forwards,
       peer_up          <- (p_process = "running"),
       to_server        <- s_to_server,
       to_client        <- s_to_client,
       closed           <- s_closed

(* The clients' ends of the connections to either server. *)
AtP == INSTANCE ProtocolClient WITH
         to_server <- p_to_server, to_client <- p_to_client,
         closed <- p_closed

AtS == INSTANCE ProtocolClient WITH
         to_server <- s_to_server, to_client <- s_to_client,
         closed <- s_closed

ASSUME NoCallAssumption == NoCall \notin AtP!Call

primary == <<p_key_states, p_access_granted, p_reply, p_token_stream_map,
             p_issued, p_serving, p_process, request_counter>>

secondary == <<s_key_states, s_access_granted, s_reply, s_token_stream_map,
               s_issued, s_serving, s_process>>

p_streams == <<p_to_server, p_to_client, p_closed>>

s_streams == <<s_to_server, s_to_client, s_closed>>

calls == <<call, asked, held>>

owners == <<registry_stream, proc_id, is_primary, spinning>>

bounds == <<timeouts, stops, made>>

history == <<images, diverged, abandoned, surplus>>

vars == <<primary, secondary, forwards, p_streams, s_streams, calls, owners,
          bounds, history>>

Connection == [server : {"primary", "secondary"}, token : ProcId]

Started(c) == proc_id[c] # NoProc

(* id_counter + 1 *)
NextId(issued) == Cardinality(issued) + 1

Token(c) == registry_stream[c].token

OnPrimary(c) == Started(c) /\ registry_stream[c].server = "primary"

OnSecondary(c) == Started(c) /\ registry_stream[c].server = "secondary"

ServerEnded(c) ==
  IF OnPrimary(c) THEN p_process = "ended" ELSE s_process = "ended"

NothingToRead(c) ==
  IF OnPrimary(c) THEN p_to_client[Token(c)] = <<>>
                  ELSE s_to_client[Token(c)] = <<>>

Last(s) == s[Len(s)]

----------------------------------------------------------------------------
(* ProtocolClient::new *)

StartAtPrimary(c) ==
  LET id == NextId(p_issued)
  IN  /\ ~ Started(c)
      /\ id \in ProcId
      /\ P!HandleConnection(id)
      /\ proc_id' = [proc_id EXCEPT ![c] = id]
      /\ registry_stream' = [registry_stream EXCEPT
                               ![c] = [server |-> "primary", token |-> id]]
      /\ is_primary' = [is_primary EXCEPT ![c] = TRUE]
      /\ images' = IF forwards' = forwards THEN images
                   ELSE Append(images, p_key_states)
      /\ UNCHANGED <<secondary, p_streams, s_streams, calls, spinning, bounds,
                     diverged, abandoned, surplus>>

(* The connection to the primary is refused. *)
StartAtSecondary(c) ==
  LET id == NextId(s_issued)
  IN  /\ ~ Started(c)
      /\ p_process = "ended"
      /\ id \in ProcId
      /\ S!HandleConnection(id)
      /\ proc_id' = [proc_id EXCEPT ![c] = id]
      /\ registry_stream' = [registry_stream EXCEPT
                               ![c] = [server |-> "secondary", token |-> id]]
      /\ UNCHANGED <<primary, forwards, p_streams, s_streams, calls, is_primary,
                     spinning, bounds, history>>

----------------------------------------------------------------------------
(* The calls. The owners keep to the lock protocol: they wait for an       *)
(* access only when they have none, and release what they have.            *)
MayCall(c, t, k) ==
  CASE t \in AccessType \cup {"Delete"} -> held[c] = {}
    [] t = "Release" -> \E a \in held[c] : a.key = k
    [] OTHER         -> TRUE

MakeCall(c, t, k) ==
  /\ Started(c)
  /\ c \notin spinning
  /\ made < Calls
  /\ made' = made + 1
  /\ MayCall(c, t, k)
  /\ \/ OnPrimary(c) /\ UNCHANGED s_streams
        /\ AtP!BeginCall(c, Token(c), proc_id[c], "sync", t, k)
     \/ OnSecondary(c) /\ UNCHANGED p_streams
        /\ AtS!BeginCall(c, Token(c), proc_id[c], "sync", t, k)
  /\ UNCHANGED <<primary, secondary, forwards, owners, timeouts, stops,
                 history>>

ReadMessage(c) ==
  /\ Started(c)
  /\ c \notin spinning
  /\ \/ OnPrimary(c) /\ UNCHANGED s_streams
        /\ \/ AtP!CallGranted(c, Token(c))
           \/ AtP!CallWaits(c, Token(c))
           \/ AtP!CallReturns(c, Token(c))
     \/ OnSecondary(c) /\ UNCHANGED p_streams
        /\ \/ AtS!CallGranted(c, Token(c))
           \/ AtS!CallWaits(c, Token(c))
           \/ AtS!CallReturns(c, Token(c))
  /\ UNCHANGED <<primary, secondary, forwards, owners, bounds, history>>

(* A peek or a read of a call fails: the server has ended and the          *)
(* connection is reset, or nothing has come for 5 seconds.                 *)
Fails(c) ==
  /\ AtP!InCall(c)
  /\ c \notin spinning
  /\ NothingToRead(c)
  /\ \/ ServerEnded(c) /\ UNCHANGED timeouts
     \/ ~ ServerEnded(c) /\ timeouts < Timeouts
        /\ timeouts' = timeouts + 1

(* registry_send_request would go to the secondary. *)
MaySwitch(c) == AtP!Peeking(c) /\ is_primary[c]

(* The secondary has read what the primary has written, and has delivered  *)
(* the accesses that came of it.                                           *)
CaughtUp == forwards = <<>> /\ s_access_granted = <<>>

BugResentRequest(c) ==
  [proc |-> NextId(s_issued), type |-> call[c].type, key |-> call[c].key]

(* The request that is sent again carries the id the primary gave. *)
ResentRequest(c) ==
  [proc |-> proc_id[c], type |-> call[c].type, key |-> call[c].key]

(* switch_to_secondary: a connection to the secondary takes the place of   *)
(* the one there is, of which the client forgets the id; the request is    *)
(* sent again, with the id the client has had before. The client stays     *)
(* "primary", so on the secondary this may happen again, and the secondary *)
(* carries the request out twice, the second time perhaps much later. (A   *)
(* write that fails does the same, even with an unread message in the old  *)
(* stream; clients in neither abandoned nor surplus have none then.)       *)
SwitchToSecondary(c) ==
  LET id == NextId(s_issued)
  IN  /\ Fails(c)
      /\ MaySwitch(c)
      /\ id \in ProcId
      /\ S!HandleConnection(id)
      /\ s_to_server' = [s_to_server EXCEPT ![id] = <<ResentRequest(c)>>]
      /\ \/ OnPrimary(c) /\ AtP!Close(Token(c))
            /\ UNCHANGED <<s_to_client, s_closed>>
         \/ OnSecondary(c) /\ s_closed' = s_closed \cup {Token(c)}
            /\ UNCHANGED <<p_streams, s_to_client>>
      /\ call' = [call EXCEPT ![c].kind = "resent"]
      /\ registry_stream' = [registry_stream EXCEPT
                               ![c] = [server |-> "secondary", token |-> id]]
      /\ abandoned' = IF OnPrimary(c) /\ p_process = "ended" THEN abandoned
                      ELSE abandoned \cup {c}
      /\ surplus' = IF CaughtUp THEN surplus ELSE surplus \cup {c}
      /\ UNCHANGED <<primary, forwards, asked, held, proc_id, is_primary,
                     spinning, stops, made, images, diverged>>

(* The call returns without an answer: there is no secondary to switch to, *)
(* or the client was already waiting for the grant.                        *)
GiveUp(c) ==
  /\ Fails(c)
  /\ MaySwitch(c) => s_process = "ended"
  /\ AtP!Return(c)
  /\ abandoned' = abandoned \cup {c}
  /\ UNCHANGED <<primary, secondary, forwards, p_streams, s_streams, asked, held,
                 owners, stops, made, images, diverged, surplus>>

(* The server has ended and its end of the connection is closed: peek and  *)
(* read return 0 bytes, at once and every time, and receive_message reads  *)
(* until it has a line.                                                    *)
Spin(c) ==
  /\ AtP!InCall(c)
  /\ NothingToRead(c)
  /\ ServerEnded(c)
  /\ c \notin spinning
  /\ spinning' = spinning \cup {c}
  /\ UNCHANGED <<primary, secondary, forwards, p_streams, s_streams, calls,
                 registry_stream, proc_id, is_primary, bounds, history>>

(* registry_stop. If the order arrives together with another request, both *)
(* are lost, and an error comes that nobody waits for.                     *)
Stop(c) ==
  /\ Started(c)
  /\ ~ ServerEnded(c)
  /\ stops < Stops
  /\ stops' = stops + 1
  /\ \/ OnPrimary(c) /\ AtP!SendStop(c, Token(c)) /\ UNCHANGED s_streams
     \/ OnSecondary(c) /\ AtS!SendStop(c, Token(c)) /\ UNCHANGED p_streams
  /\ abandoned' = abandoned \cup {c}
  /\ UNCHANGED <<primary, secondary, forwards, owners, timeouts, made, images,
                 diverged, surplus>>

----------------------------------------------------------------------------
(* The primary's event loop. *)

(* The primary leaves a request it has carried out without forwarding it.  *)
Unmirrored ==
  /\ p_serving' = NoProc
  /\ \/ p_serving = NoProc /\ p_key_states' # p_key_states
     \/ p_serving # NoProc /\ p_access_granted # <<>>
     \/ p_serving # NoProc /\ s_process = "ended"

PrimaryRuns ==
  /\ \/ \E t \in ProcId :
          P!HandleRequest(t) \/ P!HandleCoalesced(t) \/ P!HandleClose(t)
            \/ P!HandleStop(t)
     \/ P!DeliverGrants
     \/ P!FinishRequest
  /\ images' = IF forwards' = forwards THEN images
               ELSE Append(images, p_key_states')
  /\ diverged' = (diverged \/ Unmirrored)
  /\ UNCHANGED <<secondary, s_streams, calls, owners, bounds, abandoned,
                 surplus>>

(* The clients of the secondary whose request it is handling: they have    *)
(* the answer already.                                                     *)
BeingServed ==
  {c \in ClientId : OnSecondary(c) /\ s_serving # NoProc
                      /\ Token(c) = s_serving.token}

(* The secondary's, for what comes from its clients: a request that comes  *)
(* before all the primary has to say is carried out in the wrong order.    *)
SecondaryRuns ==
  /\ \/ /\ \E t \in ProcId : S!HandleRequest(t)
        /\ diverged' = (diverged \/ p_process = "running" \/ forwards # <<>>)
        /\ UNCHANGED surplus
     \/ /\ \/ \E t \in ProcId :
                S!HandleCoalesced(t) \/ S!HandleClose(t) \/ S!HandleStop(t)
           \/ S!SendGrant \/ S!SkipGrant
        /\ UNCHANGED <<diverged, surplus>>
     \/ /\ S!AbandonGrants
        /\ surplus' = surplus \cup BeingServed
        /\ UNCHANGED diverged
  /\ UNCHANGED <<primary, p_streams, calls, owners, bounds, images, abandoned>>

(* ... and for what the primary forwards. *)
MirrorPrimary ==
  /\ S!HandleForwarded \/ S!HandleForwardedCoalesced
  /\ images' = SubSeq(images, 1 + Len(forwards) - Len(forwards'), Len(images))
  /\ diverged' = (diverged \/ Len(forwards') < Len(forwards) - 1)
  /\ UNCHANGED <<primary, p_streams, calls, owners, bounds, abandoned,
                 surplus>>

(* Another client, which is never heard of again, connects to a server and *)
(* is gone before its id is written: the server ends.                      *)
LoseConnection ==
  /\ stops < Stops
  /\ stops' = stops + 1
  /\ \/ NextId(p_issued) \in ProcId /\ UNCHANGED secondary
        /\ P!HandleLostConnection(NextId(p_issued))
     \/ NextId(s_issued) \in ProcId /\ UNCHANGED primary
        /\ S!HandleLostConnection(NextId(s_issued))
  /\ UNCHANGED <<forwards, p_streams, s_streams, calls, owners, timeouts, made,
                 history>>

Init ==
  /\ P!ServerInit /\ S!ServerInit
  /\ forwards = <<>>
  /\ AtP!StreamsInit /\ AtS!StreamsInit
  /\ AtP!ClientInit
  /\ registry_stream = [c \in ClientId |-> NoProc]
  /\ proc_id = [c \in ClientId |-> NoProc]
  /\ is_primary = [c \in ClientId |-> FALSE]
  /\ spinning = {}
  /\ timeouts = 0 /\ stops = 0 /\ made = 0
  /\ images = <<p_key_states>>
  /\ diverged = FALSE
  /\ abandoned = {}
  /\ surplus = {}

Next ==
  \/ \E c \in ClientId :
       \/ StartAtPrimary(c) \/ StartAtSecondary(c)
       \/ \E t \in RequestType, k \in KeyId : MakeCall(c, t, k)
       \/ ReadMessage(c)
       \/ SwitchToSecondary(c) \/ GiveUp(c) \/ Spin(c)
       \/ Stop(c)
  \/ PrimaryRuns
  \/ SecondaryRuns
  \/ MirrorPrimary
  \/ LoseConnection

Spec == Init /\ [][Next]_vars
----------------------------------------------------------------------------
(* PROPERTIES *)

TypeOK ==
  /\ P!ServerTypeOK /\ S!ServerTypeOK
  /\ AtP!ClientTypeOK /\ AtP!StreamsTypeOK /\ AtS!StreamsTypeOK
  /\ registry_stream \in [ClientId -> Connection \cup {NoProc}]
  /\ proc_id \in [ClientId -> ProcId \cup {NoProc}]
  /\ is_primary \in [ClientId -> BOOLEAN]
  /\ images \in Seq([KeyId -> Entry \cup {NoEntry}])
  /\ Len(images) = 1 + Len(forwards)

(* The secondary is a correct, if older, copy: if no change was kept from  *)
(* it, it is in the very state the primary was in when it forwarded the    *)
(* last message the secondary has read, until it has read them all after   *)
(* the end of the primary and carries out requests of clients of its own   *)
(* (forward_request comes after the response and the grants, and each      *)
(* server hands out the queued accesses by itself).                        *)
MirrorIsPastPrimary ==
  ~ diverged /\ (s_issued = {} \/ p_process = "running" \/ forwards # <<>>)
    => s_key_states = images[1]

Registered(ks, p, a) ==
  /\ ks[a.key] # NoEntry
  /\ IF a.type = "Write" THEN ks[a.key].writer = p
                         ELSE p \in ks[a.key].readers

(* Nobody has started at the secondary: the ids it counts would be those   *)
(* of clients of the primary once more.                                    *)
AllPrimary == \A c \in ClientId : Started(c) => is_primary[c]

(* A client that has switched goes on under the primary's id, but what the *)
(* secondary has for an id goes to the connection of that number. These    *)
(* are the same if the client is at the primary still, or came to the      *)
(* secondary as the n-th of its connections and has the id n.              *)
KeepsId(c) == OnSecondary(c) => Token(c) = proc_id[c]

(* The clients the handover can be relied on by, whatever the others do:   *)
(* not those that have abandoned a request (one that is carried out a      *)
(* second time may release the access obtained in between, and its second  *)
(* answer is taken for that of a later call), nor those to which more has  *)
(* come than the answers to their requests, each of which is then taken    *)
(* for the answer to the next one (a grant the primary has delivered is    *)
(* delivered once more when the secondary carries out the release it came  *)
(* of: "Mirror server cannot manage reconstitution of pending requests";   *)
(* grants that cannot be delivered end in an error for the client whose    *)
(* release they came of, which has had its answer), nor those whose grants *)
(* go to another.                                                          *)
Reliable == {c \in ClientId \ (abandoned \cup surplus) : KeepsId(c)}

(* The primary has ended, and the secondary has read what it had to say.   *)
Succeeded == ~ diverged /\ AllPrimary /\ p_process = "ended" /\ forwards = <<>>

(* The exit of the primary takes no access away: once the secondary has    *)
(* succeeded it, every access a reliable client has been told of, before   *)
(* or after it switched, is registered there; as long as no change was     *)
(* kept from the secondary and nobody has started there.                   *)
HeldSurvivesExit ==
  Succeeded =>
    \A c \in Reliable : \A a \in held[c] :
      Registered(s_key_states, proc_id[c], a)

(* The lock excludes across the exit: of the reliable clients no two       *)
(* believe in accesses that exclude one another, be they with one server   *)
(* or one with each, before the primary ends, while the secondary catches  *)
(* up with it and after; as long as no change was kept from the secondary  *)
(* and nobody has started there. The secondary grants from its copy, while *)
(* clients that have not switched hold what the primary gave them, or have *)
(* yet to read that it did.                                                *)
ExclusionAcrossExit ==
  ~ diverged /\ AllPrimary =>
    \A c, d \in Reliable : \A a \in held[c], b \in held[d] :
      c # d /\ a.key = b.key => a.type = "Read" /\ b.type = "Read"

(* No client believes it may write a key while another believes it may     *)
(* access it, whatever server each is connected to.                        *)
ClientExclusion ==
  \A c, d \in ClientId : \A a \in held[c], b \in held[d] :
    c # d /\ a.key = b.key => a.type = "Read" /\ b.type = "Read"
============================================================================
