---------------------------- MODULE DataSharing ----------------------------
(***************************************************************************)
(* The example of bin/client.rs: processes that keep a value each in their *)
(* DataStore, fetch it from one another with p2p_read, and use the         *)
(* registry to keep writers and readers apart. One process, client 1 of    *)
(* the example, creates the data and writes it once more; the others, each *)
(* a client 2, fetch it, keep a copy, and try to delete the key. The       *)
(* sleeps of the example order nothing for certain and are left out.       *)
(*                                                                         *)
(* The state of the registry, the clients and the connections is that of   *)
(* RegistrySystem; the calls are made by the programs.                     *)
(***************************************************************************)
EXTENDS RegistrySystem

CONSTANTS
  Creator,  (* the process that runs p2p_client1                           *)
  NoData    (* nothing is stored, or nothing has been sent                 *)

ASSUME CreatorAssumption == Creator \in ProcId

(* The example has one key of data. *)
ASSUME KeyAssumption == KeyId # {}

DataKey == CHOOSE k \in KeyId : TRUE

Data == {"initial", "new"}

VARIABLES
  step,       (* the call or statement each program is at                  *)
  store,      (* data_map of each process's DataStore                      *)
  listening,  (* the creator's P2PServer accepts connections               *)
  requests,   (* readers whose request the P2PServer has not handled       *)
  answers,    (* what it has sent to each reader                           *)
  failed      (* history: a p2p_read was refused, or will wait for ever    *)

data == <<step, store, listening, requests, answers, failed>>

sharing == <<vars, data>>

(* The calls of p2p_client1, then those of p2p_client2. *)
RequestAt ==
  [create     |-> "Create", create_again |-> "Create", write  |-> "Write",
   release1   |-> "Release",
   try_create |-> "Create", read         |-> "Read",   release2 |-> "Release",
   delete     |-> "Delete"]

Step == DOMAIN RequestAt \cup
          {"store", "update", "fetch", "fetching", "end", "ended"}

(* Where a program goes on after a call. The ? operator ends it when the   *)
(* call fails; the results of the two repeated attempts to create the key  *)
(* are not looked at.                                                      *)
After(s, ok) ==
  CASE s = "create_again"             -> "write"
    [] s = "try_create"               -> "read"
    [] s = "create" /\ ok             -> "store"
    [] s = "write" /\ ok              -> "update"
    [] s = "read" /\ ok               -> "fetch"
    [] s = "release2" /\ ok           -> "delete"
    [] OTHER                          -> "end"

GoTo(p, s) == step' = [step EXCEPT ![p] = s]

----------------------------------------------------------------------------
(* DataStore. Its mutexes make each operation one step. *)

DataStoreCreate(p, k, d) == store' = [store EXCEPT ![p][k] = d]

DataStoreWrite(p, k, d) ==
  /\ store[p][k] # NoData
  /\ store' = [store EXCEPT ![p][k] = d]

(* datastore.create of the creator, after registry_create. *)
StoreInitial(p) ==
  /\ step[p] = "store"
  /\ DataStoreCreate(p, DataKey, "initial")
  /\ GoTo(p, "create_again")
  /\ UNCHANGED <<vars, listening, requests, answers, failed>>

(* datastore.write, after registry_write_sync. *)
Update(p) ==
  /\ step[p] = "update"
  /\ DataStoreWrite(p, DataKey, "new")
  /\ GoTo(p, "release1")
  /\ UNCHANGED <<vars, listening, requests, answers, failed>>

----------------------------------------------------------------------------
(* p2p_read and P2PServer. *)

(* The thread of the creator's P2PServer comes to listen. *)
Bind ==
  /\ Creator \in issued
  /\ ~ listening
  /\ listening' = TRUE
  /\ UNCHANGED <<vars, step, store, requests, answers, failed>>

(* p2p_read connects and sends its request, or is refused. *)
Fetch(p) ==
  /\ step[p] = "fetch"
  /\ \/ /\ listening
        /\ requests' = requests \cup {p}
        /\ GoTo(p, "fetching")
        /\ UNCHANGED failed
     \/ /\ ~ listening
        /\ failed' = TRUE
        /\ GoTo(p, "end")
        /\ UNCHANGED requests
  /\ UNCHANGED <<vars, store, listening, answers>>

BugHandleFetch(p) ==
  /\ p \in requests
  /\ store[Creator][DataKey] # NoData
  /\ answers' = [answers EXCEPT ![p] = store[Creator][DataKey]]
  /\ UNCHANGED <<vars, step, store, listening, requests, failed>>

(* handle_data: DataStore::get, and the data is sent. When there is none   *)
(* the error is logged and the reader is told nothing.                     *)
HandleFetch(p) ==
  /\ p \in requests
  /\ requests' = requests \ {p}
  /\ LET d == store[Creator][DataKey]
     IN  IF d = NoData THEN failed' = TRUE /\ UNCHANGED answers
         ELSE answers' = [answers EXCEPT ![p] = d] /\ UNCHANGED failed
  /\ UNCHANGED <<vars, step, store, listening>>

(* p2p_read returns and the reader keeps a copy. *)
Copy(p) ==
  /\ step[p] = "fetching"
  /\ answers[p] # NoData
  /\ DataStoreCreate(p, DataKey, answers[p])
  /\ GoTo(p, "release2")
  /\ UNCHANGED <<vars, listening, requests, answers, failed>>

----------------------------------------------------------------------------
(* The calls of the programs to the registry. *)

ProgramCall(p) ==
  /\ step[p] \in DOMAIN RequestAt
  /\ MakeCall(p, "sync", RequestAt[step[p]], DataKey)
  /\ UNCHANGED data

(* The message read makes the call return Ok. *)
ReturnsOk(p) ==
  IF call[p].type \in AccessType THEN Grants(call[p], Front(p))
  ELSE Front(p) = Success(call[p].key)

ProgramReads(p) ==
  /\ ReadMessage(p)
  /\ IF call'[p] = NoCall THEN GoTo(p, After(step[p], ReturnsOk(p)))
                          ELSE UNCHANGED step
  /\ UNCHANGED <<store, listening, requests, answers, failed>>

ProgramTimesOut(p) ==
  /\ TimeOut(p)
  /\ GoTo(p, After(step[p], FALSE))
  /\ UNCHANGED <<store, listening, requests, answers, failed>>

(* The program returns: its ProtocolClient is dropped and the connection   *)
(* closed. Its P2PServer goes on with the process.                         *)
ProgramEnds(p) ==
  /\ step[p] = "end"
  /\ LeaveRegistry(p)
  /\ GoTo(p, "ended")
  /\ UNCHANGED <<store, listening, requests, answers, failed>>

RegistryRuns ==
  /\ \/ HandleGrants
     \/ \E p \in ProcId : Connect(p) \/ HandleData(p)
  /\ UNCHANGED data

SharingInit ==
  /\ Init
  /\ step = [p \in ProcId |-> IF p = Creator THEN "create" ELSE "try_create"]
  /\ store = [p \in ProcId |-> [k \in KeyId |-> NoData]]
  /\ listening = FALSE
  /\ requests = {}
  /\ answers = [p \in ProcId |-> NoData]
  /\ failed = FALSE

Progress ==
  \/ \E p \in ProcId :
       \/ ProgramCall(p) \/ ProgramReads(p)
       \/ StoreInitial(p) \/ Update(p)
       \/ Fetch(p) \/ HandleFetch(p) \/ Copy(p)
       \/ ProgramEnds(p)
  \/ Bind
  \/ RegistryRuns

SharingNext == Progress \/ \E p \in ProcId : ProgramTimesOut(p)

(* No part stops while it has something to do; a call need not time out.   *)
(* The programs are straight lines, so every behaviour comes to its end.   *)
SharingSpec ==
  SharingInit /\ [][SharingNext]_sharing /\ WF_sharing(Progress)
----------------------------------------------------------------------------
(* PROPERTIES *)

DataTypeOK ==
  /\ step \in [ProcId -> Step]
  /\ store \in [ProcId -> [KeyId -> Data \cup {NoData}]]
  /\ requests \subseteq {p \in ProcId : step[p] = "fetching"}
  /\ answers \in [ProcId -> Data \cup {NoData}]

(* What a reader has copied is what the creator has, until the reader gives*)
(* its read access up: the data goes from process to process without the   *)
(* registry, and the locks alone must keep a newer version from being      *)
(* written after the fetch (P2PServer takes no part in the locking).       *)
(* A program that goes on after a call has timed out takes the late answer *)
(* for that of its next call; the creator that does may write when it      *)
(* should not, and a reader may read. Other readers that do so harm nobody.*)
CopiesAreFresh ==
  \A p \in ProcId \ {Creator} :
    step[p] = "release2" /\ ~ InCall(p) /\ {p, Creator} \cap overlapped = {} =>
      store[p] = store[Creator]

(* Every program comes to its end unless a call times out or a reader asks *)
(* the creator's process for the data too early: neither the locks, nor    *)
(* the grants on their way, nor processes that end while others wait leave *)
(* one waiting.                                                            *)
ProgramsEnd ==
  <>(failed \/ timeouts > 0 \/ \A p \in ProcId : step[p] = "ended")
============================================================================
