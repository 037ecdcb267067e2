--------------------------- MODULE AccessManager ---------------------------
(***************************************************************************)
(* AccessManager of access_manager.rs: the map from keys to entries, the   *)
(* channel of granted accesses, and the five methods create, delete, read, *)
(* write and release, called in any order by anybody. The methods take     *)
(* &mut self, so each call is one atomic step. The receiving end of the    *)
(* channel is emptied by the owner of the manager, one message at a time.  *)
(*                                                                         *)
(* tx.send fails only when the receiver is gone; the receiver is a field   *)
(* of the same struct, so the SendError results cannot occur.              *)
(***************************************************************************)
EXTENDS KeyStates

CONSTANTS
  NoEntry,         (* a key that is not in the map                         *)
  MaxOutstanding   (* bound: queued and uncollected requests, per key      *)

ASSUME NoEntryAssumption == NoEntry \notin Entry

VARIABLES
  key_states,      (* the HashMap: an entry, or NoEntry, for each key      *)
  access_granted,  (* messages sent to access_granted_tx, not yet received *)
  reply            (* what the last call returned                          *)

vars == <<key_states, access_granted, reply>>

Results == {"Ok", "RequestAccess", "ReleaseAccess",
            "KeyAccessed", "KeyExists", "KeyNotFound"}

Reply == [res : Results, holder : ProcId \cup {NoProc}]

Exists(k) == key_states[k] # NoEntry

Return(res) == reply' = [res |-> res, holder |-> NoProc]

Fail(err) ==
  /\ Return(err)
  /\ UNCHANGED <<key_states, access_granted>>

SetEntry(k, ks) == key_states' = [key_states EXCEPT ![k] = ks]

(* Bound on the environment, not in the code: a call that would be queued  *)
(* is made only while the queue and the channel are short.                 *)
RoomToQueue(k) ==
  Len(key_states[k].pending) + Len(access_granted) < MaxOutstanding

----------------------------------------------------------------------------
Init ==
  /\ key_states = [k \in KeyId |-> NoEntry]
  /\ access_granted = <<>>
  /\ reply = [res |-> "Ok", holder |-> NoProc]

Create(p, k) ==
  \/ /\ Exists(k)
     /\ Fail("KeyExists")
  \/ /\ ~ Exists(k)
     /\ SetEntry(k, NewKeyState(p))
     /\ Return("Ok")
     /\ UNCHANGED access_granted

Delete(k) ==
  \/ /\ ~ Exists(k)
     /\ Fail("KeyNotFound")
  \/ /\ Exists(k)
     /\ Accessed(key_states[k])
     /\ Fail("KeyAccessed")
  \/ /\ Exists(k)
     /\ ~ Accessed(key_states[k])
     /\ SetEntry(k, NoEntry)
     /\ Return("Ok")
     /\ UNCHANGED access_granted

(* A read that is not queued is answered with a holder chosen after the    *)
(* reader has been registered.                                             *)
Read(p, k) ==
  \/ /\ ~ Exists(k)
     /\ Fail("KeyNotFound")
  \/ /\ Exists(k)
     /\ ReadMustQueue(key_states[k])
     /\ RoomToQueue(k)
     /\ SetEntry(k, Enqueue(key_states[k], p, "Read"))
     /\ Return("RequestAccess")
     /\ UNCHANGED access_granted
  \/ /\ Exists(k)
     /\ ~ ReadMustQueue(key_states[k])
     /\ LET ks == RegisterReader(key_states[k], p)
        IN  /\ SetEntry(k, ks)
            /\ \E h \in HolderChoices(ks) :
                 reply' = [res |-> "Ok", holder |-> h]
     /\ UNCHANGED access_granted

Write(p, k) ==
  \/ /\ ~ Exists(k)
     /\ Fail("KeyNotFound")
  \/ /\ Exists(k)
     /\ Accessed(key_states[k])
     /\ RoomToQueue(k)
     /\ SetEntry(k, Enqueue(key_states[k], p, "Write"))
     /\ Return("RequestAccess")
     /\ UNCHANGED access_granted
  \/ /\ Exists(k)
     /\ ~ Accessed(key_states[k])
     /\ SetEntry(k, RegisterWriter(key_states[k], p))
     /\ Return("Ok")
     /\ UNCHANGED access_granted

(* The release of an access in force. The holder named in the grants is    *)
(* looked up once, before the new holders are registered.                  *)
ReleaseHeld(p, k) ==
  /\ Exists(k)
  /\ Holds(key_states[k], p)
  /\ SetEntry(k, AfterRelease(key_states[k], p))
  /\ \E h \in WakeHolders(key_states[k], p) :
       access_granted' =
         access_granted \o GrantsOnRelease(key_states[k], p, k, h)
  /\ Return("Ok")

Release(p, k) ==
  \/ /\ ~ Exists(k)
     /\ Fail("KeyNotFound")
  \/ /\ Exists(k)
     /\ ~ Holds(key_states[k], p)
     /\ Fail("ReleaseAccess")
  \/ ReleaseHeld(p, k)

(* access_granted_rx.try_recv() by the owner of the manager. *)
TryRecv ==
  /\ access_granted # <<>>
  /\ access_granted' = Tail(access_granted)
  /\ UNCHANGED <<key_states, reply>>

Next ==
  \/ \E p \in ProcId, k \in KeyId :
       \/ Create(p, k)
       \/ Read(p, k)
       \/ Write(p, k)
       \/ Release(p, k)
  \/ \E k \in KeyId : Delete(k)
  \/ TryRecv

Spec == Init /\ [][Next]_vars

(* Every process that holds an access gives it back in the end. This is an *)
(* obligation of the callers, not of the manager.                          *)
FairSpec ==
  /\ Spec
  /\ \A p \in ProcId, k \in KeyId : WF_vars(ReleaseHeld(p, k))
  /\ WF_vars(TryRecv)
----------------------------------------------------------------------------
(* PROPERTIES *)

(* Every variable holds values of its type; in particular only reads and   *)
(* writes are ever queued, so handle_requesting's panic is unreachable.    *)
TypeOK ==
  /\ key_states \in [KeyId -> Entry \cup {NoEntry}]
  /\ access_granted \in Seq(Grant)
  /\ reply \in Reply

(* A writer never shares the key with a reader. register_writer and        *)
(* register_reader check nothing: that handle_requesting only runs when    *)
(* the last access is gone is what makes it so.                            *)
ExclusiveWriter ==
  \A k \in KeyId :
    Exists(k) /\ key_states[k].writer # NoProc => key_states[k].readers = {}

(* A key nobody accesses has an empty queue. delete() drops the queue with *)
(* the entry and looks at readers and writer only, and read() and write()  *)
(* on an idle key do not look behind the front of the queue: this is why   *)
(* neither strands a waiter or lets a newcomer pass one.                   *)
IdleMeansNoWaiters ==
  \A k \in KeyId :
    Exists(k) /\ ~ Accessed(key_states[k]) => key_states[k].pending = <<>>

(* While readers are active the queue is empty or headed by a writer: no   *)
(* reader waits without a writer in front of it, although read() tests the *)
(* front of the queue only and handle_requesting is not run by read().     *)
ReadersWaitBehindWriter ==
  \A k \in KeyId :
    Exists(k) /\ key_states[k].readers # {} =>
      key_states[k].pending = <<>> \/ FrontIsWrite(key_states[k])

(* The accesses in force on an entry, as FairLock counts them. *)
HoldingOf(ks) ==
  IF ks = NoEntry THEN {}
  ELSE {[proc |-> p, type |-> t] : p \in ks.readers, t \in {"Read"}}
       \cup {[proc |-> p, type |-> t] :
               p \in {ks.writer} \ {NoProc}, t \in {"Write"}}

AnswerOf(res) ==
  CASE res = "Ok" -> "ok"
    [] res = "RequestAccess" -> "wait"
    [] OTHER -> "refused"

FL == INSTANCE FairLock WITH
        Proc    <- ProcId,
        Key     <- KeyId,
        live    <- {k \in KeyId : Exists(k)},
        holding <- [k \in KeyId |-> HoldingOf(key_states[k])],
        waiting <- [k \in KeyId |-> IF Exists(k) THEN key_states[k].pending
                                    ELSE <<>>],
        notices <- [i \in DOMAIN access_granted |->
                      [proc |-> access_granted[i].proc,
                       key  |-> access_granted[i].key,
                       type |-> access_granted[i].type]],
        answer  <- AnswerOf(reply.res)

(* The manager implements the first-come-first-served lock: no request     *)
(* overtakes another, nothing that could be admitted is left waiting, the  *)
(* admitted waiters and only they are notified, in order, and deletions    *)
(* never take a key from a holder or a waiter.                             *)
ImplementsFairLock == FL!Spec

(* A waiter served by handle_requesting is always sent to the key's        *)
(* creator, whoever wrote the key last: the old holder is gone when        *)
(* holder() is called, and the new one is not there yet.                   *)
GrantsNameCreator ==
  [][\A i \in Len(access_granted) + 1 .. Len(access_granted') :
       LET g == access_granted'[i]
       IN  Exists(g.key) /\ g.holder = key_states[g.key].creator]_vars

Waiting(p, k, t) ==
  Exists(k) /\ \E i \in DOMAIN key_states[k].pending :
                 key_states[k].pending[i] = [proc |-> p, type |-> t]

HasAccess(p, k, t) ==
  Exists(k) /\ IF t = "Write" THEN key_states[k].writer = p
               ELSE p \in key_states[k].readers

(* No request waits forever, reader or writer, as long as every holder     *)
(* releases: the fairness the README claims for the registry.              *)
NoStarvation ==
  \A p \in ProcId, k \in KeyId, t \in AccessType :
    Waiting(p, k, t) ~> HasAccess(p, k, t)

(* The comment of holder(): the process a reader is sent to knows the      *)
(* key's data. A process that is neither the creator nor already a reader  *)
(* does not, so a read must not be answered with the reader itself.        *)
ReadNamesProcessWithData ==
  [][\A p \in ProcId, k \in KeyId :
       /\ Read(p, k)
       /\ reply'.res = "Ok"
       /\ p \notin key_states[k].readers \cup {key_states[k].creator}
       => reply'.holder # p]_vars
============================================================================
