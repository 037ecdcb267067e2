--------------------------- MODULE RegistryProofs ---------------------------
(***************************************************************************)
(* Proofs about RegistrySystem for any set of clients and keys, any number *)
(* of timeouts and of processes that end, with and without the calls that  *)
(* do not wait, whether or not the owners keep to the protocol: the types, *)
(* and that a client which makes no call while something of an earlier one *)
(* is under way never believes in an access the registry does not know of. *)
(*                                                                         *)
(* The argument: as long as that client keeps to this, all that concerns   *)
(* it, in its stream, in the queues, among the grants and in the call it   *)
(* is in, belongs to one request, of type t for key k (Thread), and what   *)
(* tells it that it has the access only exists while the access is         *)
(* registered.                                                             *)
(***************************************************************************)
EXTENDS RegistrySystem, KeyStatesProofs

(* What every client sends carries its own id. *)
RequestsNameSender ==
  \A q \in ProcId : \A i \in 1 .. Len(to_server[q]) :
    to_server[q][i] \in RequestMessage /\ to_server[q][i].proc = q

(* Only accesses are asked for, and only what was asked for is awaited. *)
AskedTypes ==
  \A q \in ProcId : InCall(q) =>
    /\ call[q].kind = "ask"   => call[q].type \in AccessType
    /\ call[q].kind = "await" => asked[q] # NoCall

EntriesOK ==
  \A k \in KeyId : key_states[k] # NoEntry => EntryInv(key_states[k])

(* The parts of Thread. *)
RequestsAre(p, t, k) ==
  \A i \in 1 .. Len(to_server[p]) :
    to_server[p][i].type = t /\ to_server[p][i].key = k

QueuedAre(p, t, k) ==
  \A j \in KeyId : \A i \in 1 .. Len(Pending(j)) :
    Pending(j)[i].proc = p => j = k /\ Pending(j)[i].type = t

GrantsAre(p, t, k) ==
  \A i \in 1 .. Len(access_granted) :
    access_granted[i].proc = p =>
      /\ access_granted[i].key = k /\ access_granted[i].type = t
      /\ Registered(p, [key |-> k, type |-> t])

AnswersAre(p, t, k) ==
  \A i \in 1 .. Len(to_client[p]) :
    to_client[p][i].type \in {"Success", "Holder"} =>
      /\ to_client[p][i].key = k
      /\ t \in AccessType => Registered(p, [key |-> k, type |-> t])

CallIs(p, t, k) ==
  /\ InCall(p) => call[p].type = t /\ call[p].key = k
  /\ asked[p] # NoCall => asked[p].access = [key |-> k, type |-> t]

HeldIs(p, t, k) ==
  \A a \in held[p] : /\ Registered(p, a)
                     /\ t = "Release" => a.key # k

(* All that is under way for p belongs to one request, of type t for key   *)
(* k, or nothing is (and then k may be NoKey).                             *)
Thread(p, t, k) ==
  /\ RequestsAre(p, t, k)
  /\ QueuedAre(p, t, k)
  /\ GrantsAre(p, t, k)
  /\ AnswersAre(p, t, k)
  /\ CallIs(p, t, k)
  /\ HeldIs(p, t, k)

OneThread ==
  \A p \in ProcId \ overlapped :
    \E t \in RequestType, k \in KeyId \cup {NoKey} : Thread(p, t, k)

Typed == TypeOK /\ RequestsNameSender /\ AskedTypes /\ EntriesOK

RInv == Typed /\ OneThread

----------------------------------------------------------------------------
(* THE MANAGER'S CALLS, IN THE OPERATORS OF KEYSTATES *)

(* The server's instance of the manager computes with the same operators.  *)
LEMMA SameOperators ==
  /\ Server!AM!Entry = Entry /\ Server!AM!Grant = Grant
  /\ \A p : Server!AM!NewKeyState(p) = NewKeyState(p)
  /\ \A ks : Server!AM!Accessed(ks) = Accessed(ks)
  /\ \A ks : Server!AM!ReadMustQueue(ks) = ReadMustQueue(ks)
  /\ \A ks, p : Server!AM!Holds(ks, p) = Holds(ks, p)
  /\ \A ks : Server!AM!HolderChoices(ks) = HolderChoices(ks)
  /\ \A ks, p, t : Server!AM!Enqueue(ks, p, t) = Enqueue(ks, p, t)
  /\ \A ks, p : Server!AM!RegisterReader(ks, p) = RegisterReader(ks, p)
  /\ \A ks, p : Server!AM!RegisterWriter(ks, p) = RegisterWriter(ks, p)
  /\ \A ks, p : Server!AM!WakeHolders(ks, p) = WakeHolders(ks, p)
  /\ \A ks, p : Server!AM!AfterRelease(ks, p) = AfterRelease(ks, p)
  /\ \A ks, p, k, h : Server!AM!GrantsOnRelease(ks, p, k, h)
                        = GrantsOnRelease(ks, p, k, h)
<1>1. Server!AM!Entry = Entry /\ Server!AM!Grant = Grant
  BY DEF Server!AM!Entry, Server!AM!Request, Server!AM!AccessType, Entry,
         Request, AccessType, Server!AM!Grant, Grant
<1>2. \A p : Server!AM!NewKeyState(p) = NewKeyState(p)
  BY DEF Server!AM!NewKeyState, NewKeyState
<1>3. \A ks : Server!AM!Accessed(ks) = Accessed(ks)
  BY DEF Server!AM!Accessed, Accessed
<1>4. \A ks : Server!AM!FrontIsWrite(ks) = FrontIsWrite(ks)
  BY DEF Server!AM!FrontIsWrite, FrontIsWrite
<1>5. \A ks : Server!AM!ReadMustQueue(ks) = ReadMustQueue(ks)
  BY <1>4, Zenon DEF Server!AM!ReadMustQueue, ReadMustQueue
<1>6. \A ks, p : Server!AM!Holds(ks, p) = Holds(ks, p)
  BY DEF Server!AM!Holds, Holds
<1>7. \A ks : Server!AM!HolderChoices(ks) = HolderChoices(ks)
  BY DEF Server!AM!HolderChoices, HolderChoices
<1>8. \A ks, p, t : Server!AM!Enqueue(ks, p, t) = Enqueue(ks, p, t)
  BY DEF Server!AM!Enqueue, Enqueue
<1>9. \A ks, p : Server!AM!RegisterReader(ks, p) = RegisterReader(ks, p)
  BY DEF Server!AM!RegisterReader, RegisterReader
<1>10. \A ks, p : Server!AM!RegisterWriter(ks, p) = RegisterWriter(ks, p)
  BY DEF Server!AM!RegisterWriter, RegisterWriter
<1>11. \A ks, p : Server!AM!Surrender(ks, p) = Surrender(ks, p)
  BY DEF Server!AM!Surrender, Surrender
<1>12. \A ks, p : Server!AM!WakeHolders(ks, p) = WakeHolders(ks, p)
  BY <1>7, <1>11 DEF Server!AM!WakeHolders, WakeHolders
<1>13. \A q : Server!AM!ReadBatch(q) = ReadBatch(q)
  BY Zenon DEF Server!AM!ReadBatch, ReadBatch
<1>14. \A ks : Server!AM!ServedCount(ks) = ServedCount(ks)
  BY <1>4, <1>13, Zenon DEF Server!AM!ServedCount, ServedCount
<1>15. \A ks : Server!AM!HandleRequesting(ks) = HandleRequesting(ks)
  BY <1>4, <1>14, Zenon DEF Server!AM!HandleRequesting, HandleRequesting
<1>16. \A ks, p : Server!AM!LastRelease(ks, p) = LastRelease(ks, p)
  BY DEF Server!AM!LastRelease, LastRelease
<1>17. \A ks, p : Server!AM!AfterRelease(ks, p) = AfterRelease(ks, p)
  BY <1>11, <1>15, <1>16, Zenon DEF Server!AM!AfterRelease, AfterRelease
<1>18. \A ks, k, h : Server!AM!GrantsOf(ks, k, h) = GrantsOf(ks, k, h)
  BY <1>14, Zenon DEF Server!AM!GrantsOf, GrantsOf
<1>19. \A ks, p, k, h : Server!AM!GrantsOnRelease(ks, p, k, h)
                          = GrantsOnRelease(ks, p, k, h)
  BY <1>11, <1>16, <1>18, Zenon DEF Server!AM!GrantsOnRelease, GrantsOnRelease
<1> QED
  BY <1>1, <1>2, <1>3, <1>5, <1>6, <1>7, <1>8, <1>9, <1>10, <1>12, <1>17,
     <1>19

(* The ways a call of the manager for request m can go. *)
Stored(k, ks) == key_states' = [key_states EXCEPT ![k] = ks]

Refused ==
  /\ UNCHANGED <<key_states, access_granted>>
  /\ reply'.res \notin {"Ok", "RequestAccess"}

Created(m) ==
  /\ m.type = "Create"
  /\ key_states[m.key] = NoEntry
  /\ Stored(m.key, NewKeyState(m.proc))
  /\ UNCHANGED access_granted
  /\ reply'.res = "Ok"

Deleted(m) ==
  /\ m.type = "Delete"
  /\ key_states[m.key] # NoEntry
  /\ ~ Accessed(key_states[m.key])
  /\ Stored(m.key, NoEntry)
  /\ UNCHANGED access_granted
  /\ reply'.res = "Ok"

PutInQueue(m) ==
  /\ m.type \in AccessType
  /\ key_states[m.key] # NoEntry
  /\ Accessed(key_states[m.key])
  /\ m.type = "Read" => ReadMustQueue(key_states[m.key])
  /\ Stored(m.key, Enqueue(key_states[m.key], m.proc, m.type))
  /\ UNCHANGED access_granted
  /\ reply'.res = "RequestAccess"

ReadAtOnce(m) ==
  /\ m.type = "Read"
  /\ key_states[m.key] # NoEntry
  /\ ~ ReadMustQueue(key_states[m.key])
  /\ Stored(m.key, RegisterReader(key_states[m.key], m.proc))
  /\ UNCHANGED access_granted
  /\ reply'.res = "Ok"
  /\ reply'.holder
       \in HolderChoices(RegisterReader(key_states[m.key], m.proc))

WriteAtOnce(m) ==
  /\ m.type = "Write"
  /\ key_states[m.key] # NoEntry
  /\ ~ Accessed(key_states[m.key])
  /\ Stored(m.key, RegisterWriter(key_states[m.key], m.proc))
  /\ UNCHANGED access_granted
  /\ reply'.res = "Ok"

Released(m) ==
  /\ m.type = "Release"
  /\ key_states[m.key] # NoEntry
  /\ Holds(key_states[m.key], m.proc)
  /\ Stored(m.key, AfterRelease(key_states[m.key], m.proc))
  /\ \E h \in WakeHolders(key_states[m.key], m.proc) :
       access_granted' = access_granted
         \o GrantsOnRelease(key_states[m.key], m.proc, m.key, h)
  /\ reply'.res = "Ok"

(* The types of the manager's variables, in the operators of KeyStates.    *)
LEMMA ManagerTypes ==
  ASSUME Server!AM!TypeOK
  PROVE  /\ key_states \in [KeyId -> Entry \cup {NoEntry}]
         /\ access_granted \in Seq(Grant)
         /\ \A k \in KeyId : key_states[k] # NoEntry => key_states[k] \in Entry
BY SameOperators DEF Server!AM!TypeOK

(* Every call of the manager goes in one of these ways.                    *)
LEMMA CallGoes ==
  ASSUME Server!AM!TypeOK, EntriesOK, NEW m \in RequestMessage,
         Server!CallManager(m)
  PROVE  \/ Refused \/ Created(m) \/ Deleted(m) \/ PutInQueue(m)
         \/ ReadAtOnce(m) \/ WriteAtOnce(m) \/ Released(m)
<1>0. m.key \in KeyId /\ m.proc \in ProcId /\ m.type \in RequestType
  BY DEF RequestMessage
<1>1. ASSUME NEW err \in {"KeyNotFound", "KeyExists", "KeyAccessed",
                          "ReleaseAccess"},
             Server!AM!Fail(err)
      PROVE  Refused
  BY <1>1 DEF Server!AM!Fail, Server!AM!Return, Refused
<1>2. CASE m.type = "Create" /\ Server!AM!Create(m.proc, m.key)
  BY <1>1, <1>2, SameOperators
  DEF Server!AM!Create, Server!AM!Exists, Server!AM!SetEntry,
      Server!AM!Return, Created, Stored
<1>3. CASE m.type = "Delete" /\ Server!AM!Delete(m.key)
  BY <1>1, <1>3, SameOperators
  DEF Server!AM!Delete, Server!AM!Exists, Server!AM!SetEntry,
      Server!AM!Return, Deleted, Stored
<1>4. CASE m.type = "Read" /\ Server!AM!Read(m.proc, m.key)
  <2> DEFINE ks == key_states[m.key]
  <2>1. CASE Server!AM!Fail("KeyNotFound")
    BY <1>1, <2>1
  <2>2. CASE /\ ks # NoEntry
             /\ ReadMustQueue(ks)
             /\ Stored(m.key, Enqueue(ks, m.proc, "Read"))
             /\ reply'.res = "RequestAccess"
             /\ UNCHANGED access_granted
    <3>1. Accessed(ks)
      BY <1>0, <2>2
      DEF EntriesOK, EntryInv, ReadMustQueue, FrontIsWrite, Accessed
    <3> QED
      BY <1>4, <2>2, <3>1 DEF PutInQueue, AccessType
  <2>3. CASE /\ ks # NoEntry
             /\ ~ ReadMustQueue(ks)
             /\ Stored(m.key, RegisterReader(ks, m.proc))
             /\ \E h \in HolderChoices(RegisterReader(ks, m.proc)) :
                  reply' = [res |-> "Ok", holder |-> h]
             /\ UNCHANGED access_granted
    BY <1>4, <2>3 DEF ReadAtOnce
  <2> QED
    BY <1>4, <2>1, <2>2, <2>3, SameOperators
    DEF Server!AM!Read, Server!AM!Exists, Server!AM!SetEntry,
        Server!AM!Return, Stored
<1>5. CASE m.type = "Write" /\ Server!AM!Write(m.proc, m.key)
  BY <1>1, <1>5, SameOperators
  DEF Server!AM!Write, Server!AM!Exists, Server!AM!SetEntry,
      Server!AM!Return, WriteAtOnce, PutInQueue, Stored, AccessType
<1>6. CASE m.type = "Release" /\ Server!AM!Release(m.proc, m.key)
  <2>1. CASE Server!AM!ReleaseHeld(m.proc, m.key)
    <3>1. /\ key_states[m.key] # NoEntry
          /\ Holds(key_states[m.key], m.proc)
          /\ Stored(m.key, AfterRelease(key_states[m.key], m.proc))
          /\ reply'.res = "Ok"
      BY <2>1, SameOperators
      DEF Server!AM!ReleaseHeld, Server!AM!Exists, Server!AM!SetEntry,
          Server!AM!Return, Stored
    <3>2. \E h \in WakeHolders(key_states[m.key], m.proc) :
            access_granted' = access_granted
              \o GrantsOnRelease(key_states[m.key], m.proc, m.key, h)
      BY <2>1, SameOperators, Zenon DEF Server!AM!ReleaseHeld
    <3> QED
      BY <1>6, <3>1, <3>2 DEF Released
  <2> QED
    BY <1>1, <1>6, <2>1 DEF Server!AM!Release
<1> QED
  BY <1>0, <1>2, <1>3, <1>4, <1>5, <1>6
  DEF Server!CallManager, RequestType, AccessType

(* What a call returns has the type of a reply.                            *)
LEMMA CallReplies ==
  ASSUME Server!AM!TypeOK, EntriesOK, NEW m \in RequestMessage,
         Server!CallManager(m)
  PROVE  reply' \in Server!AM!Reply
<1>0. m.key \in KeyId /\ m.proc \in ProcId /\ m.type \in RequestType
  BY DEF RequestMessage
<1>1. ASSUME NEW res \in Server!AM!Results,
             reply' = [res |-> res, holder |-> NoProc]
      PROVE  reply' \in Server!AM!Reply
  BY <1>1 DEF Server!AM!Reply
<1>2. CASE ReadAtOnce(m) /\ reply' = [res |-> "Ok", holder |-> reply'.holder]
  <2>1. /\ key_states[m.key] \in Entry
        /\ EntryInv(key_states[m.key])
    BY <1>0, <1>2, ManagerTypes DEF ReadAtOnce, EntriesOK
  <2>2. reply'.holder \in ProcId
    BY <1>0, <1>2, <2>1, RegisterReaderKeepsInv DEF ReadAtOnce
  <2> QED
    BY <1>2, <2>2 DEF Server!AM!Reply, Server!AM!Results
<1>3. \/ \E res \in Server!AM!Results :
           reply' = [res |-> res, holder |-> NoProc]
      \/ m.type = "Read" /\ \E h : reply' = [res |-> "Ok", holder |-> h]
  <2>1. ASSUME NEW res \in Server!AM!Results, Server!AM!Return(res)
        PROVE  \E r \in Server!AM!Results :
                 reply' = [res |-> r, holder |-> NoProc]
    BY <2>1 DEF Server!AM!Return
  <2>2. /\ "Ok" \in Server!AM!Results /\ "RequestAccess" \in Server!AM!Results
        /\ "ReleaseAccess" \in Server!AM!Results
        /\ "KeyAccessed" \in Server!AM!Results
        /\ "KeyExists" \in Server!AM!Results
        /\ "KeyNotFound" \in Server!AM!Results
    BY DEF Server!AM!Results
  <2> QED
    BY <1>0, <2>1, <2>2
    DEF Server!CallManager, RequestType, AccessType, Server!AM!Create,
        Server!AM!Delete, Server!AM!Read, Server!AM!Write,
        Server!AM!Release, Server!AM!ReleaseHeld, Server!AM!Fail
<1>4. CASE \E h : m.type = "Read" /\ reply' = [res |-> "Ok", holder |-> h]
  <2>1. ReadAtOnce(m)
    BY <1>4, CallGoes
    DEF Refused, Created, Deleted, PutInQueue, WriteAtOnce, Released
  <2> QED
    BY <1>2, <1>4, <2>1
<1> QED
  BY <1>1, <1>3, <1>4

(* A release as the registry sees it: n requests leave the queue and get   *)
(* the grants g; see Serves.                                               *)
LEMMA ReleaseServes ==
  ASSUME Server!AM!TypeOK, EntriesOK, NEW m \in RequestMessage, Released(m)
  PROVE  LET ks == key_states[m.key]
             r  == AfterRelease(ks, m.proc)
         IN  \E h \in ProcId, n \in 0 .. Len(ks.pending) :
               LET g == GrantsOnRelease(ks, m.proc, m.key, h)
               IN  /\ g \in Seq(Grant)
                   /\ access_granted' = access_granted \o g
                   /\ h = ks.creator \/ g = <<>>
                   /\ r \in Entry /\ EntryInv(r) /\ r.creator = ks.creator
                   /\ Serves(ks, m.proc, m.key, h, n)
<1> DEFINE k == m.key
           p == m.proc
           ks == key_states[k]
           r == AfterRelease(ks, p)
<1>1. /\ k \in KeyId /\ p \in ProcId
      /\ ks \in Entry /\ EntryInv(ks) /\ Holds(ks, p)
  BY ManagerTypes DEF RequestMessage, EntriesOK, Released
<1>2. PICK h \in WakeHolders(ks, p) :
        access_granted' = access_granted \o GrantsOnRelease(ks, p, k, h)
  BY DEF Released
<1>3. h \in ProcId
  BY <1>1, <1>2 DEF WakeHolders, HolderChoices, Surrender, Entry
<1> DEFINE g == GrantsOnRelease(ks, p, k, h)
<1>4. /\ r \in Entry /\ EntryInv(r) /\ r.creator = ks.creator
      /\ g \in Seq(Grant)
  BY <1>1, <1>3, AfterReleaseKeepsInv, GrantsType
<1>5. h = ks.creator \/ g = <<>>
  <2>1. CASE LastRelease(ks, p)
    BY <1>1, <1>2, <2>1, WakeHoldersIsCreator
  <2>2. CASE ~ LastRelease(ks, p)
    BY <2>2 DEF GrantsOnRelease
  <2> QED
    BY <2>1, <2>2
<1>6. access_granted' = access_granted \o g
  BY <1>2
<1>7. \E n \in 0 .. Len(ks.pending) : Serves(ks, p, k, h, n)
  <2> HIDE DEF k, p, ks
  <2> QED
    BY <1>1, <1>3, AfterReleaseServes
<1> QED
  BY <1>3, <1>4, <1>5, <1>6, <1>7

(* A call keeps the types of the manager and EntryInv of every entry.      *)
LEMMA CallKeepsManager ==
  ASSUME Server!AM!TypeOK, EntriesOK, NEW m \in RequestMessage,
         Server!CallManager(m)
  PROVE  Server!AM!TypeOK' /\ EntriesOK'
<1>0. /\ m.key \in KeyId /\ m.proc \in ProcId
      /\ key_states \in [KeyId -> Entry \cup {NoEntry}]
      /\ access_granted \in Seq(Grant)
      /\ \A k \in KeyId : key_states[k] # NoEntry =>
           key_states[k] \in Entry /\ EntryInv(key_states[k])
  BY ManagerTypes DEF RequestMessage, EntriesOK
<1>1. ASSUME NEW ks \in Entry, EntryInv(ks), Stored(m.key, ks)
      PROVE  key_states' \in [KeyId -> Entry \cup {NoEntry}] /\ EntriesOK'
  BY <1>0, <1>1 DEF Stored, EntriesOK
<1>2. ASSUME key_states' \in [KeyId -> Entry \cup {NoEntry}],
             access_granted' \in Seq(Grant)
      PROVE  Server!AM!TypeOK'
  BY <1>2, CallReplies, SameOperators DEF Server!AM!TypeOK, Server!AM!Reply,
     Server!AM!Results
<1>3. CASE Refused
  BY <1>0, <1>2, <1>3 DEF Refused, EntriesOK
<1>4. CASE Created(m)
  BY <1>0, <1>1, <1>2, <1>4, NewKeyStateKeepsInv DEF Created
<1>5. CASE Deleted(m)
  BY <1>0, <1>2, <1>5 DEF Deleted, Stored, EntriesOK
<1>6. CASE PutInQueue(m)
  BY <1>0, <1>1, <1>2, <1>6, EnqueueKeepsInv DEF PutInQueue
<1>7. CASE ReadAtOnce(m)
  BY <1>0, <1>1, <1>2, <1>7, RegisterReaderKeepsInv DEF ReadAtOnce
<1>8. CASE WriteAtOnce(m)
  BY <1>0, <1>1, <1>2, <1>8, RegisterWriterKeepsInv DEF WriteAtOnce
<1>9. CASE Released(m)
  <2>1. /\ \E g \in Seq(Grant) : access_granted' = access_granted \o g
        /\ AfterRelease(key_states[m.key], m.proc) \in Entry
        /\ EntryInv(AfterRelease(key_states[m.key], m.proc))
    BY <1>9, ReleaseServes
  <2>2. access_granted' \in Seq(Grant)
    BY <1>0, <2>1, ConcatProperties
  <2> QED
    BY <1>1, <1>2, <1>9, <2>1, <2>2 DEF Released
<1> QED
  BY <1>3, <1>4, <1>5, <1>6, <1>7, <1>8, <1>9, CallGoes

----------------------------------------------------------------------------
(* WHAT A CALL DOES TO THE THREAD OF A CLIENT *)

(* A registered access stays registered through every call but its owner's *)
(* own release of that key.                                                *)
LEMMA CallKeepsRegistered ==
  ASSUME Server!AM!TypeOK, EntriesOK, NEW m \in RequestMessage,
         Server!CallManager(m), NEW p \in ProcId, NEW a \in Access,
         Registered(p, a),
         ~ (m.proc = p /\ m.type = "Release" /\ m.key = a.key)
  PROVE  Registered(p, a)'
<1>0. /\ a.key \in KeyId /\ m.key \in KeyId /\ m.proc \in ProcId
      /\ a.type \in AccessType
      /\ key_states \in [KeyId -> Entry \cup {NoEntry}]
      /\ key_states[a.key] \in Entry /\ EntryInv(key_states[a.key])
  BY ManagerTypes DEF RequestMessage, Access, Registered, EntriesOK
<1>1. CASE m.key # a.key
  <2>1. key_states'[a.key] = key_states[a.key]
    BY <1>0, <1>1, CallGoes
    DEF Refused, Created, Deleted, PutInQueue, ReadAtOnce, WriteAtOnce,
        Released, Stored
  <2> QED
    BY <2>1 DEF Registered
<1>2. CASE m.key = a.key
  <2> DEFINE ks == key_states[a.key]
  <2>0. /\ Accessed(ks)
        /\ \A e \in Entry : Stored(m.key, e) =>
             key_states'[a.key] = e /\ e # NoEntry
    BY <1>0, <1>2, NoProcAssumption, NoEntryAssumption
    DEF Registered, Accessed, Stored
  <2>1. CASE Refused
    BY <2>1 DEF Refused, Registered
  <2>2. CASE Created(m)
    BY <1>2, <2>2 DEF Created, Registered
  <2>3. CASE Deleted(m) \/ WriteAtOnce(m)
    BY <1>2, <2>0, <2>3 DEF Deleted, WriteAtOnce
  <2>4. CASE PutInQueue(m)
    <3>1. Enqueue(ks, m.proc, m.type) \in Entry
      BY <1>0, <1>2, <2>4, EnqueueKeepsInv DEF PutInQueue
    <3>2. key_states'[a.key] = Enqueue(ks, m.proc, m.type)
      BY <1>2, <2>0, <2>4, <3>1 DEF PutInQueue
    <3> QED
      BY <1>0, <2>0, <3>1, <3>2, NoEntryAssumption DEF Registered, Enqueue, Entry
  <2>5. CASE ReadAtOnce(m)
    <3>1. RegisterReader(ks, m.proc) \in Entry
      BY <1>0, <1>2, <2>5, RegisterReaderKeepsInv DEF ReadAtOnce
    <3>2. key_states'[a.key] = RegisterReader(ks, m.proc)
      BY <1>2, <2>0, <2>5, <3>1 DEF ReadAtOnce
    <3> QED
      BY <1>0, <3>1, <3>2, NoEntryAssumption
      DEF Registered, RegisterReader, Entry
  <2>6. CASE Released(m)
    <3>1. m.proc # p
      BY <1>2, <2>6 DEF Released
    <3>2. /\ AfterRelease(ks, m.proc) \in Entry
          /\ ks.writer = p => AfterRelease(ks, m.proc).writer = p
          /\ p \in ks.readers => p \in AfterRelease(ks, m.proc).readers
      BY <1>2, <2>6, <3>1, ReleaseServes DEF Serves
    <3>3. key_states'[a.key] = AfterRelease(ks, m.proc)
      BY <1>2, <2>0, <2>6, <3>2 DEF Released
    <3> QED
      BY <3>2, <3>3, NoEntryAssumption DEF Registered
  <2> QED
    BY <2>1, <2>2, <2>3, <2>4, <2>5, <2>6, CallGoes
<1> QED
  BY <1>1, <1>2

(* A request that is granted at once is registered.                        *)
LEMMA CallRegisters ==
  ASSUME Server!AM!TypeOK, EntriesOK, NEW m \in RequestMessage,
         Server!CallManager(m), m.type \in AccessType, reply'.res = "Ok"
  PROVE  Registered(m.proc, [key |-> m.key, type |-> m.type])'
<1>0. /\ m.key \in KeyId /\ m.proc \in ProcId
      /\ key_states \in [KeyId -> Entry \cup {NoEntry}]
      /\ key_states[m.key] # NoEntry =>
           key_states[m.key] \in Entry /\ EntryInv(key_states[m.key])
  BY ManagerTypes DEF RequestMessage, EntriesOK
<1>1. ReadAtOnce(m) \/ WriteAtOnce(m)
  BY CallGoes
  DEF AccessType, Refused, Created, Deleted, PutInQueue, Released
<1>2. CASE ReadAtOnce(m)
  <2> DEFINE e == RegisterReader(key_states[m.key], m.proc)
  <2>1. e \in Entry /\ m.proc \in e.readers
    BY <1>0, <1>2, RegisterReaderKeepsInv
    DEF ReadAtOnce, RegisterReader, Entry
  <2>2. key_states'[m.key] = e
    BY <1>0, <1>2 DEF ReadAtOnce, Stored
  <2> HIDE DEF e
  <2> QED
    BY <1>2, <2>1, <2>2, NoEntryAssumption DEF Registered, ReadAtOnce
<1>3. CASE WriteAtOnce(m)
  <2> DEFINE e == RegisterWriter(key_states[m.key], m.proc)
  <2>1. e \in Entry /\ e.writer = m.proc
    BY <1>0, <1>3, RegisterWriterKeepsInv
    DEF WriteAtOnce, RegisterWriter, Entry
  <2>2. key_states'[m.key] = e
    BY <1>0, <1>3 DEF WriteAtOnce, Stored
  <2> HIDE DEF e
  <2> QED
    BY <1>3, <2>1, <2>2, NoEntryAssumption DEF Registered, WriteAtOnce
<1> QED
  BY <1>1, <1>2, <1>3

(* A call leaves a client's queued requests as they are, takes some away,  *)
(* or adds the one it is made for.                                         *)
LEMMA CallKeepsQueued ==
  ASSUME Server!AM!TypeOK, EntriesOK, NEW m \in RequestMessage,
         Server!CallManager(m), NEW p \in ProcId, NEW t, NEW k,
         QueuedAre(p, t, k),
         m.proc = p => m.type = t /\ m.key = k
  PROVE  QueuedAre(p, t, k)'
<1>0. /\ m.key \in KeyId /\ m.proc \in ProcId
      /\ key_states \in [KeyId -> Entry \cup {NoEntry}]
      /\ key_states[m.key] # NoEntry =>
           key_states[m.key] \in Entry /\ EntryInv(key_states[m.key])
  BY ManagerTypes DEF RequestMessage, EntriesOK
<1>1. ASSUME NEW e, Stored(m.key, e),
             LET q == IF e = NoEntry THEN <<>> ELSE e.pending
             IN  \A i \in 1 .. Len(q) : q[i].proc = p =>
                   m.key = k /\ q[i].type = t
      PROVE  QueuedAre(p, t, k)'
  <2> SUFFICES ASSUME NEW j \in KeyId, NEW i \in 1 .. Len(Pending(j)'),
                      Pending(j)'[i].proc = p
               PROVE  j = k /\ Pending(j)'[i].type = t
    BY DEF QueuedAre
  <2>1. CASE j = m.key
    <3>1. key_states'[j] = e
      BY <1>0, <1>1, <2>1 DEF Stored
    <3> QED
      BY <1>1, <2>1, <3>1 DEF Pending
  <2>2. CASE j # m.key
    <3>1. key_states'[j] = key_states[j]
      BY <1>0, <1>1, <2>2 DEF Stored
    <3> QED
      BY <3>1 DEF Pending, QueuedAre
  <2> QED
    BY <2>1, <2>2
<1>2. CASE Refused
  BY <1>2 DEF Refused, QueuedAre, Pending
<1>3. CASE Created(m)
  <2>1. NewKeyState(m.proc).pending = <<>>
    BY DEF NewKeyState
  <2> QED
    BY <1>1, <1>3, <2>1, EmptySeq DEF Created
<1>4. CASE Deleted(m)
  BY <1>1, <1>4, EmptySeq DEF Deleted
<1>5. ASSUME key_states[m.key] # NoEntry
      PROVE  LET q == key_states[m.key].pending
             IN  /\ q \in Seq(Request)
                 /\ \A i \in 1 .. Len(q) : q[i].proc = p =>
                      m.key = k /\ q[i].type = t
  BY <1>0, <1>5 DEF QueuedAre, Pending, Entry
<1>6. CASE PutInQueue(m)
  <2> DEFINE q == key_states[m.key].pending
             r == [proc |-> m.proc, type |-> m.type]
             e == Enqueue(key_states[m.key], m.proc, m.type)
  <2>1. r \in Request /\ e.pending = Append(q, r)
    BY <1>0, <1>6 DEF PutInQueue, Request, Enqueue, Entry
  <2>2. /\ Len(Append(q, r)) = Len(q) + 1 /\ Len(q) \in Nat
        /\ \A i \in 1 .. Len(q) : Append(q, r)[i] = q[i]
        /\ Append(q, r)[Len(q) + 1] = r
    BY <1>5, <1>6, <2>1, AppendProperties, LenProperties DEF PutInQueue
  <2>3. r.proc = p => r.type = t /\ m.key = k
    OBVIOUS
  <2>4. \A i \in 1 .. Len(q) : q[i].proc = p => m.key = k /\ q[i].type = t
    BY <1>5, <1>6 DEF PutInQueue
  <2>5. Stored(m.key, e)
    BY <1>6 DEF PutInQueue
  <2>6. e # NoEntry
    BY <1>0, <1>6, EnqueueKeepsInv, NoEntryAssumption DEF PutInQueue
  <2> HIDE DEF q, r, e
  <2>7. \A i \in 1 .. Len(e.pending) : e.pending[i].proc = p =>
          m.key = k /\ e.pending[i].type = t
    BY <2>1, <2>2, <2>3, <2>4
  <2> QED
    BY <1>1, <2>5, <2>6, <2>7
<1>7. CASE ReadAtOnce(m)
  <2>1. /\ RegisterReader(key_states[m.key], m.proc) # NoEntry
        /\ RegisterReader(key_states[m.key], m.proc).pending
             = key_states[m.key].pending
    BY <1>0, <1>7, RegisterReaderKeepsInv, NoEntryAssumption
    DEF ReadAtOnce, RegisterReader, Entry
  <2> QED
    BY <1>1, <1>5, <1>7, <2>1 DEF ReadAtOnce
<1>8. CASE WriteAtOnce(m)
  <2>1. /\ RegisterWriter(key_states[m.key], m.proc) # NoEntry
        /\ RegisterWriter(key_states[m.key], m.proc).pending
             = key_states[m.key].pending
    BY <1>0, <1>8, RegisterWriterKeepsInv, NoEntryAssumption
    DEF WriteAtOnce, RegisterWriter, Entry
  <2> QED
    BY <1>1, <1>5, <1>8, <2>1 DEF WriteAtOnce
<1>9. CASE Released(m)
  <2> DEFINE q == key_states[m.key].pending
             e == AfterRelease(key_states[m.key], m.proc)
  <2>1. PICK n \in 0 .. Len(q) : e.pending = SubSeq(q, n + 1, Len(q))
    BY <1>9, ReleaseServes DEF Serves
  <2>2. e \in Entry /\ e # NoEntry /\ Stored(m.key, e)
    BY <1>9, ReleaseServes, NoEntryAssumption DEF Released
  <2>3. /\ q \in Seq(Request)
        /\ \A i \in 1 .. Len(q) : q[i].proc = p => m.key = k /\ q[i].type = t
    BY <1>5, <1>9 DEF Released
  <2> HIDE DEF q, e
  <2>4. \A i \in 1 .. Len(e.pending) : e.pending[i] = q[n + i]
                                       /\ n + i \in 1 .. Len(q)
    BY <2>1, <2>3, SuffixElements
  <2> QED
    BY <1>1, <2>2, <2>3, <2>4
<1> QED
  BY <1>2, <1>3, <1>4, <1>6, <1>7, <1>8, <1>9, CallGoes

(* The grants a call adds for a client come from its queued requests, and  *)
(* are registered.                                                         *)
LEMMA CallKeepsGrants ==
  ASSUME Server!AM!TypeOK, EntriesOK, NEW m \in RequestMessage,
         Server!CallManager(m), NEW p \in ProcId, NEW t, NEW k,
         QueuedAre(p, t, k), GrantsAre(p, t, k),
         m.proc = p => m.type = t /\ m.key = k
  PROVE  GrantsAre(p, t, k)'
<1>0. /\ m.key \in KeyId /\ m.proc \in ProcId
      /\ access_granted \in Seq(Grant)
      /\ key_states \in [KeyId -> Entry \cup {NoEntry}]
  BY ManagerTypes DEF RequestMessage
<1>1. ASSUME NEW i \in 1 .. Len(access_granted),
             access_granted[i].proc = p
      PROVE  /\ access_granted[i].key = k /\ access_granted[i].type = t
             /\ Registered(p, [key |-> k, type |-> t])'
  <2>1. /\ access_granted[i].key = k /\ access_granted[i].type = t
        /\ Registered(p, [key |-> k, type |-> t])
    BY <1>1 DEF GrantsAre
  <2>2. [key |-> k, type |-> t] \in Access /\ t \in AccessType
    <3>1. access_granted[i] \in Grant
      BY <1>0, ElementOfSeq
    <3> QED
      BY <2>1, <3>1 DEF Grant, Access
  <2>3. ~ (m.proc = p /\ m.type = "Release" /\ m.key = k)
    BY <2>2 DEF AccessType
  <2> QED
    BY <2>1, <2>2, <2>3, CallKeepsRegistered
<1>2. CASE access_granted' = access_granted
  BY <1>1, <1>2 DEF GrantsAre
<1>3. CASE Released(m)
  <2> DEFINE ks == key_states[m.key]
             q == ks.pending
             e == AfterRelease(ks, m.proc)
  <2>1. PICK h \in ProcId, n \in 0 .. Len(q) :
          LET g == GrantsOnRelease(ks, m.proc, m.key, h)
          IN  /\ g \in Seq(Grant)
              /\ access_granted' = access_granted \o g
              /\ Serves(ks, m.proc, m.key, h, n)
    BY <1>3, ReleaseServes
  <2> DEFINE g == GrantsOnRelease(ks, m.proc, m.key, h)
             L == Len(access_granted)
  <2>2. /\ Len(g) = n /\ n \in Nat
        /\ \A i \in 1 .. n :
             /\ g[i] = [proc |-> q[i].proc, key |-> m.key,
                        type |-> q[i].type, holder |-> h]
             /\ IF q[i].type = "Write" THEN e.writer = q[i].proc
                                       ELSE q[i].proc \in e.readers
    <3>1. Serves(ks, m.proc, m.key, h, n) /\ n \in Nat
      BY <2>1
    <3> HIDE <2>1
    <3> QED
      BY <3>1, Zenon DEF Serves
  <2>3. /\ key_states'[m.key] = e /\ e # NoEntry /\ ks # NoEntry
        /\ q \in Seq(Request) /\ Len(q) \in Nat
    <3>1. e \in Entry
      BY <1>3, ReleaseServes
    <3>2. q \in Seq(Request)
      BY <1>3, ManagerTypes, <1>0 DEF Released, Entry
    <3> QED
      BY <1>0, <1>3, <3>1, <3>2, NoEntryAssumption, LenProperties
      DEF Released, Stored
  <2>4. ASSUME NEW i \in 1 .. n, q[i].proc = p
        PROVE  /\ m.key = k /\ q[i].type = t
               /\ Registered(p, [key |-> k, type |-> t])'
    <3>1. m.key = k /\ q[i].type = t
      BY <1>0, <2>1, <2>3, <2>4 DEF QueuedAre, Pending
    <3> HIDE DEF q, e
    <3>2. IF t = "Write" THEN e.writer = p ELSE p \in e.readers
      BY <2>2, <2>4, <3>1
    <3> QED
      BY <2>3, <3>1, <3>2 DEF Registered
  <2>5. /\ Len(access_granted') = L + n /\ L \in Nat
        /\ \A i \in 1 .. L + n :
             access_granted'[i] = IF i <= L THEN access_granted[i]
                                  ELSE g[i - L]
    <3>1. /\ g \in Seq(Grant) /\ access_granted' = access_granted \o g
      BY <2>1
    <3> HIDE DEF g
    <3> QED
      BY <1>0, <2>2, <3>1, ConcatProperties, LenProperties
  <2> HIDE DEF g, q, e, ks
  <2> SUFFICES ASSUME NEW i \in 1 .. L + n, access_granted'[i].proc = p
               PROVE  /\ access_granted'[i].key = k
                      /\ access_granted'[i].type = t
                      /\ Registered(p, [key |-> k, type |-> t])'
    BY <2>5 DEF GrantsAre
  <2>6. CASE i <= L
    BY <1>1, <2>5, <2>6
  <2>7. CASE ~ (i <= L)
    <3>1. i - L \in 1 .. n /\ access_granted'[i] = g[i - L]
      BY <2>2, <2>5, <2>7
    <3>2. g[i - L] = [proc |-> q[i - L].proc, key |-> m.key,
                      type |-> q[i - L].type, holder |-> h]
      BY <2>2, <3>1
    <3> QED
      BY <2>4, <3>1, <3>2
  <2> QED
    BY <2>6, <2>7
<1> QED
  BY <1>2, <1>3, CallGoes
  DEF Refused, Created, Deleted, PutInQueue, ReadAtOnce, WriteAtOnce

----------------------------------------------------------------------------
(* THE MESSAGES OF THE SERVER *)

(* TypeOK, in the operators this module uses.                              *)
LEMMA StateTypes ==
  ASSUME TypeOK
  PROVE  /\ Server!AM!TypeOK
         /\ access_granted \in Seq(Grant)
         /\ token_stream_map \in SUBSET issued /\ issued \in SUBSET ProcId
         /\ call \in [ProcId -> Call \cup {NoCall}]
         /\ asked \in [ProcId -> [access : Access, told : BOOLEAN]
                                   \cup {NoCall}]
         /\ held \in [ProcId -> SUBSET Access]
         /\ to_server \in [ProcId -> Seq(RequestMessage \cup {StopRequest})]
         /\ to_client \in [ProcId -> Seq(ResponseMessage)]
BY ClientsAreNamedByIds, ManagerTypes
DEF TypeOK, Server!ServerTypeOK, ClientTypeOK, StreamsTypeOK

(* The messages of the two modules are the same.                           *)
LEMMA SameMessages ==
  /\ Server!Error = Error /\ Error \in ResponseMessage
  /\ Error.type = "Error"
  /\ \A k \in KeyId : /\ Server!Success(k) = Success(k)
                      /\ Success(k) \in ResponseMessage
                      /\ Success(k).type = "Success" /\ Success(k).key = k
                      /\ Server!Wait(k) = Wait(k)
                      /\ Wait(k) \in ResponseMessage
                      /\ Wait(k).type = "Wait" /\ Wait(k).key = k
  /\ \A k \in KeyId, h \in ProcId :
       /\ Server!Holder(k, h) = Holder(k, h)
       /\ Holder(k, h) \in ResponseMessage
       /\ Holder(k, h).type = "Holder" /\ Holder(k, h).key = k
BY DEF Server!Error, Error, Server!Success, Success, Server!Wait, Wait,
       Server!Holder, Holder, ResponseMessage

(* What the server answers to request m of a client: an error, a wait when *)
(* the request is queued, the access or the success when it is carried     *)
(* out.                                                                    *)
Answers(m, x) ==
  \/ x = Error
  \/ x = Wait(m.key) /\ reply'.res = "RequestAccess"
  \/ x = Success(m.key) /\ reply'.res = "Ok" /\ m.type # "Read"
  \/ /\ reply'.res = "Ok" /\ m.type = "Read"
     /\ reply'.holder \in token_stream_map
     /\ x = Holder(m.key, reply'.holder)

(* handle_message answers so, and with an error only if the call was       *)
(* refused or the holder is gone.                                          *)
LEMMA ResponseIs ==
  ASSUME TypeOK, EntriesOK, NEW m \in RequestMessage, Server!CallManager(m)
  PROVE  /\ Answers(m, Server!ResponseTo(m, reply'))
         /\ Server!ResponseTo(m, reply') = Error =>
              \/ reply'.res \notin {"Ok", "RequestAccess"}
              \/ /\ reply'.res = "Ok" /\ m.type = "Read"
                 /\ reply'.holder \notin token_stream_map
<1>1. m.key \in KeyId /\ m.type # "ConnectionEstablished"
  BY DEF RequestMessage, RequestType, AccessType
<1>2. Server!Error = Error /\ Server!Success(m.key) = Success(m.key)
      /\ Server!Wait(m.key) = Wait(m.key)
  BY <1>1, SameMessages
<1>3. \A h : Server!Holder(m.key, h) = Holder(m.key, h)
  BY DEF Server!Holder, Holder
<1>4. /\ Wait(m.key) # Error /\ Success(m.key) # Error
      /\ \A h : Holder(m.key, h) # Error
  BY DEF Wait, Success, Holder, Error
<1>5. CASE reply'.res = "RequestAccess"
  BY <1>1, <1>2, <1>4, <1>5 DEF Server!ResponseTo, Answers
<1>6. CASE reply'.res = "Ok" /\ m.type # "Read"
  BY <1>1, <1>2, <1>4, <1>6 DEF Server!ResponseTo, Answers
<1>7. CASE reply'.res = "Ok" /\ m.type = "Read"
           /\ reply'.holder \in token_stream_map
  BY <1>1, <1>3, <1>4, <1>7
  DEF Server!ResponseTo, Server!KnownHolder, Answers
<1>8. CASE reply'.res = "Ok" /\ m.type = "Read"
           /\ reply'.holder \notin token_stream_map
  BY <1>1, <1>2, <1>8 DEF Server!ResponseTo, Server!KnownHolder, Answers
<1>9. CASE reply'.res \notin {"Ok", "RequestAccess"}
  BY <1>1, <1>2, <1>9 DEF Server!ResponseTo, Answers
<1> QED
  BY <1>5, <1>6, <1>7, <1>8, <1>9

(* ... and what a process is sent with a grant.                            *)
LEMMA GrantMessageIs ==
  ASSUME NEW g \in Grant
  PROVE  LET x == Server!GrantMessage(g)
         IN  /\ x = IF g.type = "Read" THEN Holder(g.key, g.holder)
                                       ELSE Success(g.key)
             /\ x \in ResponseMessage
             /\ x.key = g.key /\ x.type \in {"Success", "Holder"}
<1>1. g.key \in KeyId /\ g.holder \in ProcId
  BY DEF Grant
<1>2. Server!GrantMessage(g) = IF g.type = "Read"
                               THEN Holder(g.key, g.holder)
                               ELSE Success(g.key)
  BY <1>1, SameMessages DEF Server!GrantMessage
<1> QED
  BY <1>1, <1>2, SameMessages

(* handle_data on one request, in the operators this module uses.          *)
RequestHandled(q, m, x) ==
  /\ to_server[q] # <<>> /\ m = Head(to_server[q])
  /\ to_server' = [to_server EXCEPT ![q] = Tail(@)]
  /\ Server!CallManager(m)
  /\ q \in token_stream_map
  /\ x = Server!ResponseTo(m, reply')
  /\ x \in ResponseMessage /\ Answers(m, x)
  /\ Deliver(q, x)
  /\ serving' \in {NoProc, [token |-> q, request |-> m]}
  /\ UNCHANGED <<client, token_stream_map, issued, closed, timeouts,
                 overlapped>>

(* HandleRequest handles one request of the process whose id it carries.   *)
LEMMA HandleRequestGoes ==
  ASSUME RInv, NEW q \in ProcId, Server!HandleRequest(q),
         UNCHANGED <<client, timeouts, overlapped>>
  PROVE  \E m \in RequestMessage : \E x :
           m.proc = q /\ RequestHandled(q, m, x)
<1> DEFINE s == to_server[q]
           m == Head(s)
           x == Server!ResponseTo(m, reply')
<1>1. /\ s \in Seq(RequestMessage \cup {StopRequest}) /\ s # <<>>
      /\ q \in token_stream_map
      /\ to_server \in [ProcId -> Seq(RequestMessage \cup {StopRequest})]
  BY StateTypes DEF RInv, Typed, Server!HandleRequest
<1>2. m \in RequestMessage /\ m.proc = q
  <2>1. m = s[1] /\ 1 \in 1 .. Len(s)
    BY <1>1, EmptySeq
  <2> QED
    BY <2>1 DEF RInv, Typed, RequestsNameSender
<1>3. to_server' = [to_server EXCEPT ![q] = Tail(@)]
  <2>1. SubSeq(s, 1 + 1, Len(s)) = Tail(s)
    BY <1>1, TailIsSubSeq
  <2> QED
    BY <2>1 DEF Server!HandleRequest, Server!TakeRequests
<1>4. /\ Server!CallManager(m)
      /\ UNCHANGED <<token_stream_map, issued, closed>>
      /\ \/ /\ Server!Answer(q, x)
            /\ serving' \in {NoProc, [token |-> q, request |-> m]}
         \/ /\ Server!AnswerFails(q)
            /\ serving' = NoProc
  BY DEF Server!HandleRequest, Server!HandleMessage
<1>5. Deliver(q, x)
  BY <1>4, NoProcAssumption
  DEF Server!Answer, Server!AnswerFails, Server!Deliver, Server!WriteFails,
      Deliver
<1>6. x \in ResponseMessage /\ Answers(m, x)
  <2> HIDE DEF m, x
  <2>1. m.key \in KeyId /\ token_stream_map \subseteq ProcId
    BY <1>2, StateTypes DEF RequestMessage, RInv, Typed
  <2>2. Answers(m, x)
    BY <1>2, <1>4, ResponseIs DEF RInv, Typed, x
  <2> QED
    BY <2>1, <2>2, SameMessages DEF Answers
<1> HIDE DEF m, x
<1>7. RequestHandled(q, m, x)
  BY <1>1, <1>3, <1>4, <1>5, <1>6 DEF RequestHandled, m, x
<1> QED
  BY <1>2, <1>7

(* One turn of the loop over the grants, for the grant g: it is sent, or   *)
(* skipped, or all grants are dropped and the one served is sent an error. *)
GrantHandled(g) ==
  /\ serving # NoProc
  /\ access_granted # <<>> /\ g = Head(access_granted)
  /\ \/ /\ access_granted' = Tail(access_granted)
        /\ \/ g.proc \in token_stream_map
              /\ Deliver(g.proc, Server!GrantMessage(g))
           \/ g.proc \notin token_stream_map /\ UNCHANGED to_client
     \/ /\ access_granted' = <<>>
        /\ Server!UnknownHolder(g) \/ g.proc \in token_stream_map \cap closed
        /\ \/ UNCHANGED to_client
           \/ serving.token \in ProcId /\ Deliver(serving.token, Error)
  /\ serving' \in {serving, NoProc}
  /\ UNCHANGED <<key_states, reply, token_stream_map, issued, to_server,
                 closed, client, timeouts, overlapped>>

(* HandleGrants is one such turn.                                          *)
LEMMA HandleGrantsGoes ==
  ASSUME RInv, HandleGrants
  PROVE  \E g \in Grant : GrantHandled(g)
<1> DEFINE g == Head(access_granted)
<1>0. TypeOK /\ UNCHANGED <<client, timeouts, overlapped>>
  BY DEF RInv, Typed, HandleGrants
<1>1. serving # NoProc /\ access_granted # <<>>
  BY DEF HandleGrants, Server!DeliverGrants, Server!SendGrant,
         Server!SkipGrant, Server!AbandonGrants
<1>2. g \in Grant
  BY <1>0, <1>1, StateTypes, HeadTailProperties
<1>3. Server!NextGrant =>
        /\ access_granted' = Tail(access_granted)
        /\ serving' \in {serving, NoProc}
        /\ UNCHANGED <<key_states, reply, token_stream_map, issued,
                       to_server, closed>>
  BY DEF Server!NextGrant, Server!AM!TryRecv
<1> HIDE DEF g
<1>4. CASE Server!SendGrant
  <2>1. /\ g.proc \in token_stream_map
        /\ Deliver(g.proc, Server!GrantMessage(g))
        /\ Server!NextGrant
    BY <1>4 DEF Server!SendGrant, Server!Deliver, Deliver, g
  <2>2. GrantHandled(g)
    BY <1>0, <1>1, <1>3, <2>1 DEF GrantHandled, g
  <2> QED
    BY <1>2, <2>2
<1>5. CASE Server!SkipGrant
  <2>1. /\ g.proc \notin token_stream_map
        /\ UNCHANGED to_client
        /\ Server!NextGrant
    BY <1>5 DEF Server!SkipGrant, g
  <2>2. GrantHandled(g)
    BY <1>0, <1>1, <1>3, <2>1 DEF GrantHandled, g
  <2> QED
    BY <1>2, <2>2
<1>6. CASE Server!AbandonGrants
  <2>1. Server!Error = Error
    BY SameMessages
  <2>2. serving.token \in ProcId \cup {NoProc}
    BY <1>0, <1>1 DEF TypeOK, Server!ServerTypeOK, Server!Served
  <2>3. \/ UNCHANGED to_client
        \/ serving.token \in ProcId /\ Deliver(serving.token, Error)
    BY <1>6, <2>1, <2>2
    DEF Server!AbandonGrants, Server!Answer, Server!Deliver, Deliver
  <2>4. /\ Server!UnknownHolder(g) \/ g.proc \in token_stream_map \cap closed
        /\ access_granted' = <<>> /\ serving' = NoProc
        /\ UNCHANGED <<key_states, reply, token_stream_map, issued,
                       to_server, closed>>
    BY <1>6 DEF Server!AbandonGrants, g
  <2>5. GrantHandled(g)
    BY <1>0, <1>1, <2>3, <2>4 DEF GrantHandled, g
  <2> QED
    BY <1>2, <2>5
<1> QED
  BY <1>4, <1>5, <1>6 DEF HandleGrants, Server!DeliverGrants

----------------------------------------------------------------------------
(* THE TYPES *)

(* What is to be shown of a step for it to keep the types.                 *)
LEMMA TypesNext ==
  ASSUME Server!AM!TypeOK',
         token_stream_map' \in SUBSET issued', issued' \in SUBSET ProcId,
         serving' = NoProc \/ serving' = serving
           \/ \E q \in ProcId, m \in RequestMessage :
                serving' = [token |-> q, request |-> m],
         call' \in [ProcId -> Call \cup {NoCall}],
         asked' \in [ProcId -> [access : Access, told : BOOLEAN]
                                 \cup {NoCall}],
         held' \in [ProcId -> SUBSET Access],
         to_server' \in [ProcId -> Seq(RequestMessage \cup {StopRequest})],
         to_client' \in [ProcId -> Seq(ResponseMessage)],
         closed' \subseteq issued',
         timeouts' \in 0 .. Timeouts,
         overlapped' \in SUBSET issued',
         TypeOK
  PROVE  TypeOK'
<1>1. serving' \in Server!Served \cup {NoProc}
  BY DEF TypeOK, Server!ServerTypeOK, Server!Served, Server!RequestMessage,
         RequestMessage, Server!RequestType, RequestType, Server!AccessType,
         AccessType
<1>2. Server!ServerTypeOK'
  BY <1>1 DEF Server!ServerTypeOK
<1>3. ClientTypeOK' /\ StreamsTypeOK'
  BY ClientsAreNamedByIds DEF ClientTypeOK, StreamsTypeOK
<1> QED
  BY <1>2, <1>3 DEF TypeOK

(* The server's queues of messages stay typed when one is added or taken.  *)
LEMMA DeliverType ==
  ASSUME to_client \in [ProcId -> Seq(ResponseMessage)], NEW q \in ProcId,
         NEW x \in ResponseMessage, Deliver(q, x)
  PROVE  /\ to_client' \in [ProcId -> Seq(ResponseMessage)]
         /\ \A p \in ProcId \ {q} : to_client'[p] = to_client[p]
         /\ to_client'[q] = IF q \in closed THEN to_client[q]
                            ELSE Append(to_client[q], x)
<1>1. to_client[q] \in Seq(ResponseMessage)
  OBVIOUS
<1>2. Append(to_client[q], x) \in Seq(ResponseMessage)
  BY <1>1, AppendProperties
<1> QED
  BY <1>2 DEF Deliver

(* ... and so do the clients'.                                             *)
LEMMA ReceiveType ==
  ASSUME to_client \in [ProcId -> Seq(ResponseMessage)], NEW q \in ProcId,
         Receive(q)
  PROVE  /\ to_client' \in [ProcId -> Seq(ResponseMessage)]
         /\ \A p \in ProcId \ {q} : to_client'[p] = to_client[p]
         /\ to_client[q] # <<>> /\ to_client'[q] = Tail(to_client[q])
         /\ Front(q) \in ResponseMessage /\ Front(q) = to_client[q][1]
         /\ to_client[q] \in Seq(ResponseMessage)
<1>1. to_client[q] \in Seq(ResponseMessage) /\ to_client[q] # <<>>
  BY DEF Receive
<1>2. Head(to_client[q]) \in ResponseMessage
      /\ Tail(to_client[q]) \in Seq(ResponseMessage)
  BY <1>1, HeadTailProperties
<1>3. Head(to_client[q]) = to_client[q][1]
  BY <1>1
<1> QED
  BY <1>1, <1>2, <1>3 DEF Receive, Front

(* The fields of the messages a client looks at.                           *)
LEMMA ResponseFields ==
  ASSUME NEW x \in ResponseMessage
  PROVE  x.type # "Error" => x.key \in KeyId
BY DEF ResponseMessage

(* The initial state has the types, and nothing is under way in it.        *)
LEMMA InitRInv == Init => RInv
<1> SUFFICES ASSUME Init PROVE RInv
  OBVIOUS
<1>1. /\ key_states = [k \in KeyId |-> NoEntry]
      /\ access_granted = <<>>
      /\ reply = [res |-> "Ok", holder |-> NoProc]
      /\ token_stream_map = {} /\ issued = {} /\ serving = NoProc
  BY DEF Init, Server!ServerInit, Server!AM!Init
<1>2. /\ call = [c \in ProcId |-> NoCall] /\ asked = [c \in ProcId |-> NoCall]
      /\ held = [c \in ProcId |-> {}]
      /\ to_server = [p \in ProcId |-> <<>>]
      /\ to_client = [p \in ProcId |-> <<>>]
      /\ closed = {} /\ timeouts = 0 /\ overlapped = {}
  BY ClientsAreNamedByIds DEF Init, ClientInit, StreamsInit
<1>3. Server!AM!TypeOK
  BY <1>1, EmptySeq
  DEF Server!AM!TypeOK, Server!AM!Reply, Server!AM!Results
<1>4. Server!ServerTypeOK
  BY <1>1, <1>3 DEF Server!ServerTypeOK
<1>5. ClientTypeOK /\ StreamsTypeOK
  BY <1>2, ClientsAreNamedByIds, EmptySeq DEF ClientTypeOK, StreamsTypeOK
<1>6. TypeOK
  BY <1>1, <1>2, <1>4, <1>5, BoundsAssumption DEF TypeOK
<1>7. RequestsNameSender /\ AskedTypes /\ EntriesOK
  BY <1>1, <1>2, EmptySeq
  DEF RequestsNameSender, AskedTypes, InCall, EntriesOK
<1>8. ASSUME NEW p \in ProcId
      PROVE  Thread(p, "Create", NoKey)
  BY <1>1, <1>2, EmptySeq
  DEF Thread, RequestsAre, QueuedAre, GrantsAre, AnswersAre, CallIs, HeldIs,
      InCall, Pending
<1>9. OneThread
  BY <1>8 DEF OneThread, RequestType
<1> QED
  BY <1>6, <1>7, <1>9 DEF RInv, Typed

----------------------------------------------------------------------------
(* STEPS KEEP THE TYPES *)

(* What a step that does not touch the server keeps.                       *)
LEMMA ServerUntouched ==
  ASSUME Typed, UNCHANGED <<key_states, access_granted, reply>>
  PROVE  /\ Server!AM!TypeOK' /\ EntriesOK'
         /\ \A p, a : Registered(p, a)' = Registered(p, a)
         /\ \A j : Pending(j)' = Pending(j)
BY StateTypes
DEF Typed, Server!AM!TypeOK, EntriesOK, Registered, Pending

(* A call is made: the request at the end of the stream is its sender's.   *)
LEMMA MakeCallTyped ==
  ASSUME Typed, NEW p \in ProcId, NEW kind \in {"sync", "ask"},
         NEW t \in RequestType, NEW k \in KeyId, MakeCall(p, kind, t, k)
  PROVE  Typed'
<1> DEFINE m == [proc |-> p, type |-> t, key |-> k]
<1>1. /\ UNCHANGED <<key_states, access_granted, reply, token_stream_map,
                     issued, serving, timeouts, asked, to_client, closed>>
      /\ p \in issued
      /\ kind = "ask" => t \in AccessType
      /\ to_server' = [to_server EXCEPT ![p] = Append(@, m)]
      /\ call' = [call EXCEPT ![p] = [kind |-> kind, type |-> t, key |-> k,
                                      awaits |-> NoKey]]
      /\ held' = [held EXCEPT ![p] = IF t = "Release"
                                     THEN {a \in @ : a.key # k} ELSE @]
      /\ overlapped' \in {overlapped, overlapped \cup {p}}
  BY DEF MakeCall, server, BeginCall, SendRequest
<1>2. m \in RequestMessage
  BY DEF RequestMessage
<1> HIDE DEF m
<1>3. /\ to_server[p] \in Seq(RequestMessage \cup {StopRequest})
      /\ Append(to_server[p], m) \in Seq(RequestMessage \cup {StopRequest})
      /\ Len(to_server[p]) \in Nat
      /\ Len(Append(to_server[p], m)) = Len(to_server[p]) + 1
      /\ \A i \in 1 .. Len(to_server[p]) :
           Append(to_server[p], m)[i] = to_server[p][i]
      /\ Append(to_server[p], m)[Len(to_server[p]) + 1] = m
  <2>1. to_server[p] \in Seq(RequestMessage \cup {StopRequest})
    BY StateTypes DEF Typed
  <2> QED
    BY <1>2, <2>1, AppendProperties, LenProperties
<1>4. TypeOK'
  <2>1. Server!AM!TypeOK'
    BY <1>1, ServerUntouched
  <2>2. to_server' \in [ProcId -> Seq(RequestMessage \cup {StopRequest})]
    BY <1>1, <1>3, StateTypes DEF Typed
  <2>3. call' \in [ProcId -> Call \cup {NoCall}]
    BY <1>1, StateTypes DEF Typed, Call, CallKind
  <2>4. held' \in [ProcId -> SUBSET Access]
    BY <1>1, StateTypes DEF Typed
  <2>5. /\ token_stream_map' \in SUBSET issued' /\ issued' \in SUBSET ProcId
        /\ serving' = serving
        /\ asked' \in [ProcId -> [access : Access, told : BOOLEAN]
                                   \cup {NoCall}]
        /\ to_client' \in [ProcId -> Seq(ResponseMessage)]
    BY <1>1, StateTypes DEF Typed
  <2>6. /\ closed' \subseteq issued' /\ timeouts' \in 0 .. Timeouts
        /\ overlapped' \in SUBSET issued' /\ TypeOK
    BY <1>1 DEF Typed, TypeOK
  <2> QED
    BY <2>1, <2>2, <2>3, <2>4, <2>5, <2>6, TypesNext
<1>5. RequestsNameSender'
  <2> SUFFICES ASSUME NEW q \in ProcId, NEW i \in 1 .. Len(to_server'[q])
               PROVE  /\ to_server'[q][i] \in RequestMessage
                      /\ to_server'[q][i].proc = q
    BY DEF RequestsNameSender
  <2>1. CASE q # p
    BY <1>1, <2>1, StateTypes DEF Typed, RequestsNameSender
  <2>2. CASE q = p
    <3>1. to_server'[q] = Append(to_server[p], m)
      BY <1>1, <2>2, StateTypes DEF Typed
    <3>2. m.proc = p
      BY DEF m
    <3> QED
      BY <1>2, <1>3, <2>2, <3>1, <3>2 DEF Typed, RequestsNameSender
  <2> QED
    BY <2>1, <2>2
<1>6. AskedTypes'
  <2> SUFFICES ASSUME NEW q \in ProcId, InCall(q)'
               PROVE  /\ call'[q].kind = "ask" => call'[q].type \in AccessType
                      /\ call'[q].kind = "await" => asked'[q] # NoCall
    BY DEF AskedTypes
  <2>1. CASE q # p
    BY <1>1, <2>1, StateTypes DEF Typed, AskedTypes, InCall
  <2>2. CASE q = p
    BY <1>1, <2>2, StateTypes DEF Typed
  <2> QED
    BY <2>1, <2>2
<1> QED
  BY <1>1, <1>4, <1>5, <1>6, ServerUntouched DEF Typed

(* What a step of a client does at most, its own calls and stream apart.   *)
ClientSteps(p) ==
  /\ UNCHANGED <<key_states, access_granted, reply, token_stream_map,
                 issued, serving, to_server>>
  /\ timeouts' \in 0 .. Timeouts
  /\ overlapped' = overlapped
  /\ closed' \subseteq issued
  /\ \A q \in ProcId \ {p} :
       /\ call'[q] = call[q] /\ asked'[q] = asked[q] /\ held'[q] = held[q]
       /\ to_client'[q] = to_client[q]

(* The steps of a client but the call: waiting, reading and leaving.       *)
LEMMA ClientStepTyped ==
  ASSUME Typed, NEW p \in ProcId, ClientSteps(p),
         call' \in [ProcId -> Call \cup {NoCall}],
         asked' \in [ProcId -> [access : Access, told : BOOLEAN]
                                 \cup {NoCall}],
         held' \in [ProcId -> SUBSET Access],
         to_client' \in [ProcId -> Seq(ResponseMessage)],
         InCall(p)' => /\ call'[p].kind # "ask"
                       /\ call'[p].kind = "await" => asked'[p] # NoCall
  PROVE  Typed'
<1>1. TypeOK'
  <2>1. Server!AM!TypeOK'
    BY ServerUntouched DEF ClientSteps
  <2>2. /\ token_stream_map' \in SUBSET issued' /\ issued' \in SUBSET ProcId
        /\ serving' = serving
        /\ to_server' \in [ProcId -> Seq(RequestMessage \cup {StopRequest})]
    BY StateTypes DEF Typed, ClientSteps
  <2>3. /\ closed' \subseteq issued' /\ timeouts' \in 0 .. Timeouts
        /\ overlapped' \in SUBSET issued' /\ TypeOK
    BY DEF Typed, TypeOK, ClientSteps
  <2> QED
    BY <2>1, <2>2, <2>3, TypesNext
<1>2. RequestsNameSender'
  BY DEF Typed, RequestsNameSender, ClientSteps
<1>3. AskedTypes'
  <2> SUFFICES ASSUME NEW q \in ProcId, InCall(q)'
               PROVE  /\ call'[q].kind = "ask" => call'[q].type \in AccessType
                      /\ call'[q].kind = "await" => asked'[q] # NoCall
    BY DEF AskedTypes
  <2>1. CASE q = p
    BY <2>1
  <2>2. CASE q # p
    BY <2>2 DEF Typed, AskedTypes, InCall, ClientSteps
  <2> QED
    BY <2>1, <2>2
<1> QED
  BY <1>1, <1>2, <1>3, ServerUntouched DEF Typed, ClientSteps

----------------------------------------------------------------------------
(* STEPS OF A CLIENT KEEP THE THREADS *)

(* A client's step leaves the threads of the others alone, and of its own  *)
(* it can only disturb what the client has read, does and holds.           *)
LEMMA ClientStepRInv ==
  ASSUME RInv, NEW p \in ProcId, ClientSteps(p),
         call' \in [ProcId -> Call \cup {NoCall}],
         asked' \in [ProcId -> [access : Access, told : BOOLEAN]
                                 \cup {NoCall}],
         held' \in [ProcId -> SUBSET Access],
         to_client' \in [ProcId -> Seq(ResponseMessage)],
         InCall(p)' => /\ call'[p].kind # "ask"
                       /\ call'[p].kind = "await" => asked'[p] # NoCall,
         \A t \in RequestType, k \in KeyId \cup {NoKey} :
           Thread(p, t, k) =>
             AnswersAre(p, t, k)' /\ CallIs(p, t, k)' /\ HeldIs(p, t, k)'
  PROVE  RInv'
<1>1. Typed'
  BY ClientStepTyped DEF RInv
<1>2. /\ \A q, a : Registered(q, a)' = Registered(q, a)
      /\ \A j : Pending(j)' = Pending(j)
      /\ access_granted' = access_granted /\ to_server' = to_server
  BY ServerUntouched DEF RInv, ClientSteps
<1>3. ASSUME NEW q \in ProcId \ overlapped', NEW t \in RequestType,
             NEW k \in KeyId \cup {NoKey}, Thread(q, t, k)
      PROVE  Thread(q, t, k)'
  <2>1. RequestsAre(q, t, k)' /\ QueuedAre(q, t, k)' /\ GrantsAre(q, t, k)'
    BY <1>2, <1>3 DEF Thread, RequestsAre, QueuedAre, GrantsAre
  <2>2. CASE q = p
    BY <1>3, <2>1, <2>2 DEF Thread
  <2>3. CASE q # p
    <3>1. /\ call'[q] = call[q] /\ asked'[q] = asked[q]
          /\ held'[q] = held[q] /\ to_client'[q] = to_client[q]
      BY <2>3 DEF ClientSteps
    <3> QED
      BY <1>2, <1>3, <2>1, <3>1
      DEF Thread, AnswersAre, CallIs, HeldIs, InCall
  <2> QED
    BY <2>2, <2>3
<1>4. OneThread'
  <2> SUFFICES ASSUME NEW q \in ProcId \ overlapped'
               PROVE  \E t \in RequestType, k \in KeyId \cup {NoKey} :
                        Thread(q, t, k)'
    BY DEF OneThread
  <2>1. PICK t \in RequestType, k \in KeyId \cup {NoKey} : Thread(q, t, k)
    BY DEF RInv, OneThread, ClientSteps
  <2> QED
    BY <1>3, <2>1
<1> QED
  BY <1>1, <1>4 DEF RInv

(* What is left in the stream when a message is read was there before.     *)
LEMMA AnswersAfterReceive ==
  ASSUME Typed, NEW p \in ProcId, Receive(p),
         UNCHANGED <<key_states, access_granted, reply>>,
         NEW t, NEW k, AnswersAre(p, t, k)
  PROVE  AnswersAre(p, t, k)'
<1>1. /\ to_client[p] \in Seq(ResponseMessage) /\ to_client[p] # <<>>
      /\ to_client'[p] = Tail(to_client[p])
  BY ReceiveType, StateTypes DEF Typed
<1>2. /\ Len(Tail(to_client[p])) = Len(to_client[p]) - 1
      /\ Len(to_client[p]) \in Nat
      /\ \A i \in 1 .. Len(Tail(to_client[p])) :
           Tail(to_client[p])[i] = to_client[p][i + 1]
  BY <1>1, HeadTailProperties, LenProperties
<1>3. \A q, a : Registered(q, a)' = Registered(q, a)
  BY ServerUntouched
<1> QED
  BY <1>1, <1>2, <1>3 DEF AnswersAre

(* registry_await_read and _write begin.                                   *)
LEMMA AwaitAccessKeeps ==
  ASSUME RInv, NEW p \in ProcId, AwaitAccess(p)
  PROVE  RInv'
<1> DEFINE a == asked[p].access
<1>1. /\ UNCHANGED <<server, asked, held, streams, timeouts, overlapped>>
      /\ asked[p] # NoCall
      /\ call' = [call EXCEPT ![p] = [kind |-> "await", type |-> a.type,
                                      key |-> a.key, awaits |-> NoKey]]
  BY DEF AwaitAccess, BeginAwait
<1>2. /\ Typed /\ TypeOK
      /\ asked[p] \in [access : Access, told : BOOLEAN]
  BY <1>1, StateTypes DEF RInv, Typed
<1>3. a.type \in AccessType /\ a.key \in KeyId
  BY <1>2 DEF Access
<1>4. call'[p] = [kind |-> "await", type |-> a.type, key |-> a.key,
                  awaits |-> NoKey]
  BY <1>1, <1>2, StateTypes
<1>5. ClientSteps(p)
  BY <1>1, <1>2, StateTypes DEF ClientSteps, server, streams, TypeOK
<1>6. call' \in [ProcId -> Call \cup {NoCall}]
  BY <1>1, <1>2, <1>3, StateTypes DEF Call, CallKind, RequestType
<1>7. ASSUME NEW t, NEW k, Thread(p, t, k)
      PROVE  AnswersAre(p, t, k)' /\ CallIs(p, t, k)' /\ HeldIs(p, t, k)'
  <2>1. a.type = t /\ a.key = k
    BY <1>1, <1>7 DEF Thread, CallIs
  <2>2. CallIs(p, t, k)'
    BY <1>1, <1>4, <1>7, <2>1 DEF Thread, CallIs
  <2>3. \A q, b : Registered(q, b)' = Registered(q, b)
    BY <1>1, <1>2, ServerUntouched DEF server
  <2> QED
    BY <1>1, <1>7, <2>2, <2>3 DEF Thread, AnswersAre, HeldIs, streams
<1> QED
  BY <1>1, <1>2, <1>4, <1>5, <1>6, <1>7, StateTypes, ClientStepRInv
  DEF streams

(* A call that asks for an access returns.                                 *)
LEMMA AskReturnsKeeps ==
  ASSUME RInv, NEW p \in ProcId, AskReturns(p, p),
         UNCHANGED <<server, timeouts, overlapped>>
  PROVE  RInv'
<1>1. /\ UNCHANGED <<held, streams>>
      /\ InCall(p) /\ call[p].kind = "ask"
      /\ call' = [call EXCEPT ![p] = NoCall]
      /\ asked' = [asked EXCEPT ![p] = [access |-> AccessOf(call[p]),
                                        told |-> FALSE]]
  BY DEF AskReturns, Return
<1>2. /\ Typed /\ TypeOK /\ call[p] \in Call
      /\ call[p].type \in AccessType
  BY <1>1, StateTypes DEF RInv, Typed, InCall, AskedTypes
<1>3. AccessOf(call[p]) \in Access
  BY <1>2 DEF AccessOf, Access, Call
<1>4. /\ call'[p] = NoCall
      /\ asked'[p] = [access |-> AccessOf(call[p]), told |-> FALSE]
  BY <1>1, <1>2, StateTypes
<1>5. ClientSteps(p)
  BY <1>1, <1>2, StateTypes DEF ClientSteps, server, streams, TypeOK
<1>6. /\ call' \in [ProcId -> Call \cup {NoCall}]
      /\ asked' \in [ProcId -> [access : Access, told : BOOLEAN]
                                 \cup {NoCall}]
  BY <1>1, <1>2, <1>3, StateTypes
<1>7. ASSUME NEW t, NEW k, Thread(p, t, k)
      PROVE  AnswersAre(p, t, k)' /\ CallIs(p, t, k)' /\ HeldIs(p, t, k)'
  <2>1. asked'[p].access = [key |-> k, type |-> t]
    BY <1>1, <1>4, <1>7 DEF Thread, CallIs, AccessOf
  <2>2. CallIs(p, t, k)'
    BY <1>4, <2>1 DEF CallIs, InCall
  <2>3. \A q, b : Registered(q, b)' = Registered(q, b)
    BY <1>1, <1>2, ServerUntouched DEF server
  <2> QED
    BY <1>1, <1>7, <2>2, <2>3 DEF Thread, AnswersAre, HeldIs, streams
<1> QED
  BY <1>1, <1>2, <1>4, <1>5, <1>6, <1>7, StateTypes, ClientStepRInv
  DEF InCall, streams

(* ... and one that awaits it is put off.                                  *)
LEMMA AwaitPutOffKeeps ==
  ASSUME RInv, NEW p \in ProcId, AwaitPutOff(p, p),
         UNCHANGED <<server, timeouts, overlapped>>
  PROVE  RInv'
<1>1. /\ UNCHANGED <<held, to_server, closed>>
      /\ InCall(p) /\ call[p].kind = "await" /\ Receive(p)
      /\ call' = [call EXCEPT ![p] = NoCall]
      /\ asked' = [asked EXCEPT ![p].told = TRUE]
  BY DEF AwaitPutOff, Return
<1>2. Typed /\ TypeOK
  BY DEF RInv, Typed
<1>3. /\ asked[p] # NoCall
      /\ asked[p] \in [access : Access, told : BOOLEAN]
  BY <1>1, <1>2, StateTypes DEF Typed, AskedTypes
<1>4. /\ call'[p] = NoCall
      /\ asked'[p] \in [access : Access, told : BOOLEAN]
      /\ asked'[p].access = asked[p].access
      /\ \A q \in ProcId \ {p} : asked'[q] = asked[q]
      /\ asked' = [asked EXCEPT ![p] = asked'[p]]
  BY <1>1, <1>2, <1>3, StateTypes
<1>5. /\ to_client' \in [ProcId -> Seq(ResponseMessage)]
      /\ \A q \in ProcId \ {p} : to_client'[q] = to_client[q]
  BY <1>1, <1>2, StateTypes, ReceiveType
<1>6. ClientSteps(p)
  BY <1>1, <1>2, <1>4, <1>5, StateTypes DEF ClientSteps, server, TypeOK
<1>7. /\ call' \in [ProcId -> Call \cup {NoCall}]
      /\ asked' \in [ProcId -> [access : Access, told : BOOLEAN]
                                 \cup {NoCall}]
  BY <1>1, <1>2, <1>4, StateTypes
<1>8. ASSUME NEW t, NEW k, Thread(p, t, k)
      PROVE  AnswersAre(p, t, k)' /\ CallIs(p, t, k)' /\ HeldIs(p, t, k)'
  <2>1. AnswersAre(p, t, k)'
    BY <1>1, <1>2, <1>8, AnswersAfterReceive DEF Thread, server
  <2>2. CallIs(p, t, k)'
    BY <1>3, <1>4, <1>8 DEF Thread, CallIs, InCall
  <2>3. \A q, b : Registered(q, b)' = Registered(q, b)
    BY <1>1, <1>2, ServerUntouched DEF server
  <2> QED
    BY <1>1, <1>8, <2>1, <2>2, <2>3 DEF Thread, HeldIs
<1> QED
  BY <1>1, <1>2, <1>4, <1>5, <1>6, <1>7, <1>8, StateTypes, ClientStepRInv
  DEF InCall

(* A call returns with an access: the one registered for it.               *)
LEMMA CallGrantedKeeps ==
  ASSUME RInv, NEW p \in ProcId, CallGranted(p, p),
         UNCHANGED <<server, timeouts, overlapped>>
  PROVE  RInv'
<1> DEFINE d == call[p]
           m == Front(p)
           key == IF d.kind = "await" THEN m.key ELSE d.key
           a == [key |-> key, type |-> d.type]
<1>1. /\ UNCHANGED <<to_server, closed>>
      /\ InCall(p) /\ d.type \in AccessType /\ d.kind # "ask"
      /\ Receive(p) /\ Grants(d, m)
      /\ held' = [held EXCEPT ![p] = @ \cup {a}]
      /\ call' = [call EXCEPT ![p] = NoCall]
      /\ asked' = [asked EXCEPT ![p] = NoCall]
  BY DEF CallGranted, ReadsAccess, Acquire, Return
<1>2. Typed /\ TypeOK /\ d \in Call
  BY <1>1, StateTypes DEF RInv, Typed, InCall
<1>3. /\ to_client' \in [ProcId -> Seq(ResponseMessage)]
      /\ \A q \in ProcId \ {p} : to_client'[q] = to_client[q]
      /\ m \in ResponseMessage /\ m = to_client[p][1]
      /\ 1 \in 1 .. Len(to_client[p])
  <2>1. to_client[p] \in Seq(ResponseMessage) /\ to_client[p] # <<>>
    BY <1>1, <1>2, StateTypes, ReceiveType
  <2> QED
    BY <1>1, <1>2, <2>1, StateTypes, ReceiveType, EmptySeq, LenProperties
<1>4. m.type \in {"Success", "Holder"}
  BY <1>1 DEF Grants
<1>5. a \in Access
  <2>1. m.key \in KeyId
    BY <1>3, <1>4, ResponseFields
  <2> QED
    BY <1>1, <1>2, <2>1 DEF Access, Call
<1>6. /\ call'[p] = NoCall /\ asked'[p] = NoCall
      /\ held'[p] = held[p] \cup {a}
      /\ \A q \in ProcId \ {p} : held'[q] = held[q]
      /\ held' \in [ProcId -> SUBSET Access]
  BY <1>1, <1>2, <1>5, StateTypes
<1>7. ClientSteps(p)
  BY <1>1, <1>2, <1>3, <1>6, StateTypes DEF ClientSteps, server, TypeOK
<1>8. /\ call' \in [ProcId -> Call \cup {NoCall}]
      /\ asked' \in [ProcId -> [access : Access, told : BOOLEAN]
                                 \cup {NoCall}]
  BY <1>1, <1>2, StateTypes
<1>9. ASSUME NEW t, NEW k, Thread(p, t, k)
      PROVE  AnswersAre(p, t, k)' /\ CallIs(p, t, k)' /\ HeldIs(p, t, k)'
  <2>1. AnswersAre(p, t, k)'
    BY <1>1, <1>2, <1>9, AnswersAfterReceive DEF Thread, server
  <2>2. CallIs(p, t, k)'
    BY <1>6 DEF CallIs, InCall
  <2>3. \A q, b : Registered(q, b)' = Registered(q, b)
    BY <1>1, <1>2, ServerUntouched DEF server
  <2>4. d.type = t /\ d.key = k
    BY <1>1, <1>9 DEF Thread, CallIs
  <2>5. m.key = k /\ Registered(p, [key |-> k, type |-> t])
    BY <1>1, <1>3, <1>4, <1>9, <2>4 DEF Thread, AnswersAre
  <2>6. a = [key |-> k, type |-> t]
    BY <2>4, <2>5
  <2>7. t # "Release"
    BY <1>1, <2>4 DEF AccessType
  <2> HIDE DEF a
  <2> QED
    BY <1>6, <1>9, <2>1, <2>2, <2>3, <2>5, <2>6, <2>7 DEF Thread, HeldIs
<1> QED
  BY <1>1, <1>2, <1>3, <1>6, <1>7, <1>8, <1>9, StateTypes, ClientStepRInv
  DEF InCall

(* A call is told to wait.                                                 *)
LEMMA CallWaitsKeeps ==
  ASSUME RInv, NEW p \in ProcId, CallWaits(p, p),
         UNCHANGED <<server, timeouts, overlapped>>
  PROVE  RInv'
<1> DEFINE m == Front(p)
<1>1. /\ UNCHANGED <<asked, held, to_server, closed>>
      /\ InCall(p) /\ call[p].kind \notin {"ask", "await"}
      /\ Receive(p) /\ m.type = "Wait"
      /\ call' = [call EXCEPT ![p].awaits = m.key]
  BY DEF CallWaits, ReadsAccess
<1>2. Typed /\ TypeOK /\ call[p] \in Call
  BY <1>1, StateTypes DEF RInv, Typed, InCall
<1>3. /\ to_client' \in [ProcId -> Seq(ResponseMessage)]
      /\ \A q \in ProcId \ {p} : to_client'[q] = to_client[q]
      /\ m \in ResponseMessage
  BY <1>1, <1>2, StateTypes, ReceiveType
<1>4. m.key \in KeyId
  BY <1>1, <1>3, ResponseFields
<1>5. /\ call'[p] \in Call
      /\ call'[p].kind = call[p].kind /\ call'[p].type = call[p].type
      /\ call'[p].key = call[p].key
      /\ \A q \in ProcId \ {p} : call'[q] = call[q]
      /\ call' = [call EXCEPT ![p] = call'[p]]
  BY <1>1, <1>2, <1>4, StateTypes DEF Call
<1>6. ClientSteps(p)
  BY <1>1, <1>2, <1>3, <1>5, StateTypes DEF ClientSteps, server, TypeOK
<1>7. call' \in [ProcId -> Call \cup {NoCall}]
  BY <1>2, <1>5, StateTypes
<1>8. ASSUME NEW t, NEW k, Thread(p, t, k)
      PROVE  AnswersAre(p, t, k)' /\ CallIs(p, t, k)' /\ HeldIs(p, t, k)'
  <2>1. AnswersAre(p, t, k)'
    BY <1>1, <1>2, <1>8, AnswersAfterReceive DEF Thread, server
  <2>2. CallIs(p, t, k)'
    BY <1>1, <1>5, <1>8 DEF Thread, CallIs
  <2>3. \A q, b : Registered(q, b)' = Registered(q, b)
    BY <1>1, <1>2, ServerUntouched DEF server
  <2> QED
    BY <1>1, <1>8, <2>1, <2>2, <2>3 DEF Thread, HeldIs
<1> QED
  BY <1>1, <1>2, <1>3, <1>5, <1>6, <1>7, <1>8, StateTypes, ClientStepRInv

(* A call returns without an access.                                       *)
LEMMA CallReturnsKeeps ==
  ASSUME RInv, NEW p \in ProcId, CallReturns(p, p),
         UNCHANGED <<server, timeouts, overlapped>>
  PROVE  RInv'
<1>1. /\ UNCHANGED <<held, to_server, closed>>
      /\ InCall(p) /\ Receive(p)
      /\ call' = [call EXCEPT ![p] = NoCall]
      /\ asked' = [asked EXCEPT ![p] = asked'[p]]
      /\ asked'[p] \in {asked[p], NoCall}
  <2>1. asked' = [asked EXCEPT ![p] = IF call[p].kind = "await" THEN NoCall
                                      ELSE @]
    BY DEF CallReturns
  <2> QED
    BY <2>1, StateTypes DEF CallReturns, Return, RInv, Typed
<1>2. Typed /\ TypeOK
  BY DEF RInv, Typed
<1>3. /\ to_client' \in [ProcId -> Seq(ResponseMessage)]
      /\ \A q \in ProcId \ {p} : to_client'[q] = to_client[q]
  BY <1>1, <1>2, StateTypes, ReceiveType
<1>4. /\ call'[p] = NoCall
      /\ \A q \in ProcId \ {p} : call'[q] = call[q] /\ asked'[q] = asked[q]
      /\ call' \in [ProcId -> Call \cup {NoCall}]
      /\ asked' \in [ProcId -> [access : Access, told : BOOLEAN]
                                 \cup {NoCall}]
  <2>1. call'[p] = NoCall /\ \A q \in ProcId \ {p} : call'[q] = call[q]
    BY <1>1, <1>2, StateTypes
  <2>2. asked'[p] \in [access : Access, told : BOOLEAN] \cup {NoCall}
    BY <1>1, <1>2, StateTypes
  <2>3. \A q \in ProcId \ {p} : asked'[q] = asked[q]
    BY <1>1, <1>2, StateTypes
  <2> QED
    BY <1>1, <1>2, <2>1, <2>2, <2>3, StateTypes
<1>5. ClientSteps(p)
  BY <1>1, <1>2, <1>3, <1>4, StateTypes DEF ClientSteps, server, TypeOK
<1>6. ASSUME NEW t, NEW k, Thread(p, t, k)
      PROVE  AnswersAre(p, t, k)' /\ CallIs(p, t, k)' /\ HeldIs(p, t, k)'
  <2>1. AnswersAre(p, t, k)'
    BY <1>1, <1>2, <1>6, AnswersAfterReceive DEF Thread, server
  <2>2. CallIs(p, t, k)'
    BY <1>1, <1>4, <1>6 DEF Thread, CallIs, InCall
  <2>3. \A q, b : Registered(q, b)' = Registered(q, b)
    BY <1>1, <1>2, ServerUntouched DEF server
  <2> QED
    BY <1>1, <1>6, <2>1, <2>2, <2>3 DEF Thread, HeldIs
<1> QED
  BY <1>1, <1>2, <1>3, <1>4, <1>5, <1>6, StateTypes, ClientStepRInv
  DEF InCall

(* A client gives up a call.                                               *)
LEMMA TimeOutKeeps ==
  ASSUME RInv, NEW p \in ProcId, TimeOut(p)
  PROVE  RInv'
<1>1. /\ UNCHANGED <<server, asked, held, streams, overlapped>>
      /\ timeouts < Timeouts /\ timeouts' = timeouts + 1
      /\ call' = [call EXCEPT ![p] = NoCall]
  BY DEF TimeOut, CallTimesOut, Return
<1>2. Typed /\ TypeOK /\ timeouts \in 0 .. Timeouts
  BY DEF RInv, Typed, TypeOK
<1>3. /\ call'[p] = NoCall
      /\ \A q \in ProcId \ {p} : call'[q] = call[q]
      /\ call' \in [ProcId -> Call \cup {NoCall}]
  BY <1>1, <1>2, StateTypes
<1>4. timeouts' \in 0 .. Timeouts
  BY <1>1, <1>2, BoundsAssumption
<1>5. ClientSteps(p)
  BY <1>1, <1>2, <1>3, <1>4 DEF ClientSteps, server, streams, TypeOK
<1>6. ASSUME NEW t, NEW k, Thread(p, t, k)
      PROVE  AnswersAre(p, t, k)' /\ CallIs(p, t, k)' /\ HeldIs(p, t, k)'
  <2>1. CallIs(p, t, k)'
    BY <1>1, <1>3, <1>6 DEF Thread, CallIs, InCall
  <2>2. \A q, b : Registered(q, b)' = Registered(q, b)
    BY <1>1, <1>2, ServerUntouched DEF server
  <2> QED
    BY <1>1, <1>6, <2>1, <2>2 DEF Thread, AnswersAre, HeldIs, streams
<1> QED
  BY <1>1, <1>2, <1>3, <1>5, <1>6, StateTypes, ClientStepRInv
  DEF InCall, streams

(* A client ends: what is left of it is with the registry.                 *)
LEMMA LeaveKeeps ==
  ASSUME RInv, NEW p \in ProcId, LeaveRegistry(p)
  PROVE  RInv'
<1>1. /\ UNCHANGED <<server, to_server, timeouts, overlapped>>
      /\ p \in issued
      /\ closed' = closed \cup {p}
      /\ to_client' = [to_client EXCEPT ![p] = <<>>]
      /\ call' = [call EXCEPT ![p] = NoCall]
      /\ asked' = [asked EXCEPT ![p] = NoCall]
      /\ held' = [held EXCEPT ![p] = {}]
  BY DEF LeaveRegistry, Leave, Close, Return
<1>2. Typed /\ TypeOK
  BY DEF RInv, Typed
<1>3. /\ call'[p] = NoCall /\ asked'[p] = NoCall /\ held'[p] = {}
      /\ to_client'[p] = <<>>
      /\ \A q \in ProcId \ {p} :
           /\ call'[q] = call[q] /\ asked'[q] = asked[q]
           /\ held'[q] = held[q] /\ to_client'[q] = to_client[q]
      /\ call' \in [ProcId -> Call \cup {NoCall}]
      /\ asked' \in [ProcId -> [access : Access, told : BOOLEAN]
                                 \cup {NoCall}]
      /\ held' \in [ProcId -> SUBSET Access]
  BY <1>1, <1>2, StateTypes
<1>4. to_client' \in [ProcId -> Seq(ResponseMessage)]
  BY <1>1, <1>2, StateTypes, EmptySeq
<1>5. ClientSteps(p)
  BY <1>1, <1>2, <1>3 DEF ClientSteps, server, TypeOK
<1>6. ASSUME NEW t, NEW k
      PROVE  AnswersAre(p, t, k)' /\ CallIs(p, t, k)' /\ HeldIs(p, t, k)'
  BY <1>3, EmptySeq DEF AnswersAre, CallIs, HeldIs, InCall
<1> QED
  BY <1>3, <1>4, <1>5, <1>6, ClientStepRInv DEF InCall

(* Nothing is under way for a client in sync.                              *)
LEMMA InSyncIsQuiet ==
  ASSUME Typed, NEW p \in ProcId, InSync(p)
  PROVE  /\ to_server[p] = <<>> /\ to_client[p] = <<>> /\ asked[p] = NoCall
         /\ \A j \in KeyId : \A i \in 1 .. Len(Pending(j)) :
              Pending(j)[i].proc # p
         /\ \A i \in 1 .. Len(access_granted) : access_granted[i].proc # p
<1>1. access_granted \in Seq(Grant)
      /\ \A j \in KeyId : Pending(j) \in Seq(Request)
  BY StateTypes, ManagerTypes, EmptySeq DEF Typed, Pending, Entry
<1>2. /\ DOMAIN access_granted = 1 .. Len(access_granted)
      /\ \A j \in KeyId : DOMAIN Pending(j) = 1 .. Len(Pending(j))
  BY <1>1, LenProperties
<1>3. ASSUME NEW j \in KeyId, NEW i \in 1 .. Len(Pending(j)),
             Pending(j)[i].proc = p
      PROVE  FALSE
  <2>1. <<j, i>> \in Queued(p)
    BY <1>2, <1>3 DEF Queued
  <2> QED
    BY <2>1 DEF InSync
<1>4. ASSUME NEW i \in 1 .. Len(access_granted), access_granted[i].proc = p
      PROVE  FALSE
  <2>1. i \in Undelivered(p)
    BY <1>2, <1>4 DEF Undelivered
  <2> QED
    BY <2>1 DEF InSync
<1> QED
  BY <1>3, <1>4 DEF InSync

(* A call is made. If nothing is under way for the client, its request     *)
(* begins a new thread; else the client counts as overlapped from then on. *)
LEMMA MakeCallKeeps ==
  ASSUME RInv, NEW p \in ProcId, NEW kind \in {"sync", "ask"},
         NEW t \in RequestType, NEW k \in KeyId, MakeCall(p, kind, t, k)
  PROVE  RInv'
<1> DEFINE m == [proc |-> p, type |-> t, key |-> k]
<1>1. Typed' /\ Typed
  BY MakeCallTyped DEF RInv
<1>2. /\ UNCHANGED <<key_states, access_granted, reply, asked, to_client>>
      /\ to_server' = [to_server EXCEPT ![p] = Append(@, m)]
      /\ call' = [call EXCEPT ![p] = [kind |-> kind, type |-> t, key |-> k,
                                      awaits |-> NoKey]]
      /\ held' = [held EXCEPT ![p] = IF t = "Release"
                                     THEN {a \in @ : a.key # k} ELSE @]
      /\ overlapped' = IF InSync(p) THEN overlapped ELSE overlapped \cup {p}
  BY DEF MakeCall, server, BeginCall, SendRequest
<1>3. /\ \A q, a : Registered(q, a)' = Registered(q, a)
      /\ \A j : Pending(j)' = Pending(j)
  BY <1>1, <1>2, ServerUntouched
<1>4. ASSUME NEW q \in ProcId \ overlapped', q # p
      PROVE  \E u \in RequestType, j \in KeyId \cup {NoKey} : Thread(q, u, j)'
  <2>1. PICK u \in RequestType, j \in KeyId \cup {NoKey} : Thread(q, u, j)
    BY <1>2, <1>4 DEF RInv, OneThread
  <2>2. /\ call'[q] = call[q] /\ held'[q] = held[q]
        /\ to_server'[q] = to_server[q]
    BY <1>1, <1>2, <1>4, StateTypes DEF Typed
  <2>3. Thread(q, u, j)'
    BY <1>2, <1>3, <2>1, <2>2
    DEF Thread, RequestsAre, QueuedAre, GrantsAre, AnswersAre, CallIs,
        HeldIs, InCall
  <2> QED
    BY <2>3
<1>5. ASSUME p \notin overlapped'
      PROVE  Thread(p, t, k)'
  <2>1. InSync(p) /\ p \notin overlapped
    BY <1>2, <1>5
  <2>2. PICK u \in RequestType, j \in KeyId \cup {NoKey} : Thread(p, u, j)
    BY <2>1 DEF RInv, OneThread
  <2>3. /\ call'[p].type = t /\ call'[p].key = k
        /\ held'[p] = IF t = "Release" THEN {a \in held[p] : a.key # k}
                                       ELSE held[p]
        /\ to_server'[p] = Append(to_server[p], m)
    BY <1>1, <1>2, StateTypes DEF Typed
  <2>4. Len(to_server'[p]) = 1 /\ to_server'[p][1] = m
    <3>1. to_server[p] = <<>> /\ Append(<<>>, m) = <<m>>
      BY <1>1, <2>1, InSyncIsQuiet
    <3> QED
      BY <2>3, <3>1
  <2>5. RequestsAre(p, t, k)'
    BY <2>4 DEF RequestsAre
  <2>6. QueuedAre(p, t, k)' /\ GrantsAre(p, t, k)' /\ AnswersAre(p, t, k)'
    BY <1>1, <1>2, <1>3, <2>1, InSyncIsQuiet, EmptySeq
    DEF QueuedAre, GrantsAre, AnswersAre
  <2>7. CallIs(p, t, k)'
    BY <1>1, <1>2, <2>1, <2>3, InSyncIsQuiet DEF CallIs
  <2>8. HeldIs(p, t, k)'
    BY <1>3, <2>2, <2>3 DEF Thread, HeldIs
  <2> QED
    BY <2>5, <2>6, <2>7, <2>8 DEF Thread
<1>6. OneThread'
  BY <1>4, <1>5 DEF OneThread
<1> QED
  BY <1>1, <1>6 DEF RInv

----------------------------------------------------------------------------
(* STEPS OF THE SERVER KEEP THE THREADS *)

(* The steps of the server change nothing of a client, and only its        *)
(* request counts.                                                         *)
LEMMA ServerStepTyped ==
  ASSUME Typed, UNCHANGED <<client, closed, timeouts, overlapped>>,
         Server!AM!TypeOK', EntriesOK',
         token_stream_map' \in SUBSET issued', issued' \in SUBSET ProcId,
         issued \subseteq issued',
         serving' = NoProc \/ serving' = serving
           \/ \E q \in ProcId, m \in RequestMessage :
                serving' = [token |-> q, request |-> m],
         to_server' \in [ProcId -> Seq(RequestMessage \cup {StopRequest})],
         to_client' \in [ProcId -> Seq(ResponseMessage)],
         RequestsNameSender'
  PROVE  Typed'
<1>1. TypeOK'
  <2>1. /\ call' \in [ProcId -> Call \cup {NoCall}]
        /\ asked' \in [ProcId -> [access : Access, told : BOOLEAN]
                                   \cup {NoCall}]
        /\ held' \in [ProcId -> SUBSET Access]
    BY StateTypes DEF Typed, client
  <2>2. /\ closed' \subseteq issued' /\ timeouts' \in 0 .. Timeouts
        /\ overlapped' \in SUBSET issued' /\ TypeOK
    BY DEF Typed, TypeOK
  <2> QED
    BY <2>1, <2>2, TypesNext
<1>2. AskedTypes'
  BY DEF Typed, AskedTypes, InCall, client
<1> QED
  BY <1>1, <1>2 DEF Typed

(* A connection is accepted, or forgotten.                                 *)
LEMMA ConnectionsKeep ==
  ASSUME RInv,
         UNCHANGED <<key_states, access_granted, reply, serving, client,
                     streams, timeouts, overlapped>>,
         token_stream_map' \in SUBSET issued', issued' \in SUBSET ProcId,
         issued \subseteq issued'
  PROVE  RInv'
<1>1. Typed
  BY DEF RInv
<1>2. Server!AM!TypeOK' /\ EntriesOK'
  BY <1>1, ServerUntouched
<1>3. RequestsNameSender'
  BY <1>1 DEF Typed, RequestsNameSender, streams
<1>4. Typed'
  BY <1>1, <1>2, <1>3, StateTypes, ServerStepTyped DEF Typed, streams
<1>5. OneThread'
  <2> SUFFICES ASSUME NEW q \in ProcId \ overlapped
               PROVE  \E t \in RequestType, k \in KeyId \cup {NoKey} :
                        Thread(q, t, k)'
    BY DEF OneThread
  <2>1. PICK t \in RequestType, k \in KeyId \cup {NoKey} : Thread(q, t, k)
    BY DEF RInv, OneThread
  <2>2. Thread(q, t, k)'
    BY <2>1
    DEF Thread, RequestsAre, QueuedAre, GrantsAre, AnswersAre, CallIs,
        HeldIs, InCall, Pending, Registered, client, streams
  <2> QED
    BY <2>2
<1> QED
  BY <1>4, <1>5 DEF RInv

(* A message of the server's own for q is an access of q's thread, or      *)
(* none.                                                                   *)
LEMMA AnswersAfterDeliver ==
  ASSUME to_client \in [ProcId -> Seq(ResponseMessage)], NEW q \in ProcId,
         NEW x \in ResponseMessage, Deliver(q, x), NEW p \in ProcId,
         NEW t, NEW k,
         \A i \in 1 .. Len(to_client[p]) :
           to_client[p][i].type \in {"Success", "Holder"} =>
             /\ to_client[p][i].key = k
             /\ t \in AccessType => Registered(p, [key |-> k, type |-> t])',
         p = q /\ x.type \in {"Success", "Holder"} =>
           /\ x.key = k
           /\ t \in AccessType => Registered(p, [key |-> k, type |-> t])'
  PROVE  AnswersAre(p, t, k)'
<1>1. CASE to_client'[p] = to_client[p]
  BY <1>1 DEF AnswersAre
<1>2. CASE p = q /\ to_client'[p] = Append(to_client[p], x)
  <2>1. to_client[p] \in Seq(ResponseMessage)
    OBVIOUS
  <2>2. /\ Len(Append(to_client[p], x)) = Len(to_client[p]) + 1
        /\ Len(to_client[p]) \in Nat
        /\ \A i \in 1 .. Len(to_client[p]) :
             Append(to_client[p], x)[i] = to_client[p][i]
        /\ Append(to_client[p], x)[Len(to_client[p]) + 1] = x
    BY <2>1, AppendProperties, LenProperties
  <2> SUFFICES ASSUME NEW i \in 1 .. Len(to_client[p]) + 1,
                      to_client'[p][i].type \in {"Success", "Holder"}
               PROVE  /\ to_client'[p][i].key = k
                      /\ t \in AccessType =>
                           Registered(p, [key |-> k, type |-> t])'
    BY <1>2, <2>2 DEF AnswersAre
  <2>3. CASE i \in 1 .. Len(to_client[p])
    BY <1>2, <2>2, <2>3
  <2>4. CASE i = Len(to_client[p]) + 1
    BY <1>2, <2>2, <2>4
  <2> QED
    BY <2>2, <2>3, <2>4
<1> QED
  BY <1>1, <1>2, DeliverType

(* Of the requests in a stream some are left.                              *)
LEMMA RequestsLeft ==
  ASSUME Typed, NEW q \in ProcId,
         \A p \in ProcId \ {q} : to_server'[p] = to_server[p],
         \A i \in 1 .. Len(to_server'[q]) : \E j \in 1 .. Len(to_server[q]) :
           to_server'[q][i] = to_server[q][j]
  PROVE  /\ RequestsNameSender'
         /\ \A p \in ProcId : \A t, k :
              RequestsAre(p, t, k) => RequestsAre(p, t, k)'
<1>1. ASSUME NEW p \in ProcId, NEW i \in 1 .. Len(to_server'[p])
      PROVE  \E j \in 1 .. Len(to_server[p]) :
               to_server'[p][i] = to_server[p][j]
  BY <1>1
<1>2. RequestsNameSender'
  <2> SUFFICES ASSUME NEW p \in ProcId, NEW i \in 1 .. Len(to_server'[p])
               PROVE  /\ to_server'[p][i] \in RequestMessage
                      /\ to_server'[p][i].proc = p
    BY DEF RequestsNameSender
  <2>1. PICK j \in 1 .. Len(to_server[p]) : to_server'[p][i] = to_server[p][j]
    BY <1>1
  <2>2. to_server[p][j] \in RequestMessage /\ to_server[p][j].proc = p
    BY DEF Typed, RequestsNameSender
  <2> QED
    BY <2>1, <2>2
<1>3. ASSUME NEW p \in ProcId, NEW t, NEW k, RequestsAre(p, t, k)
      PROVE  RequestsAre(p, t, k)'
  <2> SUFFICES ASSUME NEW i \in 1 .. Len(to_server'[p])
               PROVE  /\ to_server'[p][i].type = t
                      /\ to_server'[p][i].key = k
    BY DEF RequestsAre
  <2>1. PICK j \in 1 .. Len(to_server[p]) : to_server'[p][i] = to_server[p][j]
    BY <1>1
  <2>2. to_server[p][j].type = t /\ to_server[p][j].key = k
    BY <1>3 DEF RequestsAre
  <2> QED
    BY <2>1, <2>2
<1> QED
  BY <1>2, <1>3

(* Several requests that have arrived together are dropped with one error. *)
LEMMA CoalescedKeeps ==
  ASSUME RInv, NEW q \in ProcId, Server!HandleCoalesced(q),
         UNCHANGED <<client, timeouts, overlapped>>
  PROVE  RInv'
<1> DEFINE s == to_server[q]
<1>1. Typed /\ TypeOK
  BY DEF RInv, Typed
<1>2. PICK n \in 2 .. Len(s) :
        to_server' = [to_server EXCEPT ![q] = SubSeq(@, n + 1, Len(@))]
  BY DEF Server!HandleCoalesced, Server!TakeRequests
<1>3. /\ UNCHANGED <<key_states, access_granted, reply, token_stream_map,
                     issued, serving, closed>>
      /\ to_client' = to_client \/ Deliver(q, Error)
  BY NoProcAssumption, SameMessages
  DEF Server!HandleCoalesced, Server!server, Server!manager, Server!Answer,
      Server!AnswerFails, Server!WriteFails, Server!Deliver, Deliver
<1>4. /\ s \in Seq(RequestMessage \cup {StopRequest}) /\ n \in 0 .. Len(s)
      /\ to_server'[q] = SubSeq(s, n + 1, Len(s))
      /\ \A p \in ProcId \ {q} : to_server'[p] = to_server[p]
      /\ to_server' = [to_server EXCEPT ![q] = to_server'[q]]
  <2>1. to_server \in [ProcId -> Seq(RequestMessage \cup {StopRequest})]
    BY <1>1, StateTypes
  <2>2. s \in Seq(RequestMessage \cup {StopRequest}) /\ Len(s) \in Nat
    BY <2>1, LenProperties
  <2>3. /\ to_server'[q] = SubSeq(s, n + 1, Len(s))
        /\ \A p \in ProcId \ {q} : to_server'[p] = to_server[p]
    BY <1>2, <2>1
  <2>4. to_server' = [to_server EXCEPT ![q] = to_server'[q]]
    BY <1>2, <2>1
  <2> HIDE DEF s
  <2>5. n \in 0 .. Len(s)
    BY <2>2
  <2> QED
    BY <2>2, <2>3, <2>4, <2>5
<1>5. /\ to_server'[q] \in Seq(RequestMessage \cup {StopRequest})
      /\ \A i \in 1 .. Len(to_server'[q]) : /\ to_server'[q][i] = s[n + i]
                                            /\ n + i \in 1 .. Len(s)
  <2> HIDE DEF s
  <2> QED
    BY <1>4, SuffixElements
<1>6. to_client' \in [ProcId -> Seq(ResponseMessage)]
  BY <1>1, <1>3, StateTypes, SameMessages, DeliverType
<1>7. /\ \A p, a : Registered(p, a)' = Registered(p, a)
      /\ \A j : Pending(j)' = Pending(j)
      /\ Server!AM!TypeOK' /\ EntriesOK'
  BY <1>1, <1>3, ServerUntouched
<1>8. Typed'
  <2>1. RequestsNameSender'
    BY <1>1, <1>4, <1>5, RequestsLeft
  <2>2. to_server' \in [ProcId -> Seq(RequestMessage \cup {StopRequest})]
    BY <1>1, <1>4, <1>5, StateTypes
  <2> QED
    BY <1>1, <1>3, <1>6, <1>7, <2>1, <2>2, StateTypes, ServerStepTyped
<1>9. ASSUME NEW p \in ProcId \ overlapped
      PROVE  \E t \in RequestType, k \in KeyId \cup {NoKey} : Thread(p, t, k)'
  <2>1. PICK t \in RequestType, k \in KeyId \cup {NoKey} : Thread(p, t, k)
    BY DEF RInv, OneThread
  <2>2. RequestsAre(p, t, k)'
    BY <1>1, <1>4, <1>5, <2>1, RequestsLeft DEF Thread
  <2>3. AnswersAre(p, t, k)'
    <3>1. CASE to_client' = to_client
      BY <1>7, <2>1, <3>1 DEF Thread, AnswersAre
    <3>2. CASE Deliver(q, Error)
      <4>1. \A i \in 1 .. Len(to_client[p]) :
              to_client[p][i].type \in {"Success", "Holder"} =>
                /\ to_client[p][i].key = k
                /\ t \in AccessType =>
                     Registered(p, [key |-> k, type |-> t])'
        BY <1>7, <2>1 DEF Thread, AnswersAre
      <4>2. Error \in ResponseMessage /\ Error.type = "Error"
        BY SameMessages
      <4>3. to_client \in [ProcId -> Seq(ResponseMessage)]
        BY <1>1, StateTypes
      <4> HIDE DEF Error
      <4> QED
        BY <3>2, <4>1, <4>2, <4>3, AnswersAfterDeliver
    <3> QED
      BY <1>3, <3>1, <3>2
  <2>4. Thread(p, t, k)'
    BY <1>3, <1>7, <2>1, <2>2, <2>3
    DEF Thread, QueuedAre, GrantsAre, CallIs, HeldIs, InCall, client
  <2> QED
    BY <2>4
<1>10. OneThread'
  BY <1>9 DEF OneThread
<1> QED
  BY <1>8, <1>10 DEF RInv

(* One request is handled. The thread of every client goes on: of the one  *)
(* that has sent it because the manager's call and the answer are for that *)
(* request, of the others because only their own release takes away what   *)
(* is registered for them.                                                 *)
LEMMA RequestHandledKeeps ==
  ASSUME RInv, NEW q \in ProcId, NEW m \in RequestMessage, NEW x,
         m.proc = q, RequestHandled(q, m, x)
  PROVE  RInv'
<1> DEFINE s == to_server[q]
<1>1. /\ Typed /\ TypeOK /\ EntriesOK /\ Server!AM!TypeOK
      /\ s \in Seq(RequestMessage \cup {StopRequest}) /\ s # <<>>
      /\ m.key \in KeyId /\ m.type \in RequestType
  BY StateTypes DEF RInv, Typed, RequestHandled, RequestMessage
<1>2. /\ to_server'[q] = Tail(s)
      /\ \A p \in ProcId \ {q} : to_server'[p] = to_server[p]
      /\ to_server' = [to_server EXCEPT ![q] = to_server'[q]]
      /\ m = s[1]
  BY <1>1, StateTypes DEF RequestHandled
<1>3. /\ to_server'[q] \in Seq(RequestMessage \cup {StopRequest})
      /\ \A i \in 1 .. Len(to_server'[q]) : \E j \in 1 .. Len(s) :
           to_server'[q][i] = s[j]
      /\ 1 \in 1 .. Len(s)
  <2> HIDE DEF s
  <2> QED
    BY <1>1, <1>2, HeadTailProperties, LenProperties
<1>4. /\ Server!CallManager(m) /\ Answers(m, x) /\ x \in ResponseMessage
      /\ Deliver(q, x)
      /\ UNCHANGED <<client, token_stream_map, issued, closed, timeouts,
                     overlapped>>
      /\ serving' = NoProc \/ serving' = [token |-> q, request |-> m]
  BY DEF RequestHandled
<1>5. Server!AM!TypeOK' /\ EntriesOK'
  BY <1>1, <1>4, CallKeepsManager
<1>6. Typed'
  <2>1. RequestsNameSender'
    BY <1>1, <1>2, <1>3, RequestsLeft
  <2>2. to_server' \in [ProcId -> Seq(RequestMessage \cup {StopRequest})]
    BY <1>1, <1>2, <1>3, StateTypes
  <2>3. to_client' \in [ProcId -> Seq(ResponseMessage)]
    BY <1>1, <1>4, StateTypes, DeliverType
  <2> QED
    BY <1>1, <1>4, <1>5, <2>1, <2>2, <2>3, StateTypes, ServerStepTyped
<1>7. ASSUME NEW p \in ProcId, NEW t \in RequestType,
             NEW k \in KeyId \cup {NoKey}, Thread(p, t, k)
      PROVE  Thread(p, t, k)'
  <2>1. m.proc = p => m.type = t /\ m.key = k
    BY <1>2, <1>3, <1>7 DEF Thread, RequestsAre
  <2>2. RequestsAre(p, t, k)'
    BY <1>1, <1>2, <1>3, <1>7, RequestsLeft DEF Thread
  <2>3. QueuedAre(p, t, k)'
    BY <1>1, <1>4, <1>7, <2>1, CallKeepsQueued DEF Thread
  <2>4. GrantsAre(p, t, k)'
    BY <1>1, <1>4, <1>7, <2>1, CallKeepsGrants DEF Thread
  <2>5. CallIs(p, t, k)'
    BY <1>4, <1>7 DEF Thread, CallIs, InCall, client
  <2>6. ASSUME NEW a \in held[p]
        PROVE  Registered(p, a)' /\ (t = "Release" => a.key # k)
    <3>1. /\ a \in Access /\ Registered(p, a)
          /\ t = "Release" => a.key # k
      BY <1>1, <1>7, StateTypes DEF Thread, HeldIs
    <3> QED
      BY <1>1, <1>4, <2>1, <3>1, CallKeepsRegistered
  <2>7. HeldIs(p, t, k)'
    BY <1>4, <2>6 DEF HeldIs, client
  <2>8. ASSUME t \in AccessType, k \in KeyId,
               Registered(p, [key |-> k, type |-> t])
        PROVE  Registered(p, [key |-> k, type |-> t])'
    <3>1. /\ [key |-> k, type |-> t] \in Access
          /\ ~ (m.proc = p /\ m.type = "Release" /\ m.key = k)
      BY <2>1, <2>8 DEF Access, AccessType
    <3> QED
      BY <1>1, <1>4, <2>8, <3>1, CallKeepsRegistered
  <2>9. AnswersAre(p, t, k)'
    <3>1. ASSUME NEW i \in 1 .. Len(to_client[p]),
                 to_client[p][i].type \in {"Success", "Holder"}
          PROVE  /\ to_client[p][i].key = k
                 /\ t \in AccessType =>
                      Registered(p, [key |-> k, type |-> t])'
      <4>1. to_client[p][i] \in ResponseMessage
        BY <1>1, StateTypes, ElementOfSeq
      <4>2. to_client[p][i].key = k /\ k \in KeyId
        BY <1>7, <3>1, <4>1, ResponseFields DEF Thread, AnswersAre
      <4> QED
        BY <1>7, <2>8, <3>1, <4>2 DEF Thread, AnswersAre
    <3>2. ASSUME p = q, x.type \in {"Success", "Holder"}
          PROVE  /\ x.key = k
                 /\ t \in AccessType =>
                      Registered(p, [key |-> k, type |-> t])'
      <4>1. x.key = m.key /\ reply'.res = "Ok"
        BY <1>1, <1>4, <3>2, StateTypes, SameMessages DEF Answers
      <4>2. m.type \in AccessType =>
              Registered(m.proc, [key |-> m.key, type |-> m.type])'
        BY <1>1, <1>4, <4>1, CallRegisters
      <4> QED
        BY <2>1, <3>2, <4>1, <4>2
    <3> QED
      BY <1>1, <1>4, <3>1, <3>2, StateTypes, AnswersAfterDeliver
  <2> QED
    BY <2>2, <2>3, <2>4, <2>5, <2>7, <2>9 DEF Thread
<1>8. OneThread'
  <2> SUFFICES ASSUME NEW p \in ProcId \ overlapped
               PROVE  \E t \in RequestType, k \in KeyId \cup {NoKey} :
                        Thread(p, t, k)'
    BY <1>4 DEF OneThread
  <2>1. PICK t \in RequestType, k \in KeyId \cup {NoKey} : Thread(p, t, k)
    BY DEF RInv, OneThread
  <2> QED
    BY <1>7, <2>1
<1> QED
  BY <1>6, <1>8 DEF RInv

(* One turn of the loop over the grants: what is sent to a client tells it *)
(* of an access of its thread.                                             *)
LEMMA GrantHandledKeeps ==
  ASSUME RInv, NEW g \in Grant, GrantHandled(g)
  PROVE  RInv'
<1>1. /\ Typed /\ TypeOK
      /\ access_granted \in Seq(Grant) /\ access_granted # <<>>
      /\ g = access_granted[1] /\ g.proc \in ProcId
      /\ UNCHANGED <<key_states, reply, token_stream_map, issued, to_server,
                     closed, client, timeouts, overlapped>>
      /\ serving' = NoProc \/ serving' = serving
  BY StateTypes DEF RInv, Typed, GrantHandled, Grant
<1>2. /\ access_granted' \in Seq(Grant)
      /\ \A i \in 1 .. Len(access_granted') :
           \E j \in 1 .. Len(access_granted) :
             access_granted'[i] = access_granted[j]
      /\ 1 \in 1 .. Len(access_granted)
  <2>1. /\ Tail(access_granted) \in Seq(Grant)
        /\ Len(access_granted) \in Nat /\ Len(access_granted) > 0
        /\ Len(Tail(access_granted)) = Len(access_granted) - 1
        /\ \A i \in 1 .. Len(Tail(access_granted)) :
             Tail(access_granted)[i] = access_granted[i + 1]
    BY <1>1, HeadTailProperties, LenProperties
  <2>2. CASE access_granted' = Tail(access_granted)
    BY <2>1, <2>2
  <2>3. CASE access_granted' = <<>>
    BY <2>1, <2>3, EmptySeq
  <2> QED
    BY <2>2, <2>3 DEF GrantHandled
<1>3. /\ \A p, a : Registered(p, a)' = Registered(p, a)
      /\ \A j : Pending(j)' = Pending(j)
      /\ EntriesOK'
  BY <1>1 DEF Registered, Pending, Typed, EntriesOK
<1>4. Server!AM!TypeOK'
  BY <1>1, <1>2, StateTypes, SameOperators DEF Server!AM!TypeOK
<1>5. \/ to_client' = to_client
      \/ Deliver(g.proc, Server!GrantMessage(g))
      \/ \E q \in ProcId : Deliver(q, Error)
  BY DEF GrantHandled
<1>6. to_client' \in [ProcId -> Seq(ResponseMessage)]
  BY <1>1, <1>5, StateTypes, SameMessages, GrantMessageIs, DeliverType
<1>7. Typed'
  <2>1. RequestsNameSender'
    BY <1>1 DEF Typed, RequestsNameSender
  <2> QED
    BY <1>1, <1>3, <1>4, <1>6, <2>1, StateTypes, ServerStepTyped
<1>8. ASSUME NEW p \in ProcId, NEW t \in RequestType,
             NEW k \in KeyId \cup {NoKey}, Thread(p, t, k)
      PROVE  Thread(p, t, k)'
  <2>1. \A i \in 1 .. Len(to_client[p]) :
          to_client[p][i].type \in {"Success", "Holder"} =>
            /\ to_client[p][i].key = k
            /\ t \in AccessType => Registered(p, [key |-> k, type |-> t])'
    BY <1>3, <1>8 DEF Thread, AnswersAre
  <2>2. AnswersAre(p, t, k)'
    <3>1. CASE to_client' = to_client
      BY <2>1, <3>1 DEF AnswersAre
    <3>2. CASE Deliver(g.proc, Server!GrantMessage(g))
      <4>1. p = g.proc => g.key = k /\ Registered(p, [key |-> k, type |-> t])'
        BY <1>1, <1>2, <1>3, <1>8 DEF Thread, GrantsAre
      <4> DEFINE x == Server!GrantMessage(g)
      <4>2. x \in ResponseMessage /\ x.key = g.key
        BY GrantMessageIs
      <4>3. to_client \in [ProcId -> Seq(ResponseMessage)]
        BY <1>1, StateTypes
      <4>4. Deliver(g.proc, x)
        BY <3>2
      <4> HIDE DEF x
      <4> QED
        BY <1>1, <2>1, <4>1, <4>2, <4>3, <4>4, AnswersAfterDeliver
    <3>3. ASSUME NEW q \in ProcId, Deliver(q, Error)
          PROVE  AnswersAre(p, t, k)'
      BY <1>1, <2>1, <3>3, StateTypes, SameMessages, AnswersAfterDeliver
    <3> QED
      BY <1>5, <3>1, <3>2, <3>3
  <2>3. GrantsAre(p, t, k)'
    BY <1>2, <1>3, <1>8 DEF Thread, GrantsAre
  <2>4. RequestsAre(p, t, k)' /\ QueuedAre(p, t, k)'
    BY <1>1, <1>3, <1>8 DEF Thread, RequestsAre, QueuedAre
  <2>5. CallIs(p, t, k)' /\ HeldIs(p, t, k)'
    BY <1>1, <1>3, <1>8 DEF Thread, CallIs, HeldIs, InCall, client
  <2> QED
    BY <2>2, <2>3, <2>4, <2>5 DEF Thread
<1>9. OneThread'
  <2> SUFFICES ASSUME NEW p \in ProcId \ overlapped
               PROVE  \E t \in RequestType, k \in KeyId \cup {NoKey} :
                        Thread(p, t, k)'
    BY <1>1 DEF OneThread
  <2>1. PICK t \in RequestType, k \in KeyId \cup {NoKey} : Thread(p, t, k)
    BY DEF RInv, OneThread
  <2> QED
    BY <1>8, <2>1
<1> QED
  BY <1>7, <1>9 DEF RInv

----------------------------------------------------------------------------
(* THE THEOREMS *)

(* Every step keeps the invariant: one lemma above for each action.        *)
LEMMA NextKeepsRInv == RInv /\ [Next]_vars => RInv'
<1> SUFFICES ASSUME RInv, [Next]_vars
             PROVE  RInv'
  OBVIOUS
<1>1. ASSUME NEW p \in ProcId, Connect(p)
      PROVE  RInv'
  <2>1. /\ UNCHANGED <<key_states, access_granted, reply, serving, client,
                       streams, timeouts, overlapped>>
        /\ issued' = issued \cup {p}
        /\ token_stream_map' = token_stream_map \cup {p}
    BY <1>1 DEF Connect, Server!HandleConnection, Server!manager
  <2>2. token_stream_map \in SUBSET issued /\ issued \in SUBSET ProcId
    BY StateTypes DEF RInv, Typed
  <2> QED
    BY <2>1, <2>2, ConnectionsKeep
<1>2. ASSUME NEW p \in ProcId, NEW kind \in {"sync", "ask"},
             NEW t \in RequestType, NEW k \in KeyId, MakeCall(p, kind, t, k)
      PROVE  RInv'
  BY <1>2, MakeCallKeeps
<1>3. ASSUME NEW p \in ProcId, AwaitAccess(p)
      PROVE  RInv'
  BY <1>3, AwaitAccessKeeps
<1>4. ASSUME NEW p \in ProcId, ReadMessage(p)
      PROVE  RInv'
  BY <1>4, AskReturnsKeeps, AwaitPutOffKeeps, CallGrantedKeeps,
     CallWaitsKeeps, CallReturnsKeeps
  DEF ReadMessage
<1>5. ASSUME NEW p \in ProcId, TimeOut(p)
      PROVE  RInv'
  BY <1>5, TimeOutKeeps
<1>6. ASSUME NEW p \in ProcId, LeaveRegistry(p)
      PROVE  RInv'
  BY <1>6, LeaveKeeps
<1>7. ASSUME NEW p \in ProcId, HandleData(p)
      PROVE  RInv'
  <2>1. CASE Server!HandleRequest(p)
    BY <1>7, <2>1, HandleRequestGoes, RequestHandledKeeps DEF HandleData
  <2>2. CASE Server!HandleCoalesced(p)
    BY <1>7, <2>2, CoalescedKeeps DEF HandleData
  <2>3. CASE Server!HandleClose(p)
    <3>1. /\ UNCHANGED <<key_states, access_granted, reply, serving, issued,
                         client, streams, timeouts, overlapped>>
          /\ token_stream_map' = token_stream_map \ {p}
      BY <1>7, <2>3
      DEF HandleData, Server!HandleClose, Server!manager, Server!streams,
          streams
    <3>2. token_stream_map \in SUBSET issued /\ issued \in SUBSET ProcId
      BY StateTypes DEF RInv, Typed
    <3> QED
      BY <3>1, <3>2, ConnectionsKeep
  <2> QED
    BY <1>7, <2>1, <2>2, <2>3 DEF HandleData
<1>8. ASSUME HandleGrants
      PROVE  RInv'
  BY <1>8, HandleGrantsGoes, GrantHandledKeeps
<1>9. CASE UNCHANGED vars
  <2>1. token_stream_map \in SUBSET issued /\ issued \in SUBSET ProcId
    BY StateTypes DEF RInv, Typed
  <2> QED
    BY <1>9, <2>1, ConnectionsKeep DEF vars, server
<1> QED
  BY <1>1, <1>2, <1>3, <1>4, <1>5, <1>6, <1>7, <1>8, <1>9 DEF Next

(* The strengthened invariant: the types, and one thread for every client  *)
(* that has not made a call too early.                                     *)
THEOREM RegistryInvariance == Spec => []RInv
<1>1. Init => RInv
  BY InitRInv
<1>2. RInv /\ [Next]_vars => RInv'
  BY NextKeepsRInv
<1> QED
  BY <1>1, <1>2, PTL DEF Spec

(* The server, its clients and the connections keep their types: whatever  *)
(* is queued, granted, sent or answered is well formed, connections belong *)
(* to ids that have been given out.                                        *)
THEOREM RegistryTypes == Spec => []TypeOK
<1>1. RInv => TypeOK
  BY DEF RInv, Typed
<1> QED
  BY <1>1, RegistryInvariance, PTL

(* What a client believes of its accesses is what the registry has         *)
(* registered, if it ends each call before the next; calls given up,       *)
(* dropped grants, lost requests and the doings of the others change       *)
(* nothing of it.                                                          *)
THEOREM BeliefsAreTrue == Spec => []InSyncBeliefsAreTrue
<1>1. RInv => InSyncBeliefsAreTrue
  BY DEF RInv, OneThread, Thread, HeldIs, InSyncBeliefsAreTrue
<1> QED
  BY <1>1, RegistryInvariance, PTL

(* Clients in sync hold what is registered, and the registry keeps readers *)
(* and writers apart.                                                      *)
LEMMA BeliefsExclude ==
  ASSUME RInv
  PROVE  InSyncExclusion
<1> SUFFICES ASSUME NEW p \in ProcId \ overlapped,
                    NEW q \in ProcId \ overlapped,
                    NEW a \in held[p], NEW b \in held[q],
                    p # q, a.key = b.key
             PROVE  a.type = "Read" /\ b.type = "Read"
  BY DEF InSyncExclusion
<1> DEFINE ks == key_states[a.key]
<1>1. /\ a \in Access /\ b \in Access
      /\ key_states \in [KeyId -> Entry \cup {NoEntry}]
  BY StateTypes, ManagerTypes DEF RInv, Typed
<1>2. Registered(p, a) /\ Registered(q, b)
  BY DEF RInv, OneThread, Thread, HeldIs
<1>3. EntryInv(ks) /\ a.type \in AccessType /\ b.type \in AccessType
  BY <1>1, <1>2 DEF RInv, Typed, EntriesOK, Registered, Access
<1>4. IF a.type = "Write" THEN ks.writer = p ELSE p \in ks.readers
  BY <1>2 DEF Registered
<1>5. IF b.type = "Write" THEN ks.writer = q ELSE q \in ks.readers
  BY <1>2 DEF Registered
<1> HIDE DEF ks
<1> QED
  BY <1>3, <1>4, <1>5, NoProcAssumption DEF EntryInv, AccessType

(* ... and so such clients exclude each other.                             *)
THEOREM ExclusionInSync == Spec => []InSyncExclusion
<1>1. RInv => InSyncExclusion
  BY BeliefsExclude
<1> QED
  BY <1>1, RegistryInvariance, PTL
============================================================================
