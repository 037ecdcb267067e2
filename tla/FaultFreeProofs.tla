-------------------------- MODULE FaultFreeProofs --------------------------
(***************************************************************************)
(* Proofs about RegistrySystem without faults: nobody gives up a call and  *)
(* nobody leaves, and the owners use the calls that wait; whether they     *)
(* keep to the protocol or not. Then the clients exclude each other, no    *)
(* access leaks and every grant gets to its process, for any set of        *)
(* clients and keys.                                                       *)
(*                                                                         *)
(* The argument: a call goes through stages, in each of which exactly one  *)
(* thing is under way for the client (its request, the answer, its place   *)
(* in a queue, the grant, or the message of the grant), and outside a call *)
(* nothing is. So no client is ever overlapped, and what RegistryProofs    *)
(* shows of clients in sync holds of all.                                  *)
(***************************************************************************)
EXTENDS RegistryProofs, FiniteSetTheorems

(* Without it a client can believe in accesses it does not have, leave a   *)
(* waiter without its grant, or be registered for what nobody knows of.    *)
NoFaults == Timeouts = 0 /\ Leaves = 0 /\ Asks = FALSE

NoneQueued(p) == \A j \in KeyId : NoneIn(Pending(j), p)

NoneGranted(p) == NoneIn(access_granted, p)

QueuedOnce(p) == Once(Pending(call[p].key), p)

GrantedOnce(p) == Once(access_granted, p)

(* The message m gives the access the call of p is for. *)
GivesAccess(p, m) ==
  /\ m.type = IF call[p].type = "Read" THEN "Holder" ELSE "Success"
  /\ m.key = call[p].key

(* The stages of a call. *)
Idle(p) ==
  /\ ~ InCall(p)
  /\ Len(to_server[p]) = 0 /\ Len(to_client[p]) = 0
  /\ NoneQueued(p) /\ NoneGranted(p)

Sent(p) ==
  /\ InCall(p) /\ call[p].awaits = NoKey
  /\ Len(to_server[p]) = 1 /\ Len(to_client[p]) = 0
  /\ NoneQueued(p) /\ NoneGranted(p)

Answered(p) ==
  /\ InCall(p) /\ call[p].awaits = NoKey
  /\ Len(to_server[p]) = 0
  /\ Len(to_client[p]) = 1 /\ to_client[p][1].type # "Wait"
  /\ NoneQueued(p) /\ NoneGranted(p)

(* n more messages have come than the Wait, which may be read already.     *)
Told(p, n) ==
  /\ InCall(p) /\ call[p].type \in AccessType
  /\ Len(to_server[p]) = 0
  /\ \/ /\ call[p].awaits = NoKey
        /\ Len(to_client[p]) = 1 + n
        /\ to_client[p][1] = Wait(call[p].key)
     \/ /\ call[p].awaits = call[p].key
        /\ Len(to_client[p]) = n

Waiting(p) == Told(p, 0) /\ QueuedOnce(p) /\ NoneGranted(p)

Granted(p) == Told(p, 0) /\ NoneQueued(p) /\ GrantedOnce(p)

Delivered(p) ==
  /\ Told(p, 1) /\ NoneQueued(p) /\ NoneGranted(p)
  /\ GivesAccess(p, to_client[p][Len(to_client[p])])

Stage(p) ==
  \/ Idle(p) \/ Sent(p) \/ Answered(p)
  \/ Waiting(p) \/ Granted(p) \/ Delivered(p)

(* What tells p of the access a is under way, or p is giving it back.      *)
OnTheWay(p, a) ==
  /\ InCall(p) /\ call[p].key = a.key
  /\ \/ call[p].type = "Release" /\ Len(to_server[p]) = 1
     \/ /\ call[p].type = a.type
        /\ \/ Granted(p) \/ Delivered(p)
           \/ Answered(p) /\ GivesAccess(p, to_client[p][1])

Accounted(p) ==
  \A a \in Access : Registered(p, a) => a \in held[p] \/ OnTheWay(p, a)

(* Whoever takes part is connected and stays so. *)
Connected ==
  /\ closed = {} /\ token_stream_map = issued /\ timeouts = 0
  /\ \A p \in ProcId \ issued : ~ InCall(p) /\ held[p] = {}
  /\ \A k \in KeyId :
       key_states[k] # NoEntry => key_states[k].creator \in issued
  /\ \A i \in 1 .. Len(access_granted) : access_granted[i].holder \in issued

SyncCalls ==
  \A p \in ProcId : /\ asked[p] = NoCall
                    /\ InCall(p) => call[p].kind = "sync"

FInv ==
  /\ RInv
  /\ overlapped = {}
  /\ Connected
  /\ SyncCalls
  /\ \A p \in ProcId : Stage(p) /\ Accounted(p)

----------------------------------------------------------------------------
(* WHAT A CALL OF THE MANAGER DOES TO THE QUEUES AND THE GRANTS *)

(* The queues stay as they are and nothing is granted.                     *)
QueuesStay ==
  /\ \A j \in KeyId : Pending(j)' = Pending(j)
  /\ access_granted' = access_granted
  /\ reply'.res # "RequestAccess"

(* The request m is queued.                                                *)
Queues(m) ==
  /\ m.type \in AccessType /\ reply'.res = "RequestAccess"
  /\ Pending(m.key)' = Append(Pending(m.key),
                              [proc |-> m.proc, type |-> m.type])
  /\ \A j \in KeyId \ {m.key} : Pending(j)' = Pending(j)
  /\ access_granted' = access_granted

(* The first n requests of the queue of k become grants, which name h.     *)
Wakes(k, h, n) ==
  LET q == Pending(k)
      s == access_granted
  IN  /\ n \in 0 .. Len(q)
      /\ Cut(Pending(k)', q, n)
      /\ \A j \in KeyId \ {k} : Pending(j)' = Pending(j)
      /\ Len(access_granted') = Len(s) + n
      /\ \A i \in 1 .. Len(access_granted') : access_granted'[i] =
           IF i <= Len(s) THEN s[i]
           ELSE [proc |-> q[i - Len(s)].proc, key |-> k,
                 type |-> q[i - Len(s)].type, holder |-> h]

(* The types of the sequences.                                             *)
LEMMA SequenceTypes ==
  ASSUME Server!AM!TypeOK
  PROVE  /\ access_granted \in Seq(Grant) /\ Len(access_granted) \in Nat
         /\ \A j \in KeyId : Pending(j) \in Seq(Request)
                             /\ Len(Pending(j)) \in Nat
<1>1. access_granted \in Seq(Grant)
      /\ \A j \in KeyId : Pending(j) \in Seq(Request)
  BY ManagerTypes, EmptySeq DEF Pending, Entry
<1> QED
  BY <1>1, LenProperties

(* A queue changes in one of these ways only.                              *)
LEMMA QueueEffect ==
  ASSUME Server!AM!TypeOK, EntriesOK, NEW m \in RequestMessage,
         Server!CallManager(m)
  PROVE  \/ QueuesStay
         \/ Queues(m)
         \/ /\ Released(m)
            /\ \E h \in ProcId : \E n \in Nat :
                 /\ Wakes(m.key, h, n)
                 /\ n = 0 \/ h = key_states[m.key].creator
<1>0. /\ m.key \in KeyId /\ m.proc \in ProcId
      /\ key_states \in [KeyId -> Entry \cup {NoEntry}]
      /\ key_states[m.key] # NoEntry =>
           key_states[m.key] \in Entry /\ EntryInv(key_states[m.key])
  BY ManagerTypes DEF RequestMessage, EntriesOK
<1>1. ASSUME NEW e, Stored(m.key, e)
      PROVE  /\ Pending(m.key)' = IF e = NoEntry THEN <<>> ELSE e.pending
             /\ \A j \in KeyId \ {m.key} : Pending(j)' = Pending(j)
  <2>1. /\ key_states'[m.key] = e
        /\ \A j \in KeyId \ {m.key} : key_states'[j] = key_states[j]
    BY <1>0, <1>1 DEF Stored
  <2> QED
    BY <2>1 DEF Pending
<1>2. CASE Refused
  BY <1>2 DEF Refused, QueuesStay, Pending
<1>3. CASE Created(m)
  <2>1. Pending(m.key)' = <<>>
    BY <1>1, <1>3 DEF Created, NewKeyState
  <2>2. Pending(m.key) = <<>>
    BY <1>3 DEF Created, Pending
  <2> QED
    BY <1>1, <1>3, <2>1, <2>2 DEF Created, QueuesStay
<1>4. CASE Deleted(m)
  <2>1. Pending(m.key)' = <<>>
    BY <1>1, <1>4 DEF Deleted
  <2>2. Pending(m.key) = <<>>
    BY <1>0, <1>4 DEF Deleted, Pending, EntryInv
  <2> QED
    BY <1>1, <1>4, <2>1, <2>2 DEF Deleted, QueuesStay
<1>5. CASE PutInQueue(m)
  <2> DEFINE e == Enqueue(key_states[m.key], m.proc, m.type)
  <2>1. e \in Entry /\ e # NoEntry
    BY <1>0, <1>5, EnqueueKeepsInv, NoEntryAssumption DEF PutInQueue
  <2>2. e.pending = Append(Pending(m.key),
                           [proc |-> m.proc, type |-> m.type])
    BY <1>0, <1>5 DEF PutInQueue, Enqueue, Entry, Pending
  <2> HIDE DEF e
  <2>3. Stored(m.key, e)
    BY <1>5 DEF PutInQueue, e
  <2> QED
    BY <1>1, <1>5, <2>1, <2>2, <2>3 DEF PutInQueue, Queues
<1>6. CASE ReadAtOnce(m)
  <2> DEFINE e == RegisterReader(key_states[m.key], m.proc)
  <2>1. e \in Entry /\ e # NoEntry /\ e.pending = Pending(m.key)
    BY <1>0, <1>6, RegisterReaderKeepsInv, NoEntryAssumption
    DEF ReadAtOnce, RegisterReader, Entry, Pending
  <2> HIDE DEF e
  <2>2. Stored(m.key, e)
    BY <1>6 DEF ReadAtOnce, e
  <2> QED
    BY <1>1, <1>6, <2>1, <2>2 DEF ReadAtOnce, QueuesStay
<1>7. CASE WriteAtOnce(m)
  <2> DEFINE e == RegisterWriter(key_states[m.key], m.proc)
  <2>1. e \in Entry /\ e # NoEntry /\ e.pending = Pending(m.key)
    BY <1>0, <1>7, RegisterWriterKeepsInv, NoEntryAssumption
    DEF WriteAtOnce, RegisterWriter, Entry, Pending
  <2> HIDE DEF e
  <2>2. Stored(m.key, e)
    BY <1>7 DEF WriteAtOnce, e
  <2> QED
    BY <1>1, <1>7, <2>1, <2>2 DEF WriteAtOnce, QueuesStay
<1>8. CASE Released(m)
  <2> DEFINE ks == key_states[m.key]
             r == AfterRelease(ks, m.proc)
             q == Pending(m.key)
  <2>1. PICK h \in ProcId, n \in 0 .. Len(ks.pending) :
          LET g == GrantsOnRelease(ks, m.proc, m.key, h)
          IN  /\ g \in Seq(Grant)
              /\ access_granted' = access_granted \o g
              /\ h = ks.creator \/ g = <<>>
              /\ r \in Entry
              /\ Serves(ks, m.proc, m.key, h, n)
    BY <1>8, ReleaseServes
  <2> DEFINE g == GrantsOnRelease(ks, m.proc, m.key, h)
  <2>2. q = ks.pending /\ q \in Seq(Request) /\ n \in 0 .. Len(q) /\ n \in Nat
    BY <1>0, <1>8, <2>1, SequenceTypes DEF Released, Pending
  <2>3. /\ r.pending = SubSeq(q, n + 1, Len(q)) /\ Len(g) = n
        /\ \A i \in 1 .. n :
             g[i] = [proc |-> q[i].proc, key |-> m.key, type |-> q[i].type,
                     holder |-> h]
    BY <2>1, <2>2 DEF Serves
  <2>4. Stored(m.key, r) /\ r # NoEntry
    BY <1>8, <2>1, NoEntryAssumption DEF Released
  <2>5. /\ g \in Seq(Grant) /\ access_granted' = access_granted \o g
        /\ h = ks.creator \/ g = <<>>
    BY <2>1
  <2> HIDE DEF g, q, r, ks
  <2>6. /\ Pending(m.key)' = SubSeq(q, n + 1, Len(q))
        /\ \A j \in KeyId \ {m.key} : Pending(j)' = Pending(j)
    BY <1>1, <2>3, <2>4
  <2>7. Cut(Pending(m.key)', q, n)
    BY <2>2, <2>6, SuffixElements DEF Cut
  <2>8. access_granted \in Seq(Grant) /\ Len(access_granted) \in Nat
    BY SequenceTypes
  <2>9. /\ Len(access_granted') = Len(access_granted) + n
        /\ \A i \in 1 .. Len(access_granted') : access_granted'[i] =
             IF i <= Len(access_granted) THEN access_granted[i]
             ELSE [proc |-> q[i - Len(access_granted)].proc, key |-> m.key,
                   type |-> q[i - Len(access_granted)].type, holder |-> h]
    <3> DEFINE s == access_granted
    <3>1. s \in Seq(Grant) /\ g \in Seq(Grant) /\ access_granted' = s \o g
          /\ Len(s) \in Nat /\ n \in Nat /\ Len(g) = n
      BY <2>2, <2>3, <2>5, <2>8
    <3> HIDE DEF s
    <3>2. /\ Len(s \o g) = Len(s) + n
          /\ \A i \in 1 .. Len(s) + n :
               (s \o g)[i] = IF i <= Len(s) THEN s[i] ELSE g[i - Len(s)]
      BY <3>1, ConcatProperties
    <3>3. \A i \in 1 .. Len(s) + n : ~ (i <= Len(s)) => i - Len(s) \in 1 .. n
      BY <3>1
    <3> QED
      BY <2>3, <3>1, <3>2, <3>3 DEF s
  <2>10. n = 0 \/ h = ks.creator
    BY <2>3, <2>5, EmptySeq
  <2>11. Wakes(m.key, h, n)
    BY <2>2, <2>6, <2>7, <2>9 DEF Wakes, q
  <2> QED
    BY <1>8, <2>2, <2>10, <2>11 DEF ks
<1> QED
  BY <1>2, <1>3, <1>4, <1>5, <1>6, <1>7, <1>8, CallGoes

(* Serving the front of the queue of a key appends it to the channel.      *)
LEMMA WakesJoins ==
  ASSUME NEW k, NEW h, NEW n, Wakes(k, h, n)
  PROVE  Joins(access_granted', access_granted, Pending(k), n)
BY DEF Wakes, Joins

(* A process that waits for nothing is not put in a queue and not granted  *)
(* anything by the calls of others, nor by its own that is not queued.     *)
LEMMA NoneStays ==
  ASSUME Server!AM!TypeOK, EntriesOK, NEW m \in RequestMessage,
         Server!CallManager(m), NEW p \in ProcId,
         NoneQueued(p), NoneGranted(p),
         m.proc = p => reply'.res # "RequestAccess"
  PROVE  NoneQueued(p)' /\ NoneGranted(p)'
<1>0. m.key \in KeyId
  BY DEF RequestMessage
<1>1. CASE QueuesStay
  BY <1>1 DEF QueuesStay, NoneQueued, NoneGranted
<1>2. CASE Queues(m)
  <2> DEFINE r == [proc |-> m.proc, type |-> m.type]
  <2>1. r.proc # p /\ r \in Request /\ Pending(m.key) \in Seq(Request)
    BY <1>0, <1>2, SequenceTypes DEF Queues, Request, RequestMessage
  <2>2. NoneIn(Pending(m.key), p)
    BY <1>0 DEF NoneQueued
  <2> HIDE DEF r
  <2>3. NoneIn(Append(Pending(m.key), r), p)
    BY <2>1, <2>2, AppendOther
  <2> QED
    BY <1>2, <2>3 DEF Queues, NoneQueued, NoneGranted, r
<1>3. ASSUME NEW h \in ProcId, NEW n \in Nat, Wakes(m.key, h, n)
      PROVE  NoneQueued(p)' /\ NoneGranted(p)'
  <2>1. /\ NoneIn(Pending(m.key), p) /\ NoneIn(access_granted, p)
        /\ Len(Pending(m.key)) \in Nat /\ Len(access_granted) \in Nat
    BY <1>0, SequenceTypes DEF NoneQueued, NoneGranted
  <2>2. /\ n <= Len(Pending(m.key))
        /\ Cut(Pending(m.key)', Pending(m.key), n)
        /\ \A j \in KeyId \ {m.key} : Pending(j)' = Pending(j)
    BY <1>3, <2>1 DEF Wakes
  <2>3. NoneIn(Pending(m.key)', p)
    BY <2>1, <2>2, CutNone
  <2>4. NoneIn(access_granted', p)
    BY <1>3, <2>1, <2>2, WakesJoins, JoinNone
  <2> QED
    BY <2>2, <2>3, <2>4 DEF NoneQueued, NoneGranted
<1> QED
  BY <1>1, <1>2, <1>3, QueueEffect

(* ... and one that waits for its grant to be delivered keeps it.          *)
LEMMA GrantedStays ==
  ASSUME Server!AM!TypeOK, EntriesOK, NEW m \in RequestMessage,
         Server!CallManager(m), NEW p \in ProcId, m.proc # p,
         NoneQueued(p), GrantedOnce(p)
  PROVE  NoneQueued(p)' /\ GrantedOnce(p)'
<1>0. m.key \in KeyId
  BY DEF RequestMessage
<1>1. CASE QueuesStay
  BY <1>1 DEF QueuesStay, NoneQueued, GrantedOnce
<1>2. CASE Queues(m)
  <2> DEFINE r == [proc |-> m.proc, type |-> m.type]
  <2>1. r.proc # p /\ r \in Request /\ Pending(m.key) \in Seq(Request)
    BY <1>0, <1>2, SequenceTypes DEF Queues, Request, RequestMessage
  <2>2. NoneIn(Pending(m.key), p)
    BY <1>0 DEF NoneQueued
  <2> HIDE DEF r
  <2>3. NoneIn(Append(Pending(m.key), r), p)
    BY <2>1, <2>2, AppendOther
  <2> QED
    BY <1>2, <2>3 DEF Queues, NoneQueued, GrantedOnce, r
<1>3. ASSUME NEW h \in ProcId, NEW n \in Nat, Wakes(m.key, h, n)
      PROVE  NoneQueued(p)' /\ GrantedOnce(p)'
  <2>1. /\ NoneIn(Pending(m.key), p) /\ Once(access_granted, p)
        /\ Len(Pending(m.key)) \in Nat /\ Len(access_granted) \in Nat
    BY <1>0, SequenceTypes DEF NoneQueued, GrantedOnce
  <2>2. /\ n <= Len(Pending(m.key))
        /\ Cut(Pending(m.key)', Pending(m.key), n)
        /\ \A j \in KeyId \ {m.key} : Pending(j)' = Pending(j)
    BY <1>3, <2>1 DEF Wakes
  <2>3. NoneIn(Pending(m.key)', p)
    BY <2>1, <2>2, CutNone
  <2>4. Once(access_granted', p)
    BY <1>3, <2>1, <2>2, WakesJoins, JoinOnce
  <2> QED
    BY <2>2, <2>3, <2>4 DEF NoneQueued, GrantedOnce
<1> QED
  BY <1>1, <1>2, <1>3, QueueEffect

(* A process in a queue stays there, once, or becomes the one grant.       *)
LEMMA QueuedStays ==
  ASSUME Server!AM!TypeOK, EntriesOK, NEW m \in RequestMessage,
         Server!CallManager(m), NEW p \in ProcId, m.proc # p,
         NEW k \in KeyId, Once(Pending(k), p), NoneGranted(p),
         \A j \in KeyId \ {k} : NoneIn(Pending(j), p)
  PROVE  \/ Once(Pending(k)', p) /\ NoneGranted(p)'
         \/ NoneQueued(p)' /\ GrantedOnce(p)'
<1>0. /\ m.key \in KeyId /\ NoneIn(access_granted, p)
      /\ Pending(k) \in Seq(Request) /\ Len(Pending(k)) \in Nat
      /\ Len(Pending(m.key)) \in Nat /\ Len(access_granted) \in Nat
  BY SequenceTypes DEF RequestMessage, NoneGranted
<1>1. CASE QueuesStay
  BY <1>0, <1>1 DEF QueuesStay, NoneGranted
<1>2. CASE Queues(m)
  <2> DEFINE r == [proc |-> m.proc, type |-> m.type]
  <2>1. r.proc # p /\ r \in Request
    BY <1>2 DEF Queues, Request, RequestMessage
  <2> HIDE DEF r
  <2>2. Once(Append(Pending(k), r), p)
    BY <1>0, <2>1, AppendOther
  <2>3. Pending(k)' = Pending(k) \/ Pending(k)' = Append(Pending(k), r)
    BY <1>0, <1>2 DEF Queues, r
  <2>4. NoneGranted(p)'
    BY <1>2 DEF Queues, NoneGranted
  <2> QED
    BY <2>2, <2>3, <2>4
<1>3. ASSUME NEW h \in ProcId, NEW n \in Nat, Wakes(m.key, h, n)
      PROVE  \/ Once(Pending(k)', p) /\ NoneGranted(p)'
             \/ NoneQueued(p)' /\ GrantedOnce(p)'
  <2>0. Joins(access_granted', access_granted, Pending(m.key), n)
    BY <1>3, WakesJoins
  <2>1. /\ n <= Len(Pending(m.key))
        /\ Cut(Pending(m.key)', Pending(m.key), n)
        /\ \A j \in KeyId \ {m.key} : Pending(j)' = Pending(j)
        /\ Joins(access_granted', access_granted, Pending(m.key), n)
    BY <1>0, <1>3, <2>0 DEF Wakes
  <2>2. \A j \in KeyId \ {k, m.key} : NoneIn(Pending(j)', p)
    BY <2>1
  <2>3. CASE m.key # k
    <3>1. NoneIn(Pending(m.key), p)
      BY <1>0, <2>3
    <3>2. NoneIn(access_granted', p)
      BY <1>0, <2>1, <3>1, JoinNone
    <3>3. Pending(k)' = Pending(k)
      BY <2>1, <2>3
    <3> QED
      BY <3>2, <3>3 DEF NoneGranted
  <2>4. CASE m.key = k
    <3>1. \/ Once(Pending(k)', p) /\ NoneIn(access_granted', p)
          \/ NoneIn(Pending(k)', p) /\ Once(access_granted', p)
      BY <1>0, <2>1, <2>4, CutOrJoin
    <3>2. NoneIn(Pending(k)', p) => NoneQueued(p)'
      BY <2>2, <2>4 DEF NoneQueued
    <3> QED
      BY <3>1, <3>2 DEF NoneGranted, GrantedOnce
  <2> QED
    BY <2>3, <2>4
<1> QED
  BY <1>1, <1>2, <1>3, QueueEffect

----------------------------------------------------------------------------
(* WHAT A CALL OF THE MANAGER DOES TO THE ACCESSES REGISTERED *)

(* Whoever a call registers has made it, or is granted the access in it.   *)
LEMMA RegisteredHow ==
  ASSUME Server!AM!TypeOK, EntriesOK, NEW m \in RequestMessage,
         Server!CallManager(m), NEW p \in ProcId, NEW a \in Access,
         Registered(p, a)', ~ Registered(p, a)
  PROVE  \/ m.proc = p /\ AccessOf(m) = a /\ reply'.res = "Ok"
         \/ \E i \in 1 .. Len(access_granted') :
              /\ access_granted'[i].proc = p
              /\ access_granted'[i].key = a.key
              /\ access_granted'[i].type = a.type
<1>0. /\ a.key \in KeyId /\ m.key \in KeyId /\ m.proc \in ProcId
      /\ a.type \in AccessType /\ a = [key |-> a.key, type |-> a.type]
      /\ key_states \in [KeyId -> Entry \cup {NoEntry}]
      /\ key_states[m.key] # NoEntry =>
           key_states[m.key] \in Entry /\ EntryInv(key_states[m.key])
  BY ManagerTypes DEF RequestMessage, Access, EntriesOK
<1>1. m.key = a.key
  <2>1. m.key # a.key => key_states'[a.key] = key_states[a.key]
    BY <1>0, CallGoes
    DEF Refused, Created, Deleted, PutInQueue, ReadAtOnce, WriteAtOnce,
        Released, Stored
  <2> QED
    BY <2>1 DEF Registered
<1> DEFINE ks == key_states[m.key]
<1>2. /\ \A e : Stored(m.key, e) => key_states'[a.key] = e
      /\ key_states'[a.key] # NoEntry
      /\ IF a.type = "Write" THEN key_states'[a.key].writer = p
                             ELSE p \in key_states'[a.key].readers
      /\ ks # NoEntry => ~ (IF a.type = "Write" THEN ks.writer = p
                                                ELSE p \in ks.readers)
  BY <1>0, <1>1 DEF Stored, Registered
<1>3. CASE Refused
  BY <1>3 DEF Refused, Registered
<1>4. CASE Created(m)
  BY <1>2, <1>4, NoProcAssumption DEF Created, NewKeyState
<1>5. CASE Deleted(m)
  BY <1>2, <1>5 DEF Deleted
<1>6. CASE PutInQueue(m)
  BY <1>0, <1>2, <1>6 DEF PutInQueue, Enqueue, Entry
<1>7. CASE ReadAtOnce(m)
  BY <1>0, <1>1, <1>2, <1>7
  DEF ReadAtOnce, RegisterReader, Entry, AccessOf, AccessType
<1>8. CASE WriteAtOnce(m)
  BY <1>0, <1>1, <1>2, <1>8
  DEF WriteAtOnce, RegisterWriter, Entry, AccessOf, AccessType
<1>9. CASE Released(m)
  <2> DEFINE r == AfterRelease(ks, m.proc)
             q == ks.pending
             s == access_granted
  <2>1. PICK h \in ProcId, n \in 0 .. Len(ks.pending) :
          LET g == GrantsOnRelease(ks, m.proc, m.key, h)
          IN  /\ g \in Seq(Grant)
              /\ access_granted' = access_granted \o g
              /\ r \in Entry /\ EntryInv(r)
              /\ Serves(ks, m.proc, m.key, h, n)
    BY <1>9, ReleaseServes
  <2> DEFINE g == GrantsOnRelease(ks, m.proc, m.key, h)
  <2>2. /\ g \in Seq(Grant) /\ access_granted' = s \o g /\ Len(g) = n
        /\ s \in Seq(Grant) /\ Len(s) \in Nat
        /\ EntryInv(r) /\ q \in Seq(Request) /\ Len(q) \in Nat
        /\ n \in 0 .. Len(q)
    BY <1>0, <1>9, <2>1, SequenceTypes, LenProperties
    DEF Serves, Released, Entry
  <2>3. key_states'[a.key] = r
    BY <1>2, <1>9 DEF Released
  <2>4. /\ r.writer = p => ks.writer = p \/ \E i \in 1 .. n : q[i].proc = p
        /\ p \in r.readers =>
             p \in ks.readers \/ \E i \in 1 .. n : q[i].proc = p
        /\ \A i \in 1 .. n :
             /\ g[i] = [proc |-> q[i].proc, key |-> m.key,
                        type |-> q[i].type, holder |-> h]
             /\ IF q[i].type = "Write" THEN r.writer = q[i].proc
                                       ELSE q[i].proc \in r.readers
    BY <2>1 DEF Serves
  <2>5. ks # NoEntry
    BY <1>9 DEF Released
  <2> HIDE DEF g, r, q, s, ks
  <2>6. PICK i \in 1 .. n : q[i].proc = p
    BY <1>2, <2>3, <2>4, <2>5
  <2>7. q[i].type = a.type
    <3>1. q[i].type \in AccessType
      <4>1. i \in 1 .. Len(q)
        BY <2>2, <2>6
      <4>2. q[i] \in Request
        BY <2>2, <4>1, ElementOfSeq
      <4> QED
        BY <4>2 DEF Request
    <3> QED
      BY <1>0, <1>2, <2>2, <2>3, <2>4, <2>6, <3>1, NoProcAssumption
      DEF EntryInv, AccessType
  <2>8. g[i].proc = p /\ g[i].key = a.key /\ g[i].type = a.type
    <3>1. g[i] = [proc |-> q[i].proc, key |-> m.key, type |-> q[i].type,
                  holder |-> h]
      BY <2>4, <2>6
    <3>2. g[i].proc = q[i].proc /\ g[i].key = m.key /\ g[i].type = q[i].type
      BY <3>1
    <3> QED
      BY <1>1, <2>6, <2>7, <3>2
  <2>9. /\ Len(s) + i \in 1 .. Len(access_granted')
        /\ access_granted'[Len(s) + i] = g[i]
    <3>1. /\ Len(s \o g) = Len(s) + Len(g)
          /\ \A j \in 1 .. Len(s) + Len(g) :
               (s \o g)[j] = IF j <= Len(s) THEN s[j] ELSE g[j - Len(s)]
      BY <2>2, ConcatProperties
    <3>2. Len(s) + i \in 1 .. Len(s) + Len(g) /\ ~ (Len(s) + i <= Len(s))
          /\ (Len(s) + i) - Len(s) = i
      BY <2>2
    <3> QED
      BY <2>2, <3>1, <3>2
  <2> QED
    BY <2>8, <2>9
<1> QED
  BY <1>3, <1>4, <1>5, <1>6, <1>7, <1>8, <1>9, CallGoes

(* A release by a process that has the key, and waits for no access to it, *)
(* is carried out, and then the process has it no more.                    *)
LEMMA ReleaseEnds ==
  ASSUME Server!AM!TypeOK, EntriesOK, NEW m \in RequestMessage,
         Server!CallManager(m), m.type = "Release", NEW a \in Access,
         a.key = m.key, Registered(m.proc, a), NoneIn(Pending(m.key), m.proc)
  PROVE  ~ Registered(m.proc, a)'
<1> DEFINE p == m.proc
           ks == key_states[m.key]
           r == AfterRelease(ks, p)
<1>0. /\ m.key \in KeyId /\ p \in ProcId
      /\ key_states \in [KeyId -> Entry \cup {NoEntry}]
      /\ ks # NoEntry /\ ks \in Entry /\ Holds(ks, p)
      /\ Pending(m.key) = ks.pending
  BY ManagerTypes DEF RequestMessage, Registered, Holds, Pending
<1>1. Released(m)
  <2>1. Server!AM!Release(m.proc, m.key)
    BY DEF Server!CallManager
  <2>2. Server!AM!ReleaseHeld(m.proc, m.key)
    BY <1>0, <2>1, SameOperators DEF Server!AM!Release, Server!AM!Exists
  <2>3. \E h \in WakeHolders(key_states[m.key], m.proc) :
          access_granted' = access_granted
            \o GrantsOnRelease(key_states[m.key], m.proc, m.key, h)
    BY <2>2, SameOperators, Zenon DEF Server!AM!ReleaseHeld
  <2> QED
    BY <1>0, <2>2, <2>3, SameOperators
    DEF Server!AM!ReleaseHeld, Server!AM!SetEntry, Server!AM!Return,
        Released, Stored
<1>2. PICK h \in ProcId, n \in 0 .. Len(ks.pending) :
        Serves(ks, p, m.key, h, n)
  BY <1>1, ReleaseServes
<1>3. /\ \A i \in 1 .. n : ks.pending[i].proc # p
      /\ r.writer = p => \E i \in 1 .. n : ks.pending[i].proc = p
      /\ p \in r.readers => \E i \in 1 .. n : ks.pending[i].proc = p
  <2>1. Len(ks.pending) \in Nat
    BY <1>0, SequenceTypes
  <2>2. \A i \in 1 .. n : ks.pending[i].proc # p
    BY <1>0, <1>2, <2>1 DEF NoneIn
  <2> QED
    BY <1>0, <1>2, <2>2 DEF Serves
<1>4. key_states'[m.key] = r
  BY <1>0, <1>1 DEF Released, Stored
<1> HIDE DEF r
<1> QED
  BY <1>3, <1>4 DEF Registered

(* The creator of an entry is the process that created it, then and after. *)
LEMMA CreatorsAre ==
  ASSUME Server!AM!TypeOK, EntriesOK, NEW m \in RequestMessage,
         Server!CallManager(m), NEW k \in KeyId, key_states'[k] # NoEntry
  PROVE  \/ k = m.key /\ key_states'[k].creator = m.proc
         \/ /\ key_states[k] # NoEntry
            /\ key_states'[k].creator = key_states[k].creator
<1>0. /\ m.key \in KeyId /\ m.proc \in ProcId
      /\ key_states \in [KeyId -> Entry \cup {NoEntry}]
      /\ key_states[m.key] # NoEntry =>
           key_states[m.key] \in Entry /\ EntryInv(key_states[m.key])
  BY ManagerTypes DEF RequestMessage, EntriesOK
<1>1. CASE k # m.key
  <2>1. key_states'[k] = key_states[k]
    BY <1>0, <1>1, CallGoes
    DEF Refused, Created, Deleted, PutInQueue, ReadAtOnce, WriteAtOnce,
        Released, Stored
  <2> QED
    BY <2>1
<1>2. CASE k = m.key
  <2> DEFINE ks == key_states[m.key]
  <2>1. \A e : Stored(m.key, e) => key_states'[k] = e
    BY <1>0, <1>2 DEF Stored
  <2>2. CASE Refused
    BY <2>2 DEF Refused
  <2>3. CASE Created(m)
    BY <1>2, <2>1, <2>3 DEF Created, NewKeyState
  <2>4. CASE Deleted(m)
    BY <2>1, <2>4 DEF Deleted
  <2>5. CASE PutInQueue(m)
    BY <1>0, <1>2, <2>1, <2>5 DEF PutInQueue, Enqueue, Entry
  <2>6. CASE ReadAtOnce(m)
    BY <1>0, <1>2, <2>1, <2>6 DEF ReadAtOnce, RegisterReader, Entry
  <2>7. CASE WriteAtOnce(m)
    BY <1>0, <1>2, <2>1, <2>7 DEF WriteAtOnce, RegisterWriter, Entry
  <2>8. CASE Released(m)
    <3>1. AfterRelease(ks, m.proc).creator = ks.creator
      BY <2>8, ReleaseServes
    <3> QED
      BY <1>2, <2>1, <2>8, <3>1 DEF Released
  <2> QED
    BY <2>2, <2>3, <2>4, <2>5, <2>6, <2>7, <2>8, CallGoes
<1> QED
  BY <1>1, <1>2

----------------------------------------------------------------------------
(* ONE REQUEST IS HANDLED *)

(* What is known of a client in a call.                                    *)
LEMMA ThreadOfCall ==
  ASSUME FInv, NEW p \in ProcId, InCall(p)
  PROVE  /\ call[p] \in Call /\ call[p].kind = "sync" /\ p \in issued
         /\ Thread(p, call[p].type, call[p].key)
<1>1. /\ call[p] \in Call
      /\ \E t \in RequestType, k \in KeyId \cup {NoKey} : Thread(p, t, k)
  BY StateTypes DEF FInv, RInv, Typed, OneThread, InCall
<1>2. Thread(p, call[p].type, call[p].key)
  BY <1>1 DEF Thread, CallIs
<1> QED
  BY <1>1, <1>2 DEF FInv, SyncCalls, Connected

(* A request of one client leaves the calls of the others where they are,  *)
(* but for those it grants an access to.                                   *)
LEMMA OthersStay ==
  ASSUME FInv, NEW q \in ProcId, NEW m \in RequestMessage, NEW x,
         m.proc = q, RequestHandled(q, m, x), NEW p \in ProcId, p # q
  PROVE  /\ Idle(p) => Idle(p)'
         /\ Sent(p) => Sent(p)'
         /\ Answered(p) => Answered(p)'
         /\ Waiting(p) => Waiting(p)' \/ Granted(p)'
         /\ Granted(p) => Granted(p)'
         /\ Delivered(p) => Delivered(p)'
<1>0. /\ TypeOK /\ Server!AM!TypeOK /\ EntriesOK /\ Server!CallManager(m)
      /\ to_server \in [ProcId -> Seq(RequestMessage \cup {StopRequest})]
      /\ to_client \in [ProcId -> Seq(ResponseMessage)]
      /\ Deliver(q, x) /\ x \in ResponseMessage
  BY StateTypes DEF FInv, RInv, Typed, RequestHandled
<1>1. /\ to_server'[p] = to_server[p] /\ to_client'[p] = to_client[p]
      /\ call'[p] = call[p]
  BY <1>0, DeliverType DEF RequestHandled, client
<1>2. NoneQueued(p) /\ NoneGranted(p) => NoneQueued(p)' /\ NoneGranted(p)'
  BY <1>0, NoneStays
<1>3. \A n : Told(p, n) => Told(p, n)'
  BY <1>1 DEF Told, InCall
<1>4. Idle(p) => Idle(p)'
  BY <1>1, <1>2 DEF Idle, InCall
<1>5. Sent(p) => Sent(p)'
  BY <1>1, <1>2 DEF Sent, InCall
<1>6. Answered(p) => Answered(p)'
  BY <1>1, <1>2 DEF Answered, InCall
<1>7. Delivered(p) => Delivered(p)'
  BY <1>1, <1>2, <1>3 DEF Delivered, GivesAccess
<1>8. Granted(p) => Granted(p)'
  BY <1>0, <1>3, GrantedStays DEF Granted
<1>9. ASSUME Waiting(p)
      PROVE  Waiting(p)' \/ Granted(p)'
  <2>1. InCall(p) /\ Told(p, 0)' /\ Once(Pending(call[p].key), p)
        /\ NoneGranted(p)
    BY <1>3, <1>9 DEF Waiting, Told, QueuedOnce
  <2>2. call[p].key \in KeyId /\ QueuedAre(p, call[p].type, call[p].key)
    BY <2>1, ThreadOfCall DEF Call, Thread
  <2>3. \A j \in KeyId \ {call[p].key} : NoneIn(Pending(j), p)
    BY <2>2 DEF QueuedAre, NoneIn
  <2>4. PICK k \in KeyId : k = call[p].key
    BY <2>2
  <2>5. \/ Once(Pending(k)', p) /\ NoneGranted(p)'
        \/ NoneQueued(p)' /\ GrantedOnce(p)'
    BY <1>0, <2>1, <2>3, <2>4, QueuedStays
  <2>6. call'[p].key = k
    BY <1>1, <2>4
  <2>7. Once(Pending(k)', p) => QueuedOnce(p)'
    BY <2>6 DEF QueuedOnce
  <2> QED
    BY <2>1, <2>5, <2>7 DEF Waiting, Granted
<1> QED
  BY <1>4, <1>5, <1>6, <1>7, <1>8, <1>9

(* The request handled is the one of the call its sender is in.            *)
LEMMA HandledIs ==
  ASSUME FInv, NEW q \in ProcId, NEW m \in RequestMessage, NEW x,
         m.proc = q, RequestHandled(q, m, x)
  PROVE  /\ Sent(q) /\ m.type = call[q].type /\ m.key = call[q].key
         /\ Len(to_server'[q]) = 0
         /\ Len(to_client'[q]) = 1 /\ to_client'[q][1] = x
<1>0. /\ TypeOK
      /\ to_server \in [ProcId -> Seq(RequestMessage \cup {StopRequest})]
      /\ to_client \in [ProcId -> Seq(ResponseMessage)]
      /\ Deliver(q, x) /\ x \in ResponseMessage /\ q \notin closed
      /\ to_server[q] # <<>> /\ m = Head(to_server[q])
      /\ to_server' = [to_server EXCEPT ![q] = Tail(@)]
  BY StateTypes DEF FInv, RInv, Typed, RequestHandled, Connected
<1>1. /\ Len(to_server[q]) \in Nat /\ Len(to_server[q]) > 0
      /\ m = to_server[q][1]
      /\ Len(to_server'[q]) = Len(to_server[q]) - 1
  <2> DEFINE s == to_server[q]
  <2>1. s \in Seq(RequestMessage \cup {StopRequest}) /\ s # <<>>
        /\ to_server'[q] = Tail(s) /\ m = Head(s)
    BY <1>0
  <2> HIDE DEF s
  <2>2. /\ Len(s) \in Nat /\ Len(s) > 0 /\ Head(s) = s[1]
        /\ Len(Tail(s)) = Len(s) - 1
    BY <2>1, HeadTailProperties, LenProperties
  <2> QED
    BY <2>1, <2>2 DEF s
<1>2. Sent(q)
  <2>1. Stage(q) /\ Len(to_server[q]) # 0
    BY <1>1 DEF FInv
  <2> QED
    BY <2>1 DEF Stage, Idle, Answered, Waiting, Granted, Delivered, Told
<1>3. m.type = call[q].type /\ m.key = call[q].key
  <2>1. RequestsAre(q, call[q].type, call[q].key)
    BY <1>2, ThreadOfCall DEF Sent, Thread
  <2> QED
    BY <1>1, <2>1 DEF RequestsAre
<1>4. Len(to_client'[q]) = 1 /\ to_client'[q][1] = x
  <2> DEFINE s == to_client[q]
  <2>1. s \in Seq(ResponseMessage) /\ Len(s) = 0 /\ to_client'[q] = Append(s, x)
    BY <1>0, <1>2, DeliverType DEF Sent
  <2> HIDE DEF s
  <2>2. Len(Append(s, x)) = Len(s) + 1 /\ Append(s, x)[Len(s) + 1] = x
    BY <1>0, <2>1, AppendProperties
  <2> QED
    BY <2>1, <2>2
<1> QED
  BY <1>1, <1>2, <1>3, <1>4 DEF Sent

(* Its sender is told to wait and queued once, or is answered.             *)
LEMMA OwnStage ==
  ASSUME FInv, NEW q \in ProcId, NEW m \in RequestMessage, NEW x,
         m.proc = q, RequestHandled(q, m, x)
  PROVE  \/ Waiting(q)' /\ reply'.res = "RequestAccess"
         \/ Answered(q)' /\ reply'.res # "RequestAccess"
<1>0. /\ TypeOK /\ Server!AM!TypeOK /\ EntriesOK /\ Server!CallManager(m)
      /\ m.key \in KeyId /\ Answers(m, x)
      /\ x = Server!ResponseTo(m, reply')
  BY StateTypes DEF FInv, RInv, Typed, RequestHandled, RequestMessage
<1>1. /\ InCall(q) /\ call[q].awaits = NoKey
      /\ NoneQueued(q) /\ NoneGranted(q) /\ call'[q] = call[q]
      /\ m.type = call[q].type /\ m.key = call[q].key
      /\ Len(to_server'[q]) = 0
      /\ Len(to_client'[q]) = 1 /\ to_client'[q][1] = x
  BY HandledIs DEF Sent, RequestHandled, client
<1>2. CASE reply'.res = "RequestAccess"
  <2>1. Queues(m)
    BY <1>0, <1>2, QueueEffect DEF QueuesStay, Released
  <2> DEFINE r == [proc |-> m.proc, type |-> m.type]
  <2>2. r.proc = q /\ r \in Request /\ Pending(m.key) \in Seq(Request)
    BY <1>0, <2>1, SequenceTypes DEF Queues, Request, RequestMessage
  <2>3. NoneIn(Pending(m.key), q)
    BY <1>0, <1>1 DEF NoneQueued
  <2> HIDE DEF r
  <2>4. Once(Append(Pending(m.key), r), q)
    BY <2>2, <2>3, AppendOwn
  <2>5. Once(Pending(m.key)', q)
    BY <2>1, <2>4 DEF Queues, r
  <2>6. NoneGranted(q)' /\ m.type \in AccessType
    BY <1>1, <2>1 DEF Queues, NoneGranted
  <2>7. x = Wait(m.key)
    <3>1. x # Error
      BY <1>0, <1>2, ResponseIs
    <3> QED
      BY <1>0, <1>2, <3>1 DEF Answers
  <2>8. Told(q, 0)'
    BY <1>1, <2>6, <2>7 DEF Told, InCall
  <2> QED
    BY <1>1, <1>2, <2>5, <2>6, <2>8 DEF Waiting, QueuedOnce
<1>3. CASE reply'.res # "RequestAccess"
  <2>1. NoneQueued(q)' /\ NoneGranted(q)'
    BY <1>0, <1>1, <1>3, NoneStays
  <2>2. x.type # "Wait"
    BY <1>0, <1>3 DEF Answers, Error, Success, Holder
  <2> QED
    BY <1>1, <1>3, <2>1, <2>2 DEF Answered, InCall
<1> QED
  BY <1>2, <1>3

(* Every call is in a stage again.                                         *)
LEMMA StagesAfterRequest ==
  ASSUME FInv, NEW q \in ProcId, NEW m \in RequestMessage, NEW x,
         m.proc = q, RequestHandled(q, m, x), NEW p \in ProcId
  PROVE  Stage(p)'
<1>1. CASE p = q
  BY <1>1, OwnStage DEF Stage
<1>2. CASE p # q
  <2>1. Stage(p)
    BY DEF FInv
  <2> QED
    BY <1>2, <2>1, OthersStay DEF Stage
<1> QED
  BY <1>1, <1>2

(* A reader granted at once is sent to a process that is connected.        *)
LEMMA HolderIsKnown ==
  ASSUME FInv, NEW m \in RequestMessage, Server!CallManager(m),
         m.proc \in token_stream_map, reply'.res = "Ok", m.type = "Read"
  PROVE  reply'.holder \in token_stream_map
<1>0. /\ Server!AM!TypeOK /\ EntriesOK /\ m.key \in KeyId
      /\ token_stream_map = issued /\ issued \in SUBSET ProcId
  BY StateTypes DEF FInv, RInv, Typed, RequestMessage, Connected
<1>1. ReadAtOnce(m)
  BY <1>0, CallGoes
  DEF Refused, Created, Deleted, PutInQueue, WriteAtOnce, Released, AccessType
<1> DEFINE ks == key_states[m.key]
<1>2. ks \in Entry /\ ks # NoEntry /\ ks.writer = NoProc
  BY <1>0, <1>1, ManagerTypes DEF ReadAtOnce, ReadMustQueue
<1>3. reply'.holder \in ks.readers \cup {m.proc}
  <2>1. /\ RegisterReader(ks, m.proc).writer = NoProc
        /\ RegisterReader(ks, m.proc).readers = ks.readers \cup {m.proc}
    BY <1>2 DEF RegisterReader, Entry
  <2> QED
    BY <1>1, <2>1 DEF ReadAtOnce, HolderChoices
<1>4. ASSUME NEW u \in ks.readers
      PROVE  u \in issued
  <2>1. u \in ProcId /\ [key |-> m.key, type |-> "Read"] \in Access
    BY <1>0, <1>2 DEF Entry, Access, AccessType
  <2>2. Registered(u, [key |-> m.key, type |-> "Read"])
    BY <1>2 DEF Registered
  <2>3. held[u] # {} \/ InCall(u)
    BY <2>1, <2>2 DEF FInv, Accounted, OnTheWay
  <2> QED
    BY <2>1, <2>3 DEF FInv, Connected
<1> QED
  BY <1>0, <1>3, <1>4

(* What the sender has just been registered for is in its answer.          *)
LEMMA AnswerGives ==
  ASSUME FInv, NEW q \in ProcId, NEW m \in RequestMessage, NEW x,
         m.proc = q, RequestHandled(q, m, x),
         m.type \in AccessType, reply'.res = "Ok"
  PROVE  OnTheWay(q, AccessOf(m))'
<1>0. /\ TypeOK /\ EntriesOK /\ Server!CallManager(m) /\ Answers(m, x)
      /\ x = Server!ResponseTo(m, reply') /\ q \in token_stream_map
  BY DEF FInv, RInv, Typed, RequestHandled
<1>1. /\ m.type = call'[q].type /\ m.key = call'[q].key
      /\ to_client'[q][1] = x
  BY HandledIs DEF RequestHandled, client
<1>2. Answered(q)'
  BY OwnStage
<1>3. x # Error
  <2>1. ~ (m.type = "Read" /\ reply'.holder \notin token_stream_map)
    BY <1>0, HolderIsKnown
  <2> QED
    BY <1>0, <2>1, ResponseIs
<1>4. /\ x.type = IF m.type = "Read" THEN "Holder" ELSE "Success"
      /\ x.key = m.key
  BY <1>0, <1>3 DEF Answers, Success, Holder, AccessType
<1>5. GivesAccess(q, to_client[q][1])'
  BY <1>1, <1>4 DEF GivesAccess
<1> QED
  BY <1>1, <1>2, <1>5 DEF OnTheWay, AccessOf, Answered, InCall

(* Every registered access is accounted for again.                         *)
LEMMA AccountedAfterRequest ==
  ASSUME FInv, RInv', NEW q \in ProcId, NEW m \in RequestMessage, NEW x,
         m.proc = q, RequestHandled(q, m, x), NEW p \in ProcId
  PROVE  Accounted(p)'
<1> SUFFICES ASSUME NEW a \in Access, Registered(p, a)'
             PROVE  a \in held'[p] \/ OnTheWay(p, a)'
  BY DEF Accounted
<1>0. /\ TypeOK /\ Server!AM!TypeOK /\ EntriesOK /\ Server!CallManager(m)
      /\ to_server \in [ProcId -> Seq(RequestMessage \cup {StopRequest})]
      /\ to_client \in [ProcId -> Seq(ResponseMessage)]
      /\ Deliver(q, x) /\ x \in ResponseMessage
      /\ call' = call /\ held' = held /\ overlapped' = {}
  BY StateTypes DEF FInv, RInv, Typed, RequestHandled, client
<1>1. CASE Registered(p, a)
  <2>1. a \in held[p] \/ OnTheWay(p, a)
    BY <1>1 DEF FInv, Accounted
  <2>2. CASE a \in held[p]
    BY <1>0, <2>2
  <2>3. CASE OnTheWay(p, a) /\ p # q
    <3>1. to_server'[p] = to_server[p] /\ to_client'[p] = to_client[p]
      BY <1>0, <2>3, DeliverType DEF RequestHandled
    <3>2. /\ Answered(p) => Answered(p)'
          /\ Granted(p) => Granted(p)'
          /\ Delivered(p) => Delivered(p)'
      BY <2>3, OthersStay
    <3>3. GivesAccess(p, to_client[p][1]) => GivesAccess(p, to_client[p][1])'
      BY <1>0, <3>1 DEF GivesAccess
    <3>4. InCall(p)' /\ call'[p] = call[p]
      BY <1>0, <2>3 DEF OnTheWay, InCall
    <3> QED
      BY <2>3, <3>1, <3>2, <3>3, <3>4 DEF OnTheWay
  <2>4. CASE OnTheWay(p, a) /\ p = q
    <3>1. /\ Sent(q) /\ m.type = call[q].type /\ m.key = call[q].key
          /\ m.key \in KeyId
      BY HandledIs DEF RequestMessage
    <3>2. m.type = "Release" /\ a.key = m.key
      BY <2>4, <3>1
      DEF OnTheWay, Sent, Answered, Granted, Delivered, Told
    <3>3. NoneIn(Pending(m.key), m.proc)
      BY <3>1 DEF Sent, NoneQueued
    <3>4. ~ Registered(p, a)'
      BY <1>0, <1>1, <2>4, <3>2, <3>3, ReleaseEnds
    <3> QED
      BY <3>4
  <2> QED
    BY <2>1, <2>2, <2>3, <2>4
<1>2. CASE ~ Registered(p, a)
  <2>1. CASE m.proc = p /\ AccessOf(m) = a /\ reply'.res = "Ok"
    <3>1. m.type \in AccessType
      BY <2>1 DEF AccessOf, Access
    <3> QED
      BY <2>1, <3>1, AnswerGives
  <2>2. ASSUME NEW i \in 1 .. Len(access_granted'),
               access_granted'[i].proc = p,
               access_granted'[i].key = a.key,
               access_granted'[i].type = a.type
        PROVE  OnTheWay(p, a)'
    <3>1. ~ NoneGranted(p)'
      BY <2>2 DEF NoneGranted, NoneIn
    <3>2. Granted(p)'
      BY <3>1, StagesAfterRequest
      DEF Stage, Idle, Sent, Answered, Waiting, Delivered
    <3>3. InCall(p)'
      BY <3>2 DEF Granted, Told
    <3>4. PICK t \in RequestType, k \in KeyId \cup {NoKey} : Thread(p, t, k)'
      BY <1>0 DEF RInv, OneThread
    <3>5. call'[p].type = t /\ call'[p].key = k
      BY <3>3, <3>4 DEF Thread, CallIs
    <3>6. a.type = t /\ a.key = k
      BY <2>2, <3>4 DEF Thread, GrantsAre
    <3> QED
      BY <3>2, <3>3, <3>5, <3>6 DEF OnTheWay
  <2> QED
    BY <1>0, <1>2, <2>1, <2>2, RegisteredHow
<1> QED
  BY <1>1, <1>2

(* The handling of a request keeps the invariant.                          *)
LEMMA RequestKeepsFInv ==
  ASSUME FInv, RInv', NEW q \in ProcId, NEW m \in RequestMessage, NEW x,
         m.proc = q, RequestHandled(q, m, x)
  PROVE  FInv'
<1>0. /\ Server!AM!TypeOK /\ EntriesOK /\ Server!CallManager(m)
      /\ q \in issued /\ m.key \in KeyId
      /\ UNCHANGED <<client, token_stream_map, issued, closed, timeouts,
                     overlapped>>
  BY StateTypes
  DEF FInv, RInv, Typed, Connected, RequestHandled, RequestMessage
<1>1. \A k \in KeyId :
        key_states'[k] # NoEntry => key_states'[k].creator \in issued
  BY <1>0, CreatorsAre DEF FInv, Connected
<1>2. ASSUME NEW i \in 1 .. Len(access_granted')
      PROVE  access_granted'[i].holder \in issued
  <2>0. \A j \in 1 .. Len(access_granted) :
          access_granted[j].holder \in issued
    BY DEF FInv, Connected
  <2>1. CASE access_granted' = access_granted
    BY <1>2, <2>0, <2>1
  <2>2. ASSUME Released(m), NEW h \in ProcId, NEW n \in Nat,
               Wakes(m.key, h, n),
               n = 0 \/ h = key_states[m.key].creator
        PROVE  access_granted'[i].holder \in issued
    <3>1. key_states[m.key].creator \in issued
      BY <1>0, <2>2 DEF FInv, Connected, Released
    <3>2. Len(access_granted) \in Nat
      BY <1>0, SequenceTypes
    <3>3. /\ Len(access_granted') = Len(access_granted) + n
          /\ i <= Len(access_granted) =>
               access_granted'[i] = access_granted[i]
          /\ ~ (i <= Len(access_granted)) => access_granted'[i].holder = h
      BY <2>2 DEF Wakes
    <3> QED
      BY <2>0, <2>2, <3>1, <3>2, <3>3
  <2> QED
    BY <1>0, <2>1, <2>2, QueueEffect DEF QueuesStay, Queues
<1>3. Connected' /\ SyncCalls' /\ overlapped' = {}
  BY <1>0, <1>1, <1>2 DEF FInv, Connected, SyncCalls, client, InCall
<1> QED
  BY <1>3, StagesAfterRequest, AccountedAfterRequest DEF FInv

----------------------------------------------------------------------------
(* ONE GRANT IS DELIVERED *)

(* The front of a sequence is taken.                                       *)
LEMMA TailOther ==
  ASSUME NEW S, NEW s \in Seq(S), s # <<>>, NEW p, s[1].proc # p
  PROVE  /\ NoneIn(s, p) => NoneIn(Tail(s), p)
         /\ Once(s, p) => Once(Tail(s), p)
<1> DEFINE r == Tail(s)
<1>1. /\ Len(s) \in Nat /\ Len(s) > 0 /\ Len(r) = Len(s) - 1
      /\ \A i \in 1 .. Len(r) : r[i] = s[i + 1] /\ i + 1 \in 1 .. Len(s)
  BY HeadTailProperties, LenProperties
<1> HIDE DEF r
<1>2. NoneIn(s, p) => NoneIn(r, p)
  BY <1>1 DEF NoneIn
<1>3. ASSUME Once(s, p)
      PROVE  Once(r, p)
  <2>1. PICK i \in 1 .. Len(s) :
          s[i].proc = p /\ \A j \in 1 .. Len(s) : s[j].proc = p => j = i
    BY <1>3 DEF Once
  <2>2. i - 1 \in 1 .. Len(r) /\ (i - 1) + 1 = i
    BY <1>1, <2>1
  <2>3. r[i - 1].proc = p
    BY <1>1, <2>1, <2>2
  <2>4. ASSUME NEW j \in 1 .. Len(r), r[j].proc = p
        PROVE  j = i - 1
    <3>1. j + 1 = i
      BY <1>1, <2>1, <2>4
    <3> QED
      BY <3>1
  <2> QED
    BY <2>2, <2>3, <2>4 DEF Once
<1> QED
  BY <1>2, <1>3 DEF r

(* When the channel's only grant of a process is taken out, none is left.  *)
LEMMA TailOwn ==
  ASSUME NEW S, NEW s \in Seq(S), s # <<>>, NEW p, s[1].proc = p, Once(s, p)
  PROVE  NoneIn(Tail(s), p)
<1> DEFINE r == Tail(s)
<1>1. /\ Len(s) \in Nat /\ Len(s) > 0 /\ Len(r) = Len(s) - 1
      /\ \A i \in 1 .. Len(r) : r[i] = s[i + 1] /\ i + 1 \in 1 .. Len(s)
  BY HeadTailProperties, LenProperties
<1> HIDE DEF r
<1>2. \A j \in 1 .. Len(s) : s[j].proc = p => j = 1
  BY <1>1 DEF Once
<1>3. \A i \in 1 .. Len(r) : r[i].proc # p
  BY <1>1, <1>2
<1> QED
  BY <1>3 DEF NoneIn, r

(* The grant at the front is that of a client in the stage Granted, and it *)
(* is sent: nobody it names or is for is gone.                             *)
LEMMA GrantIsSent ==
  ASSUME FInv, NEW g \in Grant, GrantHandled(g)
  PROVE  /\ g = access_granted[1] /\ g.proc \in ProcId /\ Granted(g.proc)
         /\ g.key = call[g.proc].key /\ g.type = call[g.proc].type
         /\ access_granted' = Tail(access_granted)
         /\ Deliver(g.proc, Server!GrantMessage(g))
<1>1. /\ TypeOK /\ access_granted \in Seq(Grant) /\ access_granted # <<>>
      /\ g = Head(access_granted) /\ g.proc \in ProcId
      /\ token_stream_map = issued /\ closed = {}
  BY StateTypes DEF FInv, RInv, Typed, GrantHandled, Grant, Connected
<1>2. g = access_granted[1] /\ 1 \in 1 .. Len(access_granted)
  <2> DEFINE s == access_granted
  <2>1. s \in Seq(Grant) /\ s # <<>> /\ g = Head(s)
    BY <1>1
  <2> HIDE DEF s
  <2>2. Head(s) = s[1] /\ 1 \in 1 .. Len(s)
    BY <2>1, HeadTailProperties, LenProperties, EmptySeq
  <2> QED
    BY <2>1, <2>2 DEF s
<1>3. Granted(g.proc)
  <2>1. ~ NoneGranted(g.proc) /\ Stage(g.proc)
    BY <1>1, <1>2 DEF NoneGranted, NoneIn, FInv
  <2> QED
    BY <2>1 DEF Stage, Idle, Sent, Answered, Waiting, Delivered
<1>4. /\ g.proc \in token_stream_map
      /\ Thread(g.proc, call[g.proc].type, call[g.proc].key)
  BY <1>1, <1>3, ThreadOfCall DEF Granted, Told
<1>5. g.key = call[g.proc].key /\ g.type = call[g.proc].type
  BY <1>2, <1>4 DEF Thread, GrantsAre
<1>6. g.holder \in token_stream_map
  BY <1>1, <1>2 DEF FInv, Connected
<1>7. ~ Server!UnknownHolder(g)
  BY <1>6 DEF Server!UnknownHolder, Server!KnownHolder
<1> QED
  BY <1>1, <1>2, <1>3, <1>4, <1>5, <1>7 DEF GrantHandled

(* The process it is for has been told then, and the others are where they *)
(* were.                                                                   *)
LEMMA GrantMovesOn ==
  ASSUME FInv, NEW g \in Grant, GrantHandled(g), NEW p \in ProcId
  PROVE  /\ p = g.proc => Delivered(p)'
         /\ p # g.proc =>
              /\ to_server'[p] = to_server[p] /\ to_client'[p] = to_client[p]
              /\ Idle(p) => Idle(p)'
              /\ Sent(p) => Sent(p)'
              /\ Answered(p) => Answered(p)'
              /\ Waiting(p) => Waiting(p)'
              /\ Granted(p) => Granted(p)'
              /\ Delivered(p) => Delivered(p)'
<1> DEFINE x == Server!GrantMessage(g)
           q == g.proc
<1>0. /\ access_granted \in Seq(Grant) /\ access_granted # <<>>
      /\ to_client \in [ProcId -> Seq(ResponseMessage)]
      /\ closed = {} /\ q \in ProcId
      /\ call' = call /\ to_server' = to_server /\ key_states' = key_states
  BY StateTypes
  DEF FInv, RInv, Typed, GrantHandled, Grant, Connected, client
<1>1. /\ g = access_granted[1] /\ Granted(q)
      /\ g.key = call[q].key /\ g.type = call[q].type
      /\ access_granted' = Tail(access_granted)
      /\ Deliver(q, x)
  BY GrantIsSent
<1>2. /\ x.type = IF g.type = "Read" THEN "Holder" ELSE "Success"
      /\ x.key = g.key /\ x \in ResponseMessage
  BY GrantMessageIs, SameMessages DEF Grant, Holder, Success
<1> HIDE DEF x, q
<1>3. /\ \A u \in ProcId \ {q} : to_client'[u] = to_client[u]
      /\ to_client'[q] = Append(to_client[q], x)
  BY <1>0, <1>1, <1>2, DeliverType
<1>4. \A u \in ProcId : NoneQueued(u) => NoneQueued(u)'
  BY <1>0 DEF NoneQueued, Pending
<1>5. CASE p = q
  <2>1. NoneGranted(p)'
    <3>1. Once(access_granted, p) /\ access_granted[1].proc = p
      BY <1>1, <1>5 DEF Granted, GrantedOnce, q
    <3> QED
      BY <1>0, <1>1, <3>1, TailOwn DEF NoneGranted
  <2>2. /\ Len(to_client[p]) \in Nat
        /\ Len(to_client'[p]) = Len(to_client[p]) + 1
        /\ to_client'[p][Len(to_client[p]) + 1] = x
        /\ \A i \in 1 .. Len(to_client[p]) :
             to_client'[p][i] = to_client[p][i]
    <3> DEFINE s == to_client[p]
    <3>1. s \in Seq(ResponseMessage) /\ to_client'[p] = Append(s, x)
      BY <1>0, <1>3, <1>5
    <3> HIDE DEF s
    <3>2. /\ Len(s) \in Nat
          /\ Len(Append(s, x)) = Len(s) + 1
          /\ Append(s, x)[Len(s) + 1] = x
          /\ \A i \in 1 .. Len(s) : Append(s, x)[i] = s[i]
      BY <1>2, <3>1, AppendProperties, LenProperties
    <3> QED
      BY <3>1, <3>2 DEF s
  <2>3. Told(p, 1)'
    <3>1. Told(p, 0) /\ call'[p] = call[p] /\ to_server'[p] = to_server[p]
      BY <1>0, <1>1, <1>5 DEF Granted
    <3>2. CASE /\ call[p].awaits = NoKey
               /\ Len(to_client[p]) = 1 + 0
               /\ to_client[p][1] = Wait(call[p].key)
      <4>1. Len(to_client'[p]) = 1 + 1 /\ to_client'[p][1] = to_client[p][1]
        BY <2>2, <3>2
      <4> QED
        BY <3>1, <3>2, <4>1 DEF Told, InCall
    <3>3. CASE call[p].awaits = call[p].key /\ Len(to_client[p]) = 0
      <4>1. Len(to_client'[p]) = 1
        BY <2>2, <3>3
      <4> QED
        BY <3>1, <3>3, <4>1 DEF Told, InCall
    <3> QED
      BY <3>1, <3>2, <3>3 DEF Told
  <2>4. GivesAccess(p, to_client[p][Len(to_client[p])])'
    BY <1>0, <1>1, <1>2, <1>5, <2>2 DEF GivesAccess
  <2>5. NoneQueued(p)'
    BY <1>1, <1>4, <1>5 DEF Granted
  <2> QED
    BY <1>5, <2>1, <2>3, <2>4, <2>5 DEF Delivered, q
<1>6. CASE p # q
  <2>1. /\ to_server'[p] = to_server[p] /\ to_client'[p] = to_client[p]
        /\ call'[p] = call[p] /\ \A j : Pending(j)' = Pending(j)
    BY <1>0, <1>3, <1>6 DEF Pending
  <2>2. access_granted[1].proc # p
    BY <1>1, <1>6 DEF q
  <2>3. /\ NoneGranted(p) => NoneGranted(p)'
        /\ GrantedOnce(p) => GrantedOnce(p)'
    BY <1>0, <1>1, <2>2, TailOther DEF NoneGranted, GrantedOnce
  <2>4. /\ \A n : Told(p, n) => Told(p, n)'
        /\ QueuedOnce(p) => QueuedOnce(p)'
    BY <2>1 DEF Told, InCall, QueuedOnce
  <2>5. Idle(p) => Idle(p)'
    BY <1>4, <2>1, <2>3 DEF Idle, InCall
  <2>6. Sent(p) => Sent(p)'
    BY <1>4, <2>1, <2>3 DEF Sent, InCall
  <2>7. Answered(p) => Answered(p)'
    BY <1>4, <2>1, <2>3 DEF Answered, InCall
  <2>8. Waiting(p) => Waiting(p)'
    BY <2>3, <2>4 DEF Waiting
  <2>9. Granted(p) => Granted(p)'
    BY <1>4, <2>3, <2>4 DEF Granted
  <2>10. Delivered(p) => Delivered(p)'
    BY <1>4, <2>1, <2>3, <2>4 DEF Delivered, GivesAccess
  <2> QED
    BY <1>6, <2>1, <2>5, <2>6, <2>7, <2>8, <2>9, <2>10 DEF q
<1> QED
  BY <1>5, <1>6

(* The server's delivery of one grant (SendGrant of handle_request's loop) *)
(* keeps the invariant: the process it names moves on, the others stay.    *)
LEMMA GrantKeepsFInv ==
  ASSUME FInv, RInv', NEW g \in Grant, GrantHandled(g)
  PROVE  FInv'
<1>0. /\ UNCHANGED <<key_states, token_stream_map, issued, closed, client,
                     timeouts, overlapped>>
      /\ access_granted \in Seq(Grant) /\ access_granted # <<>>
      /\ access_granted' = Tail(access_granted)
      /\ g.proc \in ProcId /\ Granted(g.proc)
  BY GrantIsSent, StateTypes DEF FInv, RInv, Typed, GrantHandled
<1>1. ASSUME NEW p \in ProcId
      PROVE  Stage(p)'
  BY GrantMovesOn DEF FInv, Stage
<1>2. ASSUME NEW p \in ProcId, NEW a \in Access, Registered(p, a)'
      PROVE  a \in held'[p] \/ OnTheWay(p, a)'
  <2>1. a \in held[p] \/ OnTheWay(p, a)
    BY <1>0, <1>2 DEF FInv, Accounted, Registered
  <2>2. CASE OnTheWay(p, a) /\ p # g.proc
    <3>1. call'[p] = call[p] /\ InCall(p)'
      BY <1>0, <2>2 DEF OnTheWay, InCall, client
    <3>2. /\ to_server'[p] = to_server[p] /\ to_client'[p] = to_client[p]
          /\ Answered(p) => Answered(p)'
          /\ Granted(p) => Granted(p)'
          /\ Delivered(p) => Delivered(p)'
      BY <2>2, GrantMovesOn
    <3>3. GivesAccess(p, to_client[p][1]) => GivesAccess(p, to_client[p][1])'
      BY <3>1, <3>2 DEF GivesAccess
    <3> QED
      BY <2>2, <3>1, <3>2, <3>3 DEF OnTheWay
  <2>3. CASE OnTheWay(p, a) /\ p = g.proc
    <3>1. call'[p] = call[p] /\ InCall(p)' /\ Delivered(p)'
      BY <1>0, <2>3, GrantMovesOn DEF OnTheWay, InCall, client
    <3>2. call[p].key = a.key /\ call[p].type = a.type
      <4>1. Len(to_server[p]) # 1
        BY <1>0, <2>3 DEF Granted, Told
      <4> QED
        BY <2>3, <4>1 DEF OnTheWay
    <3> QED
      BY <3>1, <3>2 DEF OnTheWay
  <2> QED
    BY <1>0, <2>1, <2>2, <2>3 DEF client
<1>3. \A i \in 1 .. Len(access_granted') :
        access_granted'[i].holder \in issued
  <2> DEFINE s == access_granted
  <2>1. s \in Seq(Grant) /\ s # <<>> /\ access_granted' = Tail(s)
        /\ \A i \in 1 .. Len(s) : s[i].holder \in issued
    BY <1>0 DEF FInv, Connected
  <2> HIDE DEF s
  <2>2. /\ Len(s) \in Nat /\ Len(Tail(s)) = Len(s) - 1
        /\ \A i \in 1 .. Len(Tail(s)) : Tail(s)[i] = s[i + 1]
    BY <2>1, HeadTailProperties, LenProperties
  <2>3. \A i \in 1 .. Len(Tail(s)) : i + 1 \in 1 .. Len(s)
    BY <2>2
  <2> QED
    BY <2>1, <2>2, <2>3
<1>4. Connected' /\ SyncCalls' /\ overlapped' = {}
  BY <1>0, <1>3 DEF FInv, Connected, SyncCalls, client, InCall
<1> QED
  BY <1>1, <1>2, <1>4 DEF FInv, Accounted

----------------------------------------------------------------------------
(* THE STEPS OF A CLIENT *)

(* Nothing of u is touched.                                                *)
Unmoved(u) ==
  /\ call'[u] = call[u] /\ asked'[u] = asked[u] /\ held'[u] = held[u]
  /\ to_server'[u] = to_server[u] /\ to_client'[u] = to_client[u]

(* A step that touches neither the manager nor the streams and the call of *)
(* a client leaves that client at its stage.                               *)
LEMMA UnmovedStays ==
  ASSUME UNCHANGED <<key_states, access_granted>>, NEW u, Unmoved(u)
  PROVE  /\ Stage(u) => Stage(u)'
         /\ Accounted(u) => Accounted(u)'
<1>1. /\ NoneQueued(u) => NoneQueued(u)'
      /\ NoneGranted(u) => NoneGranted(u)'
      /\ GrantedOnce(u) => GrantedOnce(u)'
      /\ QueuedOnce(u) => QueuedOnce(u)'
      /\ \A n : Told(u, n) => Told(u, n)'
      /\ \A x : GivesAccess(u, x) => GivesAccess(u, x)'
      /\ InCall(u)' = InCall(u)
  BY DEF Unmoved, NoneQueued, NoneGranted, GrantedOnce, QueuedOnce, Told,
         InCall, Pending, GivesAccess
<1>2. Idle(u) => Idle(u)'
  BY <1>1 DEF Unmoved, Idle
<1>3. Sent(u) => Sent(u)'
  BY <1>1 DEF Unmoved, Sent
<1>4. Answered(u) => Answered(u)'
  BY <1>1 DEF Unmoved, Answered
<1>5. Waiting(u) => Waiting(u)'
  BY <1>1 DEF Waiting
<1>6. Granted(u) => Granted(u)'
  BY <1>1 DEF Granted
<1>7. Delivered(u) => Delivered(u)'
  BY <1>1 DEF Unmoved, Delivered, GivesAccess
<1>8. \A a : OnTheWay(u, a) => OnTheWay(u, a)'
  BY <1>1, <1>4, <1>6, <1>7 DEF Unmoved, OnTheWay, GivesAccess
<1>9. Stage(u) => Stage(u)'
  BY <1>2, <1>3, <1>4, <1>5, <1>6, <1>7 DEF Stage
<1>10. Accounted(u) => Accounted(u)'
  BY <1>8 DEF Unmoved, Accounted, Registered
<1> QED
  BY <1>9, <1>10

(* What is to be shown of a step of one client.                            *)
LEMMA OneClientKeepsFInv ==
  ASSUME FInv, RInv', NEW p \in ProcId, p \in issued,
         UNCHANGED <<server, closed, timeouts, overlapped, asked>>,
         \A u \in ProcId \ {p} :
           /\ call'[u] = call[u] /\ held'[u] = held[u]
           /\ to_server'[u] = to_server[u] /\ to_client'[u] = to_client[u],
         InCall(p)' => call'[p].kind = "sync",
         Stage(p)', Accounted(p)'
  PROVE  FInv'
<1>1. ASSUME NEW u \in ProcId, u # p
      PROVE  Unmoved(u) /\ Stage(u)' /\ Accounted(u)'
  <2>1. Unmoved(u)
    BY <1>1 DEF Unmoved
  <2> QED
    BY <2>1, UnmovedStays DEF FInv, server
<1>2. Connected'
  BY <1>1 DEF FInv, Connected, server, Unmoved, InCall
<1>3. SyncCalls'
  BY <1>1 DEF FInv, SyncCalls, Unmoved, InCall
<1> QED
  BY <1>1, <1>2, <1>3 DEF FInv

(* A client outside a call is in sync.                                     *)
LEMMA IdleInSync ==
  ASSUME FInv, NEW p \in ProcId, ~ InCall(p)
  PROVE  Idle(p) /\ InSync(p)
<1>1. Idle(p)
  BY DEF FInv, Stage, Sent, Answered, Waiting, Granted, Delivered, Told
<1>2. /\ TypeOK /\ access_granted \in Seq(Grant)
      /\ \A j \in KeyId : Pending(j) \in Seq(Request)
  BY SequenceTypes, StateTypes DEF FInv, RInv, Typed
<1>3. to_server[p] = <<>> /\ to_client[p] = <<>>
  <2>1. /\ to_server[p] \in Seq(RequestMessage \cup {StopRequest})
        /\ to_client[p] \in Seq(ResponseMessage)
    BY <1>2, StateTypes
  <2> QED
    BY <1>1, <2>1, EmptySeq DEF Idle
<1>4. Queued(p) = {}
  <2>1. \A j \in KeyId : DOMAIN Pending(j) = 1 .. Len(Pending(j))
    BY <1>2, LenProperties
  <2>2. \A j \in KeyId : {i \in DOMAIN Pending(j) : Pending(j)[i].proc = p} = {}
    BY <1>1, <2>1 DEF Idle, NoneQueued, NoneIn
  <2> QED
    BY <2>2 DEF Queued
<1>5. Undelivered(p) = {}
  <2>1. DOMAIN access_granted = 1 .. Len(access_granted)
    BY <1>2, LenProperties
  <2> QED
    BY <1>1, <2>1 DEF Idle, NoneGranted, NoneIn, Undelivered
<1> QED
  BY <1>1, <1>3, <1>4, <1>5 DEF InSync, FInv, SyncCalls

(* A call is made.                                                         *)
LEMMA MakeCallKeepsFInv ==
  ASSUME FInv, RInv', NEW p \in ProcId, NEW kind \in {"sync", "ask"},
         NEW t \in RequestType, NEW k \in KeyId, MakeCall(p, kind, t, k),
         Asks = FALSE
  PROVE  FInv'
<1> DEFINE m == [proc |-> p, type |-> t, key |-> k]
           d == [kind |-> kind, type |-> t, key |-> k, awaits |-> NoKey]
<1>1. /\ UNCHANGED <<server, timeouts, asked, to_client, closed>>
      /\ p \in issued /\ ~ InCall(p) /\ kind = "sync"
      /\ to_server' = [to_server EXCEPT ![p] = Append(@, m)]
      /\ call' = [call EXCEPT ![p] = d]
      /\ held' = [held EXCEPT ![p] = IF t = "Release"
                                     THEN {a \in @ : a.key # k} ELSE @]
      /\ overlapped' = IF InSync(p) THEN overlapped ELSE overlapped \cup {p}
  BY DEF MakeCall, BeginCall, SendRequest
<1>2. /\ TypeOK /\ Idle(p) /\ InSync(p)
  BY <1>1, IdleInSync DEF FInv, RInv, Typed
<1>3. /\ call'[p] = d /\ to_server'[p] = Append(to_server[p], m)
      /\ held'[p] = IF t = "Release" THEN {a \in held[p] : a.key # k}
                                     ELSE held[p]
      /\ \A u \in ProcId \ {p} :
           /\ call'[u] = call[u] /\ held'[u] = held[u]
           /\ to_server'[u] = to_server[u]
  BY <1>1, <1>2, StateTypes
<1>4. d \in Call /\ d # NoCall
  BY <1>1, NoCallAssumption DEF Call, CallKind
<1>5. Len(to_server'[p]) = 1
  <2>1. to_server[p] = <<>> /\ Append(<<>>, m) = <<m>>
    BY <1>2 DEF InSync
  <2> QED
    BY <1>3, <2>1
<1>6. /\ NoneQueued(p)' /\ NoneGranted(p)' /\ to_client' = to_client
      /\ \A a : Registered(p, a)' = Registered(p, a)
  BY <1>1, <1>2
  DEF Idle, NoneQueued, NoneGranted, Pending, Registered, server
<1>7. Sent(p)'
  BY <1>2, <1>3, <1>4, <1>5, <1>6 DEF Sent, Idle, InCall
<1>8. Accounted(p)'
  <2> SUFFICES ASSUME NEW a \in Access, Registered(p, a)'
               PROVE  a \in held'[p] \/ OnTheWay(p, a)'
    BY DEF Accounted
  <2>1. a \in held[p]
    BY <1>1, <1>6 DEF FInv, Accounted, OnTheWay
  <2>2. CASE t = "Release" /\ a.key = k
    BY <1>3, <1>4, <1>5, <2>2 DEF OnTheWay, InCall
  <2>3. CASE ~ (t = "Release" /\ a.key = k)
    BY <1>3, <2>1, <2>3
  <2> QED
    BY <2>2, <2>3
<1> QED
  BY <1>1, <1>2, <1>3, <1>7, <1>8, OneClientKeepsFInv DEF Stage

(* A client in a call reads a message: what is in its stream then.         *)
LEMMA MessageRead ==
  ASSUME FInv, NEW p \in ProcId, InCall(p), Receive(p)
  PROVE  /\ \A u \in ProcId \ {p} : to_client'[u] = to_client[u]
         /\ Front(p) = to_client[p][1]
         /\ Len(to_client[p]) \in Nat /\ Len(to_client[p]) > 0
         /\ Len(to_client'[p]) = Len(to_client[p]) - 1
         /\ \A i \in 1 .. Len(to_client'[p]) :
              to_client'[p][i] = to_client[p][i + 1]
         /\ \/ Answered(p)
            \/ /\ Waiting(p) \/ Granted(p)
               /\ call[p].awaits = NoKey /\ Len(to_client[p]) = 1
               /\ to_client[p][1] = Wait(call[p].key)
            \/ /\ Delivered(p)
               /\ call[p].awaits = NoKey /\ Len(to_client[p]) = 2
               /\ to_client[p][1] = Wait(call[p].key)
            \/ /\ Delivered(p)
               /\ call[p].awaits = call[p].key /\ Len(to_client[p]) = 1
<1> DEFINE s == to_client[p]
<1>1. /\ to_client \in [ProcId -> Seq(ResponseMessage)]
      /\ s \in Seq(ResponseMessage) /\ s # <<>>
      /\ to_client'[p] = Tail(s) /\ Front(p) = s[1]
      /\ \A u \in ProcId \ {p} : to_client'[u] = to_client[u]
  BY StateTypes, ReceiveType DEF FInv, RInv, Typed
<1>2. Stage(p)
  BY DEF FInv
<1> HIDE DEF s
<1>3. /\ Len(s) \in Nat /\ Len(s) > 0 /\ Len(Tail(s)) = Len(s) - 1
      /\ \A i \in 1 .. Len(Tail(s)) : Tail(s)[i] = s[i + 1]
  BY <1>1, HeadTailProperties, LenProperties
<1>4. Len(to_client[p]) > 0
  BY <1>3 DEF s
<1>5. Answered(p) \/ Waiting(p) \/ Granted(p) \/ Delivered(p)
  BY <1>2, <1>4 DEF Stage, Idle, Sent
<1>6. ASSUME Told(p, 0)
      PROVE  /\ call[p].awaits = NoKey /\ Len(to_client[p]) = 1
             /\ to_client[p][1] = Wait(call[p].key)
  BY <1>4, <1>6 DEF Told
<1>7. ASSUME Told(p, 1)
      PROVE  \/ /\ call[p].awaits = NoKey /\ Len(to_client[p]) = 2
                /\ to_client[p][1] = Wait(call[p].key)
             \/ call[p].awaits = call[p].key /\ Len(to_client[p]) = 1
  BY <1>7 DEF Told
<1>8. \/ Answered(p)
      \/ /\ Waiting(p) \/ Granted(p)
         /\ call[p].awaits = NoKey /\ Len(to_client[p]) = 1
         /\ to_client[p][1] = Wait(call[p].key)
      \/ /\ Delivered(p)
         /\ call[p].awaits = NoKey /\ Len(to_client[p]) = 2
         /\ to_client[p][1] = Wait(call[p].key)
      \/ /\ Delivered(p)
         /\ call[p].awaits = call[p].key /\ Len(to_client[p]) = 1
  BY <1>5, <1>6, <1>7 DEF Waiting, Granted, Delivered
<1> QED
  BY <1>1, <1>3, <1>8 DEF s

(* The queues and the grants of a client when only clients move.           *)
LEMMA QueuesUntouched ==
  ASSUME UNCHANGED <<key_states, access_granted>>, NEW p
  PROVE  /\ NoneQueued(p) => NoneQueued(p)'
         /\ NoneGranted(p) => NoneGranted(p)'
         /\ GrantedOnce(p) => GrantedOnce(p)'
         /\ \A k : Pending(k)' = Pending(k)
         /\ \A a : Registered(p, a)' = Registered(p, a)
BY DEF NoneQueued, NoneGranted, GrantedOnce, Pending, Registered

(* A call returns with its access.                                         *)
LEMMA CallGrantedKeepsFInv ==
  ASSUME FInv, RInv', NEW p \in ProcId, CallGranted(p, p),
         UNCHANGED <<server, timeouts, overlapped>>
  PROVE  FInv'
<1> DEFINE a == [key |-> call[p].key, type |-> call[p].type]
<1>1. /\ UNCHANGED <<server, to_server, closed>>
      /\ InCall(p) /\ Receive(p) /\ Grants(call[p], Front(p))
      /\ call[p] \in Call /\ call[p].kind = "sync" /\ p \in issued
      /\ asked = [asked EXCEPT ![p] = NoCall]
      /\ asked' = [asked EXCEPT ![p] = NoCall]
      /\ call' = [call EXCEPT ![p] = NoCall]
      /\ held' = [held EXCEPT ![p] = @ \cup {a}]
  <2>1. asked \in [ProcId -> [access : Access, told : BOOLEAN]
                              \cup {NoCall}]
        /\ asked[p] = NoCall
    BY StateTypes DEF FInv, RInv, Typed, SyncCalls
  <2>2. InCall(p)
    BY DEF CallGranted
  <2>3. call[p].kind = "sync" /\ call[p] \in Call /\ p \in issued
    BY <2>2, ThreadOfCall
  <2> QED
    BY <2>1, <2>2, <2>3 DEF CallGranted, Return, Acquire
<1>2. /\ Front(p).type # "Wait"
      /\ Delivered(p) \/ Answered(p)
      /\ Len(to_client'[p]) = 0
      /\ \A u \in ProcId \ {p} : to_client'[u] = to_client[u]
  <2>1. Front(p).type # "Wait"
    BY <1>1 DEF Grants
  <2>2. /\ Front(p) = to_client[p][1]
        /\ Len(to_client'[p]) = Len(to_client[p]) - 1
        /\ \A u \in ProcId \ {p} : to_client'[u] = to_client[u]
    BY <1>1, MessageRead
  <2>3. to_client[p][1] # Wait(call[p].key)
    BY <2>1, <2>2 DEF Wait
  <2>4. \/ Answered(p)
        \/ Delivered(p) /\ Len(to_client[p]) = 1
    BY <1>1, <2>3, MessageRead
  <2>5. Answered(p) => Len(to_client[p]) = 1
    BY DEF Answered
  <2> QED
    BY <2>1, <2>2, <2>4, <2>5
<1>3. /\ call'[p] = NoCall /\ held'[p] = held[p] \cup {a}
      /\ \A u \in ProcId \ {p} : call'[u] = call[u] /\ held'[u] = held[u]
  BY <1>1, StateTypes DEF FInv, RInv, Typed
<1>4. Idle(p)'
  <2>1. NoneQueued(p) /\ NoneGranted(p) /\ Len(to_server[p]) = 0
    BY <1>2 DEF Delivered, Answered, Told
  <2>2. NoneQueued(p)' /\ NoneGranted(p)'
    BY <1>1, <2>1, QueuesUntouched DEF server
  <2> QED
    BY <1>1, <1>2, <1>3, <2>1, <2>2 DEF Idle, InCall
<1>5. Accounted(p)'
  <2> SUFFICES ASSUME NEW b \in Access, Registered(p, b)'
               PROVE  b \in held'[p]
    BY DEF Accounted
  <2>1. b \in held[p] \/ OnTheWay(p, b)
    BY <1>1, QueuesUntouched DEF FInv, Accounted, server
  <2>2. OnTheWay(p, b) => b.key = call[p].key /\ b.type = call[p].type
    <3>1. Len(to_server[p]) = 0
      BY <1>2 DEF Delivered, Answered, Told
    <3> QED
      BY <3>1 DEF OnTheWay
  <2>3. b = [key |-> b.key, type |-> b.type]
    BY DEF Access
  <2> QED
    BY <1>3, <2>1, <2>2, <2>3
<1> QED
  BY <1>1, <1>2, <1>3, <1>4, <1>5, OneClientKeepsFInv DEF Stage, InCall

(* A call is told to wait.                                                 *)
LEMMA CallWaitsKeepsFInv ==
  ASSUME FInv, RInv', NEW p \in ProcId, CallWaits(p, p),
         UNCHANGED <<server, timeouts, overlapped>>
  PROVE  FInv'
<1>1. /\ UNCHANGED <<server, asked, held, to_server, closed>>
      /\ InCall(p) /\ Receive(p) /\ Front(p).type = "Wait"
      /\ call[p].awaits = NoKey
      /\ call[p] \in Call /\ call[p].kind = "sync" /\ p \in issued
      /\ call' = [call EXCEPT ![p].awaits = Front(p).key]
  <2>1. InCall(p)
    BY DEF CallWaits
  <2> QED
    BY <2>1, ThreadOfCall DEF CallWaits
<1>2. /\ \A u \in ProcId \ {p} : to_client'[u] = to_client[u]
      /\ Front(p) = Wait(call[p].key)
      /\ \/ (Waiting(p) \/ Granted(p)) /\ Len(to_client'[p]) = 0
         \/ /\ Delivered(p) /\ Len(to_client'[p]) = 1
            /\ Len(to_client[p]) = 2
            /\ to_client'[p][1] = to_client[p][2]
  <2>1. ~ Answered(p)
    BY <1>1, MessageRead DEF Answered
  <2>2. call[p].awaits # call[p].key
    BY <1>1, NoKeyAssumption DEF Call
  <2>3. /\ Front(p) = to_client[p][1]
        /\ Len(to_client'[p]) = Len(to_client[p]) - 1
        /\ Len(to_client'[p]) > 0 => to_client'[p][1] = to_client[p][2]
        /\ \A u \in ProcId \ {p} : to_client'[u] = to_client[u]
    BY <1>1, MessageRead
  <2>4. /\ to_client[p][1] = Wait(call[p].key)
        /\ \/ (Waiting(p) \/ Granted(p)) /\ Len(to_client[p]) = 1
           \/ Delivered(p) /\ Len(to_client[p]) = 2
    BY <1>1, <2>1, <2>2, MessageRead
  <2> QED
    BY <2>3, <2>4
<1>3. Front(p).key = call[p].key
  BY <1>2 DEF Wait
<1>4. /\ InCall(p)'
      /\ call'[p].kind = call[p].kind /\ call'[p].type = call[p].type
      /\ call'[p].key = call[p].key /\ call'[p].awaits = call[p].key
      /\ \A u \in ProcId \ {p} : call'[u] = call[u]
  <2>1. call \in [ProcId -> Call \cup {NoCall}]
    BY StateTypes DEF FInv, RInv, Typed
  <2>2. /\ call'[p] = [call[p] EXCEPT !.awaits = call[p].key]
        /\ \A u \in ProcId \ {p} : call'[u] = call[u]
    BY <1>1, <1>3, <2>1
  <2>3. call'[p] \in Call
    BY <1>1, <2>2 DEF Call
  <2> QED
    BY <1>1, <2>2, <2>3, NoCallAssumption DEF Call, InCall
<1>5. \A n : Len(to_client'[p]) = n /\ Len(to_server[p]) = 0
             /\ call[p].type \in AccessType => Told(p, n)'
  BY <1>1, <1>4 DEF Told
<1>6. Waiting(p) => Waiting(p)'
  <2>1. ASSUME Waiting(p)
        PROVE  Waiting(p)'
    <3>1. Len(to_client'[p]) = 0
      BY <1>2, <2>1 DEF Waiting, Delivered, Told
    <3>2. Told(p, 0)'
      BY <1>5, <2>1, <3>1 DEF Waiting, Told
    <3>3. NoneGranted(p)' /\ QueuedOnce(p)'
      BY <1>1, <1>4, <2>1, QueuesUntouched DEF Waiting, QueuedOnce, server
    <3> QED
      BY <3>2, <3>3 DEF Waiting
  <2> QED
    BY <2>1
<1>7. Granted(p) => Granted(p)'
  <2>1. ASSUME Granted(p)
        PROVE  Granted(p)'
    <3>1. Len(to_client'[p]) = 0
      BY <1>2, <2>1 DEF Granted, Delivered, Told
    <3>2. Told(p, 0)'
      BY <1>5, <2>1, <3>1 DEF Granted, Told
    <3> QED
      BY <1>1, <2>1, <3>2, QueuesUntouched DEF Granted, server
  <2> QED
    BY <2>1
<1>8. Delivered(p) => Delivered(p)'
  <2>1. ASSUME Delivered(p)
        PROVE  Delivered(p)'
    <3>0. call[p].awaits # call[p].key
      BY <1>1, NoKeyAssumption DEF Call
    <3>1. /\ Len(to_client'[p]) = 1 /\ Len(to_client[p]) = 2
          /\ to_client'[p][1] = to_client[p][2]
      BY <1>1, <1>2, <2>1, <3>0 DEF Waiting, Granted, Delivered, Told
    <3>2. Told(p, 1)'
      BY <1>5, <2>1, <3>1 DEF Delivered, Told
    <3>3. GivesAccess(p, to_client[p][Len(to_client[p])])'
      BY <1>4, <2>1, <3>1 DEF Delivered, GivesAccess
    <3> QED
      BY <1>1, <2>1, <3>2, <3>3, QueuesUntouched DEF Delivered, server
  <2> QED
    BY <2>1
<1>9. Accounted(p)'
  <2> SUFFICES ASSUME NEW a \in Access, Registered(p, a)'
               PROVE  a \in held'[p] \/ OnTheWay(p, a)'
    BY DEF Accounted
  <2>1. a \in held[p] \/ OnTheWay(p, a)
    BY <1>1, QueuesUntouched DEF FInv, Accounted, server
  <2>2. ~ Answered(p) /\ Len(to_server[p]) = 0
    BY <1>1, <1>2, MessageRead
    DEF Answered, Waiting, Granted, Delivered, Told, Wait
  <2> QED
    BY <1>1, <1>4, <1>7, <1>8, <2>1, <2>2 DEF OnTheWay
<1>10. Stage(p)'
  BY <1>2, <1>6, <1>7, <1>8 DEF Stage
<1> QED
  BY <1>1, <1>2, <1>4, <1>9, <1>10, OneClientKeepsFInv

(* A call returns without an access: it has not got one.                   *)
LEMMA CallReturnsKeepsFInv ==
  ASSUME FInv, RInv', NEW p \in ProcId, CallReturns(p, p),
         UNCHANGED <<server, timeouts, overlapped>>
  PROVE  FInv'
<1>1. /\ UNCHANGED <<server, asked, held, to_server, closed>>
      /\ InCall(p) /\ Receive(p)
      /\ call[p].type \in AccessType =>
           /\ ~ Grants(call[p], Front(p))
           /\ call[p].awaits # NoKey \/ Front(p).type # "Wait"
      /\ call[p] \in Call /\ call[p].kind = "sync" /\ p \in issued
      /\ call' = [call EXCEPT ![p] = NoCall]
  <2>1. InCall(p)
    BY DEF CallReturns
  <2>2. call[p].kind = "sync" /\ call[p] \in Call /\ p \in issued
    BY <2>1, ThreadOfCall
  <2>3. asked \in [ProcId -> [access : Access, told : BOOLEAN]
                              \cup {NoCall}]
    BY StateTypes DEF FInv, RInv, Typed
  <2>4. asked' = [asked EXCEPT ![p] = asked[p]]
    BY <2>2 DEF CallReturns
  <2> QED
    BY <2>1, <2>2, <2>3, <2>4 DEF CallReturns, Return
<1>2. /\ Answered(p)
      /\ ~ (call[p].type \in AccessType /\ GivesAccess(p, to_client[p][1]))
      /\ \A u \in ProcId \ {p} : to_client'[u] = to_client[u]
      /\ Len(to_client'[p]) = 0
  <2>1. ASSUME Told(p, 0) \/ Told(p, 1), call[p].awaits = NoKey,
               to_client[p][1] = Wait(call[p].key)
        PROVE  FALSE
    BY <1>1, <2>1, MessageRead DEF Told, Wait
  <2>2. ASSUME Delivered(p), call[p].awaits = call[p].key,
               Len(to_client[p]) = 1
        PROVE  FALSE
    <3>1. GivesAccess(p, Front(p)) /\ call[p].type \in AccessType
      BY <1>1, <2>2, MessageRead DEF Delivered, Told
    <3>2. Grants(call[p], Front(p))
      BY <2>2, <3>1 DEF GivesAccess, Grants
    <3> QED
      BY <1>1, <3>1, <3>2
  <2>3. Answered(p)
    BY <1>1, <2>1, <2>2, MessageRead DEF Waiting, Granted, Delivered
  <2>4. GivesAccess(p, Front(p)) => Grants(call[p], Front(p))
    BY <2>3 DEF Answered, GivesAccess, Grants
  <2> QED
    BY <1>1, <2>3, <2>4, MessageRead DEF Answered
<1>3. /\ call'[p] = NoCall
      /\ \A u \in ProcId \ {p} : call'[u] = call[u]
  BY <1>1, StateTypes DEF FInv, RInv, Typed
<1>4. Idle(p)'
  <2>1. NoneQueued(p)' /\ NoneGranted(p)'
    BY <1>1, <1>2, QueuesUntouched DEF Answered, server
  <2> QED
    BY <1>1, <1>2, <1>3, <2>1 DEF Idle, Answered, InCall
<1>5. Accounted(p)'
  <2> SUFFICES ASSUME NEW a \in Access, Registered(p, a)'
               PROVE  a \in held'[p]
    BY DEF Accounted
  <2>1. a \in held[p] \/ OnTheWay(p, a)
    BY <1>1, QueuesUntouched DEF FInv, Accounted, server
  <2>2. ~ OnTheWay(p, a)
    <3>1. Len(to_server[p]) = 0 /\ ~ Granted(p) /\ ~ Delivered(p)
      <4>1. Len(to_server[p]) = 0 /\ Len(to_client[p]) = 1
            /\ to_client[p][1].type # "Wait" /\ NoneGranted(p)
            /\ call[p].awaits = NoKey
        BY <1>2 DEF Answered
      <4>2. ~ Granted(p)
        BY <4>1 DEF Granted, GrantedOnce, NoneGranted, Once, NoneIn
      <4>3. ~ Delivered(p)
        <5>1. call[p].awaits # call[p].key
          BY <1>1, <4>1, NoKeyAssumption DEF Call
        <5> QED
          BY <4>1, <5>1 DEF Delivered, Told
      <4> QED
        BY <4>1, <4>2, <4>3
    <3>2. a.type \in AccessType
      BY DEF Access
    <3> QED
      BY <1>2, <3>1, <3>2 DEF OnTheWay
  <2> QED
    BY <1>1, <2>1, <2>2
<1> QED
  BY <1>1, <1>2, <1>3, <1>4, <1>5, OneClientKeepsFInv DEF Stage, InCall

----------------------------------------------------------------------------
(* THE THEOREMS *)

(* In the initial state nothing is under way.                              *)
LEMMA InitFInv == Init => FInv
<1> SUFFICES ASSUME Init
             PROVE  FInv
  OBVIOUS
<1>1. /\ RInv /\ overlapped = {} /\ closed = {} /\ timeouts = 0
      /\ token_stream_map = {} /\ issued = {}
      /\ access_granted = <<>> /\ Len(access_granted) = 0
      /\ key_states = [k \in KeyId |-> NoEntry]
      /\ call = [p \in ProcId |-> NoCall] /\ asked = [p \in ProcId |-> NoCall]
      /\ held = [p \in ProcId |-> {}]
      /\ to_server = [p \in ProcId |-> <<>>]
      /\ to_client = [p \in ProcId |-> <<>>]
  BY InitRInv, EmptySeq, ClientsAreNamedByIds
  DEF Init, Server!ServerInit, Server!AM!Init, ClientInit, StreamsInit
<1>2. \A k \in KeyId : Pending(k) = <<>> /\ key_states[k] = NoEntry
  BY <1>1 DEF Pending
<1>3. ASSUME NEW p \in ProcId
      PROVE  Stage(p) /\ Accounted(p)
  <2>1. NoneQueued(p) /\ NoneGranted(p)
    BY <1>1, <1>2, EmptySeq DEF NoneQueued, NoneGranted, NoneIn
  <2>2. Idle(p)
    BY <1>1, <2>1, EmptySeq DEF Idle, InCall
  <2>3. Accounted(p)
    BY <1>2 DEF Accounted, Registered, Access
  <2> QED
    BY <2>2, <2>3 DEF Stage
<1>4. Connected /\ SyncCalls
  BY <1>1, <1>2 DEF Connected, SyncCalls, InCall
<1> QED
  BY <1>1, <1>3, <1>4 DEF FInv

(* A connection is accepted.                                               *)
LEMMA ConnectKeepsFInv ==
  ASSUME FInv, RInv', NEW p \in ProcId, Connect(p)
  PROVE  FInv'
<1>1. /\ UNCHANGED <<key_states, access_granted, reply, serving, client,
                     streams, timeouts, overlapped>>
      /\ issued' = issued \cup {p}
      /\ token_stream_map' = token_stream_map \cup {p}
  BY DEF Connect, Server!HandleConnection, Server!manager
<1>2. ASSUME NEW u \in ProcId
      PROVE  Stage(u)' /\ Accounted(u)'
  <2>1. Unmoved(u)
    BY <1>1 DEF Unmoved, client, streams
  <2> QED
    BY <1>1, <2>1, UnmovedStays DEF FInv
<1>3. Connected' /\ SyncCalls'
  BY <1>1 DEF FInv, Connected, SyncCalls, client, streams, InCall
<1> QED
  BY <1>1, <1>2, <1>3 DEF FInv

(* No client is put off, gives up or leaves, and no requests arrive        *)
(* together.                                                               *)
LEMMA NothingGoesWrong ==
  ASSUME NoFaults, FInv, NEW p \in ProcId
  PROVE  /\ ~ AwaitAccess(p) /\ ~ TimeOut(p) /\ ~ LeaveRegistry(p)
         /\ ~ AskReturns(p, p) /\ ~ AwaitPutOff(p, p)
         /\ ~ Server!HandleCoalesced(p) /\ ~ Server!HandleClose(p)
<1>1. ~ AwaitAccess(p)
  BY DEF AwaitAccess, BeginAwait, FInv, SyncCalls
<1>2. ~ TimeOut(p)
  BY DEF TimeOut, FInv, Connected, NoFaults
<1>3. ~ LeaveRegistry(p)
  BY FS_EmptySet DEF LeaveRegistry, FInv, Connected, NoFaults
<1>4. ~ AskReturns(p, p) /\ ~ AwaitPutOff(p, p)
  BY DEF AskReturns, AwaitPutOff, FInv, SyncCalls
<1>5. ~ Server!HandleCoalesced(p)
  <2>1. Len(to_server[p]) = 0 \/ Len(to_server[p]) = 1
    BY DEF FInv, Stage, Idle, Sent, Answered, Waiting, Granted, Delivered,
           Told
  <2>2. ASSUME NEW n \in 2 .. Len(to_server[p])
        PROVE  FALSE
    <3>1. n \in 2 .. 0 \/ n \in 2 .. 1
      BY <2>1
    <3> QED
      BY <3>1
  <2> QED
    BY <2>2 DEF Server!HandleCoalesced
<1>6. ~ Server!HandleClose(p)
  BY DEF Server!HandleClose, FInv, Connected
<1> QED
  BY <1>1, <1>2, <1>3, <1>4, <1>5, <1>6

(* Every step keeps the invariant.                                         *)
LEMMA NextKeepsFInv ==
  ASSUME NoFaults
  PROVE  FInv /\ [Next]_vars => FInv'
<1> SUFFICES ASSUME FInv, [Next]_vars
             PROVE  FInv'
  OBVIOUS
<1>0. RInv'
  BY NextKeepsRInv DEF FInv
<1>1. ASSUME NEW p \in ProcId, Connect(p)
      PROVE  FInv'
  BY <1>0, <1>1, ConnectKeepsFInv
<1>2. ASSUME NEW p \in ProcId, NEW kind \in {"sync", "ask"},
             NEW t \in RequestType, NEW k \in KeyId, MakeCall(p, kind, t, k)
      PROVE  FInv'
  BY <1>0, <1>2, MakeCallKeepsFInv DEF NoFaults
<1>3. ASSUME NEW p \in ProcId, ReadMessage(p)
      PROVE  FInv'
  BY <1>0, <1>3, NothingGoesWrong, CallGrantedKeepsFInv, CallWaitsKeepsFInv,
     CallReturnsKeepsFInv
  DEF ReadMessage
<1>4. ASSUME NEW p \in ProcId, HandleData(p)
      PROVE  FInv'
  <2>1. Server!HandleRequest(p) /\ UNCHANGED <<client, timeouts, overlapped>>
    BY <1>4, NothingGoesWrong DEF HandleData
  <2> QED
    BY <1>0, <2>1, HandleRequestGoes, RequestKeepsFInv DEF FInv
<1>5. ASSUME HandleGrants
      PROVE  FInv'
  BY <1>0, <1>5, HandleGrantsGoes, GrantKeepsFInv DEF FInv
<1>6. CASE UNCHANGED vars
  <2>1. /\ UNCHANGED <<key_states, access_granted, token_stream_map, issued,
                       timeouts, overlapped, closed>>
        /\ \A u : Unmoved(u)
    BY <1>6 DEF vars, server, client, streams, Unmoved
  <2>2. \A u \in ProcId : Stage(u)' /\ Accounted(u)'
    BY <2>1, UnmovedStays DEF FInv
  <2>3. Connected' /\ SyncCalls'
    BY <2>1 DEF FInv, Connected, SyncCalls, Unmoved, InCall
  <2> QED
    BY <1>0, <2>1, <2>2, <2>3 DEF FInv
<1> QED
  BY <1>1, <1>2, <1>3, <1>4, <1>5, <1>6, NothingGoesWrong DEF Next

(* The stages, as an invariant: without faults nothing but what its call   *)
(* is for is ever under way for a client, and every access the registry    *)
(* has registered is one the client believes in, is being told of or is    *)
(* giving back.                                                            *)
THEOREM FaultFreeInvariance ==
  ASSUME NoFaults
  PROVE  Spec => []FInv
<1>1. Init => FInv
  BY InitFInv
<1>2. FInv /\ [Next]_vars => FInv'
  BY NextKeepsFInv
<1> QED
  BY <1>1, <1>2, PTL DEF Spec

(* Without faults no two clients believe in accesses that exclude each     *)
(* other, whether or not their owners keep to the protocol: the lock works *)
(* across the delays of the network in both directions.                    *)
THEOREM ClientsExcludeEachOther ==
  ASSUME NoFaults
  PROVE  Spec => []ClientExclusion
<1>1. FInv /\ InSyncExclusion => ClientExclusion
  BY DEF FInv, InSyncExclusion, ClientExclusion
<1> QED
  BY <1>1, FaultFreeInvariance, ExclusionInSync, PTL

(* Without faults a client in no call believes in every access that is     *)
(* registered for it, so it can release it.                                *)
THEOREM NoAccessLeaks ==
  ASSUME NoFaults
  PROVE  Spec => []NoLeakedAccess
<1>1. FInv => NoLeakedAccess
  <2> SUFFICES ASSUME FInv, NEW p \in ProcId, NEW k \in KeyId,
                      NEW t \in AccessType,
                      Registered(p, [key |-> k, type |-> t]), ~ InCall(p)
               PROVE  [key |-> k, type |-> t] \in held[p]
    BY DEF NoLeakedAccess
  <2>1. [key |-> k, type |-> t] \in Access
    BY DEF Access
  <2> QED
    BY <2>1 DEF FInv, Accounted, OnTheWay
<1> QED
  BY <1>1, FaultFreeInvariance, PTL

(* Without faults a client that has been told to wait is in a queue, has a *)
(* grant on its way to it or finds it in its stream: handle_requesting,    *)
(* the channel of the grants and the loop that delivers them lose nobody.  *)
THEOREM EveryGrantArrives ==
  ASSUME NoFaults
  PROVE  Spec => []GrantsReachWaiters
<1>1. FInv => GrantsReachWaiters
  <2> SUFFICES ASSUME FInv, NEW p \in ProcId, Awaiting(p),
                      Queued(p) = {}, Undelivered(p) = {}, to_client[p] = <<>>
               PROVE  FALSE
    BY DEF GrantsReachWaiters
  <2>0. /\ InCall(p) /\ call[p].awaits # NoKey /\ call[p].key \in KeyId
        /\ access_granted \in Seq(Grant)
        /\ \A j \in KeyId : Pending(j) \in Seq(Request)
        /\ Len(to_client[p]) = 0 /\ Stage(p)
    BY ThreadOfCall, SequenceTypes, StateTypes, EmptySeq
    DEF Awaiting, FInv, RInv, Typed, Call
  <2>1. Waiting(p) \/ Granted(p)
    BY <2>0 DEF Stage, Idle, Sent, Answered, Delivered, Told
  <2>2. CASE Waiting(p)
    <3> DEFINE k == call[p].key
    <3>1. PICK i \in 1 .. Len(Pending(k)) : Pending(k)[i].proc = p
      BY <2>2 DEF Waiting, QueuedOnce, Once
    <3>2. DOMAIN Pending(k) = 1 .. Len(Pending(k))
      BY <2>0, LenProperties
    <3>3. <<k, i>> \in Queued(p)
      BY <2>0, <3>1, <3>2 DEF Queued
    <3> QED
      BY <3>3
  <2>3. CASE Granted(p)
    <3>1. PICK i \in 1 .. Len(access_granted) : access_granted[i].proc = p
      BY <2>3 DEF Granted, GrantedOnce, Once
    <3>2. DOMAIN access_granted = 1 .. Len(access_granted)
      BY <2>0, LenProperties
    <3>3. i \in Undelivered(p)
      BY <3>1, <3>2 DEF Undelivered
    <3> QED
      BY <3>3
  <2> QED
    BY <2>1, <2>2, <2>3
<1> QED
  BY <1>1, FaultFreeInvariance, PTL
============================================================================
