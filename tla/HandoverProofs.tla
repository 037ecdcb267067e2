--------------------------- MODULE HandoverProofs ---------------------------
(***************************************************************************)
(* Why the exit of the primary takes no access away.                       *)
(*                                                                         *)
(* A client and the server it is connected to go through the stages of one *)
(* call together: what is in the streams between them, the queues, the     *)
(* channel and the map agree with what the client waits for, and each      *)
(* access the client has been told of is registered under its id (Stage).  *)
(* The stages speak of a map, a channel and two streams, not of a server,  *)
(* so the lemmas about them hold at the primary and at the secondary.      *)
(*                                                                         *)
(* Between the two lies the switch. When the primary has ended and the     *)
(* secondary has read all it had to say, the maps are equal; from then on  *)
(* the secondary's differs only by the requests of clients that have       *)
(* switched, which name other ids: it keeps up with what the primary had   *)
(* for a client that has not (KeepsUp). A client that switches is peeking  *)
(* for the answer to a request the primary has not read, so it arrives at  *)
(* the secondary in the stage it was in at the primary.                    *)
(***************************************************************************)
EXTENDS FailoverProofs

----------------------------------------------------------------------------
(* THE STAGES OF A CALL                                                    *)
(*                                                                         *)
(* p is the id of the client, d its call, h what it holds, ks and ag the   *)
(* map and the channel of the server it is connected to, ts and tc what it *)
(* has written and not been read, and been written and not read.           *)

EntriesInv(ks) == \A k \in KeyId : ks[k] # NoEntry => EntryInv(ks[k])

Queue(ks, k) == IF ks[k] = NoEntry THEN <<>> ELSE ks[k].pending

NoneQueued(ks, p) == \A k \in KeyId : NoneIn(Queue(ks, k), p)

(* Nothing is going to be sent to p. *)
Outside(ks, ag, p) == NoneQueued(ks, p) /\ NoneIn(ag, p)

(* p waits for access a, and for nothing else. *)
Queued(ks, ag, p, a) ==
  LET q == Queue(ks, a.key)
  IN  /\ Once(q, p)
      /\ \A i \in 1 .. Len(q) : q[i].proc = p => q[i].type = a.type
      /\ \A k \in KeyId \ {a.key} : NoneIn(Queue(ks, k), p)
      /\ NoneIn(ag, p)

(* p has been given access a, and is going to be told. *)
Granted(ks, ag, p, a) ==
  NoneQueued(ks, p) /\ Once(ag, p) /\ Registered(ks, p, a)

Wanted(d) == [key |-> d.key, type |-> d.type]

RequestOf(p, d) == [proc |-> p, type |-> d.type, key |-> d.key]

(* The client may take m for the access it asked for. *)
MayGrant(d, m) ==
  d.type \in AccessType /\ m.type = IF d.type = "Read" THEN "Holder" ELSE "Success"

Idle(p, d, ks, ag, ts, tc) ==
  d = NoCall /\ ts = <<>> /\ tc = <<>> /\ Outside(ks, ag, p)

Calling(d) == d # NoCall /\ d.kind \in {"sync", "resent"}

Sent(p, d, h, ks, ag, ts, tc) ==
  /\ Calling(d) /\ d.awaits = NoKey
  /\ ts = <<RequestOf(p, d)>> /\ tc = <<>>
  /\ Outside(ks, ag, p)
  /\ d.type = "Release" => \A a \in h : a.key # d.key

Answered(p, d, ks, ag, ts, tc) ==
  /\ Calling(d) /\ d.awaits = NoKey
  /\ ts = <<>> /\ Len(tc) = 1 /\ tc[1].type # "Wait"
  /\ Outside(ks, ag, p)
  /\ MayGrant(d, tc[1]) => Registered(ks, p, Wanted(d))

(* The client has been told to wait, and has read it or not. A grant that  *)
(* could not be delivered is lost: then nothing more comes.                *)
Told(p, d, ks, ag, ts, tc) ==
  LET n == IF d.awaits = NoKey THEN 1 ELSE 0
      a == Wanted(d)
  IN  /\ Calling(d) /\ d.type \in AccessType
      /\ ts = <<>>
      /\ n = 1 => Len(tc) > 0 /\ tc[1].type = "Wait"
      /\ \/ Len(tc) = n /\ \/ Outside(ks, ag, p)
                           \/ Queued(ks, ag, p, a)
                           \/ Granted(ks, ag, p, a)
         \/ Len(tc) = n + 1 /\ Outside(ks, ag, p) /\ Registered(ks, p, a)

Stage(p, d, h, ks, ag, ts, tc) ==
  /\ \A a \in h : Registered(ks, p, a)
  /\ \/ Idle(p, d, ks, ag, ts, tc)
     \/ Sent(p, d, h, ks, ag, ts, tc)
     \/ Answered(p, d, ks, ag, ts, tc)
     \/ Told(p, d, ks, ag, ts, tc)

----------------------------------------------------------------------------
(* THE INVARIANT *)

Unstarted ==
  \A c \in ClientId :
    ~ Started(c) => call[c] = NoCall /\ held[c] = {} /\ ~ is_primary[c]

(* Whose the ids and the connections are. *)
Ids ==
  /\ \A c \in ClientId : Started(c) => proc_id[c] \in p_issued
  /\ \A c, d \in ClientId :
       Started(c) /\ Started(d) /\ proc_id[c] = proc_id[d] => c = d
  /\ \A c \in ClientId :
       OnPrimary(c) => Token(c) = proc_id[c] /\ Token(c) \notin p_closed
  /\ \A c \in ClientId :
       OnSecondary(c) => Token(c) \in s_issued /\ Token(c) \notin s_closed
  /\ \A c, d \in ClientId :
       OnSecondary(c) /\ OnSecondary(d) /\ Token(c) = Token(d) => c = d
  /\ p_closed \subseteq p_issued /\ s_closed \subseteq s_issued
  /\ p_serving # NoProc => p_serving.token \in p_issued
  /\ s_serving # NoProc => s_serving.token \in s_issued \cup {PrimaryToken}

(* A request at the primary names the connection it comes by, ...          *)
NamedAtPrimary(t, m) == m = StopRequest \/ m.proc = t

(* ... and one at the secondary a client that has come to it, by this      *)
(* connection if it has abandoned none.                                    *)
NamedAtSecondary(t, m) ==
  \/ m = StopRequest
  \/ /\ m.proc \in p_issued
     /\ \A c \in ClientId :
          Started(c) /\ m.proc = proc_id[c] /\ c \notin abandoned
            => OnSecondary(c) /\ Token(c) = t

Named ==
  \A t \in ProcId :
    /\ \A i \in 1 .. Len(p_to_server[t]) : NamedAtPrimary(t, p_to_server[t][i])
    /\ \A i \in 1 .. Len(s_to_server[t]) :
         NamedAtSecondary(t, s_to_server[t][i])

(* Nothing is there of a client before it comes.                           *)
Fresh ==
  /\ \A t \in ProcId \ p_issued :
       /\ p_to_server[t] = <<>> /\ p_to_client[t] = <<>>
       /\ Outside(p_key_states, p_access_granted, t)
  /\ \A t \in ProcId \ s_issued : s_to_client[t] = <<>>

AtPrimary(c) ==
  LET p == proc_id[c]
  IN  Stage(p, call[c], held[c], p_key_states, p_access_granted,
            p_to_server[p], p_to_client[p])

AtSecondary(c) ==
  LET p == proc_id[c]
  IN  Stage(p, call[c], held[c], s_key_states, s_access_granted,
            s_to_server[p], s_to_client[p])

(* What the primary had registered under p the secondary has, and p waits  *)
(* at the secondary for nothing it did not wait for at the primary.        *)
KeepsUp(p) ==
  /\ \A a \in AtP!Access :
       Registered(p_key_states, p, a) => Registered(s_key_states, p, a)
  /\ \A k \in KeyId :
       NoneIn(Queue(p_key_states, k), p) => NoneIn(Queue(s_key_states, k), p)

Handed == p_process = "ended" /\ forwards = <<>>

Settled(c) ==
  /\ OnPrimary(c) => AtPrimary(c) /\ (Handed => KeepsUp(proc_id[c]))
  /\ OnSecondary(c) /\ Token(c) = proc_id[c] => Handed /\ AtSecondary(c)

(* Neither has it abandoned a request nor has anything come to it that     *)
(* answers none.                                                           *)
Undisturbed(c) == Started(c) /\ c \notin abandoned /\ c \notin surplus

HInv ==
  /\ Inv
  /\ EntriesInv(p_key_states) /\ EntriesInv(s_key_states)
  /\ Unstarted
  /\ AllPrimary =>
       /\ Ids /\ Named /\ Fresh
       /\ ~ diverged =>
            \A c \in ClientId : Undisturbed(c) => Settled(c)

----------------------------------------------------------------------------
(* WHAT A REQUEST MEANS FOR ONE ENTRY                                      *)

QueueOf(e) == IF e = NoEntry THEN <<>> ELSE e.pending

HasAccess(e, p, t) ==
  e # NoEntry /\ IF t = "Write" THEN e.writer = p ELSE p \in e.readers

(* The request is queued, or lets others have the key.                     *)
Asks(e, m) == e # NoEntry /\ m.type \in AccessType /\ Queues(e, m)

Frees(e, m) == e # NoEntry /\ m.type = "Release" /\ Holds(e, m.proc)

(* The queue and what is registered are those of the entry.                *)
LEMMA ByEntry ==
  /\ \A ks, k : Queue(ks, k) = QueueOf(ks[k])
  /\ \A ks, p, a : Registered(ks, p, a) <=> HasAccess(ks[a.key], p, a.type)
BY DEF Queue, QueueOf, Registered, HasAccess

(* A queue is a sequence of requests.                                      *)
LEMMA QueueType ==
  ASSUME NEW e \in Entry \cup {NoEntry}
  PROVE  QueueOf(e) \in Seq(Request) /\ Len(QueueOf(e)) \in Nat
<1>1. QueueOf(e) \in Seq(Request)
  BY EmptySeq DEF QueueOf, Entry
<1> QED
  BY <1>1, LenProperties

(* Every request keeps what the entries satisfy between two calls.         *)
LEMMA EntryAfterKeepsInv ==
  ASSUME NEW e \in Entry \cup {NoEntry}, e # NoEntry => EntryInv(e),
         NEW m \in RequestMessage, EntryAfter(e, m) # NoEntry
  PROVE  EntryInv(EntryAfter(e, m))
<1>0. m.proc \in ProcId /\ m.type \in RequestType
  BY DEF RequestMessage
<1>1. CASE e = NoEntry
  BY <1>0, <1>1, NewKeyStateKeepsInv DEF EntryAfter
<1>2. CASE e # NoEntry
  <2>0. e \in Entry /\ EntryInv(e)
    BY <1>2
  <2>1. CASE m.type \in AccessType /\ Queues(e, m)
    <3>1. Accessed(e) /\ (m.type = "Read" => ReadMustQueue(e))
      BY <2>0, <2>1, NoProcAssumption
      DEF Queues, ReadMustQueue, Accessed, FrontIsWrite, EntryInv, AccessType
    <3>2. EntryInv(Enqueue(e, m.proc, m.type))
      BY <1>0, <2>0, <2>1, <3>1, EnqueueKeepsInv
    <3> QED
      BY <1>2, <2>1, <3>2 DEF EntryAfter
  <2>2. CASE m.type = "Read" /\ ~ Queues(e, m)
    <3>1. EntryInv(RegisterReader(e, m.proc))
      BY <1>0, <2>0, <2>2, RegisterReaderKeepsInv DEF Queues
    <3> QED
      BY <1>2, <2>2, <3>1 DEF EntryAfter, AccessType
  <2>3. CASE m.type = "Write" /\ ~ Queues(e, m)
    <3>1. EntryInv(RegisterWriter(e, m.proc))
      BY <1>0, <2>0, <2>3, RegisterWriterKeepsInv DEF Queues
    <3> QED
      BY <1>2, <2>3, <3>1 DEF EntryAfter, AccessType
  <2>4. CASE m.type \notin AccessType
    <3>1. ASSUME Holds(e, m.proc) PROVE EntryInv(AfterRelease(e, m.proc))
      BY <1>0, <2>0, <3>1, AfterReleaseKeepsInv
    <3> QED
      BY <1>2, <2>0, <2>4, <3>1 DEF EntryAfter
  <2> QED
    BY <2>1, <2>2, <2>3, <2>4 DEF AccessType
<1> QED
  BY <1>1, <1>2

(* A request joins the queue or leaves it alone, unless it is a release by *)
(* one that holds the key.                                                 *)
LEMMA QueueAfter ==
  ASSUME NEW e \in Entry \cup {NoEntry}, e # NoEntry => EntryInv(e),
         NEW m \in RequestMessage, ~ Frees(e, m)
  PROVE  QueueOf(EntryAfter(e, m)) =
           IF Asks(e, m)
           THEN Append(QueueOf(e), [proc |-> m.proc, type |-> m.type])
           ELSE QueueOf(e)
<1>0. m.proc \in ProcId /\ m.type \in RequestType
  BY DEF RequestMessage
<1>1. CASE e = NoEntry
  <2>1. NewKeyState(m.proc) \in Entry
    BY <1>0, NewKeyStateKeepsInv
  <2>2. NewKeyState(m.proc).pending = <<>>
    BY DEF NewKeyState
  <2> QED
    BY <1>1, <2>1, <2>2 DEF EntryAfter, Asks, QueueOf
<1>2. CASE e # NoEntry
  <2>0. e \in Entry /\ EntryInv(e)
    BY <1>2
  <2>1. CASE Asks(e, m)
    <3>1. e.pending \in Seq(Request)
          /\ [proc |-> m.proc, type |-> m.type] \in Request
      BY <1>0, <2>0, <2>1 DEF Entry, Request, Asks
    <3>2. Append(e.pending, [proc |-> m.proc, type |-> m.type])
            \in Seq(Request)
      BY <3>1, AppendProperties
    <3>3. /\ EntryAfter(e, m) = Enqueue(e, m.proc, m.type)
          /\ EntryAfter(e, m) \in Entry
          /\ EntryAfter(e, m).pending
               = Append(e.pending, [proc |-> m.proc, type |-> m.type])
      BY <2>0, <2>1, <3>2 DEF EntryAfter, Asks, Enqueue, Entry
    <3> QED
      BY <1>2, <2>1, <3>3, NoEntryAssumption DEF QueueOf
  <2>2. CASE m.type \in AccessType /\ ~ Queues(e, m)
    <3>1. /\ RegisterReader(e, m.proc) \in Entry
          /\ RegisterReader(e, m.proc).pending = e.pending
          /\ RegisterWriter(e, m.proc) \in Entry
          /\ RegisterWriter(e, m.proc).pending = e.pending
      BY <1>0, <2>0 DEF RegisterReader, RegisterWriter, Entry
    <3> QED
      BY <1>2, <2>2, <3>1, NoEntryAssumption DEF EntryAfter, Asks, QueueOf
  <2>3. CASE m.type = "Delete" /\ ~ Accessed(e)
    <3>1. e.pending = <<>>
      BY <2>0, <2>3 DEF EntryInv
    <3> QED
      BY <1>2, <2>3, <3>1 DEF EntryAfter, Asks, QueueOf, AccessType
  <2>4. CASE /\ m.type \notin AccessType
             /\ ~ (m.type = "Delete" /\ ~ Accessed(e))
    BY <1>2, <2>4 DEF EntryAfter, Asks, Frees, QueueOf
  <2> QED
    BY <1>2, <2>1, <2>2, <2>3, <2>4 DEF Asks
<1> QED
  BY <1>1, <1>2

(* What p has registered it keeps, unless it asks to release it.           *)
LEMMA AccessAfter ==
  ASSUME NEW e \in Entry \cup {NoEntry}, e # NoEntry => EntryInv(e),
         NEW m \in RequestMessage, NEW p \in ProcId, NEW t \in AccessType,
         HasAccess(e, p, t), m.proc # p \/ m.type # "Release"
  PROVE  HasAccess(EntryAfter(e, m), p, t)
<1>0. m.proc \in ProcId /\ m.type \in RequestType
  BY DEF RequestMessage
<1>1. e \in Entry /\ e # NoEntry /\ EntryInv(e) /\ Accessed(e)
  BY NoProcAssumption DEF HasAccess, Accessed
<1>2. CASE Asks(e, m)
  <2>1. e.pending \in Seq(Request)
        /\ [proc |-> m.proc, type |-> m.type] \in Request
    BY <1>0, <1>1, <1>2 DEF Entry, Request, Asks
  <2>2. Append(e.pending, [proc |-> m.proc, type |-> m.type])
          \in Seq(Request)
    BY <2>1, AppendProperties
  <2>3. /\ EntryAfter(e, m) \in Entry
        /\ EntryAfter(e, m).writer = e.writer
        /\ EntryAfter(e, m).readers = e.readers
    BY <1>1, <1>2, <2>2 DEF EntryAfter, Asks, Enqueue, Entry
  <2> QED
    BY <2>3, NoEntryAssumption DEF HasAccess
<1>3. CASE m.type = "Read" /\ ~ Queues(e, m)
  <2>1. /\ EntryAfter(e, m) \in Entry
        /\ EntryAfter(e, m).writer = e.writer
        /\ EntryAfter(e, m).readers = e.readers \cup {m.proc}
    BY <1>0, <1>1, <1>3 DEF EntryAfter, RegisterReader, Entry, AccessType
  <2> QED
    BY <2>1, NoEntryAssumption DEF HasAccess
<1>4. CASE m.type = "Write" /\ ~ Queues(e, m)
  BY <1>1, <1>4 DEF Queues
<1>5. CASE Frees(e, m)
  <2>1. /\ AfterRelease(e, m.proc) \in Entry
        /\ EntryAfter(e, m) = AfterRelease(e, m.proc)
    BY <1>0, <1>1, <1>5, AfterReleaseKeepsInv
    DEF Frees, EntryAfter, AccessType
  <2>2. PICK k \in {m.key} : k \in KeyId
    BY DEF RequestMessage
  <2>3. PICK n \in 0 .. Len(e.pending) :
          Serves(e, m.proc, k, m.proc, n)
    BY <1>0, <1>1, <1>5, <2>2, AfterReleaseServes DEF Frees
  <2>4. p \in ProcId \ {m.proc}
    BY <1>5 DEF Frees
  <2> QED
    BY <2>1, <2>3, <2>4, NoEntryAssumption DEF Serves, HasAccess
<1>6. CASE m.type \notin AccessType /\ ~ Frees(e, m)
  BY <1>1, <1>6 DEF EntryAfter, Frees
<1> QED
  BY <1>1, <1>2, <1>3, <1>4, <1>5, <1>6 DEF Asks, AccessType

(* An access that is asked for and need not be waited for is registered.   *)
LEMMA AccessAtOnce ==
  ASSUME NEW e \in Entry, NEW m \in RequestMessage, m.type \in AccessType,
         ~ Asks(e, m)
  PROVE  HasAccess(EntryAfter(e, m), m.proc, m.type)
<1>0. m.proc \in ProcId /\ e # NoEntry /\ ~ Queues(e, m)
  BY NoEntryAssumption DEF RequestMessage, Asks
<1>1. /\ RegisterReader(e, m.proc) \in Entry
      /\ m.proc \in RegisterReader(e, m.proc).readers
      /\ RegisterWriter(e, m.proc) \in Entry
      /\ RegisterWriter(e, m.proc).writer = m.proc
  BY <1>0 DEF RegisterReader, RegisterWriter, Entry
<1> QED
  BY <1>0, <1>1, NoEntryAssumption DEF HasAccess, EntryAfter, AccessType

(* A release of the key gives the first n who wait for it their access.    *)
LEMMA FreesServes ==
  ASSUME NEW e \in Entry \cup {NoEntry}, e # NoEntry => EntryInv(e),
         NEW m \in RequestMessage, Frees(e, m), NEW h \in ProcId
  PROVE  \E n \in 0 .. Len(QueueOf(e)) :
           /\ Cut(QueueOf(EntryAfter(e, m)), QueueOf(e), n)
           /\ LET g == GrantsOnRelease(e, m.proc, m.key, h)
              IN  /\ Len(g) = n
                  /\ \A i \in 1 .. n :
                       /\ g[i].proc = QueueOf(e)[i].proc
                       /\ HasAccess(EntryAfter(e, m), QueueOf(e)[i].proc,
                                    QueueOf(e)[i].type)
<1>0. m.proc \in ProcId /\ m.key \in KeyId
  BY DEF RequestMessage
<1>1. e \in Entry /\ e # NoEntry /\ EntryInv(e) /\ Holds(e, m.proc)
      /\ e.pending \in Seq(Request)
  BY DEF Frees, Entry
<1>2. /\ AfterRelease(e, m.proc) \in Entry
      /\ EntryAfter(e, m) = AfterRelease(e, m.proc)
  BY <1>0, <1>1, AfterReleaseKeepsInv DEF Frees, EntryAfter, AccessType
<1>3. PICK n \in 0 .. Len(e.pending) : Serves(e, m.proc, m.key, h, n)
  BY <1>0, <1>1, AfterReleaseServes
<1>4. Cut(AfterRelease(e, m.proc).pending, e.pending, n)
  BY <1>1, <1>3, SuffixElements DEF Serves, Cut
<1>5. /\ QueueOf(e) = e.pending
      /\ QueueOf(EntryAfter(e, m)) = AfterRelease(e, m.proc).pending
      /\ EntryAfter(e, m) # NoEntry
  BY <1>1, <1>2, NoEntryAssumption DEF QueueOf
<1> DEFINE g == GrantsOnRelease(e, m.proc, m.key, h)
           q == e.pending
           r == AfterRelease(e, m.proc)
<1>6. /\ Len(g) = n
      /\ \A i \in 1 .. n :
           /\ g[i] = [proc |-> q[i].proc, key |-> m.key,
                      type |-> q[i].type, holder |-> h]
           /\ IF q[i].type = "Write" THEN r.writer = q[i].proc
                                     ELSE q[i].proc \in r.readers
  BY <1>3 DEF Serves
<1>7. \A i \in 1 .. n : /\ g[i].proc = q[i].proc
                       /\ HasAccess(r, q[i].proc, q[i].type)
  <2> HIDE DEF g, q, r
  <2> QED
    BY <1>2, <1>5, <1>6 DEF HasAccess, r
<1> HIDE DEF g
<1> QED
  BY <1>2, <1>4, <1>5, <1>6, <1>7 DEF g

----------------------------------------------------------------------------
(* WHAT A REQUEST MEANS FOR A PROCESS                                      *)

MapOK(ks) == ks \in KeyMaps /\ EntriesInv(ks)

(* The map after a request differs at its key.                             *)
LEMMA EffectEntry ==
  ASSUME NEW ks, MapOK(ks), NEW m \in RequestMessage
  PROVE  /\ m.key \in KeyId /\ m.proc \in ProcId
         /\ \A k \in KeyId : /\ ks[k] \in Entry \cup {NoEntry}
                             /\ ks[k] # NoEntry => EntryInv(ks[k])
         /\ EffectOf(ks, m)[m.key] = EntryAfter(ks[m.key], m)
         /\ \A k \in KeyId \ {m.key} : EffectOf(ks, m)[k] = ks[k]
BY DEF MapOK, KeyMaps, EntriesInv, EffectOf, RequestMessage

(* Every message keeps the entries in order.                               *)
LEMMA EffectKeepsInv ==
  ASSUME NEW ks, MapOK(ks), NEW m
  PROVE  MapOK(EffectOf(ks, m))
<1>1. EffectOf(ks, m) \in KeyMaps
  BY EffectType DEF MapOK
<1>2. CASE m \in RequestMessage
  <2>1. ASSUME NEW k \in KeyId, EffectOf(ks, m)[k] # NoEntry
        PROVE  EntryInv(EffectOf(ks, m)[k])
    <3>1. CASE k = m.key
      <4>1. EntryAfter(ks[k], m) # NoEntry
        BY <1>2, <2>1, <3>1, EffectEntry
      <4>2. EntryInv(EntryAfter(ks[k], m))
        BY <1>2, <3>1, <4>1, EffectEntry, EntryAfterKeepsInv
      <4> QED
        BY <1>2, <3>1, <4>2, EffectEntry
    <3>2. CASE k # m.key
      BY <1>2, <2>1, <3>2, EffectEntry
    <3> QED
      BY <3>1, <3>2
  <2> QED
    BY <1>1, <2>1 DEF MapOK, EntriesInv
<1>3. CASE m \notin RequestMessage
  BY <1>3 DEF EffectOf
<1> QED
  BY <1>2, <1>3

(* An access stays registered, unless its owner releases the key.          *)
LEMMA RegisteredStays ==
  ASSUME NEW ks, MapOK(ks), NEW m, NEW p \in ProcId, NEW a \in AtP!Access,
         m \in RequestMessage =>
           m.proc # p \/ m.type # "Release" \/ m.key # a.key,
         Registered(ks, p, a)
  PROVE  Registered(EffectOf(ks, m), p, a)
<1>0. a.key \in KeyId /\ a.type \in AccessType
  BY DEF AtP!Access, AtP!AccessType, AccessType
<1>1. CASE m \in RequestMessage /\ a.key = m.key
  <2>1. HasAccess(EntryAfter(ks[a.key], m), p, a.type)
    BY <1>0, <1>1, EffectEntry, AccessAfter, ByEntry
  <2> QED
    BY <1>1, <2>1, EffectEntry, ByEntry
<1>2. CASE m \in RequestMessage /\ a.key # m.key
  BY <1>0, <1>2, EffectEntry, ByEntry
<1>3. CASE m \notin RequestMessage
  BY <1>3 DEF EffectOf
<1> QED
  BY <1>1, <1>2, <1>3

(* How the queue of a key changes: at the key of the request only, at its  *)
(* end or at its front.                                                    *)
LEMMA QueueGoes ==
  ASSUME NEW ks, MapOK(ks), NEW m \in RequestMessage
  PROVE  LET q == Queue(ks, m.key)
             r == Queue(EffectOf(ks, m), m.key)
             x == [proc |-> m.proc, type |-> m.type]
         IN  /\ \A k \in KeyId \ {m.key} :
                  Queue(EffectOf(ks, m), k) = Queue(ks, k)
             /\ q \in Seq(Request) /\ Len(q) \in Nat
             /\ ~ Frees(ks[m.key], m) => \/ r = q
                                         \/ /\ Asks(ks[m.key], m)
                                            /\ x \in Request
                                            /\ r = Append(q, x)
             /\ Asks(ks[m.key], m) => x \in Request /\ r = Append(q, x)
             /\ Frees(ks[m.key], m) => \E n \in 0 .. Len(q) : Cut(r, q, n)
<1> DEFINE e == ks[m.key]
<1>1. /\ m.key \in KeyId /\ e \in Entry \cup {NoEntry}
      /\ (e # NoEntry => EntryInv(e))
      /\ m.proc \in ProcId
  BY EffectEntry
<1>2. /\ Queue(ks, m.key) = QueueOf(e)
      /\ Queue(EffectOf(ks, m), m.key) = QueueOf(EntryAfter(e, m))
      /\ \A k \in KeyId \ {m.key} : Queue(EffectOf(ks, m), k) = Queue(ks, k)
  BY EffectEntry, ByEntry
<1>3. Asks(e, m) => [proc |-> m.proc, type |-> m.type] \in Request
  BY <1>1 DEF Asks, Request
<1>4. Asks(e, m) => ~ Frees(e, m)
  BY DEF Asks, Frees, AccessType
<1>5. Frees(e, m) =>
        \E n \in 0 .. Len(QueueOf(e)) :
          Cut(QueueOf(EntryAfter(e, m)), QueueOf(e), n)
  BY <1>1, FreesServes
<1> HIDE DEF e
<1> QED
  BY <1>1, <1>2, <1>3, <1>4, <1>5, QueueAfter, QueueType DEF e

(* A process that waits for nothing is not put in a queue by the requests  *)
(* of others, nor by its own that need not wait.                           *)
LEMMA NoneQueuedStays ==
  ASSUME NEW ks, MapOK(ks), NEW m, NEW p \in ProcId,
         m \in RequestMessage => m.proc # p \/ ~ Asks(ks[m.key], m),
         NEW k \in KeyId, NoneIn(Queue(ks, k), p)
  PROVE  NoneIn(Queue(EffectOf(ks, m), k), p)
<1>1. CASE m \in RequestMessage /\ k = m.key
  <2> DEFINE q == Queue(ks, m.key)
             r == Queue(EffectOf(ks, m), m.key)
             x == [proc |-> m.proc, type |-> m.type]
  <2>1. /\ q \in Seq(Request) /\ Len(q) \in Nat
        /\ ~ Frees(ks[m.key], m) => \/ r = q
                                    \/ /\ Asks(ks[m.key], m)
                                       /\ x \in Request
                                       /\ r = Append(q, x)
        /\ Frees(ks[m.key], m) => \E n \in 0 .. Len(q) : Cut(r, q, n)
    BY <1>1, QueueGoes
  <2>2. x.proc = m.proc /\ NoneIn(q, p)
    BY <1>1
  <2> HIDE DEF q, r, x
  <2>3. CASE Frees(ks[m.key], m)
    <3>1. PICK n \in 0 .. Len(q) : Cut(r, q, n)
      BY <2>1, <2>3
    <3>2. NoneIn(r, p)
      BY <2>1, <2>2, <3>1, CutNone
    <3> QED
      BY <1>1, <3>2 DEF r
  <2>4. CASE r = q
    BY <1>1, <2>2, <2>4 DEF r, q
  <2>5. CASE Asks(ks[m.key], m) /\ x \in Request /\ r = Append(q, x)
    <3>1. m.proc # p
      BY <1>1, <2>5
    <3>2. NoneIn(r, p)
      BY <2>1, <2>2, <2>5, <3>1, AppendOther
    <3> QED
      BY <1>1, <3>2 DEF r
  <2> QED
    BY <2>1, <2>3, <2>4, <2>5
<1>2. CASE m \in RequestMessage /\ k # m.key
  BY <1>2, QueueGoes
<1>3. CASE m \notin RequestMessage
  BY <1>3 DEF EffectOf
<1> QED
  BY <1>1, <1>2, <1>3

(* What a call sends to the channel, if anything: the front of the queue   *)
(* of the key that is released, whose requests are now registered.         *)
LEMMA ChannelGoes ==
  ASSUME NEW ks, MapOK(ks), NEW ag \in Seq(Grant), NEW rep, NEW m,
         NEW ag2, NEW ks2, NEW rep2,
         Goes(m, ks, ag, rep, ks2, ag2, rep2), ag2 # ag
  PROVE  /\ m \in RequestMessage /\ Frees(ks[m.key], m)
         /\ \E n \in 0 .. Len(Queue(ks, m.key)) :
              LET q == Queue(ks, m.key)
              IN  /\ Cut(Queue(ks2, m.key), q, n)
                  /\ Joins(ag2, ag, q, n)
                  /\ \A i \in 1 .. n :
                       Registered(ks2, q[i].proc,
                                  [key |-> m.key, type |-> q[i].type])
<1>0. /\ m \in RequestMessage /\ Frees(ks[m.key], m)
      /\ ks2 = EffectOf(ks, m)
  BY DEF Goes, Frees
<1> DEFINE e == ks[m.key]
           q == QueueOf(e)
           r == QueueOf(EntryAfter(e, m))
<1>1. /\ m.key \in KeyId /\ m.proc \in ProcId
      /\ e \in Entry /\ EntryInv(e)
  BY <1>0, EffectEntry DEF Frees
<1>2. PICK h \in WakeHolders(e, m.proc) :
        ag2 = ag \o GrantsOnRelease(e, m.proc, m.key, h)
  BY DEF Goes
<1>3. h \in ProcId
  <2>1. Surrender(e, m.proc) \in Entry
    BY <1>1 DEF Surrender, Entry
  <2> QED
    BY <2>1 DEF WakeHolders, HolderChoices, Entry
<1> DEFINE g == GrantsOnRelease(e, m.proc, m.key, h)
<1>4. PICK n \in 0 .. Len(q) :
        /\ Cut(r, q, n)
        /\ Len(g) = n
        /\ \A i \in 1 .. n :
             /\ g[i].proc = q[i].proc
             /\ HasAccess(EntryAfter(e, m), q[i].proc, q[i].type)
  BY <1>0, <1>1, <1>3, FreesServes
<1>5. g \in Seq(Grant)
  BY <1>1, <1>3, GrantsType
<1>6. q \in Seq(Request) /\ Len(q) \in Nat
  BY <1>1, QueueType
<1>7. /\ Queue(ks, m.key) = q /\ Queue(ks2, m.key) = r
      /\ ks2[m.key] = EntryAfter(e, m)
  BY <1>0, EffectEntry, ByEntry
<1> HIDE DEF e, q, r, g
<1>8. /\ Len(ag2) = Len(ag) + Len(g) /\ Len(ag) \in Nat
      /\ \A i \in 1 .. Len(ag2) :
           ag2[i] = IF i <= Len(ag) THEN ag[i] ELSE g[i - Len(ag)]
  BY <1>2, <1>5, ConcatProperties, LenProperties DEF g
<1>9. Joins(ag2, ag, q, n)
  <2>1. ASSUME NEW i \in 1 .. Len(ag2), ~ (i <= Len(ag))
        PROVE  i - Len(ag) \in 1 .. n
    BY <1>4, <1>8, <2>1
  <2> QED
    BY <1>4, <1>8, <2>1 DEF Joins
<1>10. \A i \in 1 .. n :
         Registered(ks2, q[i].proc, [key |-> m.key, type |-> q[i].type])
  BY <1>4, <1>7, ByEntry
<1> QED
  BY <1>0, <1>4, <1>7, <1>9, <1>10

(* The types of the sequences a process is looked for in.                  *)
LEMMA Lengths ==
  ASSUME NEW ks, MapOK(ks), NEW ag \in Seq(Grant)
  PROVE  /\ Len(ag) \in Nat
         /\ \A k \in KeyId : Queue(ks, k) \in Seq(Request)
                             /\ Len(Queue(ks, k)) \in Nat
BY QueueType, ByEntry, LenProperties DEF MapOK, KeyMaps

(* Nothing is sent to a process that waits for nothing.                    *)
LEMMA OutsideStays ==
  ASSUME NEW ks, MapOK(ks), NEW ag \in Seq(Grant), NEW rep, NEW m,
         NEW ks2, NEW ag2, NEW rep2,
         Goes(m, ks, ag, rep, ks2, ag2, rep2), NEW p \in ProcId,
         m \in RequestMessage => m.proc # p \/ ~ Asks(ks[m.key], m),
         Outside(ks, ag, p)
  PROVE  Outside(ks2, ag2, p)
<1>1. NoneQueued(ks2, p)
  BY NoneQueuedStays DEF Outside, NoneQueued, Goes
<1>2. NoneIn(ag2, p)
  <2>1. CASE ag2 = ag
    BY <2>1 DEF Outside
  <2>2. CASE ag2 # ag
    <3>1. m.key \in KeyId
      BY <2>2, ChannelGoes, EffectEntry
    <3>2. PICK n \in 0 .. Len(Queue(ks, m.key)) :
            Joins(ag2, ag, Queue(ks, m.key), n)
      BY <2>2, ChannelGoes
    <3> DEFINE q == Queue(ks, m.key)
    <3>3. Len(q) \in Nat /\ Len(ag) \in Nat /\ NoneIn(q, p) /\ NoneIn(ag, p)
      BY <3>1, Lengths DEF Outside, NoneQueued
    <3> HIDE DEF q
    <3>4. n \in Nat /\ n <= Len(q) /\ Joins(ag2, ag, q, n)
      BY <3>2, <3>3 DEF q
    <3> QED
      BY <3>3, <3>4, JoinNone
  <2> QED
    BY <2>1, <2>2
<1> QED
  BY <1>1, <1>2 DEF Outside

(* Who asks for an access that is not free waits for it.                   *)
LEMMA AskedIsQueued ==
  ASSUME NEW ks, MapOK(ks), NEW ag \in Seq(Grant), NEW rep,
         NEW m \in RequestMessage, NEW ks2, NEW ag2, NEW rep2,
         Goes(m, ks, ag, rep, ks2, ag2, rep2), Asks(ks[m.key], m),
         Outside(ks, ag, m.proc)
  PROVE  Queued(ks2, ag2, m.proc, [key |-> m.key, type |-> m.type])
<1> DEFINE q == Queue(ks, m.key)
           r == Queue(ks2, m.key)
           x == [proc |-> m.proc, type |-> m.type]
<1>1. /\ q \in Seq(Request) /\ Len(q) \in Nat
      /\ x \in Request /\ r = Append(q, x)
      /\ \A k \in KeyId \ {m.key} : Queue(ks2, k) = Queue(ks, k)
  BY QueueGoes DEF Goes
<1>2. m.key \in KeyId /\ ~ Frees(ks[m.key], m)
  BY EffectEntry DEF Asks, Frees, AccessType
<1>3. ag2 = ag /\ NoneIn(ag2, m.proc)
  BY <1>2, ChannelGoes DEF Outside
<1>4. NoneIn(q, m.proc) /\ \A k \in KeyId : NoneIn(Queue(ks, k), m.proc)
  BY <1>2 DEF Outside, NoneQueued
<1>5. x.proc = m.proc /\ x.type = m.type
  OBVIOUS
<1> HIDE DEF q, r, x
<1>6. Once(r, m.proc)
  BY <1>1, <1>4, <1>5, AppendOwn
<1>7. \A i \in 1 .. Len(r) : r[i].proc = m.proc => r[i].type = m.type
  <2>1. Len(r) = Len(q) + 1 /\ r[Len(q) + 1] = x
        /\ \A i \in 1 .. Len(q) : r[i] = q[i]
    BY <1>1, AppendProperties
  <2>2. \A i \in 1 .. Len(r) : i \in 1 .. Len(q) \/ i = Len(q) + 1
    BY <1>1, <2>1
  <2> QED
    BY <1>4, <1>5, <2>1, <2>2 DEF NoneIn
<1> QED
  BY <1>1, <1>3, <1>4, <1>6, <1>7 DEF Queued, r

(* The grant of a process stays the only one, and its access registered,   *)
(* while others are served.                                                *)
LEMMA GrantedStays ==
  ASSUME NEW ks, MapOK(ks), NEW ag \in Seq(Grant), NEW rep, NEW m,
         NEW ks2, NEW ag2, NEW rep2,
         Goes(m, ks, ag, rep, ks2, ag2, rep2), NEW p \in ProcId,
         m \in RequestMessage => m.proc # p,
         NEW a \in AtP!Access, Granted(ks, ag, p, a)
  PROVE  Granted(ks2, ag2, p, a)
<1>1. NoneQueued(ks2, p)
  BY NoneQueuedStays DEF Granted, NoneQueued, Goes
<1>2. Registered(ks2, p, a)
  BY RegisteredStays DEF Granted, Goes
<1>3. Once(ag2, p)
  <2>1. CASE ag2 = ag
    BY <2>1 DEF Granted
  <2>2. CASE ag2 # ag
    <3>1. m.key \in KeyId
      BY <2>2, ChannelGoes, EffectEntry
    <3>2. PICK n \in 0 .. Len(Queue(ks, m.key)) :
            Joins(ag2, ag, Queue(ks, m.key), n)
      BY <2>2, ChannelGoes
    <3> DEFINE q == Queue(ks, m.key)
    <3>3. Len(q) \in Nat /\ Len(ag) \in Nat /\ NoneIn(q, p) /\ Once(ag, p)
      BY <3>1, Lengths DEF Granted, NoneQueued
    <3> HIDE DEF q
    <3>4. n \in Nat /\ n <= Len(q) /\ Joins(ag2, ag, q, n)
      BY <3>2, <3>3 DEF q
    <3> QED
      BY <3>3, <3>4, JoinOnce
  <2> QED
    BY <2>1, <2>2
<1> QED
  BY <1>1, <1>2, <1>3 DEF Granted

(* Who waits goes on waiting while others are served, or is served; its    *)
(* grant may be lost.                                                      *)
LEMMA QueuedGoes ==
  ASSUME NEW ks, MapOK(ks), NEW ag \in Seq(Grant), NEW rep, NEW m,
         NEW ks2, NEW ag2, NEW rep2,
         Goes(m, ks, ag, rep, ks2, ag2, rep2), NEW p \in ProcId,
         m \in RequestMessage => m.proc # p,
         NEW a \in AtP!Access, Queued(ks, ag, p, a)
  PROVE  \/ Queued(ks2, ag2, p, a)
         \/ Granted(ks2, ag2, p, a)
         \/ Outside(ks2, ag2, p)
<1> DEFINE q == Queue(ks, a.key)
           r == Queue(ks2, a.key)
<1>0. a.key \in KeyId /\ a = [key |-> a.key, type |-> a.type]
  BY DEF AtP!Access
<1>1. /\ q \in Seq(Request) /\ Len(q) \in Nat /\ Len(ag) \in Nat
      /\ Once(q, p)
      /\ \A i \in 1 .. Len(q) : q[i].proc = p => q[i].type = a.type
      /\ NoneIn(ag, p)
  BY <1>0, Lengths DEF Queued
<1>2. \A k \in KeyId \ {a.key} : NoneIn(Queue(ks2, k), p)
  BY NoneQueuedStays DEF Queued, Goes
<1>3. ASSUME NoneIn(r, p) PROVE NoneQueued(ks2, p)
  BY <1>2, <1>3 DEF NoneQueued
<1>4. CASE m \in RequestMessage /\ m.key = a.key
  <2> DEFINE x == [proc |-> m.proc, type |-> m.type]
  <2>1. /\ ~ Frees(ks[m.key], m) => \/ r = q
                                    \/ x \in Request /\ r = Append(q, x)
        /\ Frees(ks[m.key], m) => \E n \in 0 .. Len(q) : Cut(r, q, n)
    BY <1>4, QueueGoes DEF Goes
  <2>2. m.proc # p /\ x.proc = m.proc
    BY <1>4
  <2>3. CASE ag2 # ag
    <3>1. PICK n \in 0 .. Len(q) :
            /\ Cut(r, q, n) /\ Joins(ag2, ag, q, n)
            /\ \A i \in 1 .. n :
                 Registered(ks2, q[i].proc,
                            [key |-> a.key, type |-> q[i].type])
      BY <1>4, <2>3, ChannelGoes
    <3> HIDE DEF q, r
    <3>2. \/ Once(r, p) /\ NoneIn(ag2, p)
          \/ NoneIn(r, p) /\ Once(ag2, p)
      BY <1>1, <3>1, CutOrJoin
    <3>3. CASE Once(r, p) /\ NoneIn(ag2, p)
      <4>1. \A i \in 1 .. Len(r) : r[i].proc = p => r[i].type = a.type
        BY <1>1, <3>1 DEF Cut
      <4> QED
        BY <1>2, <3>3, <4>1 DEF Queued, r
    <3>4. CASE NoneIn(r, p) /\ Once(ag2, p)
      <4>1. PICK i \in 1 .. Len(q) : q[i].proc = p
        BY <1>1 DEF Once
      <4>2. i \in 1 .. n
        <5> SUFFICES ASSUME ~ (i <= n) PROVE FALSE
          BY <3>1
        <5>1. i - n \in 1 .. Len(r) /\ n + (i - n) = i
          BY <1>1, <3>1 DEF Cut
        <5>2. r[i - n] = q[i]
          BY <3>1, <5>1 DEF Cut
        <5> QED
          BY <3>4, <4>1, <5>1, <5>2 DEF NoneIn
      <4>3. Registered(ks2, p, a)
        BY <1>0, <1>1, <3>1, <4>1, <4>2
      <4> QED
        BY <1>3, <3>4, <4>3 DEF Granted
    <3> QED
      BY <3>2, <3>3, <3>4
  <2>4. CASE ag2 = ag /\ Frees(ks[m.key], m)
    <3> HIDE DEF q, r
    <3>1. PICK n \in 0 .. Len(q) : Cut(r, q, n)
      BY <2>1, <2>4
    <3>0. \A j \in 1 .. Len(r) :
            r[j] = q[n + j] /\ n + j \in 1 .. Len(q) /\ j = (n + j) - n
      BY <1>1, <3>1 DEF Cut
    <3>2. \A i \in 1 .. Len(r) : r[i].proc = p => r[i].type = a.type
      BY <1>1, <3>0
    <3>3. Once(r, p) \/ NoneIn(r, p)
      <4>1. PICK i \in 1 .. Len(q) :
              q[i].proc = p /\ \A j \in 1 .. Len(q) : q[j].proc = p => j = i
        BY <1>1 DEF Once
      <4>2. ASSUME NEW j \in 1 .. Len(r), r[j].proc = p
            PROVE  j = i - n
        BY <3>0, <4>1, <4>2
      <4> QED
        BY <4>2 DEF Once, NoneIn
    <3>4. CASE Once(r, p)
      BY <1>1, <1>2, <2>4, <3>2, <3>4 DEF Queued, r
    <3>5. CASE NoneIn(r, p)
      BY <1>1, <1>3, <2>4, <3>5 DEF Outside
    <3> QED
      BY <3>3, <3>4, <3>5
  <2>5. CASE ag2 = ag /\ ~ Frees(ks[m.key], m)
    <3> HIDE DEF q, r, x
    <3>1. CASE r = q
      BY <1>1, <1>2, <2>5, <3>1 DEF Queued, r
    <3>2. CASE x \in Request /\ r = Append(q, x)
      <4>1. Once(r, p)
        BY <1>1, <2>2, <3>2, AppendOther
      <4>2. \A i \in 1 .. Len(r) : r[i].proc = p => r[i].type = a.type
        <5>1. Len(r) = Len(q) + 1 /\ r[Len(q) + 1] = x
              /\ \A i \in 1 .. Len(q) : r[i] = q[i]
          BY <1>1, <3>2, AppendProperties
        <5>2. \A i \in 1 .. Len(r) : i \in 1 .. Len(q) \/ i = Len(q) + 1
          BY <1>1, <5>1
        <5> QED
          BY <1>1, <2>2, <5>1, <5>2
      <4> QED
        BY <1>1, <1>2, <2>5, <4>1, <4>2 DEF Queued, r
    <3> QED
      BY <2>1, <2>5, <3>1, <3>2
  <2> QED
    BY <2>3, <2>4, <2>5
<1>5. CASE ~ (m \in RequestMessage /\ m.key = a.key)
  <2>1. r = q
    <3>1. CASE m \in RequestMessage
      BY <1>0, <1>5, <3>1, QueueGoes DEF Goes
    <3>2. CASE m \notin RequestMessage
      BY <3>2 DEF Goes, EffectOf
    <3> QED
      BY <3>1, <3>2
  <2>2. NoneIn(ag2, p)
    <3>1. CASE ag2 = ag
      BY <1>1, <3>1
    <3>2. CASE ag2 # ag
      <4>1. m \in RequestMessage /\ m.key \in KeyId /\ m.key # a.key
        BY <1>5, <3>2, ChannelGoes, EffectEntry
      <4>2. PICK n \in 0 .. Len(Queue(ks, m.key)) :
              Joins(ag2, ag, Queue(ks, m.key), n)
        BY <3>2, ChannelGoes
      <4> DEFINE o == Queue(ks, m.key)
      <4>3. Len(o) \in Nat /\ NoneIn(o, p)
        BY <4>1, Lengths DEF Queued
      <4> HIDE DEF o
      <4>4. n \in Nat /\ n <= Len(o) /\ Joins(ag2, ag, o, n)
        BY <4>2, <4>3 DEF o
      <4> QED
        BY <1>1, <4>3, <4>4, JoinNone
    <3> QED
      BY <3>1, <3>2
  <2> HIDE DEF q, r
  <2> QED
    BY <1>1, <1>2, <2>1, <2>2 DEF Queued, r
<1> QED
  BY <1>4, <1>5

----------------------------------------------------------------------------
(* HOW THE STAGES FOLLOW EACH OTHER                                        *)

(* What x may be as the answer to request m on entry e.                    *)
Fits(e, m, x) ==
  /\ x.type = "Wait" <=> Asks(e, m)
  /\ MayGrant(m, x) => e # NoEntry

(* The types of the parts of a stage.                                      *)
StageTyped(p, d, h, ks, ag, tc) ==
  /\ p \in ProcId
  /\ d \in AtP!Call \cup {NoCall}
  /\ h \in SUBSET AtP!Access
  /\ MapOK(ks)
  /\ ag \in Seq(Grant)
  /\ tc \in Answers

(* The access a call asks for is one.                                      *)
LEMMA WantedType ==
  ASSUME NEW d \in AtP!Call \cup {NoCall}, d # NoCall, d.type \in AccessType
  PROVE  Wanted(d) \in AtP!Access
BY DEF AtP!Call, AtP!Access, AtP!AccessType, AccessType, Wanted

(* A server that carries out the request of another, or a note, leaves a   *)
(* client in its stage.                                                    *)
LEMMA StageStays ==
  ASSUME NEW p, NEW d, NEW h, NEW ks, NEW ag, NEW ts, NEW tc,
         StageTyped(p, d, h, ks, ag, tc), Stage(p, d, h, ks, ag, ts, tc),
         NEW rep, NEW m, NEW ks2, NEW ag2, NEW rep2,
         Goes(m, ks, ag, rep, ks2, ag2, rep2),
         m \in RequestMessage => m.proc # p
  PROVE  Stage(p, d, h, ks2, ag2, ts, tc)
<1>0. /\ p \in ProcId /\ MapOK(ks) /\ ag \in Seq(Grant)
      /\ d \in AtP!Call \cup {NoCall}
  BY DEF StageTyped
<1>1. \A a \in AtP!Access : Registered(ks, p, a) => Registered(ks2, p, a)
  BY <1>0, RegisteredStays DEF Goes
<1>2. \A a \in h : Registered(ks2, p, a)
  BY <1>1 DEF Stage, StageTyped
<1>3. Outside(ks, ag, p) => Outside(ks2, ag2, p)
  BY <1>0, OutsideStays
<1>4. CASE Idle(p, d, ks, ag, ts, tc)
  BY <1>2, <1>3, <1>4 DEF Stage, Idle
<1>5. CASE Sent(p, d, h, ks, ag, ts, tc)
  BY <1>2, <1>3, <1>5 DEF Stage, Sent
<1>6. CASE Answered(p, d, ks, ag, ts, tc)
  <2>1. MayGrant(d, tc[1]) => Registered(ks2, p, Wanted(d))
    BY <1>0, <1>1, <1>6, WantedType DEF Answered, MayGrant, Calling
  <2>2. Answered(p, d, ks2, ag2, ts, tc)
    BY <1>3, <1>6, <2>1 DEF Answered
  <2> QED
    BY <1>2, <2>2 DEF Stage
<1>7. CASE Told(p, d, ks, ag, ts, tc)
  <2>1. Wanted(d) \in AtP!Access
    BY <1>0, <1>7, WantedType DEF Told, Calling
  <2>2. Granted(ks, ag, p, Wanted(d)) => Granted(ks2, ag2, p, Wanted(d))
    BY <1>0, <2>1, GrantedStays
  <2>3. Queued(ks, ag, p, Wanted(d)) =>
          \/ Queued(ks2, ag2, p, Wanted(d))
          \/ Granted(ks2, ag2, p, Wanted(d))
          \/ Outside(ks2, ag2, p)
    BY <1>0, <2>1, QueuedGoes
  <2>4. Told(p, d, ks2, ag2, ts, tc)
    BY <1>1, <1>3, <1>7, <2>1, <2>2, <2>3 DEF Told
  <2> QED
    BY <1>2, <2>4 DEF Stage
<1> QED
  BY <1>4, <1>5, <1>6, <1>7 DEF Stage

(* A server that carries out the client's own request answers it.          *)
LEMMA StageAnswered ==
  ASSUME NEW p, NEW d, NEW h, NEW ks, NEW ag, NEW ts, NEW tc,
         StageTyped(p, d, h, ks, ag, tc), Stage(p, d, h, ks, ag, ts, tc),
         NEW m \in RequestMessage, m = Head(ts), ts # <<>>,
         NEW rep, NEW ks2, NEW ag2, NEW rep2,
         Goes(m, ks, ag, rep, ks2, ag2, rep2),
         NEW x \in ResponseMessage, Fits(ks[m.key], m, x)
  PROVE  Stage(p, d, h, ks2, ag2, Tail(ts), Append(tc, x))
<1>0. /\ p \in ProcId /\ MapOK(ks) /\ ag \in Seq(Grant)
      /\ d \in AtP!Call \cup {NoCall} /\ h \in SUBSET AtP!Access
  BY DEF StageTyped
<1>1. Sent(p, d, h, ks, ag, ts, tc)
  BY DEF Stage, Idle, Answered, Told
<1>2. m = RequestOf(p, d) /\ Tail(ts) = <<>> /\ Append(tc, x) = <<x>>
  BY <1>1 DEF Sent
<1>3. m.proc = p /\ m.type = d.type /\ m.key = d.key
  BY <1>2 DEF RequestOf
<1>4. \A a \in h : Registered(ks2, p, a)
  BY <1>0, <1>1, <1>3, RegisteredStays DEF Stage, Sent, Goes
<1>5. Len(<<x>>) = 1 /\ <<x>>[1] = x
  OBVIOUS
<1>6. CASE Asks(ks[m.key], m)
  <2>1. Queued(ks2, ag2, p, Wanted(d))
    BY <1>0, <1>1, <1>3, <1>6, AskedIsQueued DEF Sent, Wanted
  <2>2. d.type \in AccessType /\ x.type = "Wait"
    BY <1>3, <1>6 DEF Asks, Fits
  <2>3. Told(p, d, ks2, ag2, Tail(ts), Append(tc, x))
    BY <1>1, <1>2, <1>5, <2>1, <2>2 DEF Told, Sent
  <2> QED
    BY <1>4, <2>3 DEF Stage
<1>7. CASE ~ Asks(ks[m.key], m)
  <2>1. Outside(ks2, ag2, p)
    BY <1>0, <1>1, <1>7, OutsideStays DEF Sent
  <2>2. ASSUME MayGrant(d, x) PROVE Registered(ks2, p, Wanted(d))
    <3>1. ks[m.key] # NoEntry /\ m.type \in AccessType
      BY <1>3, <2>2 DEF Fits, MayGrant
    <3>2. HasAccess(EntryAfter(ks[m.key], m), p, m.type)
      BY <1>0, <1>3, <1>7, <3>1, EffectEntry, AccessAtOnce
    <3>3. ks2[m.key] = EntryAfter(ks[m.key], m)
      BY <1>0, EffectEntry DEF Goes
    <3> QED
      BY <1>3, <3>2, <3>3, ByEntry DEF Wanted
  <2>3. Answered(p, d, ks2, ag2, Tail(ts), Append(tc, x))
    BY <1>1, <1>2, <1>5, <1>7, <2>1, <2>2 DEF Answered, Sent, Fits
  <2> QED
    BY <1>4, <2>3 DEF Stage
<1> QED
  BY <1>6, <1>7

(* What the head of the channel says of one process.                       *)
LEMMA ChannelTail ==
  ASSUME NEW ag \in Seq(Grant), ag # <<>>, NEW p
  PROVE  /\ NoneIn(ag, p) => NoneIn(Tail(ag), p) /\ Head(ag).proc # p
         /\ Once(ag, p) => IF Head(ag).proc = p THEN NoneIn(Tail(ag), p)
                           ELSE Once(Tail(ag), p)
<1> DEFINE t == Tail(ag)
<1>1. /\ Head(ag) = ag[1] /\ Len(ag) \in Nat /\ 1 \in 1 .. Len(ag)
      /\ Len(t) = Len(ag) - 1
      /\ \A i \in 1 .. Len(t) : t[i] = ag[i + 1]
  BY HeadTailProperties, EmptySeq, LenProperties
<1> HIDE DEF t
<1>2. \A i \in 1 .. Len(t) : i + 1 \in 1 .. Len(ag) /\ i + 1 # 1
  BY <1>1
<1>3. ASSUME Once(ag, p), Head(ag).proc # p PROVE Once(t, p)
  <2>1. PICK i \in 1 .. Len(ag) :
          ag[i].proc = p /\ \A j \in 1 .. Len(ag) : ag[j].proc = p => j = i
    BY <1>3 DEF Once
  <2>2. i - 1 \in 1 .. Len(t) /\ (i - 1) + 1 = i
    BY <1>1, <1>3, <2>1
  <2>3. ASSUME NEW j \in 1 .. Len(t), t[j].proc = p PROVE j = i - 1
    <3>1. j + 1 = i
      BY <1>1, <1>2, <2>1, <2>3
    <3> QED
      BY <3>1
  <2>4. t[i - 1].proc = p
    BY <1>1, <2>1, <2>2
  <2> QED
    BY <2>2, <2>3, <2>4 DEF Once
<1>4. ASSUME Once(ag, p), Head(ag).proc = p PROVE NoneIn(t, p)
  BY <1>1, <1>2, <1>4 DEF Once, NoneIn
<1> QED
  BY <1>1, <1>2, <1>3, <1>4 DEF NoneIn, t

(* A grant is taken from the channel and reaches nobody, or not this       *)
(* client.                                                                 *)
LEMMA StageTail ==
  ASSUME NEW p, NEW d, NEW h, NEW ks, NEW ag, NEW ts, NEW tc,
         StageTyped(p, d, h, ks, ag, tc), Stage(p, d, h, ks, ag, ts, tc),
         ag # <<>>
  PROVE  Stage(p, d, h, ks, Tail(ag), ts, tc)
<1>0. ag \in Seq(Grant)
  BY DEF StageTyped
<1>1. Outside(ks, ag, p) => Outside(ks, Tail(ag), p)
  BY <1>0, ChannelTail DEF Outside
<1>2. \A a : Queued(ks, ag, p, a) => Queued(ks, Tail(ag), p, a)
  BY <1>0, ChannelTail DEF Queued
<1>3. \A a : Granted(ks, ag, p, a) =>
               Granted(ks, Tail(ag), p, a) \/ Outside(ks, Tail(ag), p)
  BY <1>0, ChannelTail DEF Granted, Outside
<1>4. Told(p, d, ks, ag, ts, tc) => Told(p, d, ks, Tail(ag), ts, tc)
  BY <1>1, <1>2, <1>3 DEF Told
<1> QED
  BY <1>1, <1>4 DEF Stage, Idle, Sent, Answered

(* ... or it reaches this client, which waits for it.                      *)
LEMMA StageGranted ==
  ASSUME NEW p, NEW d, NEW h, NEW ks, NEW ag, NEW ts, NEW tc,
         StageTyped(p, d, h, ks, ag, tc), Stage(p, d, h, ks, ag, ts, tc),
         ag # <<>>, Head(ag).proc = p, NEW x \in ResponseMessage
  PROVE  Stage(p, d, h, ks, Tail(ag), ts, Append(tc, x))
<1>0. ag \in Seq(Grant) /\ tc \in Seq(ResponseMessage)
  BY DEF StageTyped, Answers
<1>1. ~ NoneIn(ag, p)
  BY <1>0, ChannelTail
<1>2. /\ Told(p, d, ks, ag, ts, tc)
      /\ Granted(ks, ag, p, Wanted(d))
      /\ Len(tc) = IF d.awaits = NoKey THEN 1 ELSE 0
  BY <1>1
  DEF Stage, Idle, Sent, Answered, Told, Outside, Queued
<1>3. Outside(ks, Tail(ag), p) /\ Registered(ks, p, Wanted(d))
  BY <1>0, <1>2, ChannelTail DEF Granted, Outside
<1>4. /\ Len(tc) \in Nat /\ Len(Append(tc, x)) = Len(tc) + 1
      /\ Len(tc) > 0 => Append(tc, x)[1] = tc[1]
  BY <1>0, AppendProperties, LenProperties
<1>5. Told(p, d, ks, Tail(ag), ts, Append(tc, x))
  BY <1>2, <1>3, <1>4 DEF Told
<1> QED
  BY <1>5 DEF Stage

(* The channel is emptied.                                                 *)
LEMMA StageEmptied ==
  ASSUME NEW p, NEW d, NEW h, NEW ks, NEW ag, NEW ts, NEW tc,
         Stage(p, d, h, ks, ag, ts, tc)
  PROVE  Stage(p, d, h, ks, <<>>, ts, tc)
<1>1. NoneIn(<<>>, p)
  BY DEF NoneIn
<1>2. Outside(ks, ag, p) => Outside(ks, <<>>, p)
  BY <1>1 DEF Outside
<1>3. \A a : Queued(ks, ag, p, a) => Queued(ks, <<>>, p, a)
  BY <1>1 DEF Queued
<1>4. \A a : Granted(ks, ag, p, a) => Outside(ks, <<>>, p)
  BY <1>1 DEF Granted, Outside
<1>5. Told(p, d, ks, ag, ts, tc) => Told(p, d, ks, <<>>, ts, tc)
  BY <1>2, <1>3, <1>4 DEF Told
<1> QED
  BY <1>2, <1>5 DEF Stage, Idle, Sent, Answered

(* The client makes a call.                                                *)
LEMMA StageBegins ==
  ASSUME NEW p, NEW h, NEW ks, NEW ag, NEW ts, NEW tc,
         Stage(p, NoCall, h, ks, ag, ts, tc),
         NEW d \in AtP!Call, d.kind = "sync", d.awaits = NoKey,
         NEW h2 \in SUBSET h,
         d.type = "Release" => \A a \in h2 : a.key # d.key
  PROVE  Stage(p, d, h2, ks, ag, Append(ts, RequestOf(p, d)), tc)
<1>1. Idle(p, NoCall, ks, ag, ts, tc)
  BY DEF Stage, Sent, Answered, Told, Calling
<1>2. Append(ts, RequestOf(p, d)) = <<RequestOf(p, d)>>
  BY <1>1 DEF Idle
<1>3. Sent(p, d, h2, ks, ag, Append(ts, RequestOf(p, d)), tc)
  BY <1>1, <1>2, NoCallAssumption DEF Sent, Idle, Calling
<1> QED
  BY <1>3 DEF Stage

(* The client reads: its call returns with the access or without one, or   *)
(* it is told to wait.                                                     *)
LEMMA StageReads ==
  ASSUME NEW p, NEW d, NEW h, NEW ks, NEW ag, NEW ts, NEW tc,
         StageTyped(p, d, h, ks, ag, tc), Stage(p, d, h, ks, ag, ts, tc),
         tc # <<>>
  PROVE  LET m == Head(tc)
         IN  /\ MayGrant(d, m) =>
                  Stage(p, NoCall, h \cup {Wanted(d)}, ks, ag, ts, Tail(tc))
             /\ d.awaits = NoKey /\ m.type = "Wait" /\ d.type \in AccessType =>
                  Stage(p, [d EXCEPT !.awaits = m.key], h, ks, ag, ts, Tail(tc))
             /\ (d.type \in AccessType => d.awaits # NoKey \/ m.type # "Wait")
                  => Stage(p, NoCall, h, ks, ag, ts, Tail(tc))
<1> DEFINE m == Head(tc)
<1>0. /\ tc \in Seq(ResponseMessage) /\ d \in AtP!Call \cup {NoCall}
  BY DEF StageTyped, Answers
<1>1. /\ m \in ResponseMessage /\ m = tc[1]
      /\ Len(tc) \in Nat /\ Len(tc) > 0 /\ Len(Tail(tc)) = Len(tc) - 1
      /\ Len(tc) = 1 => Tail(tc) = <<>>
  <2>1. /\ m \in ResponseMessage /\ m = tc[1]
        /\ Tail(tc) \in Seq(ResponseMessage)
        /\ Len(Tail(tc)) = Len(tc) - 1
    BY <1>0, HeadTailProperties
  <2>2. Len(tc) \in Nat /\ Len(tc) # 0
    BY <1>0, EmptySeq, LenProperties
  <2>3. Len(Tail(tc)) = 0 => Tail(tc) = <<>>
    BY <2>1, EmptySeq
  <2> QED
    BY <2>1, <2>2, <2>3
<1> HIDE DEF m
<1>2. \A a \in h : Registered(ks, p, a)
  BY DEF Stage
<1>3. CASE Answered(p, d, ks, ag, ts, tc)
  <2>1. Idle(p, NoCall, ks, ag, ts, Tail(tc))
    BY <1>1, <1>3 DEF Answered, Idle
  <2>2. MayGrant(d, m) => Registered(ks, p, Wanted(d))
    BY <1>1, <1>3 DEF Answered
  <2>3. m.type # "Wait"
    BY <1>1, <1>3 DEF Answered
  <2> QED
    BY <1>2, <2>1, <2>2, <2>3 DEF Stage, m
<1>4. CASE Told(p, d, ks, ag, ts, tc) /\ d.awaits = NoKey
  <2>1. m.type = "Wait" /\ d.type \in AccessType /\ ~ MayGrant(d, m)
    BY <1>1, <1>4 DEF Told, MayGrant
  <2>2. m.key \in KeyId /\ m.key # NoKey
    BY <1>1, <2>1, NoKeyAssumption DEF ResponseMessage
  <2> DEFINE e == [d EXCEPT !.awaits = m.key]
  <2>3. /\ e \in AtP!Call /\ e.awaits # NoKey /\ e.kind = d.kind
        /\ e.type = d.type /\ e.key = d.key
    <3>1. d \in AtP!Call
      BY <1>0, <1>4 DEF Told, Calling
    <3> QED
      BY <2>2, <3>1 DEF AtP!Call
  <2> HIDE DEF e
  <2>4. Wanted(e) = Wanted(d) /\ Calling(e)
    BY <1>4, <2>3, NoCallAssumption DEF Wanted, Told, Calling
  <2>5. Told(p, e, ks, ag, ts, Tail(tc))
    BY <1>1, <1>4, <2>3, <2>4 DEF Told
  <2> QED
    BY <1>2, <1>4, <2>1, <2>5 DEF Stage, m, e
<1>5. CASE Told(p, d, ks, ag, ts, tc) /\ d.awaits # NoKey
  <2>1. Len(tc) = 1 /\ Outside(ks, ag, p) /\ Registered(ks, p, Wanted(d))
    BY <1>1, <1>5 DEF Told
  <2>2. Idle(p, NoCall, ks, ag, ts, Tail(tc))
    BY <1>1, <1>5, <2>1 DEF Told, Idle
  <2> QED
    BY <1>2, <1>5, <2>1, <2>2 DEF Stage, m
<1> QED
  BY <1>3, <1>4, <1>5 DEF Stage, Idle, Sent

----------------------------------------------------------------------------
(* WHAT THE SERVERS ANSWER                                                 *)

(* What the primary's manager returns tells whether the request is queued  *)
(* and whether the key exists.                                             *)
LEMMA PrimaryTells ==
  ASSUME p_key_states \in KeyMaps, NEW m \in RequestMessage,
         P!CallManager(m)
  PROVE  /\ p_reply'.res = "RequestAccess" <=> Asks(p_key_states[m.key], m)
         /\ m.type \in AccessType /\ p_reply'.res = "Ok" =>
              p_key_states[m.key] # NoEntry
<1>0. m.type \in {"Read", "Write", "Create", "Delete", "Release"}
  BY DEF RequestMessage, RequestType, AccessType
<1>1. CASE m.type = "Create" /\ P!AM!Create(m.proc, m.key)
  BY <1>1 DEF P!AM!Create, P!AM!Fail, P!AM!Return, Asks, AccessType
<1>2. CASE m.type = "Delete" /\ P!AM!Delete(m.key)
  BY <1>2 DEF P!AM!Delete, P!AM!Fail, P!AM!Return, Asks, AccessType
<1>3. CASE m.type = "Read" /\ P!AM!Read(m.proc, m.key)
  BY <1>3, PrimaryOperators
  DEF P!AM!Read, P!AM!Fail, P!AM!Return, P!AM!Exists, Asks, Queues, AccessType
<1>4. CASE m.type = "Write" /\ P!AM!Write(m.proc, m.key)
  BY <1>4, PrimaryOperators
  DEF P!AM!Write, P!AM!Fail, P!AM!Return, P!AM!Exists, Asks, Queues, AccessType
<1>5. CASE m.type = "Release" /\ P!AM!Release(m.proc, m.key)
  BY <1>5
  DEF P!AM!Release, P!AM!ReleaseHeld, P!AM!Fail, P!AM!Return, Asks, AccessType
<1> QED
  BY <1>0, <1>1, <1>2, <1>3, <1>4, <1>5 DEF P!CallManager

(* ... and so does what the secondary's returns.                           *)
LEMMA SecondaryTells ==
  ASSUME s_key_states \in KeyMaps, NEW m \in RequestMessage,
         S!CallManager(m)
  PROVE  /\ s_reply'.res = "RequestAccess" <=> Asks(s_key_states[m.key], m)
         /\ m.type \in AccessType /\ s_reply'.res = "Ok" =>
              s_key_states[m.key] # NoEntry
<1>0. m.type \in {"Read", "Write", "Create", "Delete", "Release"}
  BY DEF RequestMessage, RequestType, AccessType
<1>1. CASE m.type = "Create" /\ S!AM!Create(m.proc, m.key)
  BY <1>1 DEF S!AM!Create, S!AM!Fail, S!AM!Return, Asks, AccessType
<1>2. CASE m.type = "Delete" /\ S!AM!Delete(m.key)
  BY <1>2 DEF S!AM!Delete, S!AM!Fail, S!AM!Return, Asks, AccessType
<1>3. CASE m.type = "Read" /\ S!AM!Read(m.proc, m.key)
  BY <1>3, SecondaryOperators
  DEF S!AM!Read, S!AM!Fail, S!AM!Return, S!AM!Exists, Asks, Queues, AccessType
<1>4. CASE m.type = "Write" /\ S!AM!Write(m.proc, m.key)
  BY <1>4, SecondaryOperators
  DEF S!AM!Write, S!AM!Fail, S!AM!Return, S!AM!Exists, Asks, Queues, AccessType
<1>5. CASE m.type = "Release" /\ S!AM!Release(m.proc, m.key)
  BY <1>5
  DEF S!AM!Release, S!AM!ReleaseHeld, S!AM!Fail, S!AM!Return, Asks, AccessType
<1> QED
  BY <1>0, <1>1, <1>2, <1>3, <1>4, <1>5 DEF S!CallManager

----------------------------------------------------------------------------
(* ONE PASS OF A SERVER'S LOOP                                             *)
(*                                                                         *)
(* ks and ag are the map and the channel, f and g what has been written to *)
(* the server and to its clients, map the connections it knows, cl those   *)
(* that are closed; ks2, ag2, f2 and g2 what the pass leaves.              *)

(* It carries out a request, and answers it if somebody is there to read.  *)
Carries(t, ks, ag, f, g, cl, ks2, ag2, f2, g2) ==
  \E m \in RequestMessage, x \in ResponseMessage :
    /\ f[t] # <<>> /\ m = Head(f[t])
    /\ f2 = [f EXCEPT ![t] = Tail(@)]
    /\ \E rep, rep2 : Goes(m, ks, ag, rep, ks2, ag2, rep2)
    /\ Fits(ks[m.key], m, x)
    /\ g2 = IF t \in cl THEN g ELSE [g EXCEPT ![t] = Append(@, x)]

(* It loses requests that came together, or takes the order to stop, or    *)
(* forgets a connection.                                                   *)
Drops(t, ks, ag, f, g, ks2, ag2, f2, g2) ==
  /\ ks2 = ks /\ ag2 = ag
  /\ \/ f2 = f /\ g2 = g
     \/ /\ f[t] # <<>> /\ (Head(f[t]) = StopRequest \/ Len(f[t]) > 1)
        /\ \E n \in 1 .. Len(f[t]) :
             f2 = [f EXCEPT ![t] = SubSeq(@, n + 1, Len(@))]
        /\ g2 \in {g, [g EXCEPT ![t] = Append(@, Error)]}

(* It takes a grant from the channel, which reaches its process or nobody. *)
Hands(ks, ag, f, g, map, ks2, ag2, f2, g2) ==
  /\ ag # <<>> /\ ks2 = ks /\ ag2 = Tail(ag) /\ f2 = f
  /\ \/ g2 = g
     \/ /\ Head(ag).proc \in map
        /\ \E x \in ResponseMessage :
             g2 = [g EXCEPT ![Head(ag).proc] = Append(@, x)]

(* It is done with the request that came by t, for good or ill.            *)
Leaves(t, ks, ag, f, g, ks2, ag2, f2, g2) ==
  /\ ks2 = ks /\ ag2 \in {ag, <<>>} /\ f2 = f
  /\ g2 \in {g, [g EXCEPT ![t] = Append(@, Error)]}

(* The types of all these.                                                 *)
LoopTyped(ks, ag, f, g, map) ==
  /\ MapOK(ks) /\ ag \in Seq(Grant)
  /\ f \in [ProcId -> Requests] /\ g \in [ProcId -> Answers]
  /\ map \subseteq ProcId

(* Requests are read, never made up: what is left unread at t was there.   *)
Unread(f, f2) ==
  \A t \in ProcId : \A i \in 1 .. Len(f2[t]) :
    \E j \in 1 .. Len(f[t]) : f2[t][i] = f[t][j]

(* When the first n requests of a connection are taken, what is left was   *)
(* there.                                                                  *)
LEMMA SuffixUnread ==
  ASSUME NEW f \in [ProcId -> Requests], NEW t \in ProcId,
         NEW n \in 0 .. Len(f[t]), NEW f2,
         f2 = [f EXCEPT ![t] = SubSeq(@, n + 1, Len(@))]
  PROVE  Unread(f, f2)
<1>1. f[t] \in Seq(RequestMessage \cup {StopRequest})
  BY DEF Requests
<1> DEFINE s == SubSeq(f[t], n + 1, Len(f[t]))
<1>2. \A i \in 1 .. Len(s) : s[i] = f[t][n + i] /\ n + i \in 1 .. Len(f[t])
  BY <1>1, SuffixElements
<1>3. f2[t] = s /\ \A u \in ProcId \ {t} : f2[u] = f[u]
  OBVIOUS
<1> HIDE DEF s
<1> SUFFICES ASSUME NEW u \in ProcId, NEW i \in 1 .. Len(f2[u])
             PROVE  \E j \in 1 .. Len(f[u]) : f2[u][i] = f[u][j]
  BY DEF Unread
<1>4. CASE u = t
  BY <1>2, <1>3, <1>4
<1>5. CASE u # t
  BY <1>3, <1>5
<1> QED
  BY <1>4, <1>5

(* The tail is what is left when one is taken.                             *)
LEMMA TailIsSuffix ==
  ASSUME NEW f \in [ProcId -> Requests], NEW t \in ProcId, f[t] # <<>>
  PROVE  /\ 1 \in 0 .. Len(f[t])
         /\ Tail(f[t]) = SubSeq(f[t], 1 + 1, Len(f[t]))
<1>1. f[t] \in Seq(RequestMessage \cup {StopRequest})
  BY DEF Requests
<1>2. Len(f[t]) \in Nat /\ Len(f[t]) # 0
  BY <1>1, EmptySeq, LenProperties
<1>3. Tail(f[t]) = SubSeq(f[t], 2, Len(f[t]))
  BY <1>1, <1>2
<1> QED
  BY <1>2, <1>3

(* So after every pass.                                                    *)
LEMMA LoopUnread ==
  ASSUME NEW f \in [ProcId -> Requests], NEW t \in ProcId,
         NEW ks, NEW ag, NEW g, NEW map, NEW cl,
         NEW ks2, NEW ag2, NEW f2, NEW g2,
         \/ Carries(t, ks, ag, f, g, cl, ks2, ag2, f2, g2)
         \/ Drops(t, ks, ag, f, g, ks2, ag2, f2, g2)
         \/ f2 = f
  PROVE  Unread(f, f2)
<1>1. CASE f2 = f
  BY <1>1 DEF Unread
<1>2. CASE f[t] # <<>> /\ f2 = [f EXCEPT ![t] = Tail(@)]
  <2>1. f2 = [f EXCEPT ![t] = SubSeq(@, 1 + 1, Len(@))]
    BY <1>2, TailIsSuffix
  <2> QED
    BY <1>2, <2>1, TailIsSuffix, SuffixUnread
<1>3. ASSUME NEW n \in 1 .. Len(f[t]),
             f2 = [f EXCEPT ![t] = SubSeq(@, n + 1, Len(@))]
      PROVE  Unread(f, f2)
  <2>1. n \in 0 .. Len(f[t])
    OBVIOUS
  <2> QED
    BY <1>3, <2>1, SuffixUnread
<1>4. CASE Carries(t, ks, ag, f, g, cl, ks2, ag2, f2, g2)
  BY <1>2, <1>4 DEF Carries
<1>5. CASE Drops(t, ks, ag, f, g, ks2, ag2, f2, g2)
  <2>1. CASE \E n \in 1 .. Len(f[t]) :
               f2 = [f EXCEPT ![t] = SubSeq(@, n + 1, Len(@))]
    <3>1. PICK n \in 1 .. Len(f[t]) :
            f2 = [f EXCEPT ![t] = SubSeq(@, n + 1, Len(@))]
      BY <2>1
    <3> QED
      BY <1>3, <3>1
  <2>2. \/ f2 = f
        \/ \E n \in 1 .. Len(f[t]) :
             f2 = [f EXCEPT ![t] = SubSeq(@, n + 1, Len(@))]
    BY <1>5, Zenon DEF Drops
  <2> QED
    BY <1>1, <2>1, <2>2
<1> QED
  BY <1>1, <1>4, <1>5

(* No request that came by another connection names p.                     *)
Apart(f, p) ==
  \A t \in ProcId \ {p} : \A i \in 1 .. Len(f[t]) :
    f[t][i] = StopRequest \/ f[t][i].proc # p

(* No request at the head of another connection names p.                   *)
LEMMA HeadApart ==
  ASSUME NEW f \in [ProcId -> Requests], NEW t \in ProcId, f[t] # <<>>,
         NEW p, Apart(f, p), t # p, Head(f[t]) \in RequestMessage
  PROVE  Head(f[t]).proc # p
<1>1. f[t] \in Seq(RequestMessage \cup {StopRequest})
  BY DEF Requests
<1>2. Head(f[t]) = f[t][1] /\ 1 \in 1 .. Len(f[t])
  <2>1. Head(f[t]) = f[t][1]
    BY <1>1, HeadTailProperties
  <2>2. Len(f[t]) \in Nat /\ Len(f[t]) # 0
    BY <1>1, EmptySeq, LenProperties
  <2> QED
    BY <2>1, <2>2
<1>3. Head(f[t]) # StopRequest
  BY DEF RequestMessage, StopRequest, RequestType, AccessType
<1> QED
  BY <1>2, <1>3 DEF Apart

(* The map stays in order.                                                 *)
LEMMA LoopMap ==
  ASSUME NEW t, NEW ks, MapOK(ks), NEW ag, NEW f, NEW g, NEW map, NEW cl,
         NEW ks2, NEW ag2, NEW f2, NEW g2,
         \/ Carries(t, ks, ag, f, g, cl, ks2, ag2, f2, g2)
         \/ Drops(t, ks, ag, f, g, ks2, ag2, f2, g2)
         \/ Hands(ks, ag, f, g, map, ks2, ag2, f2, g2)
         \/ Leaves(t, ks, ag, f, g, ks2, ag2, f2, g2)
  PROVE  MapOK(ks2)
<1>1. CASE Carries(t, ks, ag, f, g, cl, ks2, ag2, f2, g2)
  <2>1. PICK m \in RequestMessage :
          \E rep, rep2 : Goes(m, ks, ag, rep, ks2, ag2, rep2)
    BY <1>1 DEF Carries
  <2>2. ks2 = EffectOf(ks, m)
    BY <2>1 DEF Goes
  <2> QED
    BY <2>2, EffectKeepsInv
<1>2. CASE ks2 = ks
  BY <1>2
<1> QED
  BY <1>1, <1>2 DEF Drops, Hands, Leaves

(* To a connection the server does not know it writes nothing.             *)
LEMMA LoopSilent ==
  ASSUME NEW p \in ProcId, NEW t, t # p,
         NEW ks, NEW ag, NEW f, NEW g, NEW map, LoopTyped(ks, ag, f, g, map),
         p \notin map, NEW cl, NEW ks2, NEW ag2, NEW f2, NEW g2,
         \/ t \in ProcId /\ Carries(t, ks, ag, f, g, cl, ks2, ag2, f2, g2)
         \/ Drops(t, ks, ag, f, g, ks2, ag2, f2, g2)
         \/ Hands(ks, ag, f, g, map, ks2, ag2, f2, g2)
         \/ Leaves(t, ks, ag, f, g, ks2, ag2, f2, g2)
  PROVE  g2[p] = g[p]
<1>0. g \in [ProcId -> Answers]
  BY DEF LoopTyped
<1>1. \A u, x : u # p => [g EXCEPT ![u] = Append(@, x)][p] = g[p]
  BY <1>0
<1>2. CASE Carries(t, ks, ag, f, g, cl, ks2, ag2, f2, g2)
  BY <1>0, <1>1, <1>2 DEF Carries
<1>3. CASE Drops(t, ks, ag, f, g, ks2, ag2, f2, g2)
  BY <1>0, <1>1, <1>3 DEF Drops
<1>4. CASE Hands(ks, ag, f, g, map, ks2, ag2, f2, g2)
  BY <1>0, <1>1, <1>4 DEF Hands
<1>5. CASE Leaves(t, ks, ag, f, g, ks2, ag2, f2, g2)
  BY <1>0, <1>1, <1>5 DEF Leaves
<1> QED
  BY <1>2, <1>3, <1>4, <1>5

(* ... and nothing is going to be written to one nobody has come by yet.   *)
LEMMA LoopFresh ==
  ASSUME NEW p \in ProcId, NEW t, t # p,
         NEW ks, NEW ag, NEW f, NEW g, NEW map, LoopTyped(ks, ag, f, g, map),
         NEW cl, NEW ks2, NEW ag2, NEW f2, NEW g2,
         \/ t \in ProcId /\ Carries(t, ks, ag, f, g, cl, ks2, ag2, f2, g2)
         \/ Drops(t, ks, ag, f, g, ks2, ag2, f2, g2)
         \/ Hands(ks, ag, f, g, map, ks2, ag2, f2, g2)
         \/ Leaves(t, ks, ag, f, g, ks2, ag2, f2, g2),
         Apart(f, p), Outside(ks, ag, p)
  PROVE  f2[p] = f[p] /\ Outside(ks2, ag2, p)
<1>0. /\ MapOK(ks) /\ ag \in Seq(Grant) /\ f \in [ProcId -> Requests]
  BY DEF LoopTyped
<1>1. CASE t \in ProcId /\ Carries(t, ks, ag, f, g, cl, ks2, ag2, f2, g2)
  <2>1. PICK m \in RequestMessage :
          /\ f[t] # <<>> /\ m = Head(f[t])
          /\ f2 = [f EXCEPT ![t] = Tail(@)]
          /\ \E rep, rep2 : Goes(m, ks, ag, rep, ks2, ag2, rep2)
    BY <1>1 DEF Carries
  <2>2. m.proc # p
    BY <1>0, <1>1, <2>1, HeadApart
  <2>3. Outside(ks2, ag2, p)
    BY <1>0, <2>1, <2>2, OutsideStays
  <2> QED
    BY <1>0, <2>1, <2>3
<1>2. CASE Drops(t, ks, ag, f, g, ks2, ag2, f2, g2)
  BY <1>0, <1>2 DEF Drops
<1>3. CASE Hands(ks, ag, f, g, map, ks2, ag2, f2, g2)
  BY <1>0, <1>3, ChannelTail DEF Hands, Outside
<1>4. CASE Leaves(t, ks, ag, f, g, ks2, ag2, f2, g2)
  <2>1. NoneIn(<<>>, p)
    BY DEF NoneIn
  <2> QED
    BY <1>4, <2>1 DEF Leaves, Outside
<1> QED
  BY <1>1, <1>2, <1>3, <1>4

(* One pass as far as p sees it: after an answer p is sent no error.       *)
Passes(p, t, ks, ag, f, g, map, cl, ks2, ag2, f2, g2) ==
  \/ t \in ProcId /\ Carries(t, ks, ag, f, g, cl, ks2, ag2, f2, g2)
  \/ t \in ProcId /\ Drops(t, ks, ag, f, g, ks2, ag2, f2, g2)
  \/ Hands(ks, ag, f, g, map, ks2, ag2, f2, g2)
  \/ /\ Leaves(t, ks, ag, f, g, ks2, ag2, f2, g2)
     /\ t = p => g2 = g

(* A client that is in a stage stays in one, if it has not closed and is   *)
(* sent nothing after its answer.                                          *)
LEMMA LoopStage ==
  ASSUME NEW p, NEW t,
         NEW ks, NEW ag, NEW f, NEW g, NEW map, LoopTyped(ks, ag, f, g, map),
         NEW cl, p \notin cl, NEW ks2, NEW ag2, NEW f2, NEW g2,
         Passes(p, t, ks, ag, f, g, map, cl, ks2, ag2, f2, g2),
         Apart(f, p),
         NEW d, NEW h, StageTyped(p, d, h, ks, ag, g[p]),
         Stage(p, d, h, ks, ag, f[p], g[p])
  PROVE  Stage(p, d, h, ks2, ag2, f2[p], g2[p])
<1>0. /\ MapOK(ks) /\ ag \in Seq(Grant)
      /\ f \in [ProcId -> Requests] /\ g \in [ProcId -> Answers]
      /\ p \in ProcId /\ d \in AtP!Call \cup {NoCall}
  BY DEF LoopTyped, StageTyped
<1>1. \A u, x : u # p => [g EXCEPT ![u] = Append(@, x)][p] = g[p]
  BY <1>0
<1>2. CASE t \in ProcId /\ Carries(t, ks, ag, f, g, cl, ks2, ag2, f2, g2)
  <2>1. PICK m \in RequestMessage, x \in ResponseMessage :
          /\ f[t] # <<>> /\ m = Head(f[t])
          /\ f2 = [f EXCEPT ![t] = Tail(@)]
          /\ \E rep, rep2 : Goes(m, ks, ag, rep, ks2, ag2, rep2)
          /\ Fits(ks[m.key], m, x)
          /\ g2 = IF t \in cl THEN g ELSE [g EXCEPT ![t] = Append(@, x)]
    BY <1>2 DEF Carries
  <2>2. PICK rep, rep2 : Goes(m, ks, ag, rep, ks2, ag2, rep2)
    BY <2>1
  <2>3. CASE t = p
    <3>1. f2[p] = Tail(f[p]) /\ g2[p] = Append(g[p], x)
      BY <1>0, <2>1, <2>3
    <3>2. Stage(p, d, h, ks2, ag2, Tail(f[p]), Append(g[p], x))
      BY <1>0, <2>1, <2>2, <2>3, StageAnswered
    <3> QED
      BY <3>1, <3>2
  <2>4. CASE t # p
    <3>1. m.proc # p
      BY <1>0, <1>2, <2>1, <2>4, HeadApart
    <3>2. f2[p] = f[p] /\ g2[p] = g[p]
      BY <1>0, <1>1, <2>1, <2>4
    <3>3. Stage(p, d, h, ks2, ag2, f[p], g[p])
      BY <1>0, <2>2, <3>1, StageStays
    <3> QED
      BY <3>2, <3>3
  <2> QED
    BY <2>3, <2>4
<1>3. CASE t \in ProcId /\ Drops(t, ks, ag, f, g, ks2, ag2, f2, g2)
  <2>1. CASE f2 = f /\ g2 = g
    BY <1>3, <2>1 DEF Drops
  <2>2. CASE f[t] # <<>> /\ (Head(f[t]) = StopRequest \/ Len(f[t]) > 1)
    <3>1. t # p
      <4>1. \/ f[p] = <<>>
            \/ f[p] = <<RequestOf(p, d)>> /\ d # NoCall
        BY DEF Stage, Idle, Sent, Answered, Told, Calling
      <4>2. ASSUME d # NoCall PROVE RequestOf(p, d) # StopRequest
        BY <4>2 DEF AtP!Call, AtP!RequestType, AtP!AccessType, RequestOf,
                    StopRequest
      <4>3. Len(<<RequestOf(p, d)>>) = 1
            /\ Head(<<RequestOf(p, d)>>) = RequestOf(p, d)
        OBVIOUS
      <4>4. ASSUME t = p, f[p] = <<RequestOf(p, d)>>, d # NoCall
            PROVE  FALSE
        <5>1. Len(f[t]) = 1 /\ Head(f[t]) = RequestOf(p, d)
          BY <4>3, <4>4
        <5>2. ~ (Len(f[t]) > 1)
          BY <5>1
        <5> QED
          BY <2>2, <4>2, <4>4, <5>1, <5>2
      <4> QED
        BY <2>2, <4>1, <4>4
    <3>2. f2[p] = f[p] /\ g2[p] = g[p]
      BY <1>0, <1>1, <1>3, <3>1 DEF Drops
    <3> QED
      BY <1>3, <3>2 DEF Drops
  <2> QED
    BY <1>3, <2>1, <2>2 DEF Drops
<1>4. CASE Hands(ks, ag, f, g, map, ks2, ag2, f2, g2)
  <2>1. ag # <<>> /\ ks2 = ks /\ ag2 = Tail(ag) /\ f2 = f
    BY <1>4 DEF Hands
  <2>2. CASE g2[p] = g[p]
    BY <1>0, <2>1, <2>2, StageTail
  <2>3. ASSUME NEW x \in ResponseMessage, Head(ag).proc = p,
               g2 = [g EXCEPT ![p] = Append(@, x)]
        PROVE  Stage(p, d, h, ks2, ag2, f2[p], g2[p])
    <3>1. g2[p] = Append(g[p], x)
      BY <1>0, <2>3
    <3>2. Stage(p, d, h, ks, Tail(ag), f[p], Append(g[p], x))
      BY <1>0, <2>1, <2>3, StageGranted
    <3> QED
      BY <2>1, <3>1, <3>2
  <2>4. \/ g2 = g
        \/ \E x \in ResponseMessage :
             g2 = [g EXCEPT ![Head(ag).proc] = Append(@, x)]
    BY <1>4, Zenon DEF Hands
  <2>5. CASE g2 = g
    BY <2>2, <2>5
  <2>6. ASSUME NEW x \in ResponseMessage,
               g2 = [g EXCEPT ![Head(ag).proc] = Append(@, x)]
        PROVE  Stage(p, d, h, ks2, ag2, f2[p], g2[p])
    <3>1. CASE Head(ag).proc = p
      BY <2>3, <2>6, <3>1
    <3>2. CASE Head(ag).proc # p
      <4>1. g2[p] = g[p]
        BY <1>0, <2>6, <3>2
      <4> QED
        BY <2>2, <4>1
    <3> QED
      BY <3>1, <3>2
  <2> QED
    BY <2>4, <2>5, <2>6
<1>5. CASE Leaves(t, ks, ag, f, g, ks2, ag2, f2, g2) /\ (t = p => g2 = g)
  <2>0. t # p => [g EXCEPT ![t] = Append(@, Error)][p] = g[p]
    BY <1>0
  <2>1. ks2 = ks /\ ag2 \in {ag, <<>>} /\ f2 = f /\ g2[p] = g[p]
    BY <1>5, <2>0 DEF Leaves
  <2> QED
    BY <2>1, StageEmptied
<1> QED
  BY <1>2, <1>3, <1>4, <1>5 DEF Passes

----------------------------------------------------------------------------
(* WHAT THE SERVERS DO, IN THESE WORDS                                     *)

(* The response of the primary says what its manager has done.           *)
LEMMA PrimaryFits ==
  ASSUME Typed, NEW m \in RequestMessage, P!CallManager(m)
  PROVE  /\ P!ResponseTo(m, p_reply') \in ResponseMessage
         /\ Fits(p_key_states[m.key], m, P!ResponseTo(m, p_reply'))
<1> DEFINE x == P!ResponseTo(m, p_reply')
<1>1. x \in ResponseMessage
  BY PrimaryResponse
<1>2. m.type # "ConnectionEstablished"
  BY DEF RequestMessage, RequestType, AccessType
<1>3. /\ p_reply'.res = "RequestAccess" <=> Asks(p_key_states[m.key], m)
      /\ m.type \in AccessType /\ p_reply'.res = "Ok" =>
           p_key_states[m.key] # NoEntry
  BY PrimaryTells DEF Typed, PrimaryTyped, ServerTyped
<1>4. /\ x.type = "Wait" <=> p_reply'.res = "RequestAccess"
      /\ x.type \in {"Success", "Holder"} => p_reply'.res = "Ok"
  BY <1>2 DEF P!ResponseTo, P!Wait, P!Success, P!Holder, P!Error
<1> HIDE DEF x
<1>5. MayGrant(m, x) => m.type \in AccessType /\ x.type \in {"Success", "Holder"}
  BY DEF MayGrant
<1> QED
  BY <1>1, <1>3, <1>4, <1>5 DEF Fits, x

(* What handle_data does at the primary for one request of a client.     *)
LEMMA PrimaryCarries ==
  ASSUME Typed, NEW t \in ProcId, P!HandleRequest(t)
  PROVE  Carries(t, p_key_states, p_access_granted, p_to_server, p_to_client,
                 p_closed, p_key_states', p_access_granted', p_to_server',
                 p_to_client')
<1> DEFINE m == Head(p_to_server[t])
           x == P!ResponseTo(m, p_reply')
<1>1. p_to_server \in [ProcId -> Requests] /\ p_to_server[t] # <<>>
      /\ m # StopRequest /\ P!HandleMessage(t, m)
      /\ p_to_server' = [p_to_server EXCEPT ![t] = SubSeq(@, 1 + 1, Len(@))]
  BY SameMessages DEF Typed, StreamsTyped, P!HandleRequest, P!TakeRequests
<1>2. m \in RequestMessage
  BY <1>1, QueueTypes DEF Requests
<1>3. p_to_server' = [p_to_server EXCEPT ![t] = Tail(@)]
  BY <1>1, TailIsSuffix
<1>4. x \in ResponseMessage /\ Fits(p_key_states[m.key], m, x)
  BY <1>1, <1>2, PrimaryFits DEF P!HandleMessage
<1>5. Goes(m, p_key_states, p_access_granted, p_reply,
           p_key_states', p_access_granted', p_reply')
  BY <1>1, <1>2, PrimaryMessage DEF Messages
<1>6. p_to_client' = IF t \in p_closed THEN p_to_client
                     ELSE [p_to_client EXCEPT ![t] = Append(@, x)]
  <2>1. P!Answer(t, x) \/ P!AnswerFails(t)
    BY <1>1 DEF P!HandleMessage
  <2> HIDE DEF x
  <2>2. t # PrimaryToken
    BY PrimaryTokenAssumption
  <2> QED
    BY <2>1, <2>2 DEF P!Answer, P!AnswerFails, P!Deliver, P!WriteFails
<1> HIDE DEF m, x
<1> QED
  BY <1>1, <1>2, <1>3, <1>4, <1>5, <1>6 DEF Carries, m

(* Its steps that carry out nothing.                                     *)
LEMMA PrimaryDrops ==
  ASSUME Typed, NEW t \in ProcId,
         P!HandleCoalesced(t) \/ P!HandleClose(t) \/ P!HandleStop(t)
  PROVE  Drops(t, p_key_states, p_access_granted, p_to_server, p_to_client,
               p_key_states', p_access_granted', p_to_server', p_to_client')
<1>1. UNCHANGED <<p_key_states, p_access_granted>>
  BY PrimaryLosesOrEnds
<1>2. Len(p_to_server[t]) \in Nat
      /\ (p_to_server[t] = <<>> <=> Len(p_to_server[t]) = 0)
  BY EmptySeq, LenProperties DEF Typed, StreamsTyped, Requests
<1>3. CASE P!HandleCoalesced(t)
  <2>1. PICK n \in 2 .. Len(p_to_server[t]) : P!TakeRequests(t, n)
    BY <1>3 DEF P!HandleCoalesced
  <2>2. /\ n \in 1 .. Len(p_to_server[t])
        /\ p_to_server[t] # <<>> /\ Len(p_to_server[t]) > 1
        /\ p_to_server' =
             [p_to_server EXCEPT ![t] = SubSeq(@, n + 1, Len(@))]
    BY <1>2, <2>1 DEF P!TakeRequests
  <2>3. p_to_client' \in {p_to_client,
                          [p_to_client EXCEPT ![t] = Append(@, Error)]}
    BY <1>3, PrimaryTokenAssumption
    DEF P!HandleCoalesced, P!Answer, P!AnswerFails, P!Deliver, P!WriteFails,
        P!Error, Error
  <2> QED
    BY <1>1, <2>2, <2>3 DEF Drops
<1>4. CASE P!HandleClose(t)
  BY <1>1, <1>4 DEF P!HandleClose, P!streams, Drops
<1>5. CASE P!HandleStop(t)
  <2>1. /\ 1 \in 1 .. Len(p_to_server[t])
        /\ p_to_server[t] # <<>> /\ Head(p_to_server[t]) = StopRequest
        /\ p_to_server' =
             [p_to_server EXCEPT ![t] = SubSeq(@, 1 + 1, Len(@))]
        /\ p_to_client' = p_to_client
    BY <1>2, <1>5, SameMessages DEF P!HandleStop, P!TakeRequests
  <2> QED
    BY <1>1, <2>1 DEF Drops
<1> QED
  BY <1>3, <1>4, <1>5

(* Its delivery of one grant.                                            *)
LEMMA PrimaryHands ==
  ASSUME Typed, P!SendGrant \/ P!SkipGrant
  PROVE  Hands(p_key_states, p_access_granted, p_to_server, p_to_client,
               p_token_stream_map,
               p_key_states', p_access_granted', p_to_server', p_to_client')
<1>1. /\ p_access_granted \in Seq(Grant) /\ p_access_granted # <<>>
  BY DEF P!SendGrant, P!SkipGrant, Typed, PrimaryTyped, ServerTyped
<1> DEFINE g == Head(p_access_granted)
<1>2. g \in Grant
  BY <1>1, HeadTailProperties
<1>3. P!GrantMessage(g) \in ResponseMessage
  BY <1>2 DEF P!GrantMessage, P!Holder, P!Success, Grant, ResponseMessage
<1>4. /\ UNCHANGED <<p_key_states, p_to_server>>
      /\ p_access_granted' = Tail(p_access_granted)
  BY DEF P!SendGrant, P!SkipGrant, P!NextGrant, P!AM!TryRecv
<1>5. CASE P!SendGrant
  <2>1. g.proc \in p_token_stream_map /\ P!Deliver(g.proc, P!GrantMessage(g))
    BY <1>5 DEF P!SendGrant
  <2> HIDE DEF g
  <2>2. \/ p_to_client' = p_to_client
        \/ p_to_client' = [p_to_client EXCEPT
                             ![g.proc] = Append(@, P!GrantMessage(g))]
    BY <2>1 DEF P!Deliver
  <2> QED
    BY <1>1, <1>3, <1>4, <2>1, <2>2 DEF Hands, g
<1>6. CASE P!SkipGrant
  BY <1>1, <1>4, <1>6 DEF P!SkipGrant, Hands
<1> QED
  BY <1>5, <1>6

(* Its loss of those that are left.                                      *)
LEMMA PrimaryAbandons ==
  ASSUME Typed, P!AbandonGrants
  PROVE  /\ p_serving # NoProc
         /\ Leaves(p_serving.token,
                   p_key_states, p_access_granted, p_to_server, p_to_client,
                   p_key_states', p_access_granted', p_to_server', p_to_client')
BY DEF P!AbandonGrants, P!Answer, P!Deliver, P!Error, Error, Leaves

(* The response of the secondary says what its manager has done.         *)
LEMMA SecondaryFits ==
  ASSUME Typed, NEW m \in RequestMessage, S!CallManager(m)
  PROVE  /\ S!ResponseTo(m, s_reply') \in ResponseMessage
         /\ Fits(s_key_states[m.key], m, S!ResponseTo(m, s_reply'))
<1> DEFINE x == S!ResponseTo(m, s_reply')
<1>1. x \in ResponseMessage
  BY SecondaryResponse
<1>2. m.type # "ConnectionEstablished"
  BY DEF RequestMessage, RequestType, AccessType
<1>3. /\ s_reply'.res = "RequestAccess" <=> Asks(s_key_states[m.key], m)
      /\ m.type \in AccessType /\ s_reply'.res = "Ok" =>
           s_key_states[m.key] # NoEntry
  BY SecondaryTells DEF Typed, SecondaryTyped, ServerTyped
<1>4. /\ x.type = "Wait" <=> s_reply'.res = "RequestAccess"
      /\ x.type \in {"Success", "Holder"} => s_reply'.res = "Ok"
  BY <1>2 DEF S!ResponseTo, S!Wait, S!Success, S!Holder, S!Error
<1> HIDE DEF x
<1>5. MayGrant(m, x) => m.type \in AccessType /\ x.type \in {"Success", "Holder"}
  BY DEF MayGrant
<1> QED
  BY <1>1, <1>3, <1>4, <1>5 DEF Fits, x

(* What handle_data does at the secondary for one request of a client.   *)
LEMMA SecondaryCarries ==
  ASSUME Typed, NEW t \in ProcId, S!HandleRequest(t)
  PROVE  Carries(t, s_key_states, s_access_granted, s_to_server, s_to_client,
                 s_closed, s_key_states', s_access_granted', s_to_server',
                 s_to_client')
<1> DEFINE m == Head(s_to_server[t])
           x == S!ResponseTo(m, s_reply')
<1>1. s_to_server \in [ProcId -> Requests] /\ s_to_server[t] # <<>>
      /\ m # StopRequest /\ S!HandleMessage(t, m)
      /\ s_to_server' = [s_to_server EXCEPT ![t] = SubSeq(@, 1 + 1, Len(@))]
  BY SameMessages DEF Typed, StreamsTyped, S!HandleRequest, S!TakeRequests
<1>2. m \in RequestMessage
  BY <1>1, QueueTypes DEF Requests
<1>3. s_to_server' = [s_to_server EXCEPT ![t] = Tail(@)]
  BY <1>1, TailIsSuffix
<1>4. x \in ResponseMessage /\ Fits(s_key_states[m.key], m, x)
  BY <1>1, <1>2, SecondaryFits DEF S!HandleMessage
<1>5. Goes(m, s_key_states, s_access_granted, s_reply,
           s_key_states', s_access_granted', s_reply')
  BY <1>1, <1>2, SecondaryMessage DEF Messages
<1>6. s_to_client' = IF t \in s_closed THEN s_to_client
                     ELSE [s_to_client EXCEPT ![t] = Append(@, x)]
  <2>1. S!Answer(t, x) \/ S!AnswerFails(t)
    BY <1>1 DEF S!HandleMessage
  <2> HIDE DEF x
  <2>2. t # PrimaryToken
    BY PrimaryTokenAssumption
  <2> QED
    BY <2>1, <2>2 DEF S!Answer, S!AnswerFails, S!Deliver, S!WriteFails
<1> HIDE DEF m, x
<1> QED
  BY <1>1, <1>2, <1>3, <1>4, <1>5, <1>6 DEF Carries, m

(* Its steps that carry out nothing.                                     *)
LEMMA SecondaryDrops ==
  ASSUME Typed, NEW t \in ProcId,
         S!HandleCoalesced(t) \/ S!HandleClose(t) \/ S!HandleStop(t)
  PROVE  Drops(t, s_key_states, s_access_granted, s_to_server, s_to_client,
               s_key_states', s_access_granted', s_to_server', s_to_client')
<1>1. UNCHANGED <<s_key_states, s_access_granted>>
  BY SecondaryLosesOrEnds
<1>2. Len(s_to_server[t]) \in Nat
      /\ (s_to_server[t] = <<>> <=> Len(s_to_server[t]) = 0)
  BY EmptySeq, LenProperties DEF Typed, StreamsTyped, Requests
<1>3. CASE S!HandleCoalesced(t)
  <2>1. PICK n \in 2 .. Len(s_to_server[t]) : S!TakeRequests(t, n)
    BY <1>3 DEF S!HandleCoalesced
  <2>2. /\ n \in 1 .. Len(s_to_server[t])
        /\ s_to_server[t] # <<>> /\ Len(s_to_server[t]) > 1
        /\ s_to_server' =
             [s_to_server EXCEPT ![t] = SubSeq(@, n + 1, Len(@))]
    BY <1>2, <2>1 DEF S!TakeRequests
  <2>3. s_to_client' \in {s_to_client,
                          [s_to_client EXCEPT ![t] = Append(@, Error)]}
    BY <1>3, PrimaryTokenAssumption
    DEF S!HandleCoalesced, S!Answer, S!AnswerFails, S!Deliver, S!WriteFails,
        S!Error, Error
  <2> QED
    BY <1>1, <2>2, <2>3 DEF Drops
<1>4. CASE S!HandleClose(t)
  BY <1>1, <1>4 DEF S!HandleClose, S!streams, Drops
<1>5. CASE S!HandleStop(t)
  <2>1. /\ 1 \in 1 .. Len(s_to_server[t])
        /\ s_to_server[t] # <<>> /\ Head(s_to_server[t]) = StopRequest
        /\ s_to_server' =
             [s_to_server EXCEPT ![t] = SubSeq(@, 1 + 1, Len(@))]
        /\ s_to_client' = s_to_client
    BY <1>2, <1>5, SameMessages DEF S!HandleStop, S!TakeRequests
  <2> QED
    BY <1>1, <2>1 DEF Drops
<1> QED
  BY <1>3, <1>4, <1>5

(* Its delivery of one grant.                                            *)
LEMMA SecondaryHands ==
  ASSUME Typed, S!SendGrant \/ S!SkipGrant
  PROVE  Hands(s_key_states, s_access_granted, s_to_server, s_to_client,
               s_token_stream_map,
               s_key_states', s_access_granted', s_to_server', s_to_client')
<1>1. /\ s_access_granted \in Seq(Grant) /\ s_access_granted # <<>>
  BY DEF S!SendGrant, S!SkipGrant, Typed, SecondaryTyped, ServerTyped
<1> DEFINE g == Head(s_access_granted)
<1>2. g \in Grant
  BY <1>1, HeadTailProperties
<1>3. S!GrantMessage(g) \in ResponseMessage
  BY <1>2 DEF S!GrantMessage, S!Holder, S!Success, Grant, ResponseMessage
<1>4. /\ UNCHANGED <<s_key_states, s_to_server>>
      /\ s_access_granted' = Tail(s_access_granted)
  BY DEF S!SendGrant, S!SkipGrant, S!NextGrant, S!AM!TryRecv
<1>5. CASE S!SendGrant
  <2>1. g.proc \in s_token_stream_map /\ S!Deliver(g.proc, S!GrantMessage(g))
    BY <1>5 DEF S!SendGrant
  <2> HIDE DEF g
  <2>2. \/ s_to_client' = s_to_client
        \/ s_to_client' = [s_to_client EXCEPT
                             ![g.proc] = Append(@, S!GrantMessage(g))]
    BY <2>1 DEF S!Deliver
  <2> QED
    BY <1>1, <1>3, <1>4, <2>1, <2>2 DEF Hands, g
<1>6. CASE S!SkipGrant
  BY <1>1, <1>4, <1>6 DEF S!SkipGrant, Hands
<1> QED
  BY <1>5, <1>6

(* Its loss of those that are left.                                      *)
LEMMA SecondaryAbandons ==
  ASSUME Typed, S!AbandonGrants
  PROVE  /\ s_serving # NoProc
         /\ Leaves(s_serving.token,
                   s_key_states, s_access_granted, s_to_server, s_to_client,
                   s_key_states', s_access_granted', s_to_server', s_to_client')
BY DEF S!AbandonGrants, S!Answer, S!Deliver, S!Error, Error, Leaves

(* One pass of the primary's loop. What it sends after an answer, and what *)
(* it does not forward, sets it apart from the secondary.                  *)
LEMMA PrimaryPass ==
  ASSUME Typed, PrimaryRuns
  PROVE  \/ \E t \in p_token_stream_map :
              \/ Carries(t, p_key_states, p_access_granted,
                         p_to_server, p_to_client, p_closed,
                         p_key_states', p_access_granted',
                         p_to_server', p_to_client')
              \/ Drops(t, p_key_states, p_access_granted,
                       p_to_server, p_to_client,
                       p_key_states', p_access_granted',
                       p_to_server', p_to_client')
         \/ Hands(p_key_states, p_access_granted, p_to_server, p_to_client,
                  p_token_stream_map,
                  p_key_states', p_access_granted',
                  p_to_server', p_to_client')
         \/ /\ p_serving # NoProc
            /\ Leaves(p_serving.token, p_key_states, p_access_granted,
                      p_to_server, p_to_client,
                      p_key_states', p_access_granted',
                      p_to_server', p_to_client')
            /\ ~ diverged' => p_to_client' = p_to_client
<1>0. p_token_stream_map \subseteq ProcId
  BY DEF Typed, PrimaryTyped, ServerTyped
<1>1. ASSUME NEW t \in ProcId, P!HandleRequest(t)
      PROVE  t \in p_token_stream_map
             /\ Carries(t, p_key_states, p_access_granted,
                        p_to_server, p_to_client, p_closed,
                        p_key_states', p_access_granted',
                        p_to_server', p_to_client')
  BY <1>1, PrimaryCarries DEF P!HandleRequest
<1>2. ASSUME NEW t \in ProcId,
             P!HandleCoalesced(t) \/ P!HandleClose(t) \/ P!HandleStop(t)
      PROVE  t \in p_token_stream_map
             /\ Drops(t, p_key_states, p_access_granted,
                      p_to_server, p_to_client,
                      p_key_states', p_access_granted',
                      p_to_server', p_to_client')
  BY <1>2, PrimaryDrops DEF P!HandleCoalesced, P!HandleClose, P!HandleStop
<1>3. CASE P!SendGrant \/ P!SkipGrant
  BY <1>3, PrimaryHands
<1>4. CASE P!AbandonGrants
  <2>1. p_serving' = NoProc /\ p_access_granted # <<>> /\ p_serving # NoProc
    BY <1>4 DEF P!AbandonGrants
  <2>2. diverged'
    BY <2>1 DEF PrimaryRuns, Unmirrored
  <2> QED
    BY <1>4, <2>1, <2>2, PrimaryAbandons
<1>5. CASE P!FinishRequest
  <2>1. /\ p_serving # NoProc /\ p_serving' = NoProc
        /\ UNCHANGED <<p_key_states, p_access_granted, p_to_server>>
    BY <1>5, PrimaryFinishes
  <2>2. \/ p_to_client' = p_to_client
        \/ /\ s_process # "running"
           /\ p_to_client' = [p_to_client EXCEPT
                                ![p_serving.token] = Append(@, Error)]
    BY <1>5
    DEF P!FinishRequest, P!ForwardFails, P!Answer, P!Deliver, P!Error, Error
  <2>3. s_process # "running" => diverged'
    BY <2>1 DEF PrimaryRuns, Unmirrored, Typed, SecondaryTyped, ServerTyped
  <2> QED
    BY <2>1, <2>2, <2>3 DEF Leaves
<1> QED
  BY <1>1, <1>2, <1>3, <1>4, <1>5 DEF PrimaryRuns, P!DeliverGrants

(* ... and of the secondary's, for its clients.                            *)
LEMMA SecondaryPass ==
  ASSUME Typed, SecondaryRuns
  PROVE  \/ /\ \E t \in s_token_stream_map :
                 Carries(t, s_key_states, s_access_granted,
                         s_to_server, s_to_client, s_closed,
                         s_key_states', s_access_granted',
                         s_to_server', s_to_client')
            /\ ~ diverged' => p_process # "running" /\ forwards = <<>>
         \/ /\ \E t \in s_token_stream_map :
                 Drops(t, s_key_states, s_access_granted,
                       s_to_server, s_to_client,
                       s_key_states', s_access_granted',
                       s_to_server', s_to_client')
         \/ Hands(s_key_states, s_access_granted, s_to_server, s_to_client,
                  s_token_stream_map,
                  s_key_states', s_access_granted',
                  s_to_server', s_to_client')
         \/ /\ s_serving # NoProc
            /\ Leaves(s_serving.token, s_key_states, s_access_granted,
                      s_to_server, s_to_client,
                      s_key_states', s_access_granted',
                      s_to_server', s_to_client')
            /\ surplus' = surplus \cup BeingServed
<1>1. ASSUME NEW t \in ProcId, S!HandleRequest(t)
      PROVE  t \in s_token_stream_map
             /\ Carries(t, s_key_states, s_access_granted,
                        s_to_server, s_to_client, s_closed,
                        s_key_states', s_access_granted',
                        s_to_server', s_to_client')
  BY <1>1, SecondaryCarries DEF S!HandleRequest
<1>2. ASSUME NEW t \in ProcId,
             S!HandleCoalesced(t) \/ S!HandleClose(t) \/ S!HandleStop(t)
      PROVE  t \in s_token_stream_map
             /\ Drops(t, s_key_states, s_access_granted,
                      s_to_server, s_to_client,
                      s_key_states', s_access_granted',
                      s_to_server', s_to_client')
  BY <1>2, SecondaryDrops DEF S!HandleCoalesced, S!HandleClose, S!HandleStop
<1>3. CASE S!SendGrant \/ S!SkipGrant
  BY <1>3, SecondaryHands
<1>4. CASE S!AbandonGrants /\ surplus' = surplus \cup BeingServed
  BY <1>4, SecondaryAbandons
<1>5. \/ /\ \E t \in ProcId : S!HandleRequest(t)
         /\ diverged' = (diverged \/ p_process = "running" \/ forwards # <<>>)
      \/ \E t \in ProcId :
           S!HandleCoalesced(t) \/ S!HandleClose(t) \/ S!HandleStop(t)
      \/ S!SendGrant \/ S!SkipGrant
      \/ S!AbandonGrants /\ surplus' = surplus \cup BeingServed
  BY DEF SecondaryRuns
<1> QED
  BY <1>1, <1>2, <1>3, <1>4, <1>5

----------------------------------------------------------------------------
(* WHAT HOLDS OF THE ENTRIES, THE IDS AND THE STREAMS                      *)

(* Who runs leaves the rest alone.                                         *)
LEMMA PrimaryRunsFrame ==
  ASSUME PrimaryRuns
  PROVE  UNCHANGED <<s_key_states, s_access_granted, s_token_stream_map,
                     s_issued, s_serving, s_process,
                     s_to_server, s_to_client, s_closed,
                     call, held, registry_stream, proc_id, is_primary,
                     abandoned, surplus>>
BY DEF PrimaryRuns, secondary, s_streams, calls, owners

(* The secondary's loop leaves the primary, the clients and what has been  *)
(* abandoned alone, and forgets nothing.                                   *)
LEMMA SecondaryRunsFrame ==
  ASSUME SecondaryRuns
  PROVE  /\ UNCHANGED <<p_key_states, p_access_granted, p_token_stream_map,
                        p_issued, p_serving, p_process,
                        p_to_server, p_to_client, p_closed,
                        call, held, registry_stream, proc_id, is_primary,
                        images, abandoned>>
         /\ surplus \subseteq surplus'
         /\ diverged => diverged'
<1>1. UNCHANGED <<primary, p_streams, calls, owners, images, abandoned>>
  BY DEF SecondaryRuns
<1>2. surplus \subseteq surplus'
  BY Zenon DEF SecondaryRuns
<1>3. diverged => diverged'
  BY Zenon DEF SecondaryRuns
<1> QED
  BY <1>1, <1>2, <1>3 DEF primary, p_streams, calls, owners

(* What the primary forwards reaches neither the primary nor a client.     *)
LEMMA MirrorFrame ==
  ASSUME MirrorPrimary
  PROVE  UNCHANGED <<p_key_states, p_access_granted, p_token_stream_map,
                     p_issued, p_serving, p_process,
                     p_to_server, p_to_client, p_closed,
                     call, held, registry_stream, proc_id, is_primary,
                     abandoned, surplus>>
BY DEF MirrorPrimary, primary, p_streams, calls, owners

(* A lost connection ends a server and takes an id.                        *)
LEMMA LostFrame ==
  ASSUME LoseConnection
  PROVE  /\ UNCHANGED <<p_key_states, p_access_granted, p_token_stream_map,
                        p_serving, s_key_states, s_access_granted,
                        s_token_stream_map, s_serving, forwards,
                        p_to_server, p_to_client, p_closed,
                        s_to_server, s_to_client, s_closed>>
         /\ UNCHANGED <<call, held, registry_stream, proc_id, is_primary,
                        images, diverged, abandoned, surplus>>
         /\ p_issued \subseteq p_issued' /\ s_issued \subseteq s_issued'
         /\ \/ UNCHANGED p_process
            \/ /\ p_process = "running" /\ p_process' = "ended"
               /\ UNCHANGED <<s_issued, s_process>>
<1>1. UNCHANGED <<forwards, p_streams, s_streams, calls, owners, history>>
  BY DEF LoseConnection
<1>2. \/ /\ UNCHANGED secondary
         /\ P!HandleLostConnection(NextId(p_issued))
      \/ /\ UNCHANGED primary
         /\ S!HandleLostConnection(NextId(s_issued))
  BY DEF LoseConnection
<1> QED
  BY <1>1, <1>2
  DEF P!HandleLostConnection, S!HandleLostConnection, P!manager, S!manager,
      P!Polling, primary, secondary, p_streams, s_streams, calls, owners,
      history

(* The maps stay in order, whoever runs.                                   *)
LEMMA EntriesKept ==
  ASSUME Inv, EntriesInv(p_key_states), EntriesInv(s_key_states), Next
  PROVE  EntriesInv(p_key_states)' /\ EntriesInv(s_key_states)'
<1>0. Typed /\ MapOK(p_key_states) /\ MapOK(s_key_states)
  BY DEF Inv, Typed, PrimaryTyped, SecondaryTyped, ServerTyped, MapOK
<1>1. CASE UNCHANGED <<p_key_states, s_key_states>>
  BY <1>1 DEF EntriesInv
<1>2. CASE PrimaryRuns
  <2>1. MapOK(p_key_states')
    BY <1>0, <1>2, PrimaryPass, LoopMap
  <2> QED
    BY <1>2, <2>1, PrimaryRunsFrame DEF MapOK, EntriesInv
<1>3. CASE SecondaryRuns
  <2>1. MapOK(s_key_states')
    BY <1>0, <1>3, SecondaryPass, LoopMap
  <2> QED
    BY <1>3, <2>1, SecondaryRunsFrame DEF MapOK, EntriesInv
<1>4. CASE MirrorPrimary
  <2>1. CASE S!HandleForwarded
    <3>1. s_key_states' = EffectOf(s_key_states, Head(forwards))
      BY <1>0, <2>1, SecondaryForwarded DEF Goes
    <3>2. MapOK(s_key_states')
      BY <1>0, <3>1, EffectKeepsInv
    <3> QED
      BY <1>4, <3>2, MirrorFrame DEF MapOK, EntriesInv
  <2>2. CASE S!HandleForwardedCoalesced
    BY <1>1, <1>4, <2>2, MirrorFrame
    DEF S!HandleForwardedCoalesced, S!server, S!manager
  <2> QED
    BY <1>4, <2>1, <2>2 DEF MirrorPrimary
<1>5. ASSUME NEW c \in ClientId,
             \/ StartAtPrimary(c) \/ StartAtSecondary(c)
             \/ \E t \in RequestType, k \in KeyId : MakeCall(c, t, k)
             \/ ReadMessage(c)
             \/ SwitchToSecondary(c) \/ GiveUp(c) \/ Spin(c)
             \/ Stop(c)
      PROVE  UNCHANGED <<p_key_states, s_key_states>>
  <2>1. CASE StartAtPrimary(c)
    BY <2>1
    DEF StartAtPrimary, P!HandleConnection, P!manager, secondary
  <2>2. CASE StartAtSecondary(c)
    BY <2>2
    DEF StartAtSecondary, S!HandleConnection, S!manager, primary
  <2>3. CASE SwitchToSecondary(c)
    BY <2>3
    DEF SwitchToSecondary, S!HandleConnection, S!manager, primary
  <2>4. CASE UNCHANGED <<primary, secondary>>
    BY <2>4 DEF primary, secondary
  <2> QED
    BY <1>5, <2>1, <2>2, <2>3, <2>4
    DEF MakeCall, ReadMessage, GiveUp, Spin, Stop
<1>6. LoseConnection => UNCHANGED <<p_key_states, s_key_states>>
  BY LostFrame
<1> QED
  BY <1>1, <1>2, <1>3, <1>4, <1>5, <1>6 DEF Next

(* A client changes what it keeps itself, and nothing of another.          *)
OnlyItself(c) ==
  \A d \in ClientId \ {c} :
    /\ call'[d] = call[d] /\ held'[d] = held[d]
    /\ proc_id'[d] = proc_id[d] /\ is_primary'[d] = is_primary[d]
    /\ registry_stream'[d] = registry_stream[d]
    /\ d \in abandoned' <=> d \in abandoned
    /\ d \in surplus' <=> d \in surplus

ClientActs(c) ==
  \/ StartAtPrimary(c) \/ StartAtSecondary(c)
  \/ \E t \in RequestType, k \in KeyId : MakeCall(c, t, k)
  \/ ReadMessage(c)
  \/ SwitchToSecondary(c) \/ GiveUp(c) \/ Spin(c)
  \/ Stop(c)

(* Whatever a client does.                                                 *)
LEMMA ClientFrame ==
  ASSUME Typed, NEW c \in ClientId, ClientActs(c)
  PROVE  OnlyItself(c)
<1>0. /\ call \in [ClientId -> AtP!Call \cup {NoCall}]
      /\ held \in [ClientId -> SUBSET AtP!Access]
      /\ proc_id \in [ClientId -> ProcId \cup {NoProc}]
      /\ is_primary \in [ClientId -> BOOLEAN]
      /\ registry_stream \in [ClientId -> Connection \cup {NoProc}]
  BY DEF Typed, CallsTyped, OwnersTyped
<1>1. CASE StartAtPrimary(c)
  BY <1>0, <1>1 DEF StartAtPrimary, calls, OnlyItself
<1>2. CASE StartAtSecondary(c)
  BY <1>0, <1>2 DEF StartAtSecondary, calls, history, OnlyItself
<1>3. ASSUME NEW t \in RequestType, NEW k \in KeyId, MakeCall(c, t, k)
      PROVE  OnlyItself(c)
  BY <1>0, <1>3
  DEF MakeCall, AtP!BeginCall, AtS!BeginCall, owners, history, OnlyItself
<1>4. CASE ReadMessage(c)
  BY <1>0, <1>4
  DEF ReadMessage, owners, history, OnlyItself,
      AtP!CallGranted, AtP!CallWaits, AtP!CallReturns, AtP!Return,
      AtP!Acquire, AtS!CallGranted, AtS!CallWaits, AtS!CallReturns,
      AtS!Return, AtS!Acquire
<1>5. CASE SwitchToSecondary(c)
  <2>1. /\ call' = [call EXCEPT ![c].kind = "resent"]
        /\ registry_stream' = [registry_stream EXCEPT
                                 ![c] = [server |-> "secondary",
                                         token |-> NextId(s_issued)]]
        /\ abandoned' \in {abandoned, abandoned \cup {c}}
        /\ surplus' \in {surplus, surplus \cup {c}}
        /\ UNCHANGED <<held, proc_id, is_primary>>
    BY <1>5 DEF SwitchToSecondary
  <2> QED
    BY <1>0, <2>1 DEF OnlyItself
<1>6. CASE GiveUp(c)
  BY <1>0, <1>6 DEF GiveUp, AtP!Return, owners, OnlyItself
<1>7. CASE Spin(c)
  BY <1>7 DEF Spin, calls, history, OnlyItself
<1>8. CASE Stop(c)
  BY <1>8
  DEF Stop, AtP!SendStop, AtS!SendStop, AtP!client, AtS!client, owners,
      OnlyItself
<1> QED
  BY <1>1, <1>2, <1>3, <1>4, <1>5, <1>6, <1>7, <1>8 DEF ClientActs

(* A step is a client's, or one of a server's loop.                        *)
LEMMA NextIs ==
  Next <=> (\E c \in ClientId : ClientActs(c))
             \/ PrimaryRuns \/ SecondaryRuns \/ MirrorPrimary
             \/ LoseConnection
BY Zenon DEF Next, ClientActs

(* Who has started goes on.                                                *)
LEMMA StaysStarted ==
  ASSUME Typed, Unstarted, NEW c \in ClientId, ClientActs(c)
  PROVE  /\ Started(c) => proc_id'[c] = proc_id[c]
                          /\ is_primary'[c] = is_primary[c]
         /\ ~ Started(c)' => call'[c] = call[c] /\ held'[c] = held[c]
                             /\ is_primary'[c] = is_primary[c]
<1>0. proc_id \in [ClientId -> ProcId \cup {NoProc}]
  BY DEF Typed, OwnersTyped
<1>1. CASE StartAtPrimary(c) \/ StartAtSecondary(c)
  BY <1>0, <1>1, NoProcAssumption
  DEF StartAtPrimary, StartAtSecondary, Started
<1>2. ASSUME UNCHANGED <<proc_id, is_primary>>, Started(c)
      PROVE  /\ proc_id'[c] = proc_id[c] /\ is_primary'[c] = is_primary[c]
             /\ Started(c)'
  BY <1>2 DEF Started
<1>3. ASSUME NEW t \in RequestType, NEW k \in KeyId, MakeCall(c, t, k)
      PROVE  UNCHANGED <<proc_id, is_primary>> /\ Started(c)
  BY <1>3 DEF MakeCall, owners
<1>4. CASE ReadMessage(c) \/ SwitchToSecondary(c) \/ GiveUp(c)
  <2>1. UNCHANGED <<proc_id, is_primary>>
    BY <1>4 DEF ReadMessage, SwitchToSecondary, GiveUp, owners
  <2>2. Started(c)
    BY <1>4
    DEF ReadMessage, SwitchToSecondary, GiveUp, Fails, AtP!InCall, Unstarted
  <2> QED
    BY <1>2, <2>1, <2>2
<1>5. CASE Spin(c) \/ Stop(c)
  BY <1>5
  DEF Spin, Stop, calls, owners, AtP!SendStop, AtS!SendStop, AtP!client,
      AtS!client, Started
<1> QED
  BY <1>1, <1>2, <1>3, <1>4, <1>5 DEF ClientActs

(* A client that has not started has no call and holds nothing.            *)
LEMMA UnstartedKept ==
  ASSUME Typed, Unstarted, Next
  PROVE  Unstarted'
<1>1. ASSUME NEW c \in ClientId, ClientActs(c)
      PROVE  Unstarted'
  BY <1>1, ClientFrame, StaysStarted DEF Unstarted, Started, OnlyItself
<1>2. CASE UNCHANGED <<call, held, proc_id, is_primary>>
  BY <1>2 DEF Unstarted, Started
<1>3. PrimaryRuns \/ SecondaryRuns \/ MirrorPrimary \/ LoseConnection
        => UNCHANGED <<call, held, proc_id, is_primary>>
  BY PrimaryRunsFrame, SecondaryRunsFrame, MirrorFrame, LostFrame
<1> QED
  BY <1>1, <1>2, <1>3, NextIs

(* If everyone has started at the primary now, so had everyone before, and *)
(* nobody starts at the secondary.                                         *)
LEMMA AllPrimaryBefore ==
  ASSUME Typed, Unstarted, Next, AllPrimary'
  PROVE  AllPrimary /\ \A c \in ClientId : ~ StartAtSecondary(c)
<1>1. ASSUME NEW c \in ClientId, ClientActs(c)
      PROVE  AllPrimary
  BY <1>1, ClientFrame, StaysStarted
  DEF AllPrimary, Unstarted, Started, OnlyItself
<1>2. PrimaryRuns \/ SecondaryRuns \/ MirrorPrimary \/ LoseConnection
        => UNCHANGED <<proc_id, is_primary>>
  BY PrimaryRunsFrame, SecondaryRunsFrame, MirrorFrame, LostFrame
<1>3. ASSUME NEW c \in ClientId, StartAtSecondary(c)
      PROVE  FALSE
  <2>1. Started(c)' /\ is_primary' = is_primary /\ ~ is_primary[c]
    BY <1>3, NoProcAssumption
    DEF StartAtSecondary, Started, Unstarted, Typed, OwnersTyped
  <2> QED
    BY <2>1 DEF AllPrimary
<1> QED
  BY <1>1, <1>2, <1>3, NextIs DEF AllPrimary, Started

(* No pass of a loop gives an id or closes a connection; a request it      *)
(* serves has come by a connection it knows.                               *)
LEMMA PrimaryServes ==
  ASSUME Typed, PrimaryRuns
  PROVE  /\ UNCHANGED <<p_issued, p_closed>>
         /\ \/ p_serving' \in {NoProc, p_serving}
            \/ p_serving'.token \in p_token_stream_map
<1>1. ASSUME NEW t \in ProcId, P!HandleRequest(t)
      PROVE  /\ UNCHANGED <<p_issued, p_closed>>
             /\ \/ p_serving' = NoProc
                \/ p_serving'.token = t /\ t \in p_token_stream_map
  BY <1>1, PrimaryRequest DEF P!HandleRequest
<1>2. ASSUME NEW t \in ProcId,
             P!HandleCoalesced(t) \/ P!HandleClose(t) \/ P!HandleStop(t)
      PROVE  UNCHANGED <<p_issued, p_closed, p_serving>>
  BY <1>2, PrimaryLosesOrEnds
<1>3. CASE P!DeliverGrants
  BY <1>3, PrimaryGrants
<1>4. CASE P!FinishRequest
  BY <1>4, PrimaryFinishes
<1> QED
  BY <1>1, <1>2, <1>3, <1>4 DEF PrimaryRuns

(* The secondary's loop does not read what the primary forwards either.    *)
LEMMA SecondaryServes ==
  ASSUME Typed, SecondaryRuns
  PROVE  /\ UNCHANGED <<s_issued, s_closed, forwards>>
         /\ \/ s_serving' \in {NoProc, s_serving}
            \/ s_serving'.token \in s_token_stream_map
<1>1. ASSUME NEW t \in ProcId, S!HandleRequest(t)
      PROVE  /\ UNCHANGED <<s_issued, s_closed, forwards>>
             /\ \/ s_serving' = NoProc
                \/ s_serving'.token = t /\ t \in s_token_stream_map
  BY <1>1, SecondaryRequest DEF S!HandleRequest
<1>2. ASSUME NEW t \in ProcId,
             S!HandleCoalesced(t) \/ S!HandleClose(t) \/ S!HandleStop(t)
      PROVE  UNCHANGED <<s_issued, s_closed, forwards, s_serving>>
  BY <1>2, SecondaryLosesOrEnds
<1>3. CASE S!DeliverGrants
  BY <1>3, SecondaryGrants
<1> QED
  BY <1>1, <1>2, <1>3 DEF SecondaryRuns, S!DeliverGrants

(* What the primary forwards is answered to nobody.                        *)
LEMMA MirrorServes ==
  ASSUME Typed, MirrorPrimary
  PROVE  /\ UNCHANGED <<s_issued, s_closed, s_to_server, s_to_client>>
         /\ \/ s_serving' \in {NoProc, s_serving}
            \/ s_serving'.token = PrimaryToken
<1>1. CASE S!HandleForwarded
  <2>1. UNCHANGED s_to_client
    BY <1>1 DEF S!HandleForwarded, S!HandleMessage, S!Answer, S!AnswerFails
  <2> QED
    BY <1>1, <2>1, SecondaryForwarded
<1>2. CASE S!HandleForwardedCoalesced
  BY <1>2 DEF S!HandleForwardedCoalesced, S!server, S!streams
<1> QED
  BY <1>1, <1>2 DEF MirrorPrimary

(* Whoever is alone with its id, no request but its own names it.          *)
LEMMA PrimaryApart ==
  ASSUME Named, NEW p
  PROVE  Apart(p_to_server, p)
BY DEF Named, NamedAtPrimary, Apart

(* At the secondary: a client that has abandoned no request, and comes by  *)
(* the connection of its id if it has come.                                *)
LEMMA SecondaryApart ==
  ASSUME Named, NEW c \in ClientId, Started(c), c \notin abandoned,
         OnSecondary(c) => Token(c) = proc_id[c]
  PROVE  Apart(s_to_server, proc_id[c])
BY DEF Named, NamedAtSecondary, Apart

(* What is unread is named as it was.                                      *)
LEMMA NamedStays ==
  ASSUME Named, Unread(p_to_server, p_to_server'),
         Unread(s_to_server, s_to_server'),
         UNCHANGED <<p_issued, proc_id, registry_stream, abandoned>>
  PROVE  Named'
<1>1. \A t \in ProcId : \A i \in 1 .. Len(p_to_server'[t]) :
        NamedAtPrimary(t, p_to_server'[t][i])
  BY DEF Named, Unread
<1>2. \A t \in ProcId : \A i \in 1 .. Len(s_to_server'[t]) :
        NamedAtSecondary(t, s_to_server'[t][i])
  BY DEF Named, Unread
<1>3. \A c \in ClientId :
        /\ Started(c)' <=> Started(c)
        /\ OnSecondary(c)' <=> OnSecondary(c)
        /\ Token(c)' = Token(c)
  BY DEF Started, OnSecondary, Token
<1> QED
  BY <1>1, <1>2, <1>3 DEF Named, NamedAtPrimary, NamedAtSecondary

(* The primary's loop.                                                     *)
LEMMA PrimaryKeepsNames ==
  ASSUME Typed, EntriesInv(p_key_states), Ids, Named, Fresh, PrimaryRuns
  PROVE  Ids' /\ Named' /\ Fresh'
<1>1. UNCHANGED <<s_issued, s_serving, s_to_server, s_to_client, s_closed,
                  registry_stream, proc_id, abandoned>>
  BY PrimaryRunsFrame
<1>2. UNCHANGED <<p_issued, p_closed>>
      /\ p_token_stream_map \subseteq p_issued /\ p_issued \subseteq ProcId
  BY PrimaryServes DEF Typed, PrimaryTyped, ServerTyped
<1>3. Ids'
  <2>1. p_serving' # NoProc => p_serving'.token \in p_issued'
    BY <1>2, PrimaryServes DEF Ids
  <2> QED
    BY <1>1, <1>2, <2>1 DEF Ids, OnPrimary, OnSecondary, Started, Token
<1>4. LoopTyped(p_key_states, p_access_granted, p_to_server, p_to_client,
                p_token_stream_map)
  BY <1>2
  DEF Typed, PrimaryTyped, ServerTyped, StreamsTyped, LoopTyped, MapOK
<1>5. Named'
  <2>1. Unread(p_to_server, p_to_server')
    <3>1. ASSUME NEW t \in p_token_stream_map,
                 \/ Carries(t, p_key_states, p_access_granted,
                            p_to_server, p_to_client, p_closed,
                            p_key_states', p_access_granted',
                            p_to_server', p_to_client')
                 \/ Drops(t, p_key_states, p_access_granted,
                          p_to_server, p_to_client,
                          p_key_states', p_access_granted',
                          p_to_server', p_to_client')
          PROVE  Unread(p_to_server, p_to_server')
      <4>1. t \in ProcId /\ p_to_server \in [ProcId -> Requests]
        BY <1>2, <1>4 DEF LoopTyped
      <4> QED
        BY <3>1, <4>1, LoopUnread
    <3>2. CASE UNCHANGED p_to_server
      BY <3>2 DEF Unread
    <3> QED
      BY <3>1, <3>2, PrimaryPass DEF Hands, Leaves
  <2>2. Unread(s_to_server, s_to_server')
    BY <1>1 DEF Unread
  <2> QED
    BY <1>1, <1>2, <2>1, <2>2, NamedStays
<1>6. Fresh'
  <2>1. ASSUME NEW p \in ProcId \ p_issued
        PROVE  /\ p_to_server'[p] = <<>> /\ p_to_client'[p] = <<>>
               /\ Outside(p_key_states', p_access_granted', p)
    <3>1. /\ p_to_server[p] = <<>> /\ p_to_client[p] = <<>>
          /\ Outside(p_key_states, p_access_granted, p)
          /\ Apart(p_to_server, p)
          /\ p \in ProcId /\ p \notin p_token_stream_map
          /\ p_to_client \in [ProcId -> Answers]
      BY <1>2, <1>4, PrimaryApart DEF Fresh, LoopTyped
    <3>2. p_serving # NoProc =>
            p_serving.token \in ProcId /\ p_serving.token # p
      BY <1>2 DEF Ids
    <3>3. \A t \in p_token_stream_map : t \in ProcId /\ t # p
      BY <1>2
    <3>4. PICK u \in ProcId \cup {PrimaryToken} :
            /\ u # p
            /\ \/ /\ u \in ProcId
                  /\ Carries(u, p_key_states, p_access_granted,
                             p_to_server, p_to_client, p_closed,
                             p_key_states', p_access_granted',
                             p_to_server', p_to_client')
               \/ Drops(u, p_key_states, p_access_granted,
                        p_to_server, p_to_client,
                        p_key_states', p_access_granted',
                        p_to_server', p_to_client')
               \/ Hands(p_key_states, p_access_granted,
                        p_to_server, p_to_client, p_token_stream_map,
                        p_key_states', p_access_granted',
                        p_to_server', p_to_client')
               \/ Leaves(u, p_key_states, p_access_granted,
                         p_to_server, p_to_client,
                         p_key_states', p_access_granted',
                         p_to_server', p_to_client')
      <4>1. PrimaryToken # p
        BY <3>1, PrimaryTokenAssumption
      <4> QED
        BY <3>2, <3>3, <4>1, PrimaryPass
    <3>5. p_to_client'[p] = p_to_client[p]
      BY <1>4, <3>1, <3>4, LoopSilent
    <3>6. p_to_server'[p] = p_to_server[p]
          /\ Outside(p_key_states', p_access_granted', p)
      BY <1>4, <3>1, <3>4, LoopFresh
    <3> QED
      BY <3>1, <3>5, <3>6
  <2> QED
    BY <1>1, <1>2, <2>1 DEF Fresh, Outside, NoneQueued
<1> QED
  BY <1>3, <1>5, <1>6

(* The secondary's.                                                        *)
LEMMA SecondaryKeepsNames ==
  ASSUME Typed, EntriesInv(s_key_states), Ids, Named, Fresh, SecondaryRuns
  PROVE  Ids' /\ Named' /\ Fresh'
<1>1. UNCHANGED <<p_issued, p_serving, p_key_states, p_access_granted,
                  p_to_server, p_to_client, p_closed,
                  registry_stream, proc_id, abandoned>>
  BY SecondaryRunsFrame
<1>2. UNCHANGED <<s_issued, s_closed>>
      /\ s_token_stream_map \subseteq s_issued /\ s_issued \subseteq ProcId
  BY SecondaryServes DEF Typed, SecondaryTyped, ServerTyped
<1>3. Ids'
  <2>1. s_serving' # NoProc =>
          s_serving'.token \in s_issued' \cup {PrimaryToken}
    BY <1>2, SecondaryServes DEF Ids
  <2> QED
    BY <1>1, <1>2, <2>1 DEF Ids, OnPrimary, OnSecondary, Started, Token
<1>4. LoopTyped(s_key_states, s_access_granted, s_to_server, s_to_client,
                s_token_stream_map)
  BY <1>2
  DEF Typed, SecondaryTyped, ServerTyped, StreamsTyped, LoopTyped, MapOK
<1>5. Named'
  <2>1. Unread(s_to_server, s_to_server')
    <3>1. ASSUME NEW t \in s_token_stream_map,
                 \/ Carries(t, s_key_states, s_access_granted,
                            s_to_server, s_to_client, s_closed,
                            s_key_states', s_access_granted',
                            s_to_server', s_to_client')
                 \/ Drops(t, s_key_states, s_access_granted,
                          s_to_server, s_to_client,
                          s_key_states', s_access_granted',
                          s_to_server', s_to_client')
          PROVE  Unread(s_to_server, s_to_server')
      <4>1. t \in ProcId /\ s_to_server \in [ProcId -> Requests]
        BY <1>2, <1>4 DEF LoopTyped
      <4> QED
        BY <3>1, <4>1, LoopUnread
    <3>2. CASE UNCHANGED s_to_server
      BY <3>2 DEF Unread
    <3> QED
      BY <3>1, <3>2, SecondaryPass DEF Hands, Leaves
  <2>2. Unread(p_to_server, p_to_server')
    BY <1>1 DEF Unread
  <2> QED
    BY <1>1, <1>2, <2>1, <2>2, NamedStays
<1>6. Fresh'
  <2>1. ASSUME NEW p \in ProcId \ s_issued
        PROVE  s_to_client'[p] = <<>>
    <3>1. /\ s_to_client[p] = <<>>
          /\ p \in ProcId /\ p \notin s_token_stream_map
      BY <1>2 DEF Fresh
    <3>2. s_serving # NoProc =>
            s_serving.token \in ProcId \cup {PrimaryToken}
            /\ s_serving.token # p
      BY <1>2, PrimaryTokenAssumption DEF Ids
    <3>3. \A t \in s_token_stream_map : t \in ProcId /\ t # p
      BY <1>2
    <3>4. PICK u \in ProcId \cup {PrimaryToken} :
            /\ u # p
            /\ \/ /\ u \in ProcId
                  /\ Carries(u, s_key_states, s_access_granted,
                             s_to_server, s_to_client, s_closed,
                             s_key_states', s_access_granted',
                             s_to_server', s_to_client')
               \/ Drops(u, s_key_states, s_access_granted,
                        s_to_server, s_to_client,
                        s_key_states', s_access_granted',
                        s_to_server', s_to_client')
               \/ Hands(s_key_states, s_access_granted,
                        s_to_server, s_to_client, s_token_stream_map,
                        s_key_states', s_access_granted',
                        s_to_server', s_to_client')
               \/ Leaves(u, s_key_states, s_access_granted,
                         s_to_server, s_to_client,
                         s_key_states', s_access_granted',
                         s_to_server', s_to_client')
      <4>1. PrimaryToken # p
        BY <3>1, PrimaryTokenAssumption
      <4> QED
        BY <3>2, <3>3, <4>1, SecondaryPass
    <3>5. p \in ProcId /\ u # p
      BY <3>1, <3>4
    <3>6. p \notin s_token_stream_map
      BY <3>1
    <3>7. s_to_client'[p] = s_to_client[p]
      BY <1>4, <3>4, <3>5, <3>6, LoopSilent, SMTT(60)
    <3> QED
      BY <3>1, <3>7
  <2> QED
    BY <1>1, <1>2, <2>1 DEF Fresh, Outside, NoneQueued
<1> QED
  BY <1>3, <1>5, <1>6

(* ... and what it does of what the primary forwards.                      *)
LEMMA MirrorKeepsNames ==
  ASSUME Typed, Ids, Named, Fresh, MirrorPrimary
  PROVE  Ids' /\ Named' /\ Fresh'
<1>1. UNCHANGED <<p_issued, p_serving, p_key_states, p_access_granted,
                  p_to_server, p_to_client, p_closed,
                  registry_stream, proc_id, abandoned>>
  BY MirrorFrame
<1>2. UNCHANGED <<s_issued, s_closed, s_to_server, s_to_client>>
  BY MirrorServes
<1>3. Ids'
  <2>1. s_serving' # NoProc =>
          s_serving'.token \in s_issued' \cup {PrimaryToken}
    BY <1>2, MirrorServes DEF Ids
  <2> QED
    BY <1>1, <1>2, <2>1 DEF Ids, OnPrimary, OnSecondary, Started, Token
<1>4. Named'
  BY <1>1, <1>2, NamedStays DEF Unread
<1>5. Fresh'
  BY <1>1, <1>2 DEF Fresh, Outside, NoneQueued
<1> QED
  BY <1>3, <1>4, <1>5

(* What has been written since is the last.                                *)
LEMMA WrittenLast ==
  ASSUME NEW f \in [ProcId -> Requests], NEW t \in ProcId, NEW x, NEW f2,
         f2 = [f EXCEPT ![t] = Append(@, x)],
         x \in RequestMessage \cup {StopRequest}
  PROVE  \A u \in ProcId : \A i \in 1 .. Len(f2[u]) :
           \/ u = t /\ f2[u][i] = x
           \/ \E j \in 1 .. Len(f[u]) : f2[u][i] = f[u][j]
<1>1. f[t] \in Seq(RequestMessage \cup {StopRequest})
  BY DEF Requests
<1> DEFINE q == Append(f[t], x)
           n == Len(f[t])
<1>2. /\ n \in Nat /\ Len(q) = n + 1 /\ q[n + 1] = x
      /\ \A i \in 1 .. n : q[i] = f[t][i]
  BY <1>1, AppendProperties, LenProperties
<1>3. f2[t] = q /\ \A u \in ProcId \ {t} : f2[u] = f[u]
  OBVIOUS
<1>4. \A i \in 1 .. Len(q) : q[i] = x \/ \E j \in 1 .. n : q[i] = f[t][j]
  <2> HIDE DEF q, n
  <2> TAKE i \in 1 .. Len(q)
  <2>1. CASE i = n + 1
    BY <1>2, <2>1
  <2>2. CASE i # n + 1
    <3>1. i \in 1 .. n
      BY <1>2, <2>2
    <3> QED
      BY <1>2, <3>1
  <2> QED
    BY <2>1, <2>2
<1> HIDE DEF q, n
<1> TAKE u \in ProcId
<1>5. CASE u = t
  BY <1>3, <1>4, <1>5 DEF n
<1>6. CASE u # t
  BY <1>3, <1>6
<1> QED
  BY <1>5, <1>6

(* A client that keeps its connection gives names to what it writes.       *)
LEMMA NamesKept ==
  ASSUME Ids, Fresh,
         UNCHANGED <<p_issued, s_issued, p_serving, s_serving, p_key_states,
                     p_access_granted, p_closed, s_closed, registry_stream,
                     proc_id>>,
         abandoned \subseteq abandoned',
         \A t \in ProcId :
           /\ \A i \in 1 .. Len(p_to_server'[t]) :
                NamedAtPrimary(t, p_to_server'[t][i])
           /\ \A i \in 1 .. Len(s_to_server'[t]) :
                NamedAtSecondary(t, s_to_server'[t][i]),
         \A t \in ProcId \ p_issued :
           p_to_server'[t] = <<>> /\ p_to_client'[t] = <<>>,
         \A t \in ProcId \ s_issued : s_to_client'[t] = <<>>
  PROVE  Ids' /\ Named' /\ Fresh'
<1>1. \A c \in ClientId :
        /\ Started(c)' <=> Started(c)
        /\ OnPrimary(c)' <=> OnPrimary(c)
        /\ OnSecondary(c)' <=> OnSecondary(c)
        /\ Token(c)' = Token(c)
  BY DEF Started, OnPrimary, OnSecondary, Token
<1>2. Ids'
  BY <1>1 DEF Ids
<1>3. Named'
  <2>1. \A t \in ProcId : \A i \in 1 .. Len(p_to_server'[t]) :
          NamedAtPrimary(t, p_to_server'[t][i])
    OBVIOUS
  <2>2. \A t \in ProcId : \A i \in 1 .. Len(s_to_server'[t]) :
          NamedAtSecondary(t, s_to_server'[t][i])
    OBVIOUS
  <2> QED
    BY <1>1, <2>1, <2>2 DEF Named, NamedAtPrimary, NamedAtSecondary
<1>4. Fresh'
  BY DEF Fresh, Outside, NoneQueued
<1> QED
  BY <1>2, <1>3, <1>4

(* ... so when it makes a call or orders its server to stop.               *)
LEMMA WritingKeepsNames ==
  ASSUME Typed, Ids, Named, Fresh, NEW c \in ClientId, Started(c),
         NEW x \in RequestMessage \cup {StopRequest},
         x = StopRequest \/ x.proc = proc_id[c],
         \/ /\ OnPrimary(c)
            /\ p_to_server' = [p_to_server EXCEPT ![Token(c)] = Append(@, x)]
            /\ UNCHANGED s_to_server
         \/ /\ OnSecondary(c)
            /\ s_to_server' = [s_to_server EXCEPT ![Token(c)] = Append(@, x)]
            /\ UNCHANGED p_to_server,
         UNCHANGED <<primary, secondary, p_to_client, s_to_client, p_closed,
                     s_closed, registry_stream, proc_id>>,
         abandoned \subseteq abandoned'
  PROVE  Ids' /\ Named' /\ Fresh'
<1>1. /\ p_to_server \in [ProcId -> Requests]
      /\ s_to_server \in [ProcId -> Requests]
      /\ Token(c) \in ProcId
  BY DEF Typed, StreamsTyped, OwnersTyped, Token, Connection
<1>2. UNCHANGED <<p_issued, s_issued, p_serving, s_serving, p_key_states,
                  p_access_granted, p_closed, s_closed, registry_stream,
                  proc_id>>
  BY DEF primary, secondary
<1>3. ASSUME NEW t \in ProcId, NEW i \in 1 .. Len(p_to_server'[t])
      PROVE  NamedAtPrimary(t, p_to_server'[t][i])
  <2>1. CASE UNCHANGED p_to_server
    BY <1>3, <2>1 DEF Named
  <2>2. CASE OnPrimary(c) /\ p_to_server' =
               [p_to_server EXCEPT ![Token(c)] = Append(@, x)]
    <3>1. \/ t = Token(c) /\ p_to_server'[t][i] = x
          \/ \E j \in 1 .. Len(p_to_server[t]) :
               p_to_server'[t][i] = p_to_server[t][j]
      BY <1>1, <2>2, WrittenLast
    <3>2. NamedAtPrimary(Token(c), x)
      BY <2>2 DEF NamedAtPrimary, Ids
    <3> QED
      BY <3>1, <3>2 DEF Named
  <2> QED
    BY <2>1, <2>2
<1>4. ASSUME NEW t \in ProcId, NEW i \in 1 .. Len(s_to_server'[t])
      PROVE  NamedAtSecondary(t, s_to_server'[t][i])
  <2>1. CASE UNCHANGED s_to_server
    BY <1>4, <2>1 DEF Named
  <2>2. CASE OnSecondary(c) /\ s_to_server' =
               [s_to_server EXCEPT ![Token(c)] = Append(@, x)]
    <3>1. \/ t = Token(c) /\ s_to_server'[t][i] = x
          \/ \E j \in 1 .. Len(s_to_server[t]) :
               s_to_server'[t][i] = s_to_server[t][j]
      BY <1>1, <2>2, WrittenLast
    <3>2. NamedAtSecondary(Token(c), x)
      BY <2>2 DEF NamedAtSecondary, Ids
    <3> QED
      BY <3>1, <3>2 DEF Named
  <2> QED
    BY <2>1, <2>2
<1>5. ASSUME NEW t \in ProcId \ p_issued
      PROVE  p_to_server'[t] = <<>> /\ p_to_client'[t] = <<>>
  <2>1. OnPrimary(c) => t # Token(c)
    BY DEF Ids
  <2> QED
    BY <1>1, <2>1 DEF Fresh
<1>6. \A t \in ProcId \ s_issued : s_to_client'[t] = <<>>
  BY DEF Fresh
<1> QED
  BY <1>2, <1>3, <1>4, <1>5, <1>6, NamesKept

(* ... when it reads, waits in vain or is caught in the loop.              *)
LEMMA ReadingKeepsNames ==
  ASSUME Typed, Ids, Named, Fresh, NEW c \in ClientId,
         ReadMessage(c) \/ GiveUp(c) \/ Spin(c)
  PROVE  Ids' /\ Named' /\ Fresh'
<1>0. /\ p_to_client \in [ProcId -> Answers]
      /\ s_to_client \in [ProcId -> Answers]
  BY DEF Typed, StreamsTyped
<1>1. UNCHANGED <<primary, secondary, p_to_server, s_to_server, p_closed,
                  s_closed, registry_stream, proc_id>>
  BY DEF ReadMessage, GiveUp, Spin, owners, p_streams, s_streams,
         AtP!CallGranted, AtP!CallWaits, AtP!CallReturns,
         AtS!CallGranted, AtS!CallWaits, AtS!CallReturns
<1>2. abandoned \subseteq abandoned'
  BY DEF ReadMessage, GiveUp, Spin, history
<1>3. UNCHANGED <<p_issued, s_issued, p_serving, s_serving, p_key_states,
                  p_access_granted, p_closed, s_closed, registry_stream,
                  proc_id>>
  BY <1>1 DEF primary, secondary
<1>4. \/ UNCHANGED <<p_to_client, s_to_client>>
      \/ /\ OnPrimary(c) /\ UNCHANGED s_to_client
         /\ p_to_client' = [p_to_client EXCEPT ![Token(c)] = Tail(@)]
      \/ /\ OnSecondary(c) /\ UNCHANGED p_to_client
         /\ s_to_client' = [s_to_client EXCEPT ![Token(c)] = Tail(@)]
  BY DEF ReadMessage, GiveUp, Spin, p_streams, s_streams,
         AtP!CallGranted, AtP!CallWaits, AtP!CallReturns, AtP!Receive,
         AtS!CallGranted, AtS!CallWaits, AtS!CallReturns, AtS!Receive
<1>5. ASSUME NEW t \in ProcId \ p_issued
      PROVE  p_to_server'[t] = <<>> /\ p_to_client'[t] = <<>>
  <2>1. OnPrimary(c) => t # Token(c)
    BY DEF Ids, OnPrimary
  <2> QED
    BY <1>0, <1>1, <1>4, <2>1 DEF Fresh
<1>6. ASSUME NEW t \in ProcId \ s_issued
      PROVE  s_to_client'[t] = <<>>
  <2>1. OnSecondary(c) => t # Token(c)
    BY DEF Ids
  <2> QED
    BY <1>0, <1>4, <2>1 DEF Fresh
<1>7. \A t \in ProcId :
        /\ \A i \in 1 .. Len(p_to_server'[t]) :
             NamedAtPrimary(t, p_to_server'[t][i])
        /\ \A i \in 1 .. Len(s_to_server'[t]) :
             NamedAtSecondary(t, s_to_server'[t][i])
  BY <1>1 DEF Named
<1> QED
  BY <1>2, <1>3, <1>5, <1>6, <1>7, NamesKept

(* What an action of another client leaves of c.                           *)
LEMMA OthersStay ==
  ASSUME NEW c \in ClientId, OnlyItself(c), NEW d \in ClientId, d # c
  PROVE  /\ Started(d)' <=> Started(d)
         /\ OnPrimary(d)' <=> OnPrimary(d)
         /\ OnSecondary(d)' <=> OnSecondary(d)
         /\ Token(d)' = Token(d)
         /\ proc_id'[d] = proc_id[d]
         /\ d \in abandoned' <=> d \in abandoned
BY DEF OnlyItself, Started, OnPrimary, OnSecondary, Token

(* The id a client is given at the primary is nobody's.                    *)
LEMMA StartKeepsNames ==
  ASSUME Typed, Ids, Named, Fresh, NEW c \in ClientId, StartAtPrimary(c)
  PROVE  Ids' /\ Named' /\ Fresh'
<1> DEFINE id == NextId(p_issued)
<1>1. /\ ~ Started(c)
      /\ id \in ProcId /\ P!HandleConnection(id)
      /\ proc_id' = [proc_id EXCEPT ![c] = id]
      /\ registry_stream' = [registry_stream EXCEPT
                               ![c] = [server |-> "primary", token |-> id]]
      /\ UNCHANGED <<secondary, p_streams, s_streams, abandoned>>
  BY DEF StartAtPrimary
<1> HIDE DEF id
<1>2. UNCHANGED <<s_issued, s_serving, p_to_server, p_to_client, p_closed,
                  s_to_server, s_to_client, s_closed>>
  BY <1>1 DEF secondary, p_streams, s_streams
<1>3. /\ id \notin p_issued /\ p_issued' = p_issued \cup {id}
      /\ UNCHANGED <<p_key_states, p_access_granted, p_serving>>
  BY <1>1, PrimaryConnects DEF P!HandleConnection
<1>4. \A d \in ClientId \ {c} :
        /\ Started(d)' <=> Started(d)
        /\ OnPrimary(d)' <=> OnPrimary(d)
        /\ OnSecondary(d)' <=> OnSecondary(d)
        /\ Token(d)' = Token(d)
        /\ proc_id'[d] = proc_id[d]
        /\ d \in abandoned' <=> d \in abandoned
  BY ClientFrame, OthersStay DEF ClientActs
<1>5. /\ proc_id'[c] = id /\ Started(c)' /\ OnPrimary(c)' /\ ~ OnSecondary(c)'
      /\ Token(c)' = id
  <2>1. proc_id'[c] = id /\ registry_stream'[c]
          = [server |-> "primary", token |-> id]
    BY <1>1 DEF Typed, OwnersTyped
  <2>2. id # NoProc
    BY <1>1, NoProcAssumption
  <2> QED
    BY <2>1, <2>2 DEF Started, OnPrimary, OnSecondary, Token
<1>6. Ids'
  <2>1. \A d \in ClientId : Started(d)' => proc_id'[d] \in p_issued'
    BY <1>3, <1>4, <1>5 DEF Ids
  <2>2. ASSUME NEW d \in ClientId, NEW e \in ClientId, Started(d)',
               Started(e)', proc_id'[d] = proc_id'[e]
        PROVE  d = e
    <3>1. \A x \in ClientId \ {c} : Started(x)' => proc_id'[x] # id
      BY <1>3, <1>4 DEF Ids
    <3> QED
      BY <1>4, <1>5, <2>2, <3>1 DEF Ids
  <2>3. \A d \in ClientId :
          OnPrimary(d)' => Token(d)' = proc_id'[d] /\ Token(d)' \notin p_closed'
    BY <1>2, <1>3, <1>4, <1>5 DEF Ids
  <2>4. \A d \in ClientId :
          OnSecondary(d)' => Token(d)' \in s_issued'
                             /\ Token(d)' \notin s_closed'
    BY <1>2, <1>4, <1>5 DEF Ids
  <2>5. \A d, e \in ClientId :
          OnSecondary(d)' /\ OnSecondary(e)' /\ Token(d)' = Token(e)' => d = e
    BY <1>4, <1>5 DEF Ids
  <2>6. /\ p_closed' \subseteq p_issued' /\ s_closed' \subseteq s_issued'
        /\ p_serving' # NoProc => p_serving'.token \in p_issued'
        /\ s_serving' # NoProc =>
             s_serving'.token \in s_issued' \cup {PrimaryToken}
    BY <1>2, <1>3 DEF Ids
  <2> QED
    BY <2>1, <2>2, <2>3, <2>4, <2>5, <2>6 DEF Ids
<1>7. Named'
  <2>1. \A t \in ProcId : \A i \in 1 .. Len(p_to_server'[t]) :
          NamedAtPrimary(t, p_to_server'[t][i])
    BY <1>2 DEF Named
  <2>2. ASSUME NEW t \in ProcId, NEW i \in 1 .. Len(s_to_server'[t])
        PROVE  NamedAtSecondary(t, s_to_server[t][i])'
    <3> DEFINE m == s_to_server[t][i]
    <3>1. s_to_server'[t][i] = m /\ NamedAtSecondary(t, m)
      BY <1>2, <2>2 DEF Named
    <3>2. CASE m = StopRequest
      BY <3>1, <3>2 DEF NamedAtSecondary
    <3>3. CASE m # StopRequest
      <4>1. /\ m.proc \in p_issued
            /\ \A d \in ClientId :
                 Started(d) /\ m.proc = proc_id[d] /\ d \notin abandoned
                   => OnSecondary(d) /\ Token(d) = t
        BY <3>1, <3>3 DEF NamedAtSecondary
      <4> HIDE DEF m
      <4>2. \A d \in ClientId :
              Started(d)' /\ m.proc = proc_id'[d] /\ d \notin abandoned'
                => OnSecondary(d)' /\ Token(d)' = t
        BY <1>3, <1>4, <1>5, <4>1
      <4>3. m.proc \in p_issued'
        BY <1>3, <4>1
      <4> QED
        BY <3>1, <4>2, <4>3 DEF NamedAtSecondary
    <3> QED
      BY <3>2, <3>3
  <2> QED
    BY <2>1, <2>2 DEF Named, NamedAtPrimary
<1>8. Fresh'
  BY <1>2, <1>3 DEF Fresh, Outside, NoneQueued
<1> QED
  BY <1>6, <1>7, <1>8

(* A client that switches comes to the secondary by a connection of its    *)
(* own, with the one request it sends again.                               *)
LEMMA SwitchKeepsNames ==
  ASSUME Typed, Ids, Named, Fresh, NEW c \in ClientId, SwitchToSecondary(c)
  PROVE  Ids' /\ Named' /\ Fresh'
<1> DEFINE id == NextId(s_issued)
           r  == ResentRequest(c)
<1>1. /\ AtP!InCall(c) /\ (OnPrimary(c) \/ OnSecondary(c))
      /\ id \in ProcId /\ S!HandleConnection(id)
      /\ s_to_server' = [s_to_server EXCEPT ![id] = <<r>>]
      /\ \/ OnPrimary(c) /\ AtP!Close(Token(c))
            /\ UNCHANGED <<s_to_client, s_closed>>
         \/ OnSecondary(c) /\ s_closed' = s_closed \cup {Token(c)}
            /\ UNCHANGED <<p_streams, s_to_client>>
      /\ registry_stream' = [registry_stream EXCEPT
                               ![c] = [server |-> "secondary", token |-> id]]
      /\ abandoned' = IF OnPrimary(c) /\ p_process = "ended" THEN abandoned
                      ELSE abandoned \cup {c}
      /\ UNCHANGED <<primary, proc_id>>
  BY DEF SwitchToSecondary, Fails
<1> HIDE DEF id
<1>2. /\ id \notin s_issued /\ s_issued' = s_issued \cup {id}
      /\ UNCHANGED <<p_issued, p_serving, p_key_states, p_access_granted,
                     s_serving>>
  BY <1>1, SecondaryConnects DEF primary
<1>3. \A d \in ClientId \ {c} :
        /\ Started(d)' <=> Started(d)
        /\ OnPrimary(d)' <=> OnPrimary(d)
        /\ OnSecondary(d)' <=> OnSecondary(d)
        /\ Token(d)' = Token(d)
        /\ proc_id'[d] = proc_id[d]
        /\ d \in abandoned' <=> d \in abandoned
  BY ClientFrame, OthersStay DEF ClientActs
<1>4. /\ Started(c) /\ Started(c)' /\ proc_id'[c] = proc_id[c]
      /\ ~ OnPrimary(c)' /\ OnSecondary(c)' /\ Token(c)' = id
  <2>1. registry_stream'[c] = [server |-> "secondary", token |-> id]
    BY <1>1 DEF Typed, OwnersTyped
  <2> QED
    BY <1>1, <2>1 DEF Started, OnPrimary, OnSecondary, Token
<1>5. /\ UNCHANGED <<p_to_server, s_to_client>>
      /\ p_closed' \subseteq p_closed \cup (IF OnPrimary(c) THEN {Token(c)} ELSE {})
      /\ s_closed' \subseteq s_closed \cup (IF OnSecondary(c) THEN {Token(c)} ELSE {})
      /\ \A t \in ProcId : p_to_client[t] = <<>> => p_to_client'[t] = <<>>
  BY <1>1 DEF AtP!Close, p_streams, Typed, StreamsTyped
<1>6. Ids'
  <2>1. \A d \in ClientId : Started(d)' => proc_id'[d] \in p_issued'
    BY <1>2, <1>3, <1>4 DEF Ids
  <2>2. \A d, e \in ClientId :
          Started(d)' /\ Started(e)' /\ proc_id'[d] = proc_id'[e] => d = e
    BY <1>1, <1>3, <1>4 DEF Ids, Started
  <2>3. ASSUME NEW d \in ClientId, OnPrimary(d)'
        PROVE  Token(d)' = proc_id'[d] /\ Token(d)' \notin p_closed'
    <3>1. d # c /\ OnPrimary(d) /\ Started(d)
      BY <1>3, <1>4, <2>3 DEF OnPrimary
    <3>2. OnPrimary(c) => Token(d) # Token(c)
      BY <1>4, <3>1 DEF Ids
    <3> QED
      BY <1>3, <1>5, <3>1, <3>2 DEF Ids
  <2>4. ASSUME NEW d \in ClientId, OnSecondary(d)'
        PROVE  Token(d)' \in s_issued' /\ Token(d)' \notin s_closed'
    <3>1. CASE d = c
      <4>1. OnSecondary(c) => Token(c) # id
        BY <1>2 DEF Ids
      <4> QED
        BY <1>2, <1>4, <1>5, <3>1, <4>1 DEF Ids
    <3>2. CASE d # c
      <4>1. OnSecondary(d) /\ Token(d)' = Token(d)
        BY <1>3, <2>4, <3>2
      <4>2. OnSecondary(c) => Token(d) # Token(c)
        BY <3>2, <4>1 DEF Ids
      <4> QED
        BY <1>2, <1>5, <4>1, <4>2 DEF Ids
    <3> QED
      BY <3>1, <3>2
  <2>5. ASSUME NEW d \in ClientId, NEW e \in ClientId,
               OnSecondary(d)', OnSecondary(e)', Token(d)' = Token(e)'
        PROVE  d = e
    <3>1. \A x \in ClientId \ {c} : OnSecondary(x)' => Token(x)' # id
      BY <1>2, <1>3 DEF Ids
    <3> QED
      BY <1>3, <1>4, <2>5, <3>1 DEF Ids
  <2>6. /\ p_closed' \subseteq p_issued' /\ s_closed' \subseteq s_issued'
        /\ p_serving' # NoProc => p_serving'.token \in p_issued'
        /\ s_serving' # NoProc =>
             s_serving'.token \in s_issued' \cup {PrimaryToken}
    <3>1. OnPrimary(c) => Token(c) \in p_issued
      BY <1>4 DEF Ids
    <3>2. OnSecondary(c) => Token(c) \in s_issued
      BY DEF Ids
    <3> QED
      BY <1>2, <1>5, <3>1, <3>2 DEF Ids
  <2> QED
    BY <2>1, <2>2, <2>3, <2>4, <2>5, <2>6 DEF Ids
<1>7. Named'
  <2>1. \A t \in ProcId : \A i \in 1 .. Len(p_to_server'[t]) :
          NamedAtPrimary(t, p_to_server'[t][i])
    BY <1>5 DEF Named
  <2>2. ASSUME NEW t \in ProcId, NEW i \in 1 .. Len(s_to_server'[t])
        PROVE  NamedAtSecondary(t, s_to_server[t][i])'
    <3>1. CASE t = id
      <4>1. Len(<<r>>) = 1 /\ <<r>>[1] = r
        OBVIOUS
      <4> HIDE DEF r
      <4>2. s_to_server'[t][i] = r
        BY <1>1, <2>2, <3>1, <4>1 DEF Typed, StreamsTyped
      <4>3. r.proc = proc_id[c]
        BY DEF ResentRequest, r
      <4>4. r.proc \in p_issued'
        BY <1>2, <1>4, <4>3 DEF Ids
      <4>5. \A d \in ClientId :
              Started(d)' /\ r.proc = proc_id'[d] => d = c
        BY <1>3, <1>4, <4>3 DEF Ids
      <4> QED
        BY <1>4, <3>1, <4>2, <4>4, <4>5 DEF NamedAtSecondary
    <3>2. CASE t # id
      <4> DEFINE m == s_to_server[t][i]
      <4>1. s_to_server'[t][i] = m /\ NamedAtSecondary(t, m)
        BY <1>1, <2>2, <3>2 DEF Named, Typed, StreamsTyped
      <4>2. CASE m = StopRequest
        BY <4>1, <4>2 DEF NamedAtSecondary
      <4>3. CASE m # StopRequest
        <5>1. /\ m.proc \in p_issued
              /\ \A d \in ClientId :
                   Started(d) /\ m.proc = proc_id[d] /\ d \notin abandoned
                     => OnSecondary(d) /\ Token(d) = t
          BY <4>1, <4>3 DEF NamedAtSecondary
        <5> HIDE DEF m
        <5>2. c \notin abandoned' => c \notin abandoned /\ ~ OnSecondary(c)
          BY <1>1 DEF OnPrimary, OnSecondary
        <5>3. ASSUME NEW d \in ClientId, Started(d)', m.proc = proc_id'[d],
                     d \notin abandoned'
              PROVE  OnSecondary(d)' /\ Token(d)' = t
          BY <1>3, <1>4, <5>1, <5>2, <5>3
        <5>4. m.proc \in p_issued'
          BY <1>2, <5>1
        <5> QED
          BY <4>1, <5>3, <5>4 DEF NamedAtSecondary
      <4> QED
        BY <4>2, <4>3
    <3> QED
      BY <3>1, <3>2
  <2> QED
    BY <2>1, <2>2 DEF Named, NamedAtPrimary
<1>8. Fresh'
  BY <1>2, <1>5 DEF Fresh, Outside, NoneQueued
<1> QED
  BY <1>6, <1>7, <1>8

(* An id that nobody gets is nobody's.                                     *)
LEMMA LostKeepsNames ==
  ASSUME Ids, Named, Fresh, LoseConnection
  PROVE  Ids' /\ Named' /\ Fresh'
<1>1. /\ UNCHANGED <<p_key_states, p_access_granted, p_serving, s_serving,
                     p_to_server, p_to_client, p_closed,
                     s_to_server, s_to_client, s_closed,
                     registry_stream, proc_id, abandoned>>
      /\ p_issued \subseteq p_issued' /\ s_issued \subseteq s_issued'
  BY LostFrame
<1>2. \A c \in ClientId :
        /\ Started(c)' <=> Started(c)
        /\ OnPrimary(c)' <=> OnPrimary(c)
        /\ OnSecondary(c)' <=> OnSecondary(c)
        /\ Token(c)' = Token(c)
  BY <1>1 DEF Started, OnPrimary, OnSecondary, Token
<1>3. Ids'
  BY <1>1, <1>2 DEF Ids
<1>4. Named'
  BY <1>1, <1>2 DEF Named, NamedAtPrimary, NamedAtSecondary
<1>5. Fresh'
  BY <1>1 DEF Fresh, Outside, NoneQueued
<1> QED
  BY <1>3, <1>4, <1>5

(* Whoever acts, while nobody starts at the secondary.                     *)
LEMMA NamesStay ==
  ASSUME Typed, EntriesInv(p_key_states), EntriesInv(s_key_states), Unstarted,
         Ids, Named, Fresh, Next, \A c \in ClientId : ~ StartAtSecondary(c)
  PROVE  Ids' /\ Named' /\ Fresh'
<1>1. ASSUME NEW c \in ClientId, NEW t \in RequestType, NEW k \in KeyId,
             MakeCall(c, t, k)
      PROVE  Ids' /\ Named' /\ Fresh'
  <2> DEFINE x == [proc |-> proc_id[c], type |-> t, key |-> k]
  <2>1. /\ Started(c)
        /\ UNCHANGED <<primary, secondary, registry_stream, proc_id, abandoned>>
    BY <1>1 DEF MakeCall, owners, history
  <2>2. x \in RequestMessage /\ x.proc = proc_id[c]
    BY <2>1 DEF RequestMessage, Started, Typed, OwnersTyped
  <2>3. \/ /\ OnPrimary(c) /\ UNCHANGED s_streams
           /\ p_to_server' = [p_to_server EXCEPT ![Token(c)] = Append(@, x)]
           /\ UNCHANGED <<p_to_client, p_closed>>
        \/ /\ OnSecondary(c) /\ UNCHANGED p_streams
           /\ s_to_server' = [s_to_server EXCEPT ![Token(c)] = Append(@, x)]
           /\ UNCHANGED <<s_to_client, s_closed>>
    BY <1>1
    DEF MakeCall, AtP!BeginCall, AtS!BeginCall, AtP!SendRequest,
        AtS!SendRequest
  <2> HIDE DEF x
  <2>4. UNCHANGED <<p_to_client, s_to_client, p_closed, s_closed>>
        /\ \/ /\ OnPrimary(c)
              /\ p_to_server' = [p_to_server EXCEPT ![Token(c)] = Append(@, x)]
              /\ UNCHANGED s_to_server
           \/ /\ OnSecondary(c)
              /\ s_to_server' = [s_to_server EXCEPT ![Token(c)] = Append(@, x)]
              /\ UNCHANGED p_to_server
    BY <2>3 DEF p_streams, s_streams
  <2> QED
    BY <2>1, <2>2, <2>4, WritingKeepsNames
<1>2. ASSUME NEW c \in ClientId, Stop(c)
      PROVE  Ids' /\ Named' /\ Fresh'
  <2>1. /\ Started(c) /\ abandoned \subseteq abandoned'
        /\ UNCHANGED <<primary, secondary, registry_stream, proc_id>>
    BY <1>2 DEF Stop, owners
  <2>2. UNCHANGED <<p_to_client, s_to_client, p_closed, s_closed>>
        /\ \/ /\ OnPrimary(c)
              /\ p_to_server' =
                   [p_to_server EXCEPT ![Token(c)] = Append(@, StopRequest)]
              /\ UNCHANGED s_to_server
           \/ /\ OnSecondary(c)
              /\ s_to_server' =
                   [s_to_server EXCEPT ![Token(c)] = Append(@, StopRequest)]
              /\ UNCHANGED p_to_server
    BY <1>2, SameMessages
    DEF Stop, AtP!SendStop, AtS!SendStop, AtP!SendRequest, AtS!SendRequest,
        p_streams, s_streams
  <2>3. StopRequest \in RequestMessage \cup {StopRequest}
    OBVIOUS
  <2> QED
    BY <2>1, <2>2, <2>3, WritingKeepsNames
<1>3. ASSUME NEW c \in ClientId, ClientActs(c)
      PROVE  Ids' /\ Named' /\ Fresh'
  BY <1>1, <1>2, <1>3, StartKeepsNames, SwitchKeepsNames, ReadingKeepsNames
  DEF ClientActs
<1> QED
  BY <1>3, NextIs, PrimaryKeepsNames, SecondaryKeepsNames, MirrorKeepsNames,
     LostKeepsNames

----------------------------------------------------------------------------
(* THE EXIT OF THE PRIMARY                                                 *)

(* Who is served or comes finds the primary running.                       *)
LEMMA PrimaryIsUp ==
  ASSUME Typed, PrimaryRuns \/ \E c \in ClientId : StartAtPrimary(c)
  PROVE  p_process = "running"
<1>1. p_process = "running" \/ p_serving = NoProc
  BY DEF Typed, EndsBetweenRequests, PrimaryTyped, ServerTyped
<1>2. ASSUME NEW t \in ProcId,
             P!HandleRequest(t) \/ P!HandleCoalesced(t) \/ P!HandleClose(t)
               \/ P!HandleStop(t)
      PROVE  P!Polling
  BY <1>2, PrimaryRequest, PrimaryLosesOrEnds
<1>3. ASSUME P!DeliverGrants \/ P!FinishRequest
      PROVE  p_serving # NoProc
  BY <1>3, PrimaryGrants, PrimaryFinishes
<1>4. ASSUME NEW c \in ClientId, StartAtPrimary(c)
      PROVE  P!Polling
  BY <1>4 DEF StartAtPrimary, P!HandleConnection
<1> QED
  BY <1>1, <1>2, <1>3, <1>4 DEF PrimaryRuns, P!Polling

(* When the secondary has read the last message of a primary that ended,   *)
(* or the primary ends and there is none to read, the maps are equal.      *)
LEMMA EqualAtHandover ==
  ASSUME Inv, ~ diverged, Inv', ~ diverged', Handed',
         \/ PrimaryRuns \/ MirrorPrimary
         \/ \E c \in ClientId : StartAtPrimary(c)
         \/ LoseConnection /\ ~ Handed
  PROVE  s_key_states' = p_key_states'
<1>1. Typed /\ Replicates /\ Typed' /\ Replicates'
  BY DEF Inv
<1>2. /\ images \in Seq(KeyMaps) /\ Len(images) = 1 + Len(forwards)
      /\ forwards \in Seq(Messages) /\ Len(forwards) \in Nat
  BY <1>1, LenProperties DEF Typed, LinkTyped
<1>3. /\ forwards' = <<>> /\ Len(images') = 1 /\ p_serving' = NoProc
      /\ p_process' = "ended" /\ p_key_states' = images'[1]
  <2>1. forwards' = <<>> /\ p_process' = "ended" /\ Len(images') = 1 + Len(forwards')
    BY <1>1 DEF Handed, Typed, LinkTyped
  <2>2. Len(images') = 1
    BY <2>1
  <2>3. p_serving' = NoProc
    BY <1>1, <2>1 DEF Typed, EndsBetweenRequests
  <2> QED
    BY <1>1, <2>1, <2>2, <2>3 DEF Replicates, Last
<1>4. CASE PrimaryRuns \/ \E c \in ClientId : StartAtPrimary(c)
  <2>1. s_key_states' = s_key_states /\ s_key_states = images[1]
    <3>1. s_key_states' = s_key_states
      BY <1>4 DEF PrimaryRuns, StartAtPrimary, secondary
    <3> QED
      BY <1>1, <1>4, <3>1, PrimaryIsUp DEF Replicates
  <2>2. images' = images \/ \E x : images' = Append(images, x)
    BY <1>4 DEF PrimaryRuns, StartAtPrimary
  <2>3. ASSUME NEW x, images' = Append(images, x)
        PROVE  FALSE
    <3>1. images \in Seq(KeyMaps \cup {x})
      BY <1>2
    <3>2. Len(images') = Len(images) + 1
      BY <2>3, <3>1, AppendProperties
    <3>3. Len(images) \in Nat /\ Len(images) # 0
      BY <1>2
    <3>4. Len(images') = 1
      BY <1>3
    <3>5. \A n \in Nat : n # 0 => n + 1 # 1
      OBVIOUS
    <3> QED
      BY <3>2, <3>3, <3>4, <3>5, Zenon
  <2> QED
    BY <1>3, <2>1, <2>2, <2>3
<1>5. CASE MirrorPrimary
  <2>1. ASSUME S!HandleForwardedCoalesced
        PROVE  FALSE
    <3>1. PICK n \in 2 .. Len(forwards) :
            forwards' = SubSeq(forwards, n + 1, Len(forwards))
      BY <2>1 DEF S!HandleForwardedCoalesced
    <3>2. ~ (Len(forwards') < Len(forwards) - 1)
      BY <1>5 DEF MirrorPrimary
    <3>3. Len(forwards') = 0
      BY <1>3
    <3> QED
      BY <1>2, <3>1, <3>2, <3>3
  <2>2. S!HandleForwarded
    BY <1>5, <2>1 DEF MirrorPrimary
  <2>3. /\ forwards # <<>> /\ forwards' = Tail(forwards)
        /\ s_key_states' = EffectOf(s_key_states, Head(forwards))
    BY <1>1, <2>2, SecondaryForwarded DEF Goes
  <2>4. Len(forwards) = 1 /\ Head(forwards) = forwards[1]
    <3>1. Len(Tail(forwards)) = Len(forwards) - 1
          /\ Head(forwards) = forwards[1]
      BY <1>2, <2>3, HeadTailProperties
    <3>2. Len(forwards') = 0
      BY <1>3
    <3> QED
      BY <1>2, <2>3, <3>1, <3>2
  <2>5. p_key_states' = p_key_states /\ p_serving = NoProc
        /\ s_key_states = images[1]
    BY <1>1, <1>3, <1>5, <2>3, MirrorFrame DEF Replicates
  <2>6. p_key_states = images[2] /\ images[2] = EffectOf(images[1], forwards[1])
    <3>1. Len(images) = 2 /\ 1 \in 1 .. Len(forwards)
      BY <1>2, <2>4
    <3>2. images[1 + 1] = EffectOf(images[1], forwards[1])
      BY <1>1, <3>1 DEF Replicates
    <3> QED
      BY <1>1, <2>5, <3>1, <3>2 DEF Replicates, Last
  <2> QED
    BY <2>3, <2>4, <2>5, <2>6
<1>6. CASE LoseConnection /\ ~ Handed
  <2>1. /\ UNCHANGED <<s_key_states, images, forwards>>
        /\ UNCHANGED p_process \/ p_process = "running"
    BY <1>6, LostFrame
  <2>2. p_process = "running"
    BY <1>3, <1>6, <2>1 DEF Handed
  <2>3. s_key_states = images[1]
    BY <1>1, <2>2 DEF Replicates
  <2> QED
    BY <1>3, <2>1, <2>3
<1> QED
  BY <1>4, <1>5, <1>6

(* The primary's loop takes a client that is with it from stage to stage.  *)
LEMMA PrimaryKeepsStage ==
  ASSUME Typed, EntriesInv(p_key_states), Ids, Named, PrimaryRuns,
         ~ diverged', NEW c \in ClientId, OnPrimary(c), AtPrimary(c)
  PROVE  AtPrimary(c)'
<1> DEFINE p == proc_id[c]
           d == call[c]
           h == held[c]
<1>1. UNCHANGED <<call, held, registry_stream, proc_id>>
  BY PrimaryRunsFrame
<1>2. /\ p_token_stream_map \subseteq ProcId
      /\ LoopTyped(p_key_states, p_access_granted, p_to_server, p_to_client,
                   p_token_stream_map)
  BY DEF Typed, PrimaryTyped, ServerTyped, StreamsTyped, LoopTyped, MapOK
<1>3. /\ p \in ProcId /\ p \notin p_closed
      /\ StageTyped(p, d, h, p_key_states, p_access_granted,
                    p_to_client[p])
  BY <1>2 DEF LoopTyped, StageTyped, Ids, OnPrimary, Started, Typed, OwnersTyped, CallsTyped
<1>4. Apart(p_to_server, p)
  BY PrimaryApart
<1>5. Stage(p, d, h, p_key_states, p_access_granted, p_to_server[p],
            p_to_client[p])
  BY DEF AtPrimary
<1> HIDE DEF p, d, h
<1>6. PICK u :
        Passes(p, u, p_key_states, p_access_granted, p_to_server,
               p_to_client, p_token_stream_map, p_closed,
               p_key_states', p_access_granted', p_to_server',
               p_to_client')
  BY <1>2, PrimaryPass DEF Passes
<1>7. Stage(p, d, h, p_key_states', p_access_granted', p_to_server'[p],
            p_to_client'[p])
  BY <1>2, <1>3, <1>4, <1>5, <1>6, LoopStage
<1> QED
  BY <1>1, <1>7 DEF AtPrimary, p, d, h

(* The secondary's does so with one that has come to it and has not been   *)
(* sent more than it asked for.                                            *)
LEMMA SecondaryKeepsStage ==
  ASSUME Typed, EntriesInv(s_key_states), Ids, Named, SecondaryRuns,
         NEW c \in ClientId, OnSecondary(c), Token(c) = proc_id[c],
         c \notin abandoned, c \notin surplus', AtSecondary(c)
  PROVE  AtSecondary(c)'
<1> DEFINE p == proc_id[c]
           d == call[c]
           h == held[c]
<1>1. UNCHANGED <<call, held, registry_stream, proc_id>>
  BY SecondaryRunsFrame
<1>2. /\ s_token_stream_map \subseteq ProcId
      /\ LoopTyped(s_key_states, s_access_granted, s_to_server, s_to_client,
                   s_token_stream_map)
  BY DEF Typed, SecondaryTyped, ServerTyped, StreamsTyped, LoopTyped, MapOK
<1>3. /\ p \in ProcId /\ p \notin s_closed
      /\ StageTyped(p, d, h, s_key_states, s_access_granted,
                    s_to_client[p])
  BY <1>2 DEF LoopTyped, StageTyped, Ids, OnSecondary, Started, Typed, OwnersTyped, CallsTyped
<1>4. Apart(s_to_server, p)
  BY SecondaryApart DEF OnSecondary
<1>5. Stage(p, d, h, s_key_states, s_access_granted, s_to_server[p],
            s_to_client[p])
  BY DEF AtSecondary
<1>6. s_serving # NoProc /\ surplus' = surplus \cup BeingServed
        => s_serving.token # p
  BY DEF BeingServed
<1> HIDE DEF p, d, h
<1>7. PICK u :
        Passes(p, u, s_key_states, s_access_granted, s_to_server,
               s_to_client, s_token_stream_map, s_closed,
               s_key_states', s_access_granted', s_to_server',
               s_to_client')
  BY <1>2, <1>6, SecondaryPass DEF Passes
<1>8. Stage(p, d, h, s_key_states', s_access_granted', s_to_server'[p],
            s_to_client'[p])
  BY <1>2, <1>3, <1>4, <1>5, <1>7, LoopStage
<1> QED
  BY <1>1, <1>8 DEF AtSecondary, p, d, h

(* What it does for others leaves it up with the primary.                  *)
LEMMA SecondaryKeepsUp ==
  ASSUME Typed, EntriesInv(s_key_states), Named, SecondaryRuns,
         NEW c \in ClientId, OnPrimary(c), c \notin abandoned,
         KeepsUp(proc_id[c])
  PROVE  KeepsUp(proc_id[c])'
<1> DEFINE p == proc_id[c]
<1>1. UNCHANGED <<p_key_states, proc_id>>
  BY SecondaryRunsFrame
<1>2. /\ p \in ProcId /\ MapOK(s_key_states)
      /\ s_to_server \in [ProcId -> Requests]
  BY DEF OnPrimary, Started, Typed, OwnersTyped, SecondaryTyped, ServerTyped,
         StreamsTyped, MapOK
<1>3. ASSUME NEW t \in ProcId, NEW m \in RequestMessage,
             s_to_server[t] # <<>>, m = Head(s_to_server[t])
      PROVE  m.proc # p
  <2>1. s_to_server[t] \in Seq(RequestMessage \cup {StopRequest})
    BY <1>2 DEF Requests
  <2>2. m = s_to_server[t][1] /\ 1 \in 1 .. Len(s_to_server[t])
    <3>1. Len(s_to_server[t]) \in Nat /\ Len(s_to_server[t]) # 0
      BY <1>3, <2>1, EmptySeq, LenProperties
    <3> QED
      BY <1>3, <2>1, <3>1, HeadTailProperties
  <2>3. m # StopRequest
    BY DEF RequestMessage, StopRequest, RequestType, AccessType
  <2>4. NamedAtSecondary(t, m)
    BY <2>2 DEF Named
  <2> QED
    BY <2>3, <2>4 DEF NamedAtSecondary, OnPrimary, OnSecondary
<1>4. ASSUME NEW m \in RequestMessage, m.proc # p,
             s_key_states' = EffectOf(s_key_states, m)
      PROVE  KeepsUp(p)'
  <2>1. \A a \in AtP!Access :
          Registered(s_key_states, p, a) => Registered(s_key_states', p, a)
    BY <1>2, <1>4, RegisteredStays
  <2>2. \A k \in KeyId :
          NoneIn(Queue(s_key_states, k), p)
            => NoneIn(Queue(s_key_states', k), p)
    BY <1>2, <1>4, NoneQueuedStays
  <2> QED
    BY <1>1, <2>1, <2>2 DEF KeepsUp
<1>5. CASE s_key_states' = s_key_states
  BY <1>1, <1>5 DEF KeepsUp
<1>6. s_token_stream_map \subseteq ProcId
  BY DEF Typed, SecondaryTyped, ServerTyped
<1>7. \/ s_key_states' = s_key_states
      \/ \E t \in ProcId, m \in RequestMessage :
           /\ s_to_server[t] # <<>> /\ m = Head(s_to_server[t])
           /\ s_key_states' = EffectOf(s_key_states, m)
  <2>1. ASSUME NEW t \in s_token_stream_map,
               Carries(t, s_key_states, s_access_granted,
                       s_to_server, s_to_client, s_closed,
                       s_key_states', s_access_granted',
                       s_to_server', s_to_client')
        PROVE  \E m \in RequestMessage :
                 /\ s_to_server[t] # <<>> /\ m = Head(s_to_server[t])
                 /\ s_key_states' = EffectOf(s_key_states, m)
    BY <2>1 DEF Carries, Goes
  <2> QED
    BY <1>6, <2>1, SecondaryPass DEF Drops, Hands, Leaves
<1> HIDE DEF p
<1> QED
  BY <1>1, <1>3, <1>4, <1>5, <1>7 DEF p

(* Equal maps are up with one another.                                     *)
LEMMA EqualKeepsUp ==
  ASSUME s_key_states' = p_key_states', NEW p
  PROVE  KeepsUp(p)'
BY DEF KeepsUp

(* A client that nothing is done to stays settled.                         *)
LEMMA SettledStays ==
  ASSUME NEW d \in ClientId, Settled(d),
         UNCHANGED <<p_key_states, p_access_granted, s_key_states,
                     s_access_granted, forwards, p_process>>,
         /\ call'[d] = call[d] /\ held'[d] = held[d]
         /\ proc_id'[d] = proc_id[d]
         /\ registry_stream'[d] = registry_stream[d],
         OnPrimary(d) =>
           /\ p_to_server'[proc_id[d]] = p_to_server[proc_id[d]]
           /\ p_to_client'[proc_id[d]] = p_to_client[proc_id[d]],
         OnSecondary(d) /\ Token(d) = proc_id[d] =>
           /\ s_to_server'[proc_id[d]] = s_to_server[proc_id[d]]
           /\ s_to_client'[proc_id[d]] = s_to_client[proc_id[d]]
  PROVE  Settled(d)'
<1>1. /\ Started(d)' <=> Started(d)
      /\ OnPrimary(d)' <=> OnPrimary(d)
      /\ OnSecondary(d)' <=> OnSecondary(d)
      /\ Token(d)' = Token(d)
      /\ Handed' <=> Handed
  BY DEF Started, OnPrimary, OnSecondary, Token, Handed
<1>2. OnPrimary(d) /\ AtPrimary(d) => AtPrimary(d)'
  BY DEF AtPrimary
<1>3. OnSecondary(d) /\ Token(d) = proc_id[d] /\ AtSecondary(d)
        => AtSecondary(d)'
  BY DEF AtSecondary
<1>4. KeepsUp(proc_id[d]) => KeepsUp(proc_id[d])'
  BY DEF KeepsUp
<1> QED
  BY <1>1, <1>2, <1>3, <1>4 DEF Settled

(* What a client does leaves the connections of the others alone.          *)
LEMMA ClientTouches ==
  ASSUME Typed, Ids, NEW c \in ClientId, ClientActs(c), ~ StartAtSecondary(c),
         NEW d \in ClientId, d # c
  PROVE  /\ OnPrimary(d) =>
              /\ p_to_server'[Token(d)] = p_to_server[Token(d)]
              /\ p_to_client'[Token(d)] = p_to_client[Token(d)]
         /\ OnSecondary(d) =>
              /\ s_to_server'[Token(d)] = s_to_server[Token(d)]
              /\ s_to_client'[Token(d)] = s_to_client[Token(d)]
<1>0. /\ p_to_server \in [ProcId -> Requests]
      /\ p_to_client \in [ProcId -> Answers]
      /\ s_to_server \in [ProcId -> Requests]
      /\ s_to_client \in [ProcId -> Answers]
      /\ OnPrimary(d) \/ OnSecondary(d) => Token(d) \in ProcId
  BY DEF Typed, StreamsTyped, OwnersTyped, OnPrimary, OnSecondary, Token,
         Connection
<1>1. /\ OnPrimary(c) /\ OnPrimary(d) => Token(c) # Token(d)
      /\ OnSecondary(c) /\ OnSecondary(d) => Token(c) # Token(d)
  BY DEF Ids, OnPrimary
<1>2. CASE UNCHANGED <<p_streams, s_streams>>
  BY <1>2 DEF p_streams, s_streams
<1>3. ASSUME \/ /\ OnPrimary(c) /\ UNCHANGED <<s_streams, p_to_client>>
                /\ \E x : p_to_server' =
                     [p_to_server EXCEPT ![Token(c)] = Append(@, x)]
             \/ /\ OnPrimary(c) /\ UNCHANGED <<s_streams, p_to_server>>
                /\ p_to_client' = [p_to_client EXCEPT ![Token(c)] = Tail(@)]
             \/ /\ OnSecondary(c) /\ UNCHANGED <<p_streams, s_to_client>>
                /\ \E x : s_to_server' =
                     [s_to_server EXCEPT ![Token(c)] = Append(@, x)]
             \/ /\ OnSecondary(c) /\ UNCHANGED <<p_streams, s_to_server>>
                /\ s_to_client' = [s_to_client EXCEPT ![Token(c)] = Tail(@)]
      PROVE  /\ OnPrimary(d) =>
                  /\ p_to_server'[Token(d)] = p_to_server[Token(d)]
                  /\ p_to_client'[Token(d)] = p_to_client[Token(d)]
             /\ OnSecondary(d) =>
                  /\ s_to_server'[Token(d)] = s_to_server[Token(d)]
                  /\ s_to_client'[Token(d)] = s_to_client[Token(d)]
  <2>1. CASE /\ OnPrimary(c) /\ UNCHANGED <<s_streams, p_to_client>>
             /\ \E x : p_to_server' =
                  [p_to_server EXCEPT ![Token(c)] = Append(@, x)]
    BY <1>0, <1>1, <2>1 DEF s_streams
  <2>2. CASE /\ OnPrimary(c) /\ UNCHANGED <<s_streams, p_to_server>>
             /\ p_to_client' = [p_to_client EXCEPT ![Token(c)] = Tail(@)]
    BY <1>0, <1>1, <2>2 DEF s_streams
  <2>3. CASE /\ OnSecondary(c) /\ UNCHANGED <<p_streams, s_to_client>>
             /\ \E x : s_to_server' =
                  [s_to_server EXCEPT ![Token(c)] = Append(@, x)]
    BY <1>0, <1>1, <2>3 DEF p_streams
  <2>4. CASE /\ OnSecondary(c) /\ UNCHANGED <<p_streams, s_to_server>>
             /\ s_to_client' = [s_to_client EXCEPT ![Token(c)] = Tail(@)]
    BY <1>0, <1>1, <2>4 DEF p_streams
  <2> QED
    BY <1>3, <2>1, <2>2, <2>3, <2>4
<1>4. ASSUME NEW t \in RequestType, NEW k \in KeyId, MakeCall(c, t, k)
      PROVE  \/ /\ OnPrimary(c) /\ UNCHANGED <<s_streams, p_to_client>>
                /\ \E x : p_to_server' =
                     [p_to_server EXCEPT ![Token(c)] = Append(@, x)]
             \/ /\ OnSecondary(c) /\ UNCHANGED <<p_streams, s_to_client>>
                /\ \E x : s_to_server' =
                     [s_to_server EXCEPT ![Token(c)] = Append(@, x)]
  BY <1>4
  DEF MakeCall, AtP!BeginCall, AtS!BeginCall, AtP!SendRequest, AtS!SendRequest
<1>5. ASSUME Stop(c)
      PROVE  \/ /\ OnPrimary(c) /\ UNCHANGED <<s_streams, p_to_client>>
                /\ \E x : p_to_server' =
                     [p_to_server EXCEPT ![Token(c)] = Append(@, x)]
             \/ /\ OnSecondary(c) /\ UNCHANGED <<p_streams, s_to_client>>
                /\ \E x : s_to_server' =
                     [s_to_server EXCEPT ![Token(c)] = Append(@, x)]
  BY <1>5
  DEF Stop, AtP!SendStop, AtS!SendStop, AtP!SendRequest, AtS!SendRequest
<1>6. ASSUME ReadMessage(c)
      PROVE  \/ /\ OnPrimary(c) /\ UNCHANGED <<s_streams, p_to_server>>
                /\ p_to_client' = [p_to_client EXCEPT ![Token(c)] = Tail(@)]
             \/ /\ OnSecondary(c) /\ UNCHANGED <<p_streams, s_to_server>>
                /\ s_to_client' = [s_to_client EXCEPT ![Token(c)] = Tail(@)]
  BY <1>6
  DEF ReadMessage, AtP!CallGranted, AtP!CallWaits, AtP!CallReturns,
      AtP!Receive, AtS!CallGranted, AtS!CallWaits, AtS!CallReturns, AtS!Receive
<1>7. CASE SwitchToSecondary(c)
  <2> DEFINE id == NextId(s_issued)
  <2>1. /\ id \notin s_issued
        /\ s_to_server' = [s_to_server EXCEPT ![id] = <<ResentRequest(c)>>]
        /\ UNCHANGED s_to_client
    BY <1>7 DEF SwitchToSecondary, S!HandleConnection
  <2>2. \/ UNCHANGED p_streams
        \/ /\ OnPrimary(c) /\ UNCHANGED p_to_server
           /\ p_to_client' = [p_to_client EXCEPT ![Token(c)] = <<>>]
    BY <1>7 DEF SwitchToSecondary, AtP!Close
  <2> HIDE DEF id
  <2>3. OnSecondary(d) => Token(d) # id
    BY <2>1 DEF Ids
  <2> QED
    BY <1>0, <1>1, <2>1, <2>2, <2>3 DEF p_streams
<1>8. CASE StartAtPrimary(c) \/ GiveUp(c) \/ Spin(c)
  BY <1>2, <1>8 DEF StartAtPrimary, GiveUp, Spin
<1> QED
  BY <1>3, <1>4, <1>5, <1>6, <1>7, <1>8 DEF ClientActs

(* Neither server does anything while a client acts that has started.      *)
LEMMA ServersRest ==
  ASSUME Typed, NEW c \in ClientId, ClientActs(c), ~ StartAtSecondary(c),
         ~ StartAtPrimary(c)
  PROVE  UNCHANGED <<p_key_states, p_access_granted, s_key_states,
                     s_access_granted, forwards, p_process>>
<1>1. CASE SwitchToSecondary(c)
  <2>1. UNCHANGED primary /\ S!HandleConnection(NextId(s_issued))
        /\ NextId(s_issued) \in ProcId
    BY <1>1 DEF SwitchToSecondary
  <2>2. UNCHANGED <<s_key_states, s_access_granted, forwards>>
    BY <2>1, SecondaryConnects
  <2> QED
    BY <2>1, <2>2 DEF primary
<1>2. CASE UNCHANGED <<primary, secondary, forwards>>
  BY <1>2 DEF primary, secondary
<1> QED
  BY <1>1, <1>2 DEF ClientActs, MakeCall, ReadMessage, GiveUp, Spin, Stop

(* The others stay settled while it does.                                  *)
LEMMA OthersSettled ==
  ASSUME Typed, Ids, NEW c \in ClientId, ClientActs(c),
         ~ StartAtSecondary(c), ~ StartAtPrimary(c),
         NEW d \in ClientId, d # c, Settled(d)
  PROVE  Settled(d)'
<1>1. UNCHANGED <<p_key_states, p_access_granted, s_key_states,
                  s_access_granted, forwards, p_process>>
  BY ServersRest
<1>2. /\ call'[d] = call[d] /\ held'[d] = held[d]
      /\ proc_id'[d] = proc_id[d]
      /\ registry_stream'[d] = registry_stream[d]
  BY ClientFrame DEF OnlyItself
<1>3. OnPrimary(d) => Token(d) = proc_id[d]
  BY DEF Ids
<1>4. OnPrimary(d) =>
        /\ p_to_server'[proc_id[d]] = p_to_server[proc_id[d]]
        /\ p_to_client'[proc_id[d]] = p_to_client[proc_id[d]]
  BY <1>3, ClientTouches
<1>5. OnSecondary(d) /\ Token(d) = proc_id[d] =>
        /\ s_to_server'[proc_id[d]] = s_to_server[proc_id[d]]
        /\ s_to_client'[proc_id[d]] = s_to_client[proc_id[d]]
  BY ClientTouches
<1> QED
  BY <1>1, <1>2, <1>4, <1>5, SettledStays

(* A client starts with nothing, and so it is settled. If the primary      *)
(* cannot tell the secondary of it and ends, the maps are equal.           *)
LEMMA StartSettles ==
  ASSUME Inv, ~ diverged, Inv', ~ diverged', Unstarted, Ids, Fresh,
         NEW c \in ClientId, StartAtPrimary(c), NEW d \in ClientId,
         d # c /\ Started(d) => Settled(d)
  PROVE  Started(d)' => Settled(d)'
<1> DEFINE id == NextId(p_issued)
<1>0. Typed
  BY DEF Inv
<1>1. /\ ~ Started(c)
      /\ id \in ProcId /\ P!HandleConnection(id)
      /\ proc_id' = [proc_id EXCEPT ![c] = id]
      /\ registry_stream' = [registry_stream EXCEPT
                               ![c] = [server |-> "primary", token |-> id]]
      /\ UNCHANGED <<secondary, p_streams, s_streams, calls>>
  BY DEF StartAtPrimary
<1> HIDE DEF id
<1>2. /\ id \notin p_issued
      /\ UNCHANGED <<p_key_states, p_access_granted, s_key_states,
                     s_access_granted, p_to_server, p_to_client,
                     s_to_server, s_to_client, call, held>>
  BY <1>0, <1>1, PrimaryConnects
  DEF P!HandleConnection, secondary, p_streams, s_streams, calls
<1>3. Handed' => KeepsUp(proc_id[d])'
  BY EqualAtHandover, EqualKeepsUp
<1>4. CASE d = c
  <2>1. /\ proc_id'[c] = id
        /\ registry_stream'[c] = [server |-> "primary", token |-> id]
    BY <1>0, <1>1 DEF Typed, OwnersTyped
  <2>2. ~ OnSecondary(c)'
    BY <2>1 DEF OnSecondary
  <2>3. call'[c] = NoCall /\ held'[c] = {}
    BY <1>1, <1>2 DEF Unstarted
  <2>4. /\ p_to_server[id] = <<>> /\ p_to_client[id] = <<>>
        /\ Outside(p_key_states, p_access_granted, id)
    BY <1>1, <1>2 DEF Fresh
  <2>5. AtPrimary(c)'
    BY <1>2, <2>1, <2>3, <2>4 DEF AtPrimary, Stage, Idle, Outside, NoneQueued
  <2> QED
    BY <1>3, <1>4, <2>2, <2>5 DEF Settled
<1>5. CASE d # c
  <2>1. /\ proc_id'[d] = proc_id[d]
        /\ registry_stream'[d] = registry_stream[d]
    BY <1>0, <1>1, <1>5 DEF Typed, OwnersTyped
  <2>2. /\ Started(d)' <=> Started(d)
        /\ OnPrimary(d)' <=> OnPrimary(d)
        /\ OnSecondary(d)' <=> OnSecondary(d)
        /\ Token(d)' = Token(d)
    BY <2>1 DEF Started, OnPrimary, OnSecondary, Token
  <2>3. ~ Handed
    BY <1>0, PrimaryIsUp DEF Handed
  <2>4. AtPrimary(d) => AtPrimary(d)'
    BY <1>2, <2>1 DEF AtPrimary
  <2> QED
    BY <1>3, <1>5, <2>1, <2>2, <2>3, <2>4 DEF Settled
<1> QED
  BY <1>4, <1>5

(* A client that makes a call in between two goes on to be settled.        *)
LEMMA CallSettles ==
  ASSUME Typed, Ids, NEW c \in ClientId, NEW t \in RequestType,
         NEW k \in KeyId, MakeCall(c, t, k), Settled(c)
  PROVE  Settled(c)'
<1> DEFINE p == proc_id[c]
           d == [kind |-> "sync", type |-> t, key |-> k, awaits |-> NoKey]
           h2 == IF t = "Release" THEN {a \in held[c] : a.key # k} ELSE held[c]
<1>1. /\ Started(c) /\ call[c] = NoCall
      /\ call' = [call EXCEPT ![c] = d] /\ held' = [held EXCEPT ![c] = h2]
      /\ UNCHANGED <<p_key_states, p_access_granted, s_key_states,
                     s_access_granted, forwards, p_process,
                     registry_stream, proc_id>>
  BY DEF MakeCall, AtP!BeginCall, AtS!BeginCall, AtP!InCall, AtS!InCall,
         primary, secondary, owners
<1>2. RequestOf(p, d) = [proc |-> p, type |-> t, key |-> k]
  BY DEF RequestOf
<1>3. \/ /\ OnPrimary(c) /\ UNCHANGED p_to_client
         /\ p_to_server' = [p_to_server EXCEPT
                              ![Token(c)] = Append(@, RequestOf(p, d))]
      \/ /\ OnSecondary(c) /\ UNCHANGED s_to_client
         /\ s_to_server' = [s_to_server EXCEPT
                              ![Token(c)] = Append(@, RequestOf(p, d))]
  BY <1>2
  DEF MakeCall, AtP!BeginCall, AtS!BeginCall, AtP!SendRequest, AtS!SendRequest
<1>4. /\ d \in AtP!Call /\ d.kind = "sync" /\ d.awaits = NoKey
      /\ h2 \in SUBSET held[c]
      /\ d.type = "Release" => \A a \in h2 : a.key # d.key
  BY DEF AtP!Call, AtP!CallKind, RequestType, AccessType, AtP!RequestType,
         AtP!AccessType
<1>5. /\ p \in ProcId
      /\ p_to_server \in [ProcId -> Requests]
      /\ s_to_server \in [ProcId -> Requests]
      /\ call'[c] = d /\ held'[c] = h2
  BY <1>1 DEF Typed, OwnersTyped, Started, StreamsTyped, CallsTyped
<1> HIDE DEF d, h2
<1>6. /\ OnPrimary(c)' <=> OnPrimary(c)
      /\ OnSecondary(c)' <=> OnSecondary(c)
      /\ Token(c)' = Token(c) /\ proc_id'[c] = p
      /\ Handed' <=> Handed
      /\ ~ (OnPrimary(c) /\ OnSecondary(c))
  BY <1>1 DEF Started, OnPrimary, OnSecondary, Token, Handed
<1>7. CASE OnPrimary(c)
  <2>1. /\ Token(c) = p /\ AtPrimary(c)
        /\ Handed => KeepsUp(p)
    BY <1>7 DEF Ids, Settled
  <2>2. /\ p_to_server'[p] = Append(p_to_server[p], RequestOf(p, d))
        /\ p_to_client'[p] = p_to_client[p]
    BY <1>3, <1>5, <1>6, <1>7, <2>1
  <2>3. Stage(p, NoCall, held[c], p_key_states, p_access_granted,
              p_to_server[p], p_to_client[p])
    BY <1>1, <2>1 DEF AtPrimary
  <2>4. Stage(p, d, h2, p_key_states, p_access_granted,
              Append(p_to_server[p], RequestOf(p, d)), p_to_client[p])
    BY <1>4, <2>3, StageBegins
  <2>5. AtPrimary(c)'
    BY <1>1, <1>5, <1>6, <2>2, <2>4 DEF AtPrimary
  <2>6. KeepsUp(p) => KeepsUp(proc_id[c])'
    BY <1>1 DEF KeepsUp
  <2> QED
    BY <1>6, <1>7, <2>1, <2>5, <2>6 DEF Settled
<1>8. CASE OnSecondary(c) /\ Token(c) = p
  <2>1. Handed /\ AtSecondary(c)
    BY <1>8 DEF Settled
  <2>2. /\ s_to_server'[p] = Append(s_to_server[p], RequestOf(p, d))
        /\ s_to_client'[p] = s_to_client[p]
    BY <1>3, <1>5, <1>6, <1>8
  <2>3. Stage(p, NoCall, held[c], s_key_states, s_access_granted,
              s_to_server[p], s_to_client[p])
    BY <1>1, <2>1 DEF AtSecondary
  <2>4. Stage(p, d, h2, s_key_states, s_access_granted,
              Append(s_to_server[p], RequestOf(p, d)), s_to_client[p])
    BY <1>4, <2>3, StageBegins
  <2>5. AtSecondary(c)'
    BY <1>1, <1>5, <1>6, <2>2, <2>4 DEF AtSecondary
  <2> QED
    BY <1>6, <1>8, <2>1, <2>5 DEF Settled
<1> QED
  BY <1>6, <1>7, <1>8 DEF Settled

(* What a read makes of the call d of a client that holds h.               *)
Reads(d, h, tc, d2, h2) ==
  LET m == Head(tc)
  IN  /\ d # NoCall /\ tc # <<>>
      /\ \/ /\ MayGrant(d, m) /\ d2 = NoCall
            /\ h2 = h \cup {[key |-> IF d.kind = "await" THEN m.key ELSE d.key,
                             type |-> d.type]}
         \/ /\ d.type \in AccessType /\ d.awaits = NoKey /\ m.type = "Wait"
            /\ d2 = [d EXCEPT !.awaits = m.key] /\ h2 = h
         \/ /\ d.type \in AccessType => d.awaits # NoKey \/ m.type # "Wait"
            /\ d2 = NoCall /\ h2 = h

(* It takes a client from one stage to the next.                           *)
LEMMA StageRead ==
  ASSUME NEW p, NEW d, NEW h, NEW ks, NEW ag, NEW ts, NEW tc,
         StageTyped(p, d, h, ks, ag, tc), Stage(p, d, h, ks, ag, ts, tc),
         NEW d2, NEW h2, Reads(d, h, tc, d2, h2)
  PROVE  Stage(p, d2, h2, ks, ag, ts, Tail(tc))
<1> DEFINE m == Head(tc)
<1>1. d # NoCall /\ tc # <<>>
  BY DEF Reads
<1>2. d.kind # "await"
  BY <1>1 DEF Stage, Idle, Sent, Answered, Told, Calling
<1>3. /\ MayGrant(d, m) =>
           Stage(p, NoCall, h \cup {Wanted(d)}, ks, ag, ts, Tail(tc))
      /\ d.awaits = NoKey /\ m.type = "Wait" /\ d.type \in AccessType =>
           Stage(p, [d EXCEPT !.awaits = m.key], h, ks, ag, ts, Tail(tc))
      /\ (d.type \in AccessType => d.awaits # NoKey \/ m.type # "Wait")
           => Stage(p, NoCall, h, ks, ag, ts, Tail(tc))
  BY <1>1, StageReads
<1> HIDE DEF m
<1>4. \/ MayGrant(d, m) /\ d2 = NoCall /\ h2 = h \cup {Wanted(d)}
      \/ /\ d.type \in AccessType /\ d.awaits = NoKey /\ m.type = "Wait"
         /\ d2 = [d EXCEPT !.awaits = m.key] /\ h2 = h
      \/ /\ d.type \in AccessType => d.awaits # NoKey \/ m.type # "Wait"
         /\ d2 = NoCall /\ h2 = h
  BY <1>2 DEF Reads, Wanted, m
<1> QED
  BY <1>3, <1>4

(* A client reads so from the primary ...                                   *)
LEMMA PrimaryRead ==
  ASSUME Typed, NEW c \in ClientId, NEW t \in ProcId,
         \/ AtP!CallGranted(c, t) \/ AtP!CallWaits(c, t)
         \/ AtP!CallReturns(c, t)
  PROVE  /\ Reads(call[c], held[c], p_to_client[t], call'[c], held'[c])
         /\ p_to_client'[t] = Tail(p_to_client[t]) /\ UNCHANGED p_to_server
<1>0. /\ call \in [ClientId -> AtP!Call \cup {NoCall}]
      /\ held \in [ClientId -> SUBSET AtP!Access]
      /\ p_to_client \in [ProcId -> Answers]
  BY DEF Typed, CallsTyped, StreamsTyped
<1> DEFINE m == Head(p_to_client[t])
<1>1. /\ call[c] # NoCall /\ p_to_client[t] # <<>>
      /\ p_to_client' = [p_to_client EXCEPT ![t] = Tail(@)]
      /\ UNCHANGED p_to_server
  BY DEF AtP!CallGranted, AtP!CallWaits, AtP!CallReturns, AtP!InCall,
         AtP!Receive
<1>2. CASE AtP!CallGranted(c, t)
  <2>1. MayGrant(call[c], m)
    BY <1>2
    DEF AtP!CallGranted, AtP!ReadsAccess, AtP!Grants, AtP!Front, MayGrant,
        AtP!AccessType, AccessType
  <2>2. /\ call' = [call EXCEPT ![c] = NoCall]
        /\ held' = [held EXCEPT ![c] = @ \cup
             {[key |-> IF call[c].kind = "await" THEN m.key ELSE call[c].key,
               type |-> call[c].type]}]
    BY <1>2 DEF AtP!CallGranted, AtP!Return, AtP!Acquire, AtP!Front
  <2> QED
    BY <1>0, <1>1, <2>1, <2>2 DEF Reads
<1>3. CASE AtP!CallWaits(c, t)
  <2>1. /\ call[c].type \in AccessType /\ call[c].awaits = NoKey
        /\ m.type = "Wait"
        /\ call' = [call EXCEPT ![c].awaits = m.key] /\ held' = held
    BY <1>3
    DEF AtP!CallWaits, AtP!ReadsAccess, AtP!Front, AtP!AccessType, AccessType
  <2> QED
    BY <1>0, <1>1, <2>1 DEF Reads
<1>4. CASE AtP!CallReturns(c, t)
  <2>1. /\ call[c].type \in AccessType =>
             call[c].awaits # NoKey \/ m.type # "Wait"
        /\ call' = [call EXCEPT ![c] = NoCall] /\ held' = held
    BY <1>4
    DEF AtP!CallReturns, AtP!Front, AtP!Return, AtP!AccessType, AccessType
  <2> QED
    BY <1>0, <1>1, <2>1 DEF Reads
<1> QED
  BY <1>0, <1>1, <1>2, <1>3, <1>4

(* ... or from the secondary.                                              *)
LEMMA SecondaryRead ==
  ASSUME Typed, NEW c \in ClientId, NEW t \in ProcId,
         \/ AtS!CallGranted(c, t) \/ AtS!CallWaits(c, t)
         \/ AtS!CallReturns(c, t)
  PROVE  /\ Reads(call[c], held[c], s_to_client[t], call'[c], held'[c])
         /\ s_to_client'[t] = Tail(s_to_client[t]) /\ UNCHANGED s_to_server
<1>0. /\ call \in [ClientId -> AtP!Call \cup {NoCall}]
      /\ held \in [ClientId -> SUBSET AtP!Access]
      /\ s_to_client \in [ProcId -> Answers]
  BY DEF Typed, CallsTyped, StreamsTyped
<1> DEFINE m == Head(s_to_client[t])
<1>1. /\ call[c] # NoCall /\ s_to_client[t] # <<>>
      /\ s_to_client' = [s_to_client EXCEPT ![t] = Tail(@)]
      /\ UNCHANGED s_to_server
  BY DEF AtS!CallGranted, AtS!CallWaits, AtS!CallReturns, AtS!InCall,
         AtS!Receive
<1>2. CASE AtS!CallGranted(c, t)
  <2>1. MayGrant(call[c], m)
    BY <1>2
    DEF AtS!CallGranted, AtS!ReadsAccess, AtS!Grants, AtS!Front, MayGrant,
        AtS!AccessType, AccessType
  <2>2. /\ call' = [call EXCEPT ![c] = NoCall]
        /\ held' = [held EXCEPT ![c] = @ \cup
             {[key |-> IF call[c].kind = "await" THEN m.key ELSE call[c].key,
               type |-> call[c].type]}]
    BY <1>2 DEF AtS!CallGranted, AtS!Return, AtS!Acquire, AtS!Front
  <2> QED
    BY <1>0, <1>1, <2>1, <2>2 DEF Reads
<1>3. CASE AtS!CallWaits(c, t)
  <2>1. /\ call[c].type \in AccessType /\ call[c].awaits = NoKey
        /\ m.type = "Wait"
        /\ call' = [call EXCEPT ![c].awaits = m.key] /\ held' = held
    BY <1>3
    DEF AtS!CallWaits, AtS!ReadsAccess, AtS!Front, AtS!AccessType, AccessType
  <2> QED
    BY <1>0, <1>1, <2>1 DEF Reads
<1>4. CASE AtS!CallReturns(c, t)
  <2>1. /\ call[c].type \in AccessType =>
             call[c].awaits # NoKey \/ m.type # "Wait"
        /\ call' = [call EXCEPT ![c] = NoCall] /\ held' = held
    BY <1>4
    DEF AtS!CallReturns, AtS!Front, AtS!Return, AtS!AccessType, AccessType
  <2> QED
    BY <1>0, <1>1, <2>1 DEF Reads
<1> QED
  BY <1>0, <1>1, <1>2, <1>3, <1>4

(* A client that reads stays settled.                                      *)
LEMMA ReadSettles ==
  ASSUME Typed, EntriesInv(p_key_states), EntriesInv(s_key_states), Ids,
         NEW c \in ClientId, ReadMessage(c), Settled(c)
  PROVE  Settled(c)'
<1> DEFINE p == proc_id[c]
<1>1. /\ Started(c)
      /\ UNCHANGED <<p_key_states, p_access_granted, s_key_states,
                     s_access_granted, forwards, p_process,
                     registry_stream, proc_id>>
  BY DEF ReadMessage, primary, secondary, owners
<1>2. \/ /\ OnPrimary(c)
         /\ \/ AtP!CallGranted(c, Token(c)) \/ AtP!CallWaits(c, Token(c))
            \/ AtP!CallReturns(c, Token(c))
      \/ /\ OnSecondary(c)
         /\ \/ AtS!CallGranted(c, Token(c)) \/ AtS!CallWaits(c, Token(c))
            \/ AtS!CallReturns(c, Token(c))
  BY DEF ReadMessage
<1>3. /\ p \in ProcId
      /\ StageTyped(p, call[c], held[c], p_key_states, p_access_granted,
                    p_to_client[p])
      /\ StageTyped(p, call[c], held[c], s_key_states, s_access_granted,
                    s_to_client[p])
  BY <1>1
  DEF Typed, OwnersTyped, Started, StreamsTyped, CallsTyped, PrimaryTyped,
      SecondaryTyped, ServerTyped, StageTyped, MapOK
<1>4. /\ OnPrimary(c)' <=> OnPrimary(c)
      /\ OnSecondary(c)' <=> OnSecondary(c)
      /\ Token(c)' = Token(c) /\ proc_id'[c] = p
      /\ Handed' <=> Handed
      /\ ~ (OnPrimary(c) /\ OnSecondary(c))
  BY <1>1 DEF Started, OnPrimary, OnSecondary, Token, Handed
<1>5. CASE OnPrimary(c)
  <2>1. /\ Token(c) = p /\ AtPrimary(c)
        /\ Handed => KeepsUp(p)
    BY <1>5 DEF Ids, Settled
  <2>2. /\ Reads(call[c], held[c], p_to_client[p], call'[c], held'[c])
        /\ p_to_client'[p] = Tail(p_to_client[p]) /\ UNCHANGED p_to_server
    BY <1>2, <1>3, <1>4, <1>5, <2>1, PrimaryRead
  <2>3. Stage(p, call[c], held[c], p_key_states, p_access_granted,
              p_to_server[p], p_to_client[p])
    BY <2>1 DEF AtPrimary
  <2>4. Stage(p, call'[c], held'[c], p_key_states, p_access_granted,
              p_to_server[p], Tail(p_to_client[p]))
    BY <1>3, <2>2, <2>3, StageRead
  <2>5. AtPrimary(c)'
    BY <1>1, <1>4, <2>2, <2>4 DEF AtPrimary
  <2>6. KeepsUp(p) => KeepsUp(proc_id[c])'
    BY <1>1 DEF KeepsUp
  <2> QED
    BY <1>4, <1>5, <2>1, <2>5, <2>6 DEF Settled
<1>6. CASE OnSecondary(c) /\ Token(c) = p
  <2>1. Handed /\ AtSecondary(c)
    BY <1>6 DEF Settled
  <2>2. /\ Reads(call[c], held[c], s_to_client[p], call'[c], held'[c])
        /\ s_to_client'[p] = Tail(s_to_client[p]) /\ UNCHANGED s_to_server
    BY <1>2, <1>3, <1>4, <1>6, SecondaryRead
  <2>3. Stage(p, call[c], held[c], s_key_states, s_access_granted,
              s_to_server[p], s_to_client[p])
    BY <2>1 DEF AtSecondary
  <2>4. Stage(p, call'[c], held'[c], s_key_states, s_access_granted,
              s_to_server[p], Tail(s_to_client[p]))
    BY <1>3, <2>2, <2>3, StageRead
  <2>5. AtSecondary(c)'
    BY <1>1, <1>4, <2>2, <2>4 DEF AtSecondary
  <2> QED
    BY <1>4, <1>6, <2>1, <2>5 DEF Settled
<1> QED
  BY <1>4, <1>5, <1>6 DEF Settled

(* So does one that switches, if it comes when the secondary has dealt     *)
(* with all the primary had to say: it is peeking for the answer to a      *)
(* request the primary has not read.                                       *)
LEMMA SwitchSettles ==
  ASSUME Typed, Ids, Fresh, NEW c \in ClientId, SwitchToSecondary(c),
         c \notin abandoned', c \notin surplus', Settled(c)
  PROVE  Settled(c)'
<1> DEFINE p == proc_id[c]
           d == call[c]
           e == [d EXCEPT !.kind = "resent"]
           id == NextId(s_issued)
<1>1. /\ AtP!InCall(c) /\ NothingToRead(c) /\ AtP!Peeking(c)
      /\ id \in ProcId /\ S!HandleConnection(id)
      /\ s_to_server' = [s_to_server EXCEPT ![id] = <<ResentRequest(c)>>]
      /\ UNCHANGED s_to_client
      /\ call' = [call EXCEPT ![c].kind = "resent"]
      /\ registry_stream' = [registry_stream EXCEPT
                               ![c] = [server |-> "secondary", token |-> id]]
      /\ UNCHANGED <<primary, forwards, held, proc_id>>
  BY DEF SwitchToSecondary, Fails, MaySwitch
<1>2. OnPrimary(c) /\ p_process = "ended" /\ CaughtUp
  BY DEF SwitchToSecondary
<1> HIDE DEF id
<1>3. /\ id \notin s_issued /\ UNCHANGED <<s_key_states, s_access_granted>>
  BY <1>1, SecondaryConnects
<1>4. UNCHANGED <<p_key_states, p_process>>
  BY <1>1 DEF primary
<1>5. /\ Token(c) = p /\ AtPrimary(c) /\ Handed /\ KeepsUp(p)
      /\ p_to_client[p] = <<>> /\ s_access_granted = <<>>
  BY <1>1, <1>2 DEF Ids, Settled, Handed, CaughtUp, NothingToRead
<1>6. /\ d # NoCall /\ d \in AtP!Call /\ d.awaits = NoKey
      /\ e.awaits = NoKey /\ e.kind = "resent" /\ e.type = d.type
      /\ e.key = d.key /\ e \in AtP!Call
  BY <1>1 DEF AtP!InCall, AtP!Peeking, Typed, CallsTyped, AtP!Call,
              AtP!CallKind
<1>7. /\ call'[c] = e /\ held'[c] = held[c] /\ proc_id'[c] = p
      /\ ~ OnPrimary(c)' /\ Token(c)' = id
  BY <1>1 DEF Typed, CallsTyped, OwnersTyped, OnPrimary, Token
<1>8. /\ s_to_server'[id] = <<ResentRequest(c)>>
      /\ s_to_client'[id] = <<>>
      /\ RequestOf(p, e) = ResentRequest(c)
  BY <1>1, <1>3, <1>6
  DEF Typed, StreamsTyped, Fresh, RequestOf, ResentRequest
<1>9. /\ \A a \in held[c] : Registered(p_key_states, p, a)
      /\ Sent(p, d, held[c], p_key_states, p_access_granted, p_to_server[p],
              p_to_client[p])
  <2>1. Stage(p, d, held[c], p_key_states, p_access_granted, p_to_server[p],
              p_to_client[p])
    BY <1>5 DEF AtPrimary
  <2>2. Len(p_to_client[p]) = 0
    BY <1>5
  <2> HIDE DEF p, d
  <2> QED
    BY <1>6, <2>1, <2>2 DEF Stage, Idle, Answered, Told
<1>10. e # NoCall
  BY <1>6, NoCallAssumption
<1> HIDE DEF p, d, e
<1>11. \A a \in held[c] : Registered(s_key_states, p, a)
  BY <1>5, <1>9 DEF KeepsUp, Typed, CallsTyped
<1>12. Outside(s_key_states, <<>>, p)
  <2>1. NoneIn(<<>>, p)
    BY DEF NoneIn
  <2> QED
    BY <1>5, <1>9, <2>1 DEF KeepsUp, Sent, Outside, NoneQueued
<1>13. Sent(p, e, held[c], s_key_states, <<>>, <<ResentRequest(c)>>, <<>>)
  BY <1>6, <1>8, <1>9, <1>10, <1>12 DEF Sent, Calling
<1>14. Stage(p, e, held[c], s_key_states, <<>>, <<ResentRequest(c)>>, <<>>)
  BY <1>11, <1>13 DEF Stage
<1>15. id = p => AtSecondary(c)'
  BY <1>3, <1>5, <1>7, <1>8, <1>14 DEF AtSecondary
<1>16. Handed'
  BY <1>1, <1>4, <1>5 DEF Handed
<1> QED
  BY <1>7, <1>15, <1>16 DEF Settled

(* A client caught in the loop of receive_message stays as it is.          *)
LEMMA SpinSettles ==
  ASSUME NEW c \in ClientId, Spin(c), Settled(c)
  PROVE  Settled(c)'
<1>1. UNCHANGED <<primary, secondary, forwards, p_streams, s_streams, calls,
                  registry_stream, proc_id>>
  BY DEF Spin
<1> QED
  BY <1>1, SettledStays DEF primary, secondary, p_streams, s_streams, calls

(* The clients stay settled while the primary runs: those that are with it *)
(* by what it does, and if it ends now the maps are equal. No client has   *)
(* switched that has waited for it to end.                                 *)
LEMMA PrimaryRunsSettles ==
  ASSUME Inv, ~ diverged, Inv', ~ diverged', EntriesInv(p_key_states),
         Ids, Named, PrimaryRuns, NEW c \in ClientId, Settled(c)
  PROVE  Settled(c)'
<1>1. Typed
  BY DEF Inv
<1>2. ~ Handed
  BY <1>1, PrimaryIsUp DEF Handed
<1>3. ~ (OnSecondary(c) /\ Token(c) = proc_id[c])
  BY <1>2 DEF Settled
<1>4. UNCHANGED <<registry_stream, proc_id>>
  BY PrimaryRunsFrame
<1>5. /\ OnPrimary(c)' <=> OnPrimary(c)
      /\ OnSecondary(c)' <=> OnSecondary(c)
      /\ Token(c)' = Token(c) /\ proc_id'[c] = proc_id[c]
  BY <1>4 DEF Started, OnPrimary, OnSecondary, Token
<1>6. OnPrimary(c) => AtPrimary(c)'
  BY <1>1, PrimaryKeepsStage DEF Settled
<1>7. Handed' => KeepsUp(proc_id[c])'
  <2>1. Handed' => s_key_states' = p_key_states'
    BY EqualAtHandover
  <2> QED
    BY <2>1 DEF KeepsUp
<1> QED
  BY <1>3, <1>5, <1>6, <1>7 DEF Settled

(* So they do while the secondary reads what the primary has said: with    *)
(* the last message the maps are equal.                                    *)
LEMMA MirrorSettles ==
  ASSUME Inv, ~ diverged, Inv', ~ diverged', MirrorPrimary,
         NEW c \in ClientId, Settled(c)
  PROVE  Settled(c)'
<1>1. Typed
  BY DEF Inv
<1>2. forwards # <<>>
  <2>1. CASE S!HandleForwarded
    BY <1>1, <2>1, SecondaryForwarded
  <2>2. CASE S!HandleForwardedCoalesced
    <3>1. PICK n \in 2 .. Len(forwards) : TRUE
      BY <2>2 DEF S!HandleForwardedCoalesced
    <3>2. Len(forwards) # 0
      BY <1>1, <3>1, LenProperties DEF Typed, LinkTyped
    <3> QED
      BY <3>2
  <2> QED
    BY <2>1, <2>2 DEF MirrorPrimary
<1>3. ~ (OnSecondary(c) /\ Token(c) = proc_id[c])
  BY <1>2 DEF Settled, Handed
<1>4. UNCHANGED <<p_key_states, p_access_granted, p_to_server, p_to_client,
                  call, held, registry_stream, proc_id>>
  BY MirrorFrame
<1>5. /\ OnPrimary(c)' <=> OnPrimary(c)
      /\ OnSecondary(c)' <=> OnSecondary(c)
      /\ Token(c)' = Token(c) /\ proc_id'[c] = proc_id[c]
  BY <1>4 DEF Started, OnPrimary, OnSecondary, Token
<1>6. OnPrimary(c) => AtPrimary(c)'
  BY <1>4 DEF AtPrimary, Settled
<1>7. Handed' => KeepsUp(proc_id[c])'
  <2>1. Handed' => s_key_states' = p_key_states'
    BY EqualAtHandover
  <2> QED
    BY <2>1 DEF KeepsUp
<1> QED
  BY <1>3, <1>5, <1>6, <1>7 DEF Settled

(* And when a server ends by a lost connection: if it is the primary, and  *)
(* there is nothing to read, the maps are equal.                           *)
LEMMA LostSettles ==
  ASSUME Inv, ~ diverged, Inv', ~ diverged', LoseConnection,
         NEW c \in ClientId, Settled(c)
  PROVE  Settled(c)'
<1>1. /\ UNCHANGED <<p_key_states, p_access_granted, s_key_states,
                     s_access_granted, forwards, p_to_server, p_to_client,
                     s_to_server, s_to_client, call, held, registry_stream,
                     proc_id>>
      /\ UNCHANGED p_process
           \/ (p_process = "running" /\ p_process' = "ended")
  BY LostFrame
<1>2. CASE UNCHANGED p_process
  BY <1>1, <1>2, SettledStays
<1>3. CASE p_process = "running" /\ p_process' = "ended"
  <2>1. ~ Handed /\ (Handed' => s_key_states' = p_key_states')
    BY <1>3, EqualAtHandover DEF Handed
  <2>2. ~ (OnSecondary(c) /\ Token(c) = proc_id[c])
    BY <2>1 DEF Settled
  <2>3. /\ OnPrimary(c)' <=> OnPrimary(c)
        /\ OnSecondary(c)' <=> OnSecondary(c)
        /\ Token(c)' = Token(c) /\ proc_id'[c] = proc_id[c]
    BY <1>1 DEF Started, OnPrimary, OnSecondary, Token
  <2>4. OnPrimary(c) => AtPrimary(c)'
    BY <1>1 DEF AtPrimary, Settled
  <2>5. Handed' => KeepsUp(proc_id[c])'
    BY <2>1 DEF KeepsUp
  <2> QED
    BY <2>2, <2>3, <2>4, <2>5 DEF Settled
<1> QED
  BY <1>1, <1>2, <1>3

(* And while the secondary runs: those that have come by what it does, the *)
(* others because it does it for those that have come.                     *)
LEMMA SecondaryRunsSettles ==
  ASSUME Typed, EntriesInv(s_key_states), Ids, Named, SecondaryRuns,
         NEW c \in ClientId, c \notin abandoned, c \notin surplus', Settled(c)
  PROVE  Settled(c)'
<1>1. UNCHANGED <<p_key_states, p_access_granted, p_to_server, p_to_client,
                  p_process, call, held, registry_stream, proc_id>>
  BY SecondaryRunsFrame
<1>2. UNCHANGED forwards
  BY SecondaryServes
<1>3. /\ OnPrimary(c)' <=> OnPrimary(c)
      /\ OnSecondary(c)' <=> OnSecondary(c)
      /\ Token(c)' = Token(c) /\ proc_id'[c] = proc_id[c]
      /\ Handed' <=> Handed
  BY <1>1, <1>2 DEF Started, OnPrimary, OnSecondary, Token, Handed
<1>4. OnPrimary(c) => AtPrimary(c)'
  BY <1>1 DEF AtPrimary, Settled
<1>5. OnPrimary(c) /\ Handed => KeepsUp(proc_id[c])'
  BY SecondaryKeepsUp DEF Settled
<1>6. OnSecondary(c) /\ Token(c) = proc_id[c] => Handed /\ AtSecondary(c)'
  BY SecondaryKeepsStage DEF Settled
<1> QED
  BY <1>3, <1>4, <1>5, <1>6 DEF Settled

(* What has disturbed a client is not forgotten.                           *)
LEMMA ClientHistory ==
  ASSUME NEW c \in ClientId, ClientActs(c)
  PROVE  /\ abandoned \subseteq abandoned' /\ surplus \subseteq surplus'
         /\ diverged' = diverged
<1>1. CASE StartAtPrimary(c)
  BY <1>1 DEF StartAtPrimary
<1>2. CASE StartAtSecondary(c) \/ Spin(c) \/ ReadMessage(c)
  <2>1. UNCHANGED history
    BY <1>2 DEF StartAtSecondary, ReadMessage, Spin
  <2> QED
    BY <2>1 DEF history
<1>3. ASSUME NEW t \in RequestType, NEW k \in KeyId, MakeCall(c, t, k)
      PROVE  UNCHANGED history
  BY <1>3 DEF MakeCall
<1>4. CASE SwitchToSecondary(c)
  <2>1. /\ abandoned' \in {abandoned, abandoned \cup {c}}
        /\ surplus' \in {surplus, surplus \cup {c}}
        /\ diverged' = diverged
    BY <1>4 DEF SwitchToSecondary
  <2> QED
    BY <2>1
<1>5. CASE GiveUp(c)
  BY <1>5 DEF GiveUp
<1>6. CASE Stop(c)
  BY <1>6 DEF Stop
<1> QED
  BY <1>1, <1>2, <1>3, <1>4, <1>5, <1>6 DEF ClientActs, history

(* Only one that has started does anything else than start.                *)
LEMMA StartedBefore ==
  ASSUME Unstarted, NEW c \in ClientId, ClientActs(c),
         ~ StartAtPrimary(c), ~ StartAtSecondary(c)
  PROVE  Started(c)
<1>1. ASSUME NEW t \in RequestType, NEW k \in KeyId, MakeCall(c, t, k)
      PROVE  Started(c)
  BY <1>1 DEF MakeCall
<1>2. AtP!InCall(c) => Started(c)
  BY DEF AtP!InCall, Unstarted
<1> QED
  BY <1>1, <1>2
  DEF ClientActs, ReadMessage, SwitchToSecondary, GiveUp, Fails, Spin, Stop

(* A change that was kept from the other server stays so.                  *)
LEMMA DivergedStays ==
  ASSUME Next, ~ diverged'
  PROVE  ~ diverged
<1>1. PrimaryRuns => ~ diverged
  BY DEF PrimaryRuns
<1>2. MirrorPrimary => ~ diverged
  BY DEF MirrorPrimary
<1> QED
  BY <1>1, <1>2, SecondaryRunsFrame, LostFrame, ClientHistory, NextIs

(* Whoever acts, the undisturbed clients are settled.                      *)
LEMMA AllSettled ==
  ASSUME Inv, ~ diverged, Inv', ~ diverged',
         EntriesInv(p_key_states), EntriesInv(s_key_states), Unstarted,
         Ids, Named, Fresh, Next, \A c \in ClientId : ~ StartAtSecondary(c),
         \A c \in ClientId : Undisturbed(c) => Settled(c)
  PROVE  \A c \in ClientId : Undisturbed(c)' => Settled(c)'
<1>0. Typed
  BY DEF Inv
<1>1. CASE PrimaryRuns
  <2>1. \A c \in ClientId : Undisturbed(c)' => Undisturbed(c)
    BY <1>1, PrimaryRunsFrame DEF Undisturbed, Started
  <2> QED
    BY <1>1, <2>1, PrimaryRunsSettles
<1>2. CASE MirrorPrimary
  <2>1. \A c \in ClientId : Undisturbed(c)' => Undisturbed(c)
    BY <1>2, MirrorFrame DEF Undisturbed, Started
  <2> QED
    BY <1>2, <2>1, MirrorSettles
<1>3. CASE SecondaryRuns
  <2>1. \A c \in ClientId :
          Undisturbed(c)' =>
            Undisturbed(c) /\ c \notin abandoned /\ c \notin surplus'
    BY <1>3, SecondaryRunsFrame DEF Undisturbed, Started
  <2> QED
    BY <1>0, <1>3, <2>1, SecondaryRunsSettles
<1>4. ASSUME NEW c \in ClientId, ClientActs(c),
             NEW d \in ClientId, Undisturbed(d)'
      PROVE  Settled(d)'
  <2>1. Started(d) => Undisturbed(d)
    BY <1>4, ClientHistory DEF Undisturbed
  <2>2. CASE StartAtPrimary(c)
    <3>1. Started(d) => Settled(d)
      BY <2>1
    <3> QED
      BY <1>4, <2>2, <3>1, StartSettles DEF Undisturbed
  <2>3. ASSUME ~ StartAtPrimary(c), d # c
        PROVE  Settled(d)'
    <3>1. Started(d)
      BY <1>0, <1>4, <2>3, ClientFrame DEF OnlyItself, Undisturbed, Started
    <3> QED
      BY <1>0, <1>4, <2>1, <2>3, <3>1, OthersSettled
  <2>4. ASSUME ~ StartAtPrimary(c), d = c
        PROVE  Settled(d)'
    <3>0. Started(c)' /\ c \notin abandoned' /\ c \notin surplus'
      BY <1>4, <2>4 DEF Undisturbed
    <3>1. Started(c)
      BY <1>4, <2>4, StartedBefore
    <3>2. Settled(c)
      BY <2>1, <2>4, <3>1
    <3>3. ASSUME NEW t \in RequestType, NEW k \in KeyId, MakeCall(c, t, k)
          PROVE  Settled(c)'
      BY <1>0, <3>2, <3>3, CallSettles
    <3>4. ASSUME SwitchToSecondary(c)
          PROVE  Settled(c)'
      BY <1>0, <3>0, <3>2, <3>4, SwitchSettles
    <3>5. ~ GiveUp(c) /\ ~ Stop(c)
      BY <3>0 DEF GiveUp, Stop
    <3> QED
      BY <1>0, <1>4, <2>4, <3>2, <3>3, <3>4, <3>5, ReadSettles, SpinSettles
      DEF ClientActs
  <2> QED
    BY <2>2, <2>3, <2>4
<1>5. CASE LoseConnection
  <2>1. \A c \in ClientId : Undisturbed(c)' => Undisturbed(c)
    BY <1>5, LostFrame DEF Undisturbed, Started
  <2> QED
    BY <1>5, <2>1, LostSettles
<1> QED
  BY <1>1, <1>2, <1>3, <1>4, <1>5, NextIs

----------------------------------------------------------------------------
(* THE THEOREMS *)

(* In the beginning nobody has come and nothing is under way.              *)
LEMMA InitHInv == Init => HInv
<1> SUFFICES ASSUME Init PROVE HInv
  OBVIOUS
<1>1. Inv
  BY InitInv
<1>2. /\ p_key_states = [k \in KeyId |-> NoEntry]
      /\ s_key_states = [k \in KeyId |-> NoEntry]
      /\ p_access_granted = <<>>
  BY DEF Init, P!ServerInit, S!ServerInit, P!AM!Init, S!AM!Init
<1>3. /\ p_issued = {} /\ p_serving = NoProc
      /\ s_issued = {} /\ s_serving = NoProc
  BY DEF Init, P!ServerInit, S!ServerInit
<1>4. /\ p_to_server = [t \in ProcId |-> <<>>]
      /\ p_to_client = [t \in ProcId |-> <<>>]
      /\ s_to_server = [t \in ProcId |-> <<>>]
      /\ s_to_client = [t \in ProcId |-> <<>>]
      /\ p_closed = {} /\ s_closed = {}
  BY DEF Init, AtP!StreamsInit, AtS!StreamsInit
<1>5. /\ call = [c \in ClientId |-> NoCall]
      /\ held = [c \in ClientId |-> {}]
      /\ proc_id = [c \in ClientId |-> NoProc]
      /\ is_primary = [c \in ClientId |-> FALSE]
  BY DEF Init, AtP!ClientInit
<1>6. EntriesInv(p_key_states) /\ EntriesInv(s_key_states)
  BY <1>2 DEF EntriesInv
<1>7. \A c \in ClientId : ~ Started(c) /\ ~ OnPrimary(c) /\ ~ OnSecondary(c)
  BY <1>5 DEF Started, OnPrimary, OnSecondary
<1>8. Unstarted
  BY <1>5 DEF Unstarted
<1>9. Ids
  BY <1>3, <1>4, <1>7 DEF Ids
<1>10. Named
  <2>1. ASSUME NEW t \in ProcId
        PROVE  Len(p_to_server[t]) = 0 /\ Len(s_to_server[t]) = 0
    BY <1>4
  <2>2. ASSUME NEW t \in ProcId
        PROVE  1 .. Len(p_to_server[t]) = {} /\ 1 .. Len(s_to_server[t]) = {}
    BY <2>1
  <2> QED
    BY <2>2 DEF Named
<1>11. Fresh
  <2>1. \A t \in ProcId : Outside(p_key_states, p_access_granted, t)
    BY <1>2 DEF Outside, NoneQueued, Queue, NoneIn
  <2> QED
    BY <1>4, <2>1 DEF Fresh
<1>12. \A c \in ClientId : ~ Undisturbed(c)
  BY <1>7 DEF Undisturbed
<1> QED
  BY <1>1, <1>6, <1>8, <1>9, <1>10, <1>11, <1>12 DEF HInv

(* Nothing happens to the parts of HInv that Inv does not say.             *)
LEMMA RestKeepsHInv ==
  ASSUME HInv, Inv', UNCHANGED vars
  PROVE  HInv'
<1>0. /\ UNCHANGED <<p_key_states, p_access_granted, p_issued, p_serving,
                     p_process, s_key_states, s_access_granted, s_issued,
                     s_serving, forwards>>
      /\ UNCHANGED <<p_to_server, p_to_client, p_closed,
                     s_to_server, s_to_client, s_closed>>
      /\ UNCHANGED <<call, held, registry_stream, proc_id, is_primary>>
      /\ UNCHANGED <<diverged, abandoned, surplus>>
  BY DEF vars, primary, secondary, p_streams, s_streams, calls, owners,
         history
<1>1. /\ EntriesInv(p_key_states)' <=> EntriesInv(p_key_states)
      /\ EntriesInv(s_key_states)' <=> EntriesInv(s_key_states)
  BY <1>0 DEF EntriesInv
<1>2. Unstarted => Unstarted'
  BY <1>0 DEF Unstarted, Started
<1>3. AllPrimary' => AllPrimary
  BY <1>0 DEF AllPrimary, Started
<1>4. Ids => Ids'
  BY <1>0 DEF Ids, Started, OnPrimary, OnSecondary, Token
<1>5. Named => Named'
  BY <1>0
  DEF Named, NamedAtPrimary, NamedAtSecondary, Started, OnSecondary, Token
<1>6. Fresh => Fresh'
  BY <1>0 DEF Fresh, Outside, NoneQueued
<1>7. \A c \in ClientId : Undisturbed(c)' => Undisturbed(c)
  BY <1>0 DEF Undisturbed, Started
<1>8. \A c \in ClientId : Settled(c) => Settled(c)'
  BY <1>0, SettledStays
<1> QED
  BY <1>0, <1>1, <1>2, <1>3, <1>4, <1>5, <1>6, <1>7, <1>8 DEF HInv

(* Every step keeps what HInv says.                                        *)
LEMMA NextKeepsHInv == HInv /\ [Next]_vars => HInv'
<1> SUFFICES ASSUME HInv, [Next]_vars
             PROVE  HInv'
  OBVIOUS
<1>1. Inv /\ Inv' /\ Typed
  BY NextKeepsInv DEF HInv, Inv
<1>2. CASE UNCHANGED vars
  BY <1>1, <1>2, RestKeepsHInv
<1>3. CASE Next
  <2>1. EntriesInv(p_key_states) /\ EntriesInv(s_key_states) /\ Unstarted
    BY DEF HInv
  <2>2. EntriesInv(p_key_states)' /\ EntriesInv(s_key_states)'
    BY <1>1, <1>3, <2>1, EntriesKept
  <2>3. Unstarted'
    BY <1>1, <1>3, <2>1, UnstartedKept
  <2>4. ASSUME AllPrimary'
        PROVE  /\ Ids' /\ Named' /\ Fresh'
               /\ ~ diverged' =>
                    \A c \in ClientId : Undisturbed(c)' => Settled(c)'
    <3>1. AllPrimary /\ \A c \in ClientId : ~ StartAtSecondary(c)
      BY <1>1, <1>3, <2>1, <2>4, AllPrimaryBefore
    <3>2. Ids /\ Named /\ Fresh
      BY <3>1 DEF HInv
    <3>3. Ids' /\ Named' /\ Fresh'
      BY <1>1, <1>3, <2>1, <3>1, <3>2, NamesStay
    <3>4. ASSUME ~ diverged'
          PROVE  \A c \in ClientId : Undisturbed(c)' => Settled(c)'
      <4>1. ~ diverged
        BY <1>3, <3>4, DivergedStays
      <4>2. \A c \in ClientId : Undisturbed(c) => Settled(c)
        BY <3>1, <4>1 DEF HInv
      <4> QED
        BY <1>1, <1>3, <2>1, <3>1, <3>2, <3>4, <4>1, <4>2, AllSettled
    <3> QED
      BY <3>3, <3>4
  <2> QED
    BY <1>1, <2>2, <2>3, <2>4 DEF HInv
<1> QED
  BY <1>2, <1>3

(* A client goes through the stages of its calls with the server it is     *)
(* connected to, and as long as the primary has not ended, or has and the  *)
(* secondary has read all of it, that server has what the client has been  *)
(* told: it finds the secondary as it left the primary.                    *)
THEOREM HandoverInvariance == Spec => []HInv
<1>1. Init => HInv
  BY InitHInv
<1>2. HInv /\ [Next]_vars => HInv'
  BY NextKeepsHInv
<1> QED
  BY <1>1, <1>2, PTL DEF Spec

(* What a reliable client holds is registered at the primary until the     *)
(* secondary has read all of it, and then at the secondary.                *)
LEMMA HInvHolds ==
  ASSUME HInv, ~ diverged, AllPrimary, NEW c \in Reliable, NEW a \in held[c]
  PROVE  /\ Started(c) /\ a \in AtP!Access
         /\ Registered(IF Handed THEN s_key_states ELSE p_key_states,
                       proc_id[c], a)
<1>1. /\ c \in ClientId /\ c \notin abandoned /\ c \notin surplus
      /\ OnSecondary(c) => Token(c) = proc_id[c]
  BY DEF Reliable, KeepsId
<1>2. Started(c)
  BY <1>1 DEF HInv, Unstarted
<1>3. Settled(c)
  BY <1>1, <1>2 DEF HInv, Undisturbed
<1>4. Typed
  BY DEF HInv, Inv
<1>5. OnPrimary(c) \/ OnSecondary(c)
  BY <1>1, <1>2, <1>4
  DEF Typed, OwnersTyped, Started, OnPrimary, OnSecondary, Connection
<1>6. a \in AtP!Access
  BY <1>1, <1>4 DEF Typed, CallsTyped
<1>7. CASE OnPrimary(c)
  <2>1. AtPrimary(c) /\ (Handed => KeepsUp(proc_id[c]))
    BY <1>3, <1>7 DEF Settled
  <2>2. Registered(p_key_states, proc_id[c], a)
    BY <2>1 DEF AtPrimary, Stage
  <2> QED
    BY <1>2, <1>6, <2>1, <2>2 DEF KeepsUp
<1>8. CASE OnSecondary(c)
  <2>1. Handed /\ AtSecondary(c)
    BY <1>1, <1>3, <1>8 DEF Settled
  <2> QED
    BY <1>2, <1>6, <2>1 DEF AtSecondary, Stage
<1> QED
  BY <1>5, <1>7, <1>8

(* The exit of the primary takes no access away, as long as no change was  *)
(* kept from the secondary and nobody has started there: what a client has *)
(* been told of is registered at the secondary, if it has abandoned no     *)
(* request, nothing has come to it that it did not ask for and its id, if  *)
(* it has switched, is that of its new connection. Whether the other       *)
(* clients do so, or come in the order of their ids, does not matter.      *)
THEOREM HeldSurvives == Spec => []HeldSurvivesExit
<1>1. HInv => HeldSurvivesExit
  <2> SUFFICES ASSUME HInv, Succeeded, NEW c \in Reliable, NEW a \in held[c]
               PROVE  Registered(s_key_states, proc_id[c], a)
    BY DEF HeldSurvivesExit
  <2>1. Handed /\ AllPrimary /\ ~ diverged
    BY DEF Succeeded, Handed
  <2> QED
    BY <2>1, HInvHolds
<1> QED
  BY <1>1, HandoverInvariance, PTL

(* A map that is in order registers no two accesses under two ids that     *)
(* exclude one another.                                                    *)
LEMMA RegisteredExcludes ==
  ASSUME NEW ks, EntriesInv(ks), NEW p \in ProcId, NEW q \in ProcId, p # q,
         NEW a \in AtP!Access, NEW b \in AtP!Access, a.key = b.key,
         Registered(ks, p, a), Registered(ks, q, b)
  PROVE  a.type = "Read" /\ b.type = "Read"
<1>1. /\ a.type \in {"Read", "Write"} /\ b.type \in {"Read", "Write"}
      /\ a.key \in KeyId
  BY DEF AtP!Access, AtP!AccessType
<1>2. ks[a.key] # NoEntry /\ EntryInv(ks[a.key])
  BY <1>1 DEF Registered, EntriesInv
<1>3. ks[a.key].writer # NoProc => ks[a.key].readers = {}
  BY <1>2 DEF EntryInv
<1> QED
  BY <1>1, <1>3, NoProcAssumption DEF Registered

(* The lock excludes across the exit of the primary, whichever of the two  *)
(* servers each client is with, as long as no change was kept from the     *)
(* secondary (~ diverged) and nobody has started there (AllPrimary), among *)
(* the clients that have abandoned no request, to which nothing has come   *)
(* that they did not ask for, and whose id, if they have switched, is that *)
(* of their new connection (Reliable). Nothing is asked of the others.     *)
THEOREM ExclusionSurvives == Spec => []ExclusionAcrossExit
<1>1. HInv => ExclusionAcrossExit
  <2> SUFFICES ASSUME HInv, ~ diverged, AllPrimary,
                      NEW c \in Reliable, NEW d \in Reliable,
                      NEW a \in held[c], NEW b \in held[d],
                      c # d, a.key = b.key
               PROVE  a.type = "Read" /\ b.type = "Read"
    BY DEF ExclusionAcrossExit
  <2> DEFINE ks == IF Handed THEN s_key_states ELSE p_key_states
  <2>0. c \in ClientId /\ d \in ClientId
    BY DEF Reliable
  <2>1. /\ Started(c) /\ a \in AtP!Access /\ Registered(ks, proc_id[c], a)
        /\ Started(d) /\ b \in AtP!Access /\ Registered(ks, proc_id[d], b)
    BY HInvHolds
  <2>2. EntriesInv(ks)
    BY DEF HInv
  <2>3. proc_id[c] # proc_id[d]
    <3>1. Ids
      BY DEF HInv
    <3> QED
      BY <2>0, <2>1, <3>1 DEF Ids
  <2>4. proc_id[c] \in ProcId /\ proc_id[d] \in ProcId
    BY <2>0, <2>1 DEF HInv, Inv, Typed, OwnersTyped, Started
  <2> HIDE DEF ks
  <2> QED
    BY <2>1, <2>2, <2>3, <2>4, RegisteredExcludes
<1> QED
  BY <1>1, HandoverInvariance, PTL
============================================================================
