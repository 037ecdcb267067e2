--------------------------- MODULE FailoverProofs ---------------------------
(***************************************************************************)
(* Why the secondary is a copy of the primary. Of what a message does, the *)
(* manager chooses only which holder it names in the answer or wakes: its  *)
(* effect on key_states is a function of the map and of the message        *)
(* (EffectOf, Goes). So two servers that are given the same messages in    *)
(* the same order go through the same maps, whatever they answer.          *)
(*                                                                         *)
(* The inductive invariant says it of the stream between them: the         *)
(* secondary's map is the first image, every message forwarded leads from  *)
(* its image to the next, and the last image is the primary's map, but for *)
(* the one request it has carried out and not yet forwarded (Replicates).  *)
(* The types are proved with it: a primary that has ended is serving       *)
(* nothing (EndsBetweenRequests), or a copy could never be complete.       *)
(*                                                                         *)
(* The module first translates the operators of the two instances of the   *)
(* server into those of KeyStates and states what each step of a server    *)
(* does; then there is a lemma for each action of Failover.                *)
(***************************************************************************)
EXTENDS Failover, KeyStatesProofs

----------------------------------------------------------------------------
(* THE OPERATORS OF THE TWO MANAGERS *)

(* The primary's instance of the manager computes with the operators of    *)
(* KeyStates.                                                              *)
LEMMA PrimaryOperators ==
  /\ P!AM!Entry = Entry /\ P!AM!Grant = Grant
  /\ \A p : P!AM!NewKeyState(p) = NewKeyState(p)
  /\ \A ks : P!AM!Accessed(ks) = Accessed(ks)
  /\ \A ks : P!AM!ReadMustQueue(ks) = ReadMustQueue(ks)
  /\ \A ks, p : P!AM!Holds(ks, p) = Holds(ks, p)
  /\ \A ks : P!AM!HolderChoices(ks) = HolderChoices(ks)
  /\ \A ks, p, t : P!AM!Enqueue(ks, p, t) = Enqueue(ks, p, t)
  /\ \A ks, p : P!AM!RegisterReader(ks, p) = RegisterReader(ks, p)
  /\ \A ks, p : P!AM!RegisterWriter(ks, p) = RegisterWriter(ks, p)
  /\ \A ks, p : P!AM!WakeHolders(ks, p) = WakeHolders(ks, p)
  /\ \A ks, p : P!AM!AfterRelease(ks, p) = AfterRelease(ks, p)
  /\ \A ks, p, k, h : P!AM!GrantsOnRelease(ks, p, k, h)
                        = GrantsOnRelease(ks, p, k, h)
<1>1. P!AM!Entry = Entry /\ P!AM!Grant = Grant
  BY DEF P!AM!Entry, P!AM!Request, P!AM!AccessType, Entry,
         Request, AccessType, P!AM!Grant, Grant
<1>2. \A p : P!AM!NewKeyState(p) = NewKeyState(p)
  BY DEF P!AM!NewKeyState, NewKeyState
<1>3. \A ks : P!AM!Accessed(ks) = Accessed(ks)
  BY DEF P!AM!Accessed, Accessed
<1>4. \A ks : P!AM!FrontIsWrite(ks) = FrontIsWrite(ks)
  BY DEF P!AM!FrontIsWrite, FrontIsWrite
<1>5. \A ks : P!AM!ReadMustQueue(ks) = ReadMustQueue(ks)
  BY <1>4, Zenon DEF P!AM!ReadMustQueue, ReadMustQueue
<1>6. \A ks, p : P!AM!Holds(ks, p) = Holds(ks, p)
  BY DEF P!AM!Holds, Holds
<1>7. \A ks : P!AM!HolderChoices(ks) = HolderChoices(ks)
  BY DEF P!AM!HolderChoices, HolderChoices
<1>8. \A ks, p, t : P!AM!Enqueue(ks, p, t) = Enqueue(ks, p, t)
  BY DEF P!AM!Enqueue, Enqueue
<1>9. \A ks, p : P!AM!RegisterReader(ks, p) = RegisterReader(ks, p)
  BY DEF P!AM!RegisterReader, RegisterReader
<1>10. \A ks, p : P!AM!RegisterWriter(ks, p) = RegisterWriter(ks, p)
  BY DEF P!AM!RegisterWriter, RegisterWriter
<1>11. \A ks, p : P!AM!Surrender(ks, p) = Surrender(ks, p)
  BY DEF P!AM!Surrender, Surrender
<1>12. \A ks, p : P!AM!WakeHolders(ks, p) = WakeHolders(ks, p)
  BY <1>7, <1>11 DEF P!AM!WakeHolders, WakeHolders
<1>13. \A q : P!AM!ReadBatch(q) = ReadBatch(q)
  BY Zenon DEF P!AM!ReadBatch, ReadBatch
<1>14. \A ks : P!AM!ServedCount(ks) = ServedCount(ks)
  BY <1>4, <1>13, Zenon DEF P!AM!ServedCount, ServedCount
<1>15. \A ks : P!AM!HandleRequesting(ks) = HandleRequesting(ks)
  BY <1>4, <1>14, Zenon DEF P!AM!HandleRequesting, HandleRequesting
<1>16. \A ks, p : P!AM!LastRelease(ks, p) = LastRelease(ks, p)
  BY DEF P!AM!LastRelease, LastRelease
<1>17. \A ks, p : P!AM!AfterRelease(ks, p) = AfterRelease(ks, p)
  BY <1>11, <1>15, <1>16, Zenon DEF P!AM!AfterRelease, AfterRelease
<1>18. \A ks, k, h : P!AM!GrantsOf(ks, k, h) = GrantsOf(ks, k, h)
  BY <1>14, Zenon DEF P!AM!GrantsOf, GrantsOf
<1>19. \A ks, p, k, h : P!AM!GrantsOnRelease(ks, p, k, h)
                          = GrantsOnRelease(ks, p, k, h)
  BY <1>11, <1>16, <1>18, Zenon DEF P!AM!GrantsOnRelease, GrantsOnRelease
<1> QED
  BY <1>1, <1>2, <1>3, <1>5, <1>6, <1>7, <1>8, <1>9, <1>10, <1>12, <1>17,
     <1>19

(* ... and so does the secondary's.                                        *)
LEMMA SecondaryOperators ==
  /\ S!AM!Entry = Entry /\ S!AM!Grant = Grant
  /\ \A p : S!AM!NewKeyState(p) = NewKeyState(p)
  /\ \A ks : S!AM!Accessed(ks) = Accessed(ks)
  /\ \A ks : S!AM!ReadMustQueue(ks) = ReadMustQueue(ks)
  /\ \A ks, p : S!AM!Holds(ks, p) = Holds(ks, p)
  /\ \A ks : S!AM!HolderChoices(ks) = HolderChoices(ks)
  /\ \A ks, p, t : S!AM!Enqueue(ks, p, t) = Enqueue(ks, p, t)
  /\ \A ks, p : S!AM!RegisterReader(ks, p) = RegisterReader(ks, p)
  /\ \A ks, p : S!AM!RegisterWriter(ks, p) = RegisterWriter(ks, p)
  /\ \A ks, p : S!AM!WakeHolders(ks, p) = WakeHolders(ks, p)
  /\ \A ks, p : S!AM!AfterRelease(ks, p) = AfterRelease(ks, p)
  /\ \A ks, p, k, h : S!AM!GrantsOnRelease(ks, p, k, h)
                        = GrantsOnRelease(ks, p, k, h)
<1>1. S!AM!Entry = Entry /\ S!AM!Grant = Grant
  BY DEF S!AM!Entry, S!AM!Request, S!AM!AccessType, Entry,
         Request, AccessType, S!AM!Grant, Grant
<1>2. \A p : S!AM!NewKeyState(p) = NewKeyState(p)
  BY DEF S!AM!NewKeyState, NewKeyState
<1>3. \A ks : S!AM!Accessed(ks) = Accessed(ks)
  BY DEF S!AM!Accessed, Accessed
<1>4. \A ks : S!AM!FrontIsWrite(ks) = FrontIsWrite(ks)
  BY DEF S!AM!FrontIsWrite, FrontIsWrite
<1>5. \A ks : S!AM!ReadMustQueue(ks) = ReadMustQueue(ks)
  BY <1>4, Zenon DEF S!AM!ReadMustQueue, ReadMustQueue
<1>6. \A ks, p : S!AM!Holds(ks, p) = Holds(ks, p)
  BY DEF S!AM!Holds, Holds
<1>7. \A ks : S!AM!HolderChoices(ks) = HolderChoices(ks)
  BY DEF S!AM!HolderChoices, HolderChoices
<1>8. \A ks, p, t : S!AM!Enqueue(ks, p, t) = Enqueue(ks, p, t)
  BY DEF S!AM!Enqueue, Enqueue
<1>9. \A ks, p : S!AM!RegisterReader(ks, p) = RegisterReader(ks, p)
  BY DEF S!AM!RegisterReader, RegisterReader
<1>10. \A ks, p : S!AM!RegisterWriter(ks, p) = RegisterWriter(ks, p)
  BY DEF S!AM!RegisterWriter, RegisterWriter
<1>11. \A ks, p : S!AM!Surrender(ks, p) = Surrender(ks, p)
  BY DEF S!AM!Surrender, Surrender
<1>12. \A ks, p : S!AM!WakeHolders(ks, p) = WakeHolders(ks, p)
  BY <1>7, <1>11 DEF S!AM!WakeHolders, WakeHolders
<1>13. \A q : S!AM!ReadBatch(q) = ReadBatch(q)
  BY Zenon DEF S!AM!ReadBatch, ReadBatch
<1>14. \A ks : S!AM!ServedCount(ks) = ServedCount(ks)
  BY <1>4, <1>13, Zenon DEF S!AM!ServedCount, ServedCount
<1>15. \A ks : S!AM!HandleRequesting(ks) = HandleRequesting(ks)
  BY <1>4, <1>14, Zenon DEF S!AM!HandleRequesting, HandleRequesting
<1>16. \A ks, p : S!AM!LastRelease(ks, p) = LastRelease(ks, p)
  BY DEF S!AM!LastRelease, LastRelease
<1>17. \A ks, p : S!AM!AfterRelease(ks, p) = AfterRelease(ks, p)
  BY <1>11, <1>15, <1>16, Zenon DEF S!AM!AfterRelease, AfterRelease
<1>18. \A ks, k, h : S!AM!GrantsOf(ks, k, h) = GrantsOf(ks, k, h)
  BY <1>14, Zenon DEF S!AM!GrantsOf, GrantsOf
<1>19. \A ks, p, k, h : S!AM!GrantsOnRelease(ks, p, k, h)
                          = GrantsOnRelease(ks, p, k, h)
  BY <1>11, <1>16, <1>18, Zenon DEF S!AM!GrantsOnRelease, GrantsOnRelease
<1> QED
  BY <1>1, <1>2, <1>3, <1>5, <1>6, <1>7, <1>8, <1>9, <1>10, <1>12, <1>17,
     <1>19

(* The messages of the instances are those of Protocol.                    *)
LEMMA SameMessages ==
  /\ P!RequestMessage = RequestMessage /\ S!RequestMessage = RequestMessage
  /\ AtP!RequestMessage = RequestMessage /\ AtS!RequestMessage = RequestMessage
  /\ P!StopRequest = StopRequest /\ S!StopRequest = StopRequest
  /\ AtP!StopRequest = StopRequest /\ AtS!StopRequest = StopRequest
  /\ AtP!ResponseMessage = ResponseMessage
  /\ AtS!ResponseMessage = ResponseMessage
  /\ \A p : /\ P!ConnectionEstablished(p) = ConnectionEstablished(p)
            /\ S!ConnectionEstablished(p) = ConnectionEstablished(p)
BY DEF P!RequestMessage, S!RequestMessage, AtP!RequestMessage,
       AtS!RequestMessage, RequestMessage, P!RequestType, S!RequestType,
       AtP!RequestType, AtS!RequestType, RequestType, P!AccessType,
       S!AccessType, AtP!AccessType, AtS!AccessType, AccessType,
       P!StopRequest, S!StopRequest, AtP!StopRequest, AtS!StopRequest,
       StopRequest, AtP!ResponseMessage, AtS!ResponseMessage,
       ResponseMessage, P!ConnectionEstablished, S!ConnectionEstablished,
       ConnectionEstablished

----------------------------------------------------------------------------
(* WHAT A REQUEST DOES TO THE MAP                                          *)
(*                                                                         *)
(* The entry and the map a manager's call leaves are a function of what    *)
(* there was and of the message: which holder it names is the one thing it *)
(* chooses. This is why a copy that is given the same messages in the same *)
(* order stays a copy.                                                     *)

KeyMaps == [KeyId -> Entry \cup {NoEntry}]

Notes == {ConnectionEstablished(p) : p \in ProcId}

(* What a server may be asked to carry out, by a client or by its primary. *)
Messages == RequestMessage \cup Notes

Replies == [res : {"Ok", "RequestAccess", "ReleaseAccess", "KeyAccessed",
                   "KeyExists", "KeyNotFound"},
            holder : ProcId \cup {NoProc}]

Queues(e, m) ==
  \/ m.type = "Read" /\ ReadMustQueue(e)
  \/ m.type = "Write" /\ Accessed(e)

(* The entry e of key m.key after request m. *)
EntryAfter(e, m) ==
  IF e = NoEntry
    THEN IF m.type = "Create" THEN NewKeyState(m.proc) ELSE e
  ELSE IF m.type \in AccessType
    THEN IF Queues(e, m) THEN Enqueue(e, m.proc, m.type)
         ELSE IF m.type = "Read" THEN RegisterReader(e, m.proc)
         ELSE RegisterWriter(e, m.proc)
  ELSE IF m.type = "Delete" /\ ~ Accessed(e) THEN NoEntry
  ELSE IF m.type = "Release" /\ Holds(e, m.proc) THEN AfterRelease(e, m.proc)
  ELSE e

(* The map ks after message m. *)
EffectOf(ks, m) ==
  IF m \in RequestMessage
  THEN [ks EXCEPT ![m.key] = EntryAfter(ks[m.key], m)] ELSE ks

(* A call for m that finds the map ks, the channel ag and the last reply   *)
(* rep leaves ks2, ag2 and rep2.                                           *)
Goes(m, ks, ag, rep, ks2, ag2, rep2) ==
  /\ ks2 = EffectOf(ks, m)
  /\ \/ ag2 = ag
     \/ /\ m \in RequestMessage
        /\ m.type = "Release" /\ ks[m.key] # NoEntry
        /\ Holds(ks[m.key], m.proc)
        /\ \E h \in WakeHolders(ks[m.key], m.proc) :
             ag2 = ag \o GrantsOnRelease(ks[m.key], m.proc, m.key, h)
  /\ \/ rep2 = rep
     \/ rep2 \in Replies
     \/ /\ m \in RequestMessage
        /\ m.type = "Read" /\ ks[m.key] # NoEntry
        /\ \E h \in HolderChoices(RegisterReader(ks[m.key], m.proc)) :
             rep2 = [res |-> "Ok", holder |-> h]

(* Whatever is queued or released, an entry stays an entry.                *)
LEMMA EntryAfterType ==
  ASSUME NEW e \in Entry \cup {NoEntry}, NEW m \in RequestMessage
  PROVE  EntryAfter(e, m) \in Entry \cup {NoEntry}
<1>0. m.proc \in ProcId /\ m.type \in RequestType
  BY DEF RequestMessage
<1>1. CASE e = NoEntry
  BY <1>0, <1>1, NewKeyStateKeepsInv DEF EntryAfter
<1>2. CASE e # NoEntry
  <2>0. e \in Entry /\ e.pending \in Seq(Request)
    BY <1>2 DEF Entry
  <2>1. ASSUME m.type \in AccessType PROVE Enqueue(e, m.proc, m.type) \in Entry
    <3>1. [proc |-> m.proc, type |-> m.type] \in Request
      BY <1>0, <2>1 DEF Request
    <3>2. Append(e.pending, [proc |-> m.proc, type |-> m.type])
            \in Seq(Request)
      BY <2>0, <3>1, AppendProperties
    <3> QED
      BY <2>0, <3>2 DEF Enqueue, Entry
  <2>2. RegisterReader(e, m.proc) \in Entry
        /\ RegisterWriter(e, m.proc) \in Entry
    BY <1>0, <2>0 DEF RegisterReader, RegisterWriter, Entry
  <2>3. AfterRelease(e, m.proc) \in Entry
    <3>1. Surrender(e, m.proc) \in Entry
      BY <1>0, <2>0 DEF Surrender, Entry
    <3> QED
      BY <3>1, HandleRequestingType DEF AfterRelease
  <2> QED
    BY <1>2, <2>0, <2>1, <2>2, <2>3 DEF EntryAfter
<1> QED
  BY <1>1, <1>2

(* ... and a map a map.                                                    *)
LEMMA EffectType ==
  ASSUME NEW ks \in KeyMaps, NEW m
  PROVE  EffectOf(ks, m) \in KeyMaps
<1>1. CASE m \in RequestMessage
  <2>1. m.key \in KeyId /\ ks[m.key] \in Entry \cup {NoEntry}
    BY <1>1 DEF RequestMessage, KeyMaps
  <2>2. EntryAfter(ks[m.key], m) \in Entry \cup {NoEntry}
    BY <1>1, <2>1, EntryAfterType
  <2> QED
    BY <1>1, <2>1, <2>2 DEF EffectOf, KeyMaps
<1>2. CASE m \notin RequestMessage
  BY <1>2 DEF EffectOf
<1> QED
  BY <1>1, <1>2

(* A request that leaves its entry as it is leaves the map as it is.       *)
LEMMA NoEffect ==
  ASSUME NEW ks \in KeyMaps, NEW m \in RequestMessage,
         EntryAfter(ks[m.key], m) = ks[m.key]
  PROVE  EffectOf(ks, m) = ks
BY DEF EffectOf, KeyMaps, RequestMessage

(* What a call leaves has the types of the manager's variables.            *)
LEMMA GoesType ==
  ASSUME NEW ks \in KeyMaps, NEW ag \in Seq(Grant), NEW rep \in Replies,
         NEW m, NEW ks2, NEW ag2, NEW rep2,
         Goes(m, ks, ag, rep, ks2, ag2, rep2)
  PROVE  ks2 \in KeyMaps /\ ag2 \in Seq(Grant) /\ rep2 \in Replies
<1>1. ks2 \in KeyMaps
  BY EffectType DEF Goes
<1>2. ASSUME m \in RequestMessage, ks[m.key] # NoEntry
      PROVE  /\ m.key \in KeyId /\ m.proc \in ProcId
             /\ ks[m.key] \in Entry
             /\ WakeHolders(ks[m.key], m.proc) \subseteq ProcId
             /\ HolderChoices(RegisterReader(ks[m.key], m.proc))
                  \subseteq ProcId
  <2>1. m.key \in KeyId /\ m.proc \in ProcId /\ ks[m.key] \in Entry
    BY <1>2 DEF RequestMessage, KeyMaps
  <2>2. ASSUME NEW e \in Entry PROVE HolderChoices(e) \subseteq ProcId
    BY <2>2 DEF Entry, HolderChoices
  <2>3. Surrender(ks[m.key], m.proc) \in Entry
        /\ RegisterReader(ks[m.key], m.proc) \in Entry
    BY <2>1 DEF Surrender, RegisterReader, Entry
  <2> QED
    BY <2>1, <2>2, <2>3 DEF WakeHolders
<1>3. ag2 \in Seq(Grant)
  <2>1. CASE ag2 # ag
    <3>1. PICK h \in WakeHolders(ks[m.key], m.proc) :
            ag2 = ag \o GrantsOnRelease(ks[m.key], m.proc, m.key, h)
      BY <2>1 DEF Goes
    <3>2. m \in RequestMessage /\ ks[m.key] # NoEntry
      BY <2>1 DEF Goes
    <3>3. GrantsOnRelease(ks[m.key], m.proc, m.key, h) \in Seq(Grant)
      BY <1>2, <3>2, GrantsType
    <3> QED
      BY <3>1, <3>3, ConcatProperties
  <2> QED
    BY <2>1
<1>4. rep2 \in Replies
  BY <1>2 DEF Goes, Replies
<1> QED
  BY <1>1, <1>3, <1>4

(* Every call of the primary's manager goes so.                            *)
LEMMA PrimaryCalls ==
  ASSUME p_key_states \in KeyMaps, NEW m \in Messages, P!CallManager(m)
  PROVE  Goes(m, p_key_states, p_access_granted, p_reply,
              p_key_states', p_access_granted', p_reply')
<1> DEFINE e == p_key_states[m.key]
           Stored(x) == p_key_states' = [p_key_states EXCEPT ![m.key] = x]
           Answered(r) == p_reply' = [res |-> r, holder |-> NoProc]
           Gone == Goes(m, p_key_states, p_access_granted, p_reply,
                        p_key_states', p_access_granted', p_reply')
<1>0. \A r \in {"Ok", "RequestAccess", "ReleaseAccess", "KeyAccessed",
                "KeyExists", "KeyNotFound"} :
        [res |-> r, holder |-> NoProc] \in Replies
  BY DEF Replies
<1>1. CASE m \in Notes
  <2>1. m.type = "ConnectionEstablished" /\ m \notin RequestMessage
    BY <1>1 DEF Notes, ConnectionEstablished, RequestMessage, RequestType,
       AccessType
  <2>2. UNCHANGED <<p_key_states, p_access_granted, p_reply>>
    BY <2>1 DEF P!CallManager, P!manager
  <2> QED
    BY <2>1, <2>2 DEF Goes, EffectOf
<1>2. CASE m \in RequestMessage
  <2>0. m.key \in KeyId /\ m.type \in RequestType
        /\ m.type # "ConnectionEstablished"
    BY <1>2 DEF RequestMessage, RequestType, AccessType
  <2>1. ASSUME NEW x, Stored(x), EntryAfter(e, m) = x,
               NEW r \in {"Ok", "RequestAccess"}, Answered(r),
               UNCHANGED p_access_granted
        PROVE  Gone
    BY <1>0, <1>2, <2>1 DEF Goes, EffectOf
  <2>2. ASSUME NEW r, P!AM!Fail(r), EntryAfter(e, m) = e,
               r \in {"KeyNotFound", "KeyExists", "KeyAccessed",
                      "ReleaseAccess"}
        PROVE  Gone
    <3>1. UNCHANGED <<p_key_states, p_access_granted>> /\ Answered(r)
      BY <2>2 DEF P!AM!Fail, P!AM!Return
    <3>2. EffectOf(p_key_states, m) = p_key_states
      BY <1>2, <2>2, NoEffect
    <3> QED
      BY <1>0, <2>2, <3>1, <3>2 DEF Goes
  <2>3. CASE m.type = "Create" /\ P!AM!Create(m.proc, m.key)
    <3>1. CASE e = NoEntry
      <4>1. EntryAfter(e, m) = NewKeyState(m.proc)
        BY <2>3, <3>1 DEF EntryAfter
      <4>2. Stored(NewKeyState(m.proc)) /\ Answered("Ok")
            /\ UNCHANGED p_access_granted
        BY <2>3, <3>1, PrimaryOperators
        DEF P!AM!Create, P!AM!Exists, P!AM!SetEntry, P!AM!Return
      <4> QED
        BY <2>1, <4>1, <4>2
    <3>2. CASE e # NoEntry
      <4>1. EntryAfter(e, m) = e
        BY <2>3, <3>2 DEF EntryAfter, AccessType
      <4>2. P!AM!Fail("KeyExists")
        BY <2>3, <3>2 DEF P!AM!Create, P!AM!Exists
      <4> QED
        BY <2>2, <4>1, <4>2
    <3> QED
      BY <3>1, <3>2
  <2>4. CASE m.type = "Delete" /\ P!AM!Delete(m.key)
    <3>1. CASE e = NoEntry
      <4>1. EntryAfter(e, m) = e
        BY <2>4, <3>1 DEF EntryAfter
      <4>2. P!AM!Fail("KeyNotFound")
        BY <2>4, <3>1 DEF P!AM!Delete, P!AM!Exists
      <4> QED
        BY <2>2, <4>1, <4>2
    <3>2. CASE e # NoEntry /\ Accessed(e)
      <4>1. EntryAfter(e, m) = e
        BY <2>4, <3>2 DEF EntryAfter, AccessType
      <4>2. P!AM!Fail("KeyAccessed")
        BY <2>4, <3>2, PrimaryOperators DEF P!AM!Delete, P!AM!Exists
      <4> QED
        BY <2>2, <4>1, <4>2
    <3>3. CASE e # NoEntry /\ ~ Accessed(e)
      <4>1. EntryAfter(e, m) = NoEntry
        BY <2>4, <3>3 DEF EntryAfter, AccessType
      <4>2. Stored(NoEntry) /\ Answered("Ok") /\ UNCHANGED p_access_granted
        BY <2>4, <3>3, PrimaryOperators
        DEF P!AM!Delete, P!AM!Exists, P!AM!SetEntry, P!AM!Return
      <4> QED
        BY <2>1, <4>1, <4>2
    <3> QED
      BY <3>1, <3>2, <3>3
  <2>5. CASE m.type = "Read" /\ P!AM!Read(m.proc, m.key)
    <3>1. CASE e = NoEntry
      <4>1. EntryAfter(e, m) = e
        BY <2>5, <3>1 DEF EntryAfter
      <4>2. P!AM!Fail("KeyNotFound")
        BY <2>5, <3>1 DEF P!AM!Read, P!AM!Exists
      <4> QED
        BY <2>2, <4>1, <4>2
    <3>2. CASE e # NoEntry /\ ReadMustQueue(e)
      <4>1. EntryAfter(e, m) = Enqueue(e, m.proc, "Read")
        BY <2>5, <3>2 DEF EntryAfter, Queues, AccessType
      <4>2. Stored(Enqueue(e, m.proc, "Read")) /\ Answered("RequestAccess")
            /\ UNCHANGED p_access_granted
        BY <2>5, <3>2, PrimaryOperators
        DEF P!AM!Read, P!AM!Exists, P!AM!SetEntry, P!AM!Return
      <4> QED
        BY <2>1, <4>1, <4>2
    <3>3. CASE e # NoEntry /\ ~ ReadMustQueue(e)
      <4>1. EntryAfter(e, m) = RegisterReader(e, m.proc)
        BY <2>5, <3>3 DEF EntryAfter, Queues, AccessType
      <4>2. /\ Stored(RegisterReader(e, m.proc))
            /\ \E h \in HolderChoices(RegisterReader(e, m.proc)) :
                 p_reply' = [res |-> "Ok", holder |-> h]
            /\ UNCHANGED p_access_granted
        BY <2>5, <3>3, PrimaryOperators
        DEF P!AM!Read, P!AM!Exists, P!AM!SetEntry
      <4> QED
        BY <1>2, <2>5, <3>3, <4>1, <4>2 DEF Goes, EffectOf
    <3> QED
      BY <3>1, <3>2, <3>3
  <2>6. CASE m.type = "Write" /\ P!AM!Write(m.proc, m.key)
    <3>1. CASE e = NoEntry
      <4>1. EntryAfter(e, m) = e
        BY <2>6, <3>1 DEF EntryAfter
      <4>2. P!AM!Fail("KeyNotFound")
        BY <2>6, <3>1 DEF P!AM!Write, P!AM!Exists
      <4> QED
        BY <2>2, <4>1, <4>2
    <3>2. CASE e # NoEntry /\ Accessed(e)
      <4>1. EntryAfter(e, m) = Enqueue(e, m.proc, "Write")
        BY <2>6, <3>2 DEF EntryAfter, Queues, AccessType
      <4>2. Stored(Enqueue(e, m.proc, "Write")) /\ Answered("RequestAccess")
            /\ UNCHANGED p_access_granted
        BY <2>6, <3>2, PrimaryOperators
        DEF P!AM!Write, P!AM!Exists, P!AM!SetEntry, P!AM!Return
      <4> QED
        BY <2>1, <4>1, <4>2
    <3>3. CASE e # NoEntry /\ ~ Accessed(e)
      <4>1. EntryAfter(e, m) = RegisterWriter(e, m.proc)
        BY <2>6, <3>3 DEF EntryAfter, Queues, AccessType
      <4>2. Stored(RegisterWriter(e, m.proc)) /\ Answered("Ok")
            /\ UNCHANGED p_access_granted
        BY <2>6, <3>3, PrimaryOperators
        DEF P!AM!Write, P!AM!Exists, P!AM!SetEntry, P!AM!Return
      <4> QED
        BY <2>1, <4>1, <4>2
    <3> QED
      BY <3>1, <3>2, <3>3
  <2>7. CASE m.type = "Release" /\ P!AM!Release(m.proc, m.key)
    <3>1. CASE e = NoEntry
      <4>1. EntryAfter(e, m) = e
        BY <2>7, <3>1 DEF EntryAfter
      <4>2. P!AM!Fail("KeyNotFound")
        BY <2>7, <3>1 DEF P!AM!Release, P!AM!ReleaseHeld, P!AM!Exists
      <4> QED
        BY <2>2, <4>1, <4>2
    <3>2. CASE e # NoEntry /\ ~ Holds(e, m.proc)
      <4>1. EntryAfter(e, m) = e
        BY <2>7, <3>2 DEF EntryAfter, AccessType
      <4>2. P!AM!Fail("ReleaseAccess")
        BY <2>7, <3>2, PrimaryOperators
        DEF P!AM!Release, P!AM!ReleaseHeld, P!AM!Exists
      <4> QED
        BY <2>2, <4>1, <4>2
    <3>3. CASE e # NoEntry /\ Holds(e, m.proc)
      <4>1. EntryAfter(e, m) = AfterRelease(e, m.proc)
        BY <2>7, <3>3 DEF EntryAfter, AccessType
      <4>2. P!AM!ReleaseHeld(m.proc, m.key)
        BY <2>7, <3>3, PrimaryOperators DEF P!AM!Release, P!AM!Exists
      <4>3. Stored(AfterRelease(e, m.proc)) /\ Answered("Ok")
        BY <4>2, PrimaryOperators
        DEF P!AM!ReleaseHeld, P!AM!SetEntry, P!AM!Return
      <4>4. \E h \in WakeHolders(e, m.proc) :
              p_access_granted' = p_access_granted
                \o GrantsOnRelease(e, m.proc, m.key, h)
        BY <4>2, PrimaryOperators, Zenon DEF P!AM!ReleaseHeld
      <4>5. p_key_states' = EffectOf(p_key_states, m)
        BY <1>2, <4>1, <4>3 DEF EffectOf
      <4>6. p_reply' \in Replies
        BY <1>0, <4>3
      <4> QED
        BY <1>2, <2>7, <3>3, <4>4, <4>5, <4>6 DEF Goes
    <3> QED
      BY <3>1, <3>2, <3>3
  <2> QED
    BY <2>0, <2>3, <2>4, <2>5, <2>6, <2>7
    DEF P!CallManager, RequestType, AccessType
<1> QED
  BY <1>1, <1>2 DEF Messages

(* ... and every call of the secondary's.                                  *)
LEMMA SecondaryCalls ==
  ASSUME s_key_states \in KeyMaps, NEW m \in Messages, S!CallManager(m)
  PROVE  Goes(m, s_key_states, s_access_granted, s_reply,
              s_key_states', s_access_granted', s_reply')
<1> DEFINE e == s_key_states[m.key]
           Stored(x) == s_key_states' = [s_key_states EXCEPT ![m.key] = x]
           Answered(r) == s_reply' = [res |-> r, holder |-> NoProc]
           Gone == Goes(m, s_key_states, s_access_granted, s_reply,
                        s_key_states', s_access_granted', s_reply')
<1>0. \A r \in {"Ok", "RequestAccess", "ReleaseAccess", "KeyAccessed",
                "KeyExists", "KeyNotFound"} :
        [res |-> r, holder |-> NoProc] \in Replies
  BY DEF Replies
<1>1. CASE m \in Notes
  <2>1. m.type = "ConnectionEstablished" /\ m \notin RequestMessage
    BY <1>1 DEF Notes, ConnectionEstablished, RequestMessage, RequestType,
       AccessType
  <2>2. UNCHANGED <<s_key_states, s_access_granted, s_reply>>
    BY <2>1 DEF S!CallManager, S!manager
  <2> QED
    BY <2>1, <2>2 DEF Goes, EffectOf
<1>2. CASE m \in RequestMessage
  <2>0. m.key \in KeyId /\ m.type \in RequestType
        /\ m.type # "ConnectionEstablished"
    BY <1>2 DEF RequestMessage, RequestType, AccessType
  <2>1. ASSUME NEW x, Stored(x), EntryAfter(e, m) = x,
               NEW r \in {"Ok", "RequestAccess"}, Answered(r),
               UNCHANGED s_access_granted
        PROVE  Gone
    BY <1>0, <1>2, <2>1 DEF Goes, EffectOf
  <2>2. ASSUME NEW r, S!AM!Fail(r), EntryAfter(e, m) = e,
               r \in {"KeyNotFound", "KeyExists", "KeyAccessed",
                      "ReleaseAccess"}
        PROVE  Gone
    <3>1. UNCHANGED <<s_key_states, s_access_granted>> /\ Answered(r)
      BY <2>2 DEF S!AM!Fail, S!AM!Return
    <3>2. EffectOf(s_key_states, m) = s_key_states
      BY <1>2, <2>2, NoEffect
    <3> QED
      BY <1>0, <2>2, <3>1, <3>2 DEF Goes
  <2>3. CASE m.type = "Create" /\ S!AM!Create(m.proc, m.key)
    <3>1. CASE e = NoEntry
      <4>1. EntryAfter(e, m) = NewKeyState(m.proc)
        BY <2>3, <3>1 DEF EntryAfter
      <4>2. Stored(NewKeyState(m.proc)) /\ Answered("Ok")
            /\ UNCHANGED s_access_granted
        BY <2>3, <3>1, SecondaryOperators
        DEF S!AM!Create, S!AM!Exists, S!AM!SetEntry, S!AM!Return
      <4> QED
        BY <2>1, <4>1, <4>2
    <3>2. CASE e # NoEntry
      <4>1. EntryAfter(e, m) = e
        BY <2>3, <3>2 DEF EntryAfter, AccessType
      <4>2. S!AM!Fail("KeyExists")
        BY <2>3, <3>2 DEF S!AM!Create, S!AM!Exists
      <4> QED
        BY <2>2, <4>1, <4>2
    <3> QED
      BY <3>1, <3>2
  <2>4. CASE m.type = "Delete" /\ S!AM!Delete(m.key)
    <3>1. CASE e = NoEntry
      <4>1. EntryAfter(e, m) = e
        BY <2>4, <3>1 DEF EntryAfter
      <4>2. S!AM!Fail("KeyNotFound")
        BY <2>4, <3>1 DEF S!AM!Delete, S!AM!Exists
      <4> QED
        BY <2>2, <4>1, <4>2
    <3>2. CASE e # NoEntry /\ Accessed(e)
      <4>1. EntryAfter(e, m) = e
        BY <2>4, <3>2 DEF EntryAfter, AccessType
      <4>2. S!AM!Fail("KeyAccessed")
        BY <2>4, <3>2, SecondaryOperators DEF S!AM!Delete, S!AM!Exists
      <4> QED
        BY <2>2, <4>1, <4>2
    <3>3. CASE e # NoEntry /\ ~ Accessed(e)
      <4>1. EntryAfter(e, m) = NoEntry
        BY <2>4, <3>3 DEF EntryAfter, AccessType
      <4>2. Stored(NoEntry) /\ Answered("Ok") /\ UNCHANGED s_access_granted
        BY <2>4, <3>3, SecondaryOperators
        DEF S!AM!Delete, S!AM!Exists, S!AM!SetEntry, S!AM!Return
      <4> QED
        BY <2>1, <4>1, <4>2
    <3> QED
      BY <3>1, <3>2, <3>3
  <2>5. CASE m.type = "Read" /\ S!AM!Read(m.proc, m.key)
    <3>1. CASE e = NoEntry
      <4>1. EntryAfter(e, m) = e
        BY <2>5, <3>1 DEF EntryAfter
      <4>2. S!AM!Fail("KeyNotFound")
        BY <2>5, <3>1 DEF S!AM!Read, S!AM!Exists
      <4> QED
        BY <2>2, <4>1, <4>2
    <3>2. CASE e # NoEntry /\ ReadMustQueue(e)
      <4>1. EntryAfter(e, m) = Enqueue(e, m.proc, "Read")
        BY <2>5, <3>2 DEF EntryAfter, Queues, AccessType
      <4>2. Stored(Enqueue(e, m.proc, "Read")) /\ Answered("RequestAccess")
            /\ UNCHANGED s_access_granted
        BY <2>5, <3>2, SecondaryOperators
        DEF S!AM!Read, S!AM!Exists, S!AM!SetEntry, S!AM!Return
      <4> QED
        BY <2>1, <4>1, <4>2
    <3>3. CASE e # NoEntry /\ ~ ReadMustQueue(e)
      <4>1. EntryAfter(e, m) = RegisterReader(e, m.proc)
        BY <2>5, <3>3 DEF EntryAfter, Queues, AccessType
      <4>2. /\ Stored(RegisterReader(e, m.proc))
            /\ \E h \in HolderChoices(RegisterReader(e, m.proc)) :
                 s_reply' = [res |-> "Ok", holder |-> h]
            /\ UNCHANGED s_access_granted
        BY <2>5, <3>3, SecondaryOperators
        DEF S!AM!Read, S!AM!Exists, S!AM!SetEntry
      <4> QED
        BY <1>2, <2>5, <3>3, <4>1, <4>2 DEF Goes, EffectOf
    <3> QED
      BY <3>1, <3>2, <3>3
  <2>6. CASE m.type = "Write" /\ S!AM!Write(m.proc, m.key)
    <3>1. CASE e = NoEntry
      <4>1. EntryAfter(e, m) = e
        BY <2>6, <3>1 DEF EntryAfter
      <4>2. S!AM!Fail("KeyNotFound")
        BY <2>6, <3>1 DEF S!AM!Write, S!AM!Exists
      <4> QED
        BY <2>2, <4>1, <4>2
    <3>2. CASE e # NoEntry /\ Accessed(e)
      <4>1. EntryAfter(e, m) = Enqueue(e, m.proc, "Write")
        BY <2>6, <3>2 DEF EntryAfter, Queues, AccessType
      <4>2. Stored(Enqueue(e, m.proc, "Write")) /\ Answered("RequestAccess")
            /\ UNCHANGED s_access_granted
        BY <2>6, <3>2, SecondaryOperators
        DEF S!AM!Write, S!AM!Exists, S!AM!SetEntry, S!AM!Return
      <4> QED
        BY <2>1, <4>1, <4>2
    <3>3. CASE e # NoEntry /\ ~ Accessed(e)
      <4>1. EntryAfter(e, m) = RegisterWriter(e, m.proc)
        BY <2>6, <3>3 DEF EntryAfter, Queues, AccessType
      <4>2. Stored(RegisterWriter(e, m.proc)) /\ Answered("Ok")
            /\ UNCHANGED s_access_granted
        BY <2>6, <3>3, SecondaryOperators
        DEF S!AM!Write, S!AM!Exists, S!AM!SetEntry, S!AM!Return
      <4> QED
        BY <2>1, <4>1, <4>2
    <3> QED
      BY <3>1, <3>2, <3>3
  <2>7. CASE m.type = "Release" /\ S!AM!Release(m.proc, m.key)
    <3>1. CASE e = NoEntry
      <4>1. EntryAfter(e, m) = e
        BY <2>7, <3>1 DEF EntryAfter
      <4>2. S!AM!Fail("KeyNotFound")
        BY <2>7, <3>1 DEF S!AM!Release, S!AM!ReleaseHeld, S!AM!Exists
      <4> QED
        BY <2>2, <4>1, <4>2
    <3>2. CASE e # NoEntry /\ ~ Holds(e, m.proc)
      <4>1. EntryAfter(e, m) = e
        BY <2>7, <3>2 DEF EntryAfter, AccessType
      <4>2. S!AM!Fail("ReleaseAccess")
        BY <2>7, <3>2, SecondaryOperators
        DEF S!AM!Release, S!AM!ReleaseHeld, S!AM!Exists
      <4> QED
        BY <2>2, <4>1, <4>2
    <3>3. CASE e # NoEntry /\ Holds(e, m.proc)
      <4>1. EntryAfter(e, m) = AfterRelease(e, m.proc)
        BY <2>7, <3>3 DEF EntryAfter, AccessType
      <4>2. S!AM!ReleaseHeld(m.proc, m.key)
        BY <2>7, <3>3, SecondaryOperators DEF S!AM!Release, S!AM!Exists
      <4>3. Stored(AfterRelease(e, m.proc)) /\ Answered("Ok")
        BY <4>2, SecondaryOperators
        DEF S!AM!ReleaseHeld, S!AM!SetEntry, S!AM!Return
      <4>4. \E h \in WakeHolders(e, m.proc) :
              s_access_granted' = s_access_granted
                \o GrantsOnRelease(e, m.proc, m.key, h)
        BY <4>2, SecondaryOperators, Zenon DEF S!AM!ReleaseHeld
      <4>5. s_key_states' = EffectOf(s_key_states, m)
        BY <1>2, <4>1, <4>3 DEF EffectOf
      <4>6. s_reply' \in Replies
        BY <1>0, <4>3
      <4> QED
        BY <1>2, <2>7, <3>3, <4>4, <4>5, <4>6 DEF Goes
    <3> QED
      BY <3>1, <3>2, <3>3
  <2> QED
    BY <2>0, <2>3, <2>4, <2>5, <2>6, <2>7
    DEF S!CallManager, RequestType, AccessType
<1> QED
  BY <1>1, <1>2 DEF Messages

----------------------------------------------------------------------------
(* THE TYPES *)

Services == [token : ProcId \cup {PrimaryToken}, request : Messages]

ServerTyped(ks, ag, rep, map, iss, srv, proc) ==
  /\ ks \in KeyMaps
  /\ ag \in Seq(Grant)
  /\ rep \in Replies
  /\ map \in SUBSET iss
  /\ iss \in SUBSET ProcId
  /\ srv \in Services \cup {NoProc}
  /\ proc \in {"running", "ended"}

PrimaryTyped ==
  ServerTyped(p_key_states, p_access_granted, p_reply, p_token_stream_map,
              p_issued, p_serving, p_process)

SecondaryTyped ==
  ServerTyped(s_key_states, s_access_granted, s_reply, s_token_stream_map,
              s_issued, s_serving, s_process)

Requests == Seq(RequestMessage \cup {StopRequest})

Answers == Seq(ResponseMessage)

StreamsTyped ==
  /\ p_to_server \in [ProcId -> Requests]
  /\ p_to_client \in [ProcId -> Answers]
  /\ p_closed \in SUBSET ProcId
  /\ s_to_server \in [ProcId -> Requests]
  /\ s_to_client \in [ProcId -> Answers]
  /\ s_closed \in SUBSET ProcId

CallsTyped ==
  /\ call \in [ClientId -> AtP!Call \cup {NoCall}]
  /\ asked \in [ClientId -> [access : AtP!Access, told : BOOLEAN]
                              \cup {NoCall}]
  /\ held \in [ClientId -> SUBSET AtP!Access]

OwnersTyped ==
  /\ registry_stream \in [ClientId -> Connection \cup {NoProc}]
  /\ proc_id \in [ClientId -> ProcId \cup {NoProc}]
  /\ is_primary \in [ClientId -> BOOLEAN]
  /\ \A c \in ClientId : Started(c) => registry_stream[c] \in Connection

(* A server that has ended was in the middle of no request; the primary    *)
(* ends when it has counted up to ExitAfter.                               *)
EndsBetweenRequests ==
  /\ request_counter \in Nat
  /\ p_process = "running" => request_counter < ExitAfter
  /\ p_process = "ended" => p_serving = NoProc /\ request_counter <= ExitAfter

LinkTyped ==
  /\ forwards \in Seq(Messages)
  /\ images \in Seq(KeyMaps)
  /\ Len(images) = 1 + Len(forwards)

Typed ==
  /\ PrimaryTyped /\ SecondaryTyped
  /\ StreamsTyped /\ CallsTyped /\ OwnersTyped
  /\ EndsBetweenRequests /\ LinkTyped

(* The types of the modules Failover is made of, in these words.           *)
LEMMA TypesMean ==
  /\ P!AM!TypeOK <=> /\ p_key_states \in KeyMaps
                     /\ p_access_granted \in Seq(Grant)
                     /\ p_reply \in Replies
  /\ S!AM!TypeOK <=> /\ s_key_states \in KeyMaps
                     /\ s_access_granted \in Seq(Grant)
                     /\ s_reply \in Replies
  /\ P!Served = Services /\ S!Served = Services
  /\ AtP!StreamsTypeOK /\ AtS!StreamsTypeOK <=> StreamsTyped
  /\ AtP!ClientTypeOK <=> CallsTyped
<1>1. P!AM!TypeOK <=> /\ p_key_states \in KeyMaps
                      /\ p_access_granted \in Seq(Grant)
                      /\ p_reply \in Replies
  BY PrimaryOperators
  DEF P!AM!TypeOK, KeyMaps, P!AM!Reply, P!AM!Results, Replies
<1>2. S!AM!TypeOK <=> /\ s_key_states \in KeyMaps
                      /\ s_access_granted \in Seq(Grant)
                      /\ s_reply \in Replies
  BY SecondaryOperators
  DEF S!AM!TypeOK, KeyMaps, S!AM!Reply, S!AM!Results, Replies
<1>3. P!Served = Services /\ S!Served = Services
  BY SameMessages DEF P!Served, S!Served, Services, Messages, Notes
<1>4. AtP!StreamsTypeOK /\ AtS!StreamsTypeOK <=> StreamsTyped
  BY SameMessages
  DEF AtP!StreamsTypeOK, AtS!StreamsTypeOK, StreamsTyped, Requests, Answers
<1>5. AtP!ClientTypeOK <=> CallsTyped
  BY DEF AtP!ClientTypeOK, CallsTyped
<1> QED
  BY <1>1, <1>2, <1>3, <1>4, <1>5

(* So Typed is TypeOK and the rest of what its proof needs.                *)
LEMMA TypedIsTypeOK == Typed => TypeOK
<1> SUFFICES ASSUME Typed PROVE TypeOK
  OBVIOUS
<1>1. request_counter \in 0 .. ExitAfter
  BY ExitAfterAssumption DEF Typed, EndsBetweenRequests, PrimaryTyped,
     ServerTyped
<1>2. P!ServerTypeOK
  BY <1>1, TypesMean
  DEF Typed, PrimaryTyped, ServerTyped, P!ServerTypeOK
<1>3. S!ServerTypeOK
  BY TypesMean DEF Typed, SecondaryTyped, ServerTyped, S!ServerTypeOK
<1> QED
  BY <1>2, <1>3, TypesMean
  DEF Typed, TypeOK, OwnersTyped, LinkTyped, KeyMaps

----------------------------------------------------------------------------
(* STEPS OF A SERVER *)

(* What may be done to a queue of messages leaves a queue of messages.     *)
LEMMA QueueTypes ==
  ASSUME NEW T, NEW f \in [ProcId -> Seq(T)], NEW p \in ProcId
  PROVE  /\ f[p] \in Seq(T)
         /\ \A x \in T : [f EXCEPT ![p] = Append(@, x)] \in [ProcId -> Seq(T)]
         /\ \A x \in T : [f EXCEPT ![p] = <<x>>] \in [ProcId -> Seq(T)]
         /\ f[p] # <<>> =>
              /\ Head(f[p]) \in T
              /\ [f EXCEPT ![p] = Tail(@)] \in [ProcId -> Seq(T)]
         /\ [f EXCEPT ![p] = <<>>] \in [ProcId -> Seq(T)]
         /\ \A n \in Nat :
              n <= Len(f[p]) =>
                [f EXCEPT ![p] = SubSeq(@, n + 1, Len(@))]
                  \in [ProcId -> Seq(T)]
<1>1. f[p] \in Seq(T)
  OBVIOUS
<1>2. \A x \in T : Append(f[p], x) \in Seq(T) /\ <<x>> \in Seq(T)
  BY <1>1, AppendProperties
<1>3. <<>> \in Seq(T)
  BY EmptySeq
<1>4. f[p] # <<>> => Head(f[p]) \in T /\ Tail(f[p]) \in Seq(T)
  BY <1>1, HeadTailProperties
<1>5. ASSUME NEW n \in Nat, n <= Len(f[p])
      PROVE  SubSeq(f[p], n + 1, Len(f[p])) \in Seq(T)
  <2>1. \A i \in n + 1 .. Len(f[p]) : f[p][i] \in T
    BY <1>1, <1>5, ElementOfSeq, LenProperties
  <2> QED
    BY <1>1, <1>5, <2>1, SubSeqProperties, LenProperties
<1> QED
  BY <1>1, <1>2, <1>3, <1>4, <1>5

(* What the primary answers to a request of a client.                      *)
LEMMA PrimaryResponse ==
  ASSUME Typed, NEW m \in RequestMessage, NEW r
  PROVE  P!ResponseTo(m, r) \in ResponseMessage
<1>1. m.key \in KeyId /\ m.type # "ConnectionEstablished"
  BY DEF RequestMessage, RequestType, AccessType
<1>2. \A h : P!KnownHolder(h) => h \in ProcId
  BY DEF P!KnownHolder, Typed, PrimaryTyped, ServerTyped
<1> QED
  BY <1>1, <1>2
  DEF P!ResponseTo, P!Wait, P!Success, P!Holder, P!Error, ResponseMessage

(* handle_message at the primary.                                          *)
LEMMA PrimaryMessage ==
  ASSUME Typed, NEW t \in ProcId \cup {PrimaryToken}, NEW m \in Messages,
         m \in RequestMessage \/ t = PrimaryToken,
         P!HandleMessage(t, m)
  PROVE  /\ Goes(m, p_key_states, p_access_granted, p_reply,
                 p_key_states', p_access_granted', p_reply')
         /\ p_serving' \in {NoProc, [token |-> t, request |-> m]}
         /\ p_to_client' \in [ProcId -> Answers]
         /\ UNCHANGED <<p_token_stream_map, p_issued, request_counter,
                        p_process, forwards, p_closed>>
<1>1. Goes(m, p_key_states, p_access_granted, p_reply,
           p_key_states', p_access_granted', p_reply')
  BY PrimaryCalls DEF P!HandleMessage, Typed, PrimaryTyped, ServerTyped
<1>2. p_serving' \in {NoProc, [token |-> t, request |-> m]}
  BY DEF P!HandleMessage
<1>3. p_to_client' \in [ProcId -> Answers]
  <2>1. p_to_client \in [ProcId -> Answers]
    BY DEF Typed, StreamsTyped
  <2>2. CASE UNCHANGED p_to_client
    BY <2>1, <2>2
  <2>3. CASE t # PrimaryToken /\ P!Deliver(t, P!ResponseTo(m, p_reply'))
    <3>1. t \in ProcId /\ P!ResponseTo(m, p_reply') \in ResponseMessage
      BY <2>3, PrimaryResponse
    <3> QED
      BY <2>1, <2>3, <3>1, QueueTypes DEF P!Deliver, Answers
  <2> QED
    BY <2>2, <2>3
    DEF P!HandleMessage, P!Answer, P!AnswerFails, P!WriteFails
<1>4. UNCHANGED <<p_token_stream_map, p_issued, request_counter, p_process,
                  forwards, p_closed>>
  BY DEF P!HandleMessage
<1> QED
  BY <1>1, <1>2, <1>3, <1>4

(* handle_data at the primary, for one request of a client.                *)
LEMMA PrimaryRequest ==
  ASSUME Typed, NEW t \in ProcId, P!HandleRequest(t)
  PROVE  /\ P!Polling
         /\ \E m \in RequestMessage :
              /\ Goes(m, p_key_states, p_access_granted, p_reply,
                      p_key_states', p_access_granted', p_reply')
              /\ p_serving' \in {NoProc, [token |-> t, request |-> m]}
         /\ p_to_client' \in [ProcId -> Answers]
         /\ p_to_server' \in [ProcId -> Requests]
         /\ UNCHANGED <<p_token_stream_map, p_issued, request_counter,
                        p_process, forwards, p_closed>>
<1> DEFINE m == Head(p_to_server[t])
<1>1. p_to_server \in [ProcId -> Requests]
  BY DEF Typed, StreamsTyped
<1>2. m \in RequestMessage
  <2>1. p_to_server[t] # <<>> /\ m # StopRequest
    BY SameMessages DEF P!HandleRequest
  <2> QED
    BY <1>1, <2>1, QueueTypes DEF Requests
<1>3. P!HandleMessage(t, m) /\ m \in Messages /\ P!Polling
  BY <1>2 DEF P!HandleRequest, Messages
<1>4. p_to_server' \in [ProcId -> Requests]
  <2>1. p_to_server[t] # <<>>
        /\ p_to_server' = [p_to_server EXCEPT ![t] =
                             SubSeq(@, 1 + 1, Len(@))]
    BY DEF P!HandleRequest, P!TakeRequests
  <2>2. p_to_server[t] \in Requests /\ 1 <= Len(p_to_server[t])
    BY <1>1, <2>1, EmptySeq, LenProperties DEF Requests
  <2> QED
    BY <1>1, <2>1, <2>2, QueueTypes DEF Requests
<1> HIDE DEF m
<1> QED
  BY <1>2, <1>3, <1>4, PrimaryMessage

(* The steps of a server's loop that answer and change nothing the manager *)
(* keeps: several requests in one read, a client that has closed, an order *)
(* to stop.                                                                *)
LEMMA PrimaryLosesOrEnds ==
  ASSUME Typed, NEW t \in ProcId,
         P!HandleCoalesced(t) \/ P!HandleClose(t) \/ P!HandleStop(t)
  PROVE  /\ P!Polling
         /\ UNCHANGED <<p_key_states, p_access_granted, p_reply, p_issued,
                        p_serving, request_counter, forwards, p_closed>>
         /\ p_token_stream_map' \in SUBSET p_token_stream_map
         /\ p_process' \in {p_process, "ended"}
         /\ p_to_client' \in [ProcId -> Answers]
         /\ p_to_server' \in [ProcId -> Requests]
<1>1. /\ p_to_server \in [ProcId -> Requests]
      /\ p_to_client \in [ProcId -> Answers]
  BY DEF Typed, StreamsTyped
<1>2. ASSUME NEW n \in Nat, n <= Len(p_to_server[t]), P!TakeRequests(t, n)
      PROVE  p_to_server' \in [ProcId -> Requests]
  BY <1>1, <1>2, QueueTypes DEF P!TakeRequests, Requests
<1>3. Len(p_to_server[t]) \in Nat
      /\ (p_to_server[t] # <<>> => 1 <= Len(p_to_server[t]))
  BY <1>1, EmptySeq, LenProperties DEF Requests
<1>4. CASE P!HandleCoalesced(t)
  <2>1. p_to_server' \in [ProcId -> Requests]
    BY <1>2, <1>3, <1>4 DEF P!HandleCoalesced
  <2>2. P!Error \in ResponseMessage
    BY DEF P!Error, ResponseMessage
  <2>3. p_to_client' \in [ProcId -> Answers]
    BY <1>1, <1>4, <2>2, QueueTypes
    DEF P!HandleCoalesced, P!Answer, P!AnswerFails, P!WriteFails, P!Deliver,
        Answers
  <2> QED
    BY <1>4, <2>1, <2>3
    DEF P!HandleCoalesced, P!server, P!manager, P!links
<1>5. CASE P!HandleClose(t)
  BY <1>1, <1>5 DEF P!HandleClose, P!manager, P!links, P!streams
<1>6. CASE P!HandleStop(t)
  <2>1. p_to_server' \in [ProcId -> Requests]
    BY <1>2, <1>3, <1>6 DEF P!HandleStop
  <2> QED
    BY <1>1, <1>6, <2>1 DEF P!HandleStop, P!manager, P!links
<1> QED
  BY <1>4, <1>5, <1>6

(* The delivery of one grant, or its failure, which drops the others.      *)
LEMMA PrimaryGrants ==
  ASSUME Typed, P!DeliverGrants
  PROVE  /\ p_serving # NoProc /\ p_access_granted # <<>>
         /\ UNCHANGED <<p_key_states, p_reply, p_token_stream_map, p_issued,
                        request_counter, p_process, forwards, p_to_server,
                        p_closed>>
         /\ p_access_granted' \in Seq(Grant)
         /\ p_serving' \in {p_serving, NoProc}
         /\ p_to_client' \in [ProcId -> Answers]
<1>1. /\ p_to_client \in [ProcId -> Answers]
      /\ p_access_granted \in Seq(Grant)
      /\ p_token_stream_map \subseteq ProcId
      /\ p_serving \in Services \cup {NoProc}
  BY DEF Typed, StreamsTyped, PrimaryTyped, ServerTyped
<1>2. p_serving # NoProc /\ p_access_granted # <<>>
  BY DEF P!DeliverGrants, P!SendGrant, P!SkipGrant, P!AbandonGrants
<1>3. /\ Tail(p_access_granted) \in Seq(Grant)
      /\ Head(p_access_granted) \in Grant
      /\ <<>> \in Seq(Grant)
  BY <1>1, <1>2, HeadTailProperties, EmptySeq
<1>4. \A g \in Grant : P!GrantMessage(g) \in ResponseMessage
  BY DEF P!GrantMessage, P!Holder, P!Success, Grant, ResponseMessage
<1>5. ASSUME NEW p \in ProcId, NEW x \in ResponseMessage, P!Deliver(p, x)
      PROVE  p_to_client' \in [ProcId -> Answers]
  BY <1>1, <1>5, QueueTypes DEF P!Deliver, Answers
<1>6. ASSUME P!NextGrant
      PROVE  /\ UNCHANGED <<p_key_states, p_reply, p_token_stream_map,
                            p_issued, request_counter, p_process, forwards,
                            p_to_server, p_closed>>
             /\ p_access_granted' = Tail(p_access_granted)
             /\ p_serving' \in {p_serving, NoProc}
  BY <1>6 DEF P!NextGrant, P!AM!TryRecv, P!links
<1>7. CASE P!SendGrant
  <2>1. p_to_client' \in [ProcId -> Answers]
    BY <1>1, <1>3, <1>4, <1>5, <1>7 DEF P!SendGrant
  <2> QED
    BY <1>2, <1>3, <1>6, <1>7, <2>1 DEF P!SendGrant
<1>8. CASE P!SkipGrant
  BY <1>1, <1>2, <1>3, <1>6, <1>8 DEF P!SkipGrant
<1>9. CASE P!AbandonGrants
  <2>1. P!Error \in ResponseMessage
        /\ p_serving.token \in ProcId \cup {PrimaryToken}
    BY <1>1, <1>2 DEF P!Error, ResponseMessage, Services
  <2>2. p_to_client' \in [ProcId -> Answers]
    BY <1>1, <1>5, <1>9, <2>1 DEF P!AbandonGrants, P!Answer
  <2> QED
    BY <1>2, <1>3, <1>9, <2>2 DEF P!AbandonGrants, P!links
<1> QED
  BY <1>7, <1>8, <1>9 DEF P!DeliverGrants

(* The same of the secondary: what it answers to a request.                *)
LEMMA SecondaryResponse ==
  ASSUME Typed, NEW m \in RequestMessage, NEW r
  PROVE  S!ResponseTo(m, r) \in ResponseMessage
<1>1. m.key \in KeyId /\ m.type # "ConnectionEstablished"
  BY DEF RequestMessage, RequestType, AccessType
<1>2. \A h : S!KnownHolder(h) => h \in ProcId
  BY DEF S!KnownHolder, Typed, SecondaryTyped, ServerTyped
<1> QED
  BY <1>1, <1>2
  DEF S!ResponseTo, S!Wait, S!Success, S!Holder, S!Error, ResponseMessage

(* handle_message at the secondary, for a client or for the primary.       *)
LEMMA SecondaryMessage ==
  ASSUME Typed, NEW t \in ProcId \cup {PrimaryToken}, NEW m \in Messages,
         m \in RequestMessage \/ t = PrimaryToken,
         S!HandleMessage(t, m)
  PROVE  /\ Goes(m, s_key_states, s_access_granted, s_reply,
                 s_key_states', s_access_granted', s_reply')
         /\ s_serving' \in {NoProc, [token |-> t, request |-> m]}
         /\ s_to_client' \in [ProcId -> Answers]
         /\ UNCHANGED <<s_token_stream_map, s_issued, s_process,
                        s_closed>>
<1>1. Goes(m, s_key_states, s_access_granted, s_reply,
           s_key_states', s_access_granted', s_reply')
  BY SecondaryCalls DEF S!HandleMessage, Typed, SecondaryTyped, ServerTyped
<1>2. s_serving' \in {NoProc, [token |-> t, request |-> m]}
  BY DEF S!HandleMessage
<1>3. s_to_client' \in [ProcId -> Answers]
  <2>1. s_to_client \in [ProcId -> Answers]
    BY DEF Typed, StreamsTyped
  <2>2. CASE UNCHANGED s_to_client
    BY <2>1, <2>2
  <2>3. CASE t # PrimaryToken /\ S!Deliver(t, S!ResponseTo(m, s_reply'))
    <3>1. t \in ProcId /\ S!ResponseTo(m, s_reply') \in ResponseMessage
      BY <2>3, SecondaryResponse
    <3> QED
      BY <2>1, <2>3, <3>1, QueueTypes DEF S!Deliver, Answers
  <2> QED
    BY <2>2, <2>3
    DEF S!HandleMessage, S!Answer, S!AnswerFails, S!WriteFails
<1>4. UNCHANGED <<s_token_stream_map, s_issued, s_process, s_closed>>
  BY DEF S!HandleMessage
<1> QED
  BY <1>1, <1>2, <1>3, <1>4

(* handle_data at the secondary, for one request of a client.              *)
LEMMA SecondaryRequest ==
  ASSUME Typed, NEW t \in ProcId, S!HandleRequest(t)
  PROVE  /\ S!Polling
         /\ \E m \in RequestMessage :
              /\ Goes(m, s_key_states, s_access_granted, s_reply,
                      s_key_states', s_access_granted', s_reply')
              /\ s_serving' \in {NoProc, [token |-> t, request |-> m]}
         /\ s_to_client' \in [ProcId -> Answers]
         /\ s_to_server' \in [ProcId -> Requests]
         /\ UNCHANGED <<s_token_stream_map, s_issued, s_process,
                        forwards, s_closed>>
<1> DEFINE m == Head(s_to_server[t])
<1>1. s_to_server \in [ProcId -> Requests]
  BY DEF Typed, StreamsTyped
<1>2. m \in RequestMessage
  <2>1. s_to_server[t] # <<>> /\ m # StopRequest
    BY SameMessages DEF S!HandleRequest
  <2> QED
    BY <1>1, <2>1, QueueTypes DEF Requests
<1>3. S!HandleMessage(t, m) /\ m \in Messages /\ S!Polling
      /\ UNCHANGED forwards
  BY <1>2 DEF S!HandleRequest, Messages
<1>4. s_to_server' \in [ProcId -> Requests]
  <2>1. s_to_server[t] # <<>>
        /\ s_to_server' = [s_to_server EXCEPT ![t] =
                             SubSeq(@, 1 + 1, Len(@))]
    BY DEF S!HandleRequest, S!TakeRequests
  <2>2. s_to_server[t] \in Requests /\ 1 <= Len(s_to_server[t])
    BY <1>1, <2>1, EmptySeq, LenProperties DEF Requests
  <2> QED
    BY <1>1, <2>1, <2>2, QueueTypes DEF Requests
<1> HIDE DEF m
<1> QED
  BY <1>2, <1>3, <1>4, SecondaryMessage

(* Its steps that change nothing the manager keeps.                        *)
LEMMA SecondaryLosesOrEnds ==
  ASSUME Typed, NEW t \in ProcId,
         S!HandleCoalesced(t) \/ S!HandleClose(t) \/ S!HandleStop(t)
  PROVE  /\ S!Polling
         /\ UNCHANGED <<s_key_states, s_access_granted, s_reply, s_issued,
                        s_serving, forwards, s_closed>>
         /\ s_token_stream_map' \in SUBSET s_token_stream_map
         /\ s_process' \in {s_process, "ended"}
         /\ s_to_client' \in [ProcId -> Answers]
         /\ s_to_server' \in [ProcId -> Requests]
<1>1. /\ s_to_server \in [ProcId -> Requests]
      /\ s_to_client \in [ProcId -> Answers]
  BY DEF Typed, StreamsTyped
<1>2. ASSUME NEW n \in Nat, n <= Len(s_to_server[t]), S!TakeRequests(t, n)
      PROVE  s_to_server' \in [ProcId -> Requests]
  BY <1>1, <1>2, QueueTypes DEF S!TakeRequests, Requests
<1>3. Len(s_to_server[t]) \in Nat
      /\ (s_to_server[t] # <<>> => 1 <= Len(s_to_server[t]))
  BY <1>1, EmptySeq, LenProperties DEF Requests
<1>4. CASE S!HandleCoalesced(t)
  <2>1. s_to_server' \in [ProcId -> Requests]
    BY <1>2, <1>3, <1>4 DEF S!HandleCoalesced
  <2>2. S!Error \in ResponseMessage
    BY DEF S!Error, ResponseMessage
  <2>3. s_to_client' \in [ProcId -> Answers]
    BY <1>1, <1>4, <2>2, QueueTypes
    DEF S!HandleCoalesced, S!Answer, S!AnswerFails, S!WriteFails, S!Deliver,
        Answers
  <2> QED
    BY <1>4, <2>1, <2>3
    DEF S!HandleCoalesced, S!server, S!manager, S!links
<1>5. CASE S!HandleClose(t)
  BY <1>1, <1>5 DEF S!HandleClose, S!manager, S!links, S!streams
<1>6. CASE S!HandleStop(t)
  <2>1. s_to_server' \in [ProcId -> Requests]
    BY <1>2, <1>3, <1>6 DEF S!HandleStop
  <2> QED
    BY <1>1, <1>6, <2>1 DEF S!HandleStop, S!manager, S!links
<1> QED
  BY <1>4, <1>5, <1>6

(* Its delivery of one grant.                                              *)
LEMMA SecondaryGrants ==
  ASSUME Typed, S!DeliverGrants
  PROVE  /\ s_serving # NoProc /\ s_access_granted # <<>>
         /\ UNCHANGED <<s_key_states, s_reply, s_token_stream_map, s_issued,
                        s_process, forwards, s_to_server,
                        s_closed>>
         /\ s_access_granted' \in Seq(Grant)
         /\ s_serving' \in {s_serving, NoProc}
         /\ s_to_client' \in [ProcId -> Answers]
<1>1. /\ s_to_client \in [ProcId -> Answers]
      /\ s_access_granted \in Seq(Grant)
      /\ s_token_stream_map \subseteq ProcId
      /\ s_serving \in Services \cup {NoProc}
  BY DEF Typed, StreamsTyped, SecondaryTyped, ServerTyped
<1>2. s_serving # NoProc /\ s_access_granted # <<>>
  BY DEF S!DeliverGrants, S!SendGrant, S!SkipGrant, S!AbandonGrants
<1>3. /\ Tail(s_access_granted) \in Seq(Grant)
      /\ Head(s_access_granted) \in Grant
      /\ <<>> \in Seq(Grant)
  BY <1>1, <1>2, HeadTailProperties, EmptySeq
<1>4. \A g \in Grant : S!GrantMessage(g) \in ResponseMessage
  BY DEF S!GrantMessage, S!Holder, S!Success, Grant, ResponseMessage
<1>5. ASSUME NEW p \in ProcId, NEW x \in ResponseMessage, S!Deliver(p, x)
      PROVE  s_to_client' \in [ProcId -> Answers]
  BY <1>1, <1>5, QueueTypes DEF S!Deliver, Answers
<1>6. ASSUME S!NextGrant
      PROVE  /\ UNCHANGED <<s_key_states, s_reply, s_token_stream_map,
                            s_issued, s_process, forwards,
                            s_to_server, s_closed>>
             /\ s_access_granted' = Tail(s_access_granted)
             /\ s_serving' \in {s_serving, NoProc}
  BY <1>6 DEF S!NextGrant, S!AM!TryRecv, S!links
<1>7. CASE S!SendGrant
  <2>1. s_to_client' \in [ProcId -> Answers]
    BY <1>1, <1>3, <1>4, <1>5, <1>7 DEF S!SendGrant
  <2> QED
    BY <1>2, <1>3, <1>6, <1>7, <2>1 DEF S!SendGrant
<1>8. CASE S!SkipGrant
  BY <1>1, <1>2, <1>3, <1>6, <1>8 DEF S!SkipGrant
<1>9. CASE S!AbandonGrants
  <2>1. S!Error \in ResponseMessage
        /\ s_serving.token \in ProcId \cup {PrimaryToken}
    BY <1>1, <1>2 DEF S!Error, ResponseMessage, Services
  <2>2. s_to_client' \in [ProcId -> Answers]
    BY <1>1, <1>5, <1>9, <2>1 DEF S!AbandonGrants, S!Answer
  <2> QED
    BY <1>2, <1>3, <1>9, <2>2 DEF S!AbandonGrants, S!links
<1> QED
  BY <1>7, <1>8, <1>9 DEF S!DeliverGrants

(* handle_data at the secondary, for one message of the primary.           *)
LEMMA SecondaryForwarded ==
  ASSUME Typed, S!HandleForwarded
  PROVE  /\ forwards # <<>> /\ forwards' = Tail(forwards)
         /\ Head(forwards) \in Messages
         /\ Goes(Head(forwards), s_key_states, s_access_granted, s_reply,
                 s_key_states', s_access_granted', s_reply')
         /\ s_serving' \in {NoProc, [token |-> PrimaryToken,
                                     request |-> Head(forwards)]}
         /\ s_to_client' \in [ProcId -> Answers]
         /\ UNCHANGED <<s_token_stream_map, s_issued, s_process, s_closed,
                        s_to_server>>
<1>1. forwards # <<>> /\ forwards' = Tail(forwards)
      /\ S!HandleMessage(PrimaryToken, Head(forwards))
      /\ UNCHANGED s_to_server
  BY DEF S!HandleForwarded
<1>2. Head(forwards) \in Messages
  BY <1>1, HeadTailProperties DEF Typed, LinkTyped
<1> QED
  BY <1>1, <1>2, SecondaryMessage

(* handle_connection, and the note of it that goes to the secondary.       *)
LEMMA PrimaryConnects ==
  ASSUME Typed, NEW p \in ProcId, P!HandleConnection(p)
  PROVE  /\ P!Polling
         /\ UNCHANGED <<p_key_states, p_access_granted, p_reply, p_serving,
                        request_counter>>
         /\ p_token_stream_map' = p_token_stream_map \cup {p}
         /\ p_issued' = p_issued \cup {p}
         /\ p_process' \in {p_process, "ended"}
         /\ \/ forwards' = Append(forwards, ConnectionEstablished(p))
            \/ UNCHANGED forwards
BY SameMessages
DEF P!HandleConnection, P!Forward, P!ForwardFails, P!manager

(* The secondary has nobody to tell.                                       *)
LEMMA SecondaryConnects ==
  ASSUME Typed, NEW p \in ProcId, S!HandleConnection(p)
  PROVE  /\ S!Polling /\ p \notin s_issued
         /\ UNCHANGED <<s_key_states, s_access_granted, s_reply, s_serving,
                        s_process, forwards>>
         /\ s_token_stream_map' = s_token_stream_map \cup {p}
         /\ s_issued' = s_issued \cup {p}
BY DEF S!HandleConnection, S!Forward, S!ForwardFails, S!manager

(* The end of handle_request at the primary: the request goes to the       *)
(* secondary, if that is there.                                            *)
LEMMA PrimaryFinishes ==
  ASSUME Typed, P!FinishRequest
  PROVE  /\ p_serving # NoProc /\ p_serving.request \in Messages
         /\ p_serving' = NoProc
         /\ UNCHANGED <<p_key_states, p_access_granted, p_reply,
                        p_token_stream_map, p_issued, p_to_server, p_closed>>
         /\ IF s_process = "running"
            THEN forwards' = Append(forwards, p_serving.request)
            ELSE UNCHANGED forwards
         /\ p_process' \in {"running", "ended"}
         /\ EndsBetweenRequests'
         /\ p_to_client' \in [ProcId -> Answers]
<1>1. /\ p_serving # NoProc
      /\ p_serving.token \in ProcId \cup {PrimaryToken}
      /\ p_serving.request \in Messages
  BY DEF P!FinishRequest, Typed, PrimaryTyped, ServerTyped, Services
<1>2. p_process = "running" /\ request_counter < ExitAfter
      /\ request_counter \in Nat /\ ExitAfter \in Nat
  BY <1>1, ExitAfterAssumption
  DEF Typed, EndsBetweenRequests, PrimaryTyped, ServerTyped
<1>3. /\ p_serving' = NoProc
      /\ UNCHANGED <<p_key_states, p_access_granted, p_reply,
                     p_token_stream_map, p_issued, p_to_server, p_closed>>
  BY DEF P!FinishRequest, P!manager
<1>4. p_to_client' \in [ProcId -> Answers]
  <2>1. p_to_client \in [ProcId -> Answers]
    BY DEF Typed, StreamsTyped
  <2>2. P!Error \in ResponseMessage
    BY DEF P!Error, ResponseMessage
  <2>3. CASE UNCHANGED p_to_client
    BY <2>1, <2>3
  <2>4. CASE P!Answer(p_serving.token, P!Error)
    BY <1>1, <2>1, <2>2, <2>4, QueueTypes DEF P!Answer, P!Deliver, Answers
  <2> QED
    BY <2>3, <2>4 DEF P!FinishRequest
<1>5. CASE P!Forward(p_serving.request)
           /\ request_counter' = request_counter + 1
           /\ p_process' = IF request_counter' = ExitAfter THEN "ended"
                           ELSE p_process
  <2>1. IF s_process = "running"
        THEN forwards' = Append(forwards, p_serving.request)
        ELSE UNCHANGED forwards
    BY <1>5 DEF P!Forward
  <2>2. p_process' \in {"running", "ended"} /\ EndsBetweenRequests'
    BY <1>2, <1>3, <1>5 DEF EndsBetweenRequests
  <2> QED
    BY <1>1, <1>3, <1>4, <2>1, <2>2
<1>6. CASE P!ForwardFails /\ UNCHANGED <<request_counter, p_process>>
  <2>1. s_process # "running" /\ UNCHANGED forwards
    BY <1>6 DEF P!ForwardFails
  <2>2. p_process' \in {"running", "ended"} /\ EndsBetweenRequests'
    BY <1>2, <1>6 DEF EndsBetweenRequests
  <2> QED
    BY <1>1, <1>3, <1>4, <2>1, <2>2
<1> QED
  BY <1>5, <1>6 DEF P!FinishRequest

----------------------------------------------------------------------------
(* STEPS OF THE CLIENTS *)

(* The calls of a client at either server write, and read, messages only.  *)
LEMMA CallSteps ==
  ASSUME Typed, NEW c \in ClientId, Started(c), NEW t \in RequestType,
         NEW k \in KeyId,
         \/ /\ AtP!BeginCall(c, Token(c), proc_id[c], "sync", t, k)
            /\ UNCHANGED s_streams
         \/ /\ AtS!BeginCall(c, Token(c), proc_id[c], "sync", t, k)
            /\ UNCHANGED p_streams
  PROVE  StreamsTyped' /\ CallsTyped'
<1> DEFINE m == [proc |-> proc_id[c], type |-> t, key |-> k]
           d == [kind |-> "sync", type |-> t, key |-> k, awaits |-> NoKey]
<1>1. Token(c) \in ProcId /\ proc_id[c] \in ProcId
  BY DEF Typed, OwnersTyped, Token, Started, Connection
<1>2. m \in RequestMessage /\ d \in AtP!Call
  BY <1>1 DEF RequestMessage, AtP!Call, AtP!CallKind, AtP!RequestType,
     RequestType, AtP!AccessType, AccessType
<1>3. /\ p_to_server \in [ProcId -> Requests]
      /\ s_to_server \in [ProcId -> Requests]
  BY DEF Typed, StreamsTyped
<1>4. \A x \in RequestMessage :
        /\ [p_to_server EXCEPT ![Token(c)] = Append(@, x)]
             \in [ProcId -> Requests]
        /\ [s_to_server EXCEPT ![Token(c)] = Append(@, x)]
             \in [ProcId -> Requests]
  BY <1>1, <1>3, QueueTypes DEF Requests
<1> HIDE DEF m, d
<1>5. StreamsTyped'
  <2>1. \/ /\ \E x \in RequestMessage :
                p_to_server' = [p_to_server EXCEPT ![Token(c)] = Append(@, x)]
           /\ UNCHANGED <<p_to_client, p_closed, s_to_server, s_to_client,
                          s_closed>>
        \/ /\ \E x \in RequestMessage :
                s_to_server' = [s_to_server EXCEPT ![Token(c)] = Append(@, x)]
           /\ UNCHANGED <<s_to_client, s_closed, p_to_server, p_to_client,
                          p_closed>>
    BY <1>2
    DEF AtP!BeginCall, AtS!BeginCall, AtP!SendRequest, AtS!SendRequest,
        p_streams, s_streams, m
  <2> QED
    BY <1>4, <2>1 DEF Typed, StreamsTyped
<1>6. CallsTyped'
  <2>1. /\ call' = [call EXCEPT ![c] = d]
        /\ held' = [held EXCEPT ![c] = IF t = "Release"
                                       THEN {a \in @ : a.key # k} ELSE @]
        /\ UNCHANGED asked
    BY DEF AtP!BeginCall, AtS!BeginCall, d
  <2> QED
    BY <1>2, <2>1 DEF Typed, CallsTyped
<1> QED
  BY <1>5, <1>6

(* What a client reads is a message; the call it is in goes on or returns. *)
LEMMA ReadSteps ==
  ASSUME Typed, NEW c \in ClientId, ReadMessage(c)
  PROVE  StreamsTyped' /\ CallsTyped'
<1>1. Token(c) \in ProcId
  BY DEF ReadMessage, Typed, OwnersTyped, Token, Started, Connection
<1>2. /\ p_to_client \in [ProcId -> Answers]
      /\ s_to_client \in [ProcId -> Answers]
      /\ call \in [ClientId -> AtP!Call \cup {NoCall}]
  BY DEF Typed, StreamsTyped, CallsTyped
<1>3. /\ p_to_client[Token(c)] # <<>> =>
           /\ Head(p_to_client[Token(c)]) \in ResponseMessage
           /\ [p_to_client EXCEPT ![Token(c)] = Tail(@)]
                \in [ProcId -> Answers]
      /\ s_to_client[Token(c)] # <<>> =>
           /\ Head(s_to_client[Token(c)]) \in ResponseMessage
           /\ [s_to_client EXCEPT ![Token(c)] = Tail(@)]
                \in [ProcId -> Answers]
  BY <1>1, <1>2, QueueTypes DEF Answers
<1>4. \A x \in ResponseMessage : x.type # "Error" => x.key \in KeyId
  BY DEF ResponseMessage
<1>5. \/ /\ AtP!Receive(Token(c))
         /\ UNCHANGED <<p_to_server, p_closed, s_streams>>
      \/ /\ AtS!Receive(Token(c))
         /\ UNCHANGED <<s_to_server, s_closed, p_streams>>
  BY DEF ReadMessage, AtP!CallGranted, AtP!CallWaits, AtP!CallReturns,
     AtS!CallGranted, AtS!CallWaits, AtS!CallReturns
<1>6. StreamsTyped'
  BY <1>3, <1>5
  DEF AtP!Receive, AtS!Receive, Typed, StreamsTyped, p_streams, s_streams
<1>7. call[c] \in AtP!Call
  BY <1>2
  DEF ReadMessage, AtP!CallGranted, AtP!CallWaits, AtP!CallReturns,
      AtS!CallGranted, AtS!CallWaits, AtS!CallReturns, AtP!InCall, AtS!InCall
<1>8. call[c].key \in KeyId
  BY <1>7 DEF AtP!Call
<1>9. CASE \/ AtP!CallGranted(c, Token(c)) \/ AtS!CallGranted(c, Token(c))
  <2>1. PICK x \in ResponseMessage :
          /\ x.type \in {"Holder", "Success"}
          /\ held' = [held EXCEPT ![c] = @ \cup
                        {[key |-> IF call[c].kind = "await" THEN x.key
                                  ELSE call[c].key,
                          type |-> call[c].type]}]
    <3>1. CASE AtP!CallGranted(c, Token(c))
      BY <1>3, <3>1
      DEF AtP!CallGranted, AtP!Receive, AtP!Front, AtP!Grants, AtP!Acquire
    <3>2. CASE AtS!CallGranted(c, Token(c))
      BY <1>3, <3>2
      DEF AtS!CallGranted, AtS!Receive, AtS!Front, AtS!Grants, AtS!Acquire
    <3> QED
      BY <1>9, <3>1, <3>2
  <2>2. call[c].type \in AtP!AccessType
    BY <1>9
    DEF AtP!CallGranted, AtS!CallGranted, AtP!ReadsAccess, AtS!ReadsAccess,
        AtP!AccessType, AtS!AccessType
  <2>3. [key |-> IF call[c].kind = "await" THEN x.key ELSE call[c].key,
         type |-> call[c].type] \in AtP!Access
    BY <1>4, <1>8, <2>1, <2>2 DEF AtP!Access
  <2>4. held' \in [ClientId -> SUBSET AtP!Access]
    BY <2>1, <2>3 DEF Typed, CallsTyped
  <2>5. call' = [call EXCEPT ![c] = NoCall]
        /\ asked' = [asked EXCEPT ![c] = NoCall]
    BY <1>9 DEF AtP!CallGranted, AtS!CallGranted, AtP!Return, AtS!Return
  <2> QED
    BY <1>6, <2>4, <2>5 DEF Typed, CallsTyped
<1>10. CASE \/ AtP!CallWaits(c, Token(c)) \/ AtS!CallWaits(c, Token(c))
  <2>1. PICK x \in ResponseMessage :
          /\ x.type = "Wait"
          /\ call' = [call EXCEPT ![c].awaits = x.key]
    <3>1. CASE AtP!CallWaits(c, Token(c))
      BY <1>3, <3>1 DEF AtP!CallWaits, AtP!Receive, AtP!Front
    <3>2. CASE AtS!CallWaits(c, Token(c))
      BY <1>3, <3>2 DEF AtS!CallWaits, AtS!Receive, AtS!Front
    <3> QED
      BY <1>10, <3>1, <3>2
  <2>2. [call[c] EXCEPT !.awaits = x.key] \in AtP!Call
    BY <1>4, <1>7, <2>1 DEF AtP!Call
  <2>3. UNCHANGED <<asked, held>>
    BY <1>10 DEF AtP!CallWaits, AtS!CallWaits
  <2> QED
    BY <1>2, <1>6, <2>1, <2>2, <2>3 DEF Typed, CallsTyped
<1>11. CASE \/ AtP!CallReturns(c, Token(c)) \/ AtS!CallReturns(c, Token(c))
  <2>1. /\ call' = [call EXCEPT ![c] = NoCall]
        /\ asked' = [asked EXCEPT ![c] = IF call[c].kind = "await"
                                         THEN NoCall ELSE @]
        /\ UNCHANGED held
    BY <1>11 DEF AtP!CallReturns, AtS!CallReturns, AtP!Return, AtS!Return
  <2> QED
    BY <1>6, <2>1 DEF Typed, CallsTyped
<1> QED
  BY <1>9, <1>10, <1>11 DEF ReadMessage

----------------------------------------------------------------------------
(* THE INVARIANT *)

(* Each recorded image of the primary's map is what the forwarded message  *)
(* makes of the one before, the primary's map is the last of them, or what *)
(* the request it is serving has made of it, and as long as the secondary  *)
(* has carried out nothing else its map is the first.                      *)
Replicates ==
  /\ \A i \in 1 .. Len(forwards) :
       images[i + 1] = EffectOf(images[i], forwards[i])
  /\ p_key_states = IF p_serving = NoProc THEN Last(images)
                    ELSE EffectOf(Last(images), p_serving.request)
  /\ (s_issued = {} \/ p_process = "running" \/ forwards # <<>>)
       => s_key_states = images[1]

Inv == Typed /\ (~ diverged => Replicates)

(* Typed, put together again after a step.                                 *)
LEMMA LinkSame ==
  ASSUME Typed, UNCHANGED <<forwards, images>>
  PROVE  LinkTyped'
BY DEF Typed, LinkTyped

(* So the primary's part, while it does nothing.                           *)
LEMMA PrimarySame ==
  ASSUME Typed, UNCHANGED primary
  PROVE  PrimaryTyped' /\ EndsBetweenRequests'
BY DEF Typed, PrimaryTyped, ServerTyped, EndsBetweenRequests, primary

(* So the secondary's.                                                     *)
LEMMA SecondarySame ==
  ASSUME Typed, UNCHANGED secondary
  PROVE  SecondaryTyped'
BY DEF Typed, SecondaryTyped, ServerTyped, secondary

(* So the connections and the clients.                                     *)
LEMMA StreamsSame ==
  ASSUME Typed
  PROVE  /\ UNCHANGED <<p_streams, s_streams>> => StreamsTyped'
         /\ UNCHANGED calls => CallsTyped'
         /\ UNCHANGED <<registry_stream, proc_id, is_primary>> => OwnersTyped'
BY DEF Typed, StreamsTyped, p_streams, s_streams, CallsTyped, calls,
       OwnersTyped, Started

(* The copy stays what it is while nothing of it is touched.               *)
LEMMA ReplicatesSame ==
  ASSUME Replicates,
         UNCHANGED <<forwards, images, p_key_states, p_serving, p_process,
                     s_key_states>>,
         s_issued \subseteq s_issued'
  PROVE  Replicates'
BY DEF Replicates, Last

(* A message is forwarded, and the image of the primary's map that goes    *)
(* with it is recorded.                                                    *)
LEMMA ForwardKeeps ==
  ASSUME Typed, Replicates, NEW m \in Messages,
         p_key_states = EffectOf(Last(images), m),
         p_process = "running", p_serving' = NoProc,
         forwards' = Append(forwards, m),
         images' = Append(images, p_key_states),
         UNCHANGED <<p_key_states, s_key_states>>
  PROVE  Replicates'
<1> DEFINE n == Len(forwards)
<1>1. /\ forwards \in Seq(Messages) /\ images \in Seq(KeyMaps)
      /\ n \in Nat /\ Len(images) = 1 + n /\ p_key_states \in KeyMaps
  BY LenProperties DEF Typed, LinkTyped, PrimaryTyped, ServerTyped
<1>2. /\ Len(forwards') = n + 1 /\ Len(images') = n + 2
      /\ \A i \in 1 .. n : forwards'[i] = forwards[i]
      /\ forwards'[n + 1] = m
      /\ \A i \in 1 .. n + 1 : images'[i] = images[i]
      /\ images'[n + 2] = p_key_states
  BY <1>1, AppendProperties
<1>3. Last(images') = p_key_states
  BY <1>1, <1>2 DEF Last
<1>4. ASSUME NEW i \in 1 .. n + 1
      PROVE  images'[i + 1] = EffectOf(images'[i], forwards'[i])
  <2>1. CASE i = n + 1
    BY <1>1, <1>2, <2>1 DEF Last
  <2>2. CASE i # n + 1
    <3>1. i \in 1 .. n /\ i + 1 \in 1 .. n + 1
      BY <1>1, <2>2
    <3>2. images[i + 1] = EffectOf(images[i], forwards[i])
      BY <3>1 DEF Replicates
    <3> QED
      BY <1>1, <1>2, <3>1, <3>2
  <2> QED
    BY <2>1, <2>2
<1>5. s_key_states' = images'[1]
  BY <1>1, <1>2 DEF Replicates
<1> QED
  BY <1>2, <1>3, <1>4, <1>5 DEF Replicates

(* The link's variables stay typed when a message is forwarded.            *)
LEMMA ForwardTyped ==
  ASSUME Typed, NEW m \in Messages, forwards' = Append(forwards, m),
         NEW ks \in KeyMaps,
         images' = IF forwards' = forwards THEN images ELSE Append(images, ks)
  PROVE  LinkTyped' /\ images' = Append(images, ks)
<1>1. /\ forwards \in Seq(Messages) /\ images \in Seq(KeyMaps)
      /\ Len(forwards) \in Nat /\ Len(images) = 1 + Len(forwards)
  BY LenProperties DEF Typed, LinkTyped
<1>2. forwards' \in Seq(Messages) /\ Len(forwards') = Len(forwards) + 1
  BY <1>1, AppendProperties
<1>3. images' = Append(images, ks)
  BY <1>1, <1>2
<1> QED
  BY <1>1, <1>2, <1>3, AppendProperties DEF LinkTyped

(* Starting at the primary: the secondary is told of it.                   *)
LEMMA StartAtPrimaryKeeps ==
  ASSUME Inv, NEW c \in ClientId, StartAtPrimary(c)
  PROVE  Inv'
<1> DEFINE id == NextId(p_issued)
           m == ConnectionEstablished(id)
<1>0. Typed
  BY DEF Inv
<1>1. /\ id \in ProcId /\ P!HandleConnection(id)
      /\ proc_id' = [proc_id EXCEPT ![c] = id]
      /\ registry_stream' = [registry_stream EXCEPT
                               ![c] = [server |-> "primary", token |-> id]]
      /\ is_primary' = [is_primary EXCEPT ![c] = TRUE]
      /\ images' = IF forwards' = forwards THEN images
                   ELSE Append(images, p_key_states)
      /\ UNCHANGED <<secondary, p_streams, s_streams, calls, diverged>>
  BY DEF StartAtPrimary
<1> HIDE DEF id
<1>2. /\ P!Polling
      /\ UNCHANGED <<p_key_states, p_access_granted, p_reply, p_serving,
                     request_counter>>
      /\ p_token_stream_map' = p_token_stream_map \cup {id}
      /\ p_issued' = p_issued \cup {id}
      /\ p_process' \in {p_process, "ended"}
      /\ forwards' = Append(forwards, m) \/ UNCHANGED forwards
  BY <1>0, <1>1, PrimaryConnects
<1>3. p_process = "running" /\ p_serving = NoProc
  BY <1>2 DEF P!Polling
<1>4. PrimaryTyped'
  BY <1>0, <1>1, <1>2 DEF Typed, PrimaryTyped, ServerTyped
<1>5. EndsBetweenRequests'
  BY <1>0, <1>2, <1>3, ExitAfterAssumption DEF Typed, EndsBetweenRequests
<1>6. OwnersTyped'
  <2>1. [server |-> "primary", token |-> id] \in Connection
    BY <1>1 DEF Connection
  <2> QED
    BY <1>0, <1>1, <2>1 DEF Typed, OwnersTyped, Started
<1>7. m \in Messages /\ m \notin RequestMessage /\ p_key_states \in KeyMaps
  BY <1>0, <1>1
  DEF Messages, Notes, ConnectionEstablished, RequestMessage, RequestType,
      AccessType, Typed, PrimaryTyped, ServerTyped
<1> HIDE DEF m
<1>8. LinkTyped'
  <2>1. CASE forwards' = Append(forwards, m)
    BY <1>0, <1>1, <1>7, <2>1, ForwardTyped
  <2>2. CASE UNCHANGED forwards
    BY <1>0, <1>1, <2>2, LinkSame
  <2> QED
    BY <1>2, <2>1, <2>2
<1>9. Typed'
  BY <1>0, <1>1, <1>4, <1>5, <1>6, <1>8, SecondarySame, StreamsSame DEF Typed
<1>10. ASSUME ~ diverged' PROVE Replicates'
  <2>1. Replicates /\ UNCHANGED <<s_key_states, s_issued>>
    BY <1>1, <1>10 DEF Inv, secondary
  <2>2. CASE forwards' = Append(forwards, m)
    <3>1. p_key_states = EffectOf(Last(images), m)
      BY <1>3, <1>7, <2>1 DEF Replicates, EffectOf
    <3>2. images' = Append(images, p_key_states)
      BY <1>0, <1>1, <1>7, <2>2, ForwardTyped
    <3> QED
      BY <1>0, <1>2, <1>3, <1>7, <2>1, <2>2, <3>1, <3>2, ForwardKeeps
  <2>3. CASE UNCHANGED forwards
    BY <1>1, <1>2, <1>3, <2>1, <2>3 DEF Replicates, Last
  <2> QED
    BY <1>2, <2>2, <2>3
<1> QED
  BY <1>9, <1>10 DEF Inv

(* Starting at the secondary, or switching to it, puts it in charge of     *)
(* another connection, and touches its map in no way.                      *)
LEMMA StartAtSecondaryKeeps ==
  ASSUME Inv, NEW c \in ClientId, StartAtSecondary(c)
  PROVE  Inv'
<1> DEFINE id == NextId(s_issued)
<1>0. Typed
  BY DEF Inv
<1>1. /\ id \in ProcId /\ S!HandleConnection(id)
      /\ proc_id' = [proc_id EXCEPT ![c] = id]
      /\ registry_stream' = [registry_stream EXCEPT
                               ![c] = [server |-> "secondary", token |-> id]]
      /\ UNCHANGED <<primary, p_streams, s_streams, calls, is_primary,
                     images, diverged>>
  BY DEF StartAtSecondary, history
<1> HIDE DEF id
<1>2. /\ UNCHANGED <<s_key_states, s_access_granted, s_reply, s_serving,
                     s_process, forwards>>
      /\ s_token_stream_map' = s_token_stream_map \cup {id}
      /\ s_issued' = s_issued \cup {id}
  BY <1>0, <1>1, SecondaryConnects
<1>3. SecondaryTyped'
  BY <1>0, <1>1, <1>2 DEF Typed, SecondaryTyped, ServerTyped
<1>4. OwnersTyped'
  <2>1. [server |-> "secondary", token |-> id] \in Connection
    BY <1>1 DEF Connection
  <2> QED
    BY <1>0, <1>1, <2>1 DEF Typed, OwnersTyped, Started
<1>5. Typed'
  BY <1>0, <1>1, <1>2, <1>3, <1>4, PrimarySame, StreamsSame, LinkSame
  DEF Typed
<1> QED
  BY <1>1, <1>2, <1>5, ReplicatesSame DEF Inv, primary

(* A client that switches comes to the secondary as one that starts there. *)
LEMMA SwitchKeeps ==
  ASSUME Inv, NEW c \in ClientId, SwitchToSecondary(c)
  PROVE  Inv'
<1> DEFINE id == NextId(s_issued)
<1>0. Typed
  BY DEF Inv
<1>1. /\ id \in ProcId /\ S!HandleConnection(id)
      /\ AtP!InCall(c)
      /\ s_to_server' = [s_to_server EXCEPT ![id] = <<ResentRequest(c)>>]
      /\ \/ /\ Started(c) /\ AtP!Close(Token(c))
            /\ UNCHANGED <<s_to_client, s_closed>>
         \/ /\ Started(c) /\ s_closed' = s_closed \cup {Token(c)}
            /\ UNCHANGED <<p_streams, s_to_client>>
      /\ call' = [call EXCEPT ![c].kind = "resent"]
      /\ registry_stream' = [registry_stream EXCEPT
                               ![c] = [server |-> "secondary", token |-> id]]
      /\ UNCHANGED <<primary, asked, held, proc_id, is_primary,
                     images, diverged>>
  BY DEF SwitchToSecondary, Fails, OnPrimary, OnSecondary
<1> HIDE DEF id
<1>2. /\ UNCHANGED <<s_key_states, s_access_granted, s_reply, s_serving,
                     s_process, forwards>>
      /\ s_token_stream_map' = s_token_stream_map \cup {id}
      /\ s_issued' = s_issued \cup {id}
  BY <1>0, <1>1, SecondaryConnects
<1>3. SecondaryTyped'
  BY <1>0, <1>1, <1>2 DEF Typed, SecondaryTyped, ServerTyped
<1>4. OwnersTyped'
  <2>1. [server |-> "secondary", token |-> id] \in Connection
    BY <1>1 DEF Connection
  <2> QED
    BY <1>0, <1>1, <2>1 DEF Typed, OwnersTyped, Started
<1>5. call[c] \in AtP!Call /\ proc_id[c] \in ProcId /\ Token(c) \in ProcId
  BY <1>0, <1>1
  DEF Typed, CallsTyped, OwnersTyped, AtP!InCall, Started, Token, Connection
<1>6. ResentRequest(c) \in RequestMessage
  BY <1>5 DEF ResentRequest, RequestMessage, AtP!Call, AtP!RequestType,
     RequestType, AtP!AccessType, AccessType
<1>7. CallsTyped'
  <2>1. [call[c] EXCEPT !.kind = "resent"] \in AtP!Call
    BY <1>5 DEF AtP!Call, AtP!CallKind
  <2> QED
    BY <1>0, <1>1, <2>1 DEF Typed, CallsTyped
<1>8. StreamsTyped'
  <2>1. /\ p_to_client \in [ProcId -> Answers]
        /\ s_to_server \in [ProcId -> Requests]
    BY <1>0 DEF Typed, StreamsTyped
  <2>2. s_to_server' \in [ProcId -> Requests]
    BY <1>1, <1>6, <2>1, QueueTypes DEF Requests
  <2>3. [p_to_client EXCEPT ![Token(c)] = <<>>] \in [ProcId -> Answers]
    BY <1>5, <2>1, QueueTypes DEF Answers
  <2> QED
    BY <1>0, <1>1, <1>5, <2>2, <2>3
    DEF Typed, StreamsTyped, AtP!Close, p_streams
<1>9. Typed'
  BY <1>0, <1>1, <1>2, <1>3, <1>4, <1>7, <1>8, PrimarySame, LinkSame
  DEF Typed
<1> QED
  BY <1>1, <1>2, <1>9, ReplicatesSame DEF Inv, primary

(* The steps of a client that leave both servers alone.                    *)
LEMMA ClientKeeps ==
  ASSUME Inv, NEW c \in ClientId,
         \/ \E t \in RequestType, k \in KeyId : MakeCall(c, t, k)
         \/ ReadMessage(c) \/ GiveUp(c) \/ Spin(c) \/ Stop(c)
  PROVE  Inv'
<1>0. Typed
  BY DEF Inv
<1>1. UNCHANGED <<primary, secondary, forwards, registry_stream, proc_id,
                  is_primary, images, diverged>>
  BY DEF MakeCall, ReadMessage, GiveUp, Spin, Stop, owners, history
<1>2. StreamsTyped' /\ CallsTyped'
  <2>1. ASSUME NEW t \in RequestType, NEW k \in KeyId, MakeCall(c, t, k)
        PROVE  StreamsTyped' /\ CallsTyped'
    BY <1>0, <2>1, CallSteps DEF MakeCall
  <2>2. CASE ReadMessage(c)
    BY <1>0, <2>2, ReadSteps
  <2>3. CASE GiveUp(c)
    <3>1. /\ call' = [call EXCEPT ![c] = NoCall]
          /\ UNCHANGED <<asked, held, p_streams, s_streams>>
      BY <2>3 DEF GiveUp, AtP!Return
    <3> QED
      BY <1>0, <3>1, StreamsSame DEF Typed, CallsTyped
  <2>4. CASE Spin(c)
    BY <1>0, <2>4, StreamsSame DEF Spin
  <2>5. CASE Stop(c)
    <3>1. /\ Token(c) \in ProcId
          /\ p_to_server \in [ProcId -> Requests]
          /\ s_to_server \in [ProcId -> Requests]
      BY <1>0, <2>5
      DEF Stop, Typed, OwnersTyped, Token, Started, Connection, StreamsTyped
    <3>2. /\ [p_to_server EXCEPT ![Token(c)] = Append(@, StopRequest)]
               \in [ProcId -> Requests]
          /\ [s_to_server EXCEPT ![Token(c)] = Append(@, StopRequest)]
               \in [ProcId -> Requests]
      BY <3>1, QueueTypes DEF Requests
    <3> QED
      BY <1>0, <2>5, <3>2, SameMessages
      DEF Stop, AtP!SendStop, AtS!SendStop, AtP!SendRequest, AtS!SendRequest,
          AtP!client, AtS!client, p_streams, s_streams, Typed, StreamsTyped,
          CallsTyped
  <2> QED
    BY <2>1, <2>2, <2>3, <2>4, <2>5
<1>3. Typed'
  BY <1>0, <1>1, <1>2, PrimarySame, SecondarySame, StreamsSame, LinkSame
  DEF Typed
<1> QED
  BY <1>1, <1>3, ReplicatesSame DEF Inv, primary, secondary

----------------------------------------------------------------------------
(* STEPS OF THE SERVERS KEEP THE INVARIANT *)

(* One pass of the primary's loop. What it keeps from the secondary is     *)
(* what Unmirrored says.                                                   *)
LEMMA PrimaryRunsKeeps ==
  ASSUME Inv, PrimaryRuns
  PROVE  Inv'
<1>0. Typed
  BY DEF Inv
<1>1. /\ images' = IF forwards' = forwards THEN images
                   ELSE Append(images, p_key_states')
      /\ diverged' = (diverged \/ Unmirrored)
      /\ UNCHANGED <<secondary, s_streams, calls, owners>>
  BY DEF PrimaryRuns
<1>2. UNCHANGED <<s_key_states, s_issued, s_process, registry_stream,
                  proc_id, is_primary>>
      /\ SecondaryTyped' /\ CallsTyped' /\ OwnersTyped'
  BY <1>0, <1>1, SecondarySame, StreamsSame DEF secondary, owners
<1>3. ASSUME ~ diverged' PROVE Replicates /\ ~ Unmirrored
  BY <1>1, <1>3 DEF Inv
<1>4. ASSUME PrimaryTyped', EndsBetweenRequests', LinkTyped',
             p_to_server' \in [ProcId -> Requests],
             p_to_client' \in [ProcId -> Answers],
             p_closed' = p_closed,
             ~ diverged' => Replicates'
      PROVE  Inv'
  <2>1. StreamsTyped'
    BY <1>0, <1>1, <1>4 DEF Typed, StreamsTyped, s_streams
  <2> QED
    BY <1>2, <1>4, <2>1 DEF Inv, Typed
<1>5. ASSUME NEW t \in ProcId, P!HandleRequest(t)
      PROVE  Inv'
  <2>1. P!Polling
    BY <1>0, <1>5, PrimaryRequest
  <2>2. p_process = "running" /\ p_serving = NoProc
    BY <2>1 DEF P!Polling
  <2>3. PICK m \in RequestMessage :
          /\ Goes(m, p_key_states, p_access_granted, p_reply,
                  p_key_states', p_access_granted', p_reply')
          /\ p_serving' \in {NoProc, [token |-> t, request |-> m]}
    BY <1>0, <1>5, PrimaryRequest
  <2>4. /\ p_to_client' \in [ProcId -> Answers]
        /\ p_to_server' \in [ProcId -> Requests]
        /\ UNCHANGED <<p_token_stream_map, p_issued, request_counter,
                       p_process, forwards, p_closed, images>>
    BY <1>0, <1>1, <1>5, PrimaryRequest
  <2>5. /\ p_key_states' \in KeyMaps /\ p_access_granted' \in Seq(Grant)
        /\ p_reply' \in Replies
    BY <1>0, <2>3, GoesType DEF Typed, PrimaryTyped, ServerTyped
  <2>6. [token |-> t, request |-> m] \in Services
    BY DEF Services, Messages
  <2>7. PrimaryTyped'
    BY <1>0, <2>3, <2>4, <2>5, <2>6 DEF Typed, PrimaryTyped, ServerTyped
  <2>8. EndsBetweenRequests' /\ LinkTyped'
    BY <1>0, <2>2, <2>4, LinkSame DEF Typed, EndsBetweenRequests
  <2>9. ASSUME ~ diverged' PROVE Replicates'
    <3>1. p_key_states = Last(images)
          /\ p_key_states' = EffectOf(p_key_states, m)
      BY <1>3, <2>2, <2>3, <2>9 DEF Replicates, Goes
    <3>2. p_key_states' = IF p_serving' = NoProc THEN Last(images)
                          ELSE EffectOf(Last(images), p_serving'.request)
      <4>1. CASE p_serving' = NoProc
        BY <1>3, <2>2, <2>9, <3>1, <4>1 DEF Unmirrored
      <4>2. CASE p_serving' # NoProc
        BY <2>3, <3>1, <4>2
      <4> QED
        BY <4>1, <4>2
    <3> QED
      BY <1>2, <1>3, <2>4, <2>9, <3>2 DEF Replicates, Last
  <2> QED
    BY <1>4, <2>4, <2>7, <2>8, <2>9
<1>6. ASSUME NEW t \in ProcId,
             P!HandleCoalesced(t) \/ P!HandleClose(t) \/ P!HandleStop(t)
      PROVE  Inv'
  <2>1. /\ P!Polling
        /\ UNCHANGED <<p_key_states, p_access_granted, p_reply, p_issued,
                       p_serving, request_counter, forwards, p_closed>>
        /\ p_token_stream_map' \in SUBSET p_token_stream_map
        /\ p_process' \in {p_process, "ended"}
        /\ p_to_client' \in [ProcId -> Answers]
        /\ p_to_server' \in [ProcId -> Requests]
    BY <1>0, <1>6, PrimaryLosesOrEnds
  <2>2. p_process = "running" /\ p_serving = NoProc
    BY <2>1 DEF P!Polling
  <2>3. UNCHANGED images
    BY <1>1, <2>1
  <2>4. PrimaryTyped'
    BY <1>0, <2>1 DEF Typed, PrimaryTyped, ServerTyped
  <2>5. EndsBetweenRequests' /\ LinkTyped'
    BY <1>0, <2>1, <2>2, <2>3, LinkSame, ExitAfterAssumption
    DEF Typed, EndsBetweenRequests
  <2>6. ASSUME ~ diverged' PROVE Replicates'
    BY <1>2, <1>3, <2>1, <2>2, <2>3, <2>6 DEF Replicates, Last
  <2> QED
    BY <1>4, <2>1, <2>4, <2>5, <2>6
<1>7. ASSUME P!DeliverGrants
      PROVE  Inv'
  <2>1. /\ p_serving # NoProc /\ p_access_granted # <<>>
        /\ UNCHANGED <<p_key_states, p_reply, p_token_stream_map, p_issued,
                       request_counter, p_process, forwards, p_to_server,
                       p_closed>>
        /\ p_access_granted' \in Seq(Grant)
        /\ p_serving' \in {p_serving, NoProc}
        /\ p_to_client' \in [ProcId -> Answers]
    BY <1>0, <1>7, PrimaryGrants
  <2>2. UNCHANGED images
    BY <1>1, <2>1
  <2>3. PrimaryTyped' /\ EndsBetweenRequests' /\ LinkTyped'
    BY <1>0, <2>1, <2>2, LinkSame
    DEF Typed, PrimaryTyped, ServerTyped, EndsBetweenRequests
  <2>4. p_to_server' \in [ProcId -> Requests]
    BY <1>0, <2>1 DEF Typed, StreamsTyped
  <2>5. ASSUME ~ diverged' PROVE Replicates'
    <3>1. p_serving' = p_serving
      BY <1>3, <2>1, <2>5 DEF Unmirrored
    <3> QED
      BY <1>2, <1>3, <2>1, <2>2, <2>5, <3>1, ReplicatesSame
  <2> QED
    BY <1>4, <2>1, <2>3, <2>4, <2>5
<1>8. ASSUME P!FinishRequest
      PROVE  Inv'
  <2>1. /\ p_serving # NoProc /\ p_serving.request \in Messages
        /\ p_serving' = NoProc
        /\ UNCHANGED <<p_key_states, p_access_granted, p_reply,
                       p_token_stream_map, p_issued, p_to_server, p_closed>>
        /\ IF s_process = "running"
           THEN forwards' = Append(forwards, p_serving.request)
           ELSE UNCHANGED forwards
        /\ p_process' \in {"running", "ended"}
        /\ EndsBetweenRequests'
        /\ p_to_client' \in [ProcId -> Answers]
    BY <1>0, <1>8, PrimaryFinishes
  <2>2. p_key_states \in KeyMaps /\ p_process = "running"
    BY <1>0, <2>1 DEF Typed, PrimaryTyped, ServerTyped, EndsBetweenRequests
  <2>3. PrimaryTyped' /\ p_to_server' \in [ProcId -> Requests]
    BY <1>0, <2>1
    DEF Typed, PrimaryTyped, ServerTyped, StreamsTyped
  <2>4. CASE s_process = "running"
    <3>1. LinkTyped' /\ images' = Append(images, p_key_states)
      BY <1>0, <1>1, <2>1, <2>2, <2>4, ForwardTyped
    <3>2. ASSUME ~ diverged' PROVE Replicates'
      <4>1. Replicates
        BY <1>3, <3>2
      <4>2. p_key_states = EffectOf(Last(images), p_serving.request)
        BY <2>1, <4>1 DEF Replicates
      <4> QED
        BY <1>0, <1>2, <2>1, <2>2, <2>4, <3>1, <4>1, <4>2, ForwardKeeps
    <3> QED
      BY <1>4, <2>1, <2>3, <3>1, <3>2
  <2>5. CASE s_process # "running"
    <3>1. s_process = "ended"
      BY <1>0, <2>5 DEF Typed, SecondaryTyped, ServerTyped
    <3>2. Unmirrored
      BY <2>1, <3>1 DEF Unmirrored
    <3>3. diverged'
      BY <1>1, <3>2
    <3>4. LinkTyped'
      BY <1>0, <1>1, <2>1, <2>5, LinkSame
    <3> QED
      BY <1>4, <2>1, <2>3, <3>3, <3>4
  <2> QED
    BY <2>4, <2>5
<1> QED
  BY <1>5, <1>6, <1>7, <1>8 DEF PrimaryRuns

(* One pass of the secondary's loop, for its clients: there are some, and  *)
(* a request of theirs ends the copy if the primary has more to say.       *)
LEMMA SecondaryRunsKeeps ==
  ASSUME Inv, SecondaryRuns
  PROVE  Inv'
<1>0. Typed
  BY DEF Inv
<1>1. UNCHANGED <<primary, p_streams, calls, owners, images>>
  BY DEF SecondaryRuns
<1>2. UNCHANGED <<p_key_states, p_serving, p_process>>
      /\ PrimaryTyped' /\ EndsBetweenRequests' /\ CallsTyped' /\ OwnersTyped'
  BY <1>0, <1>1, PrimarySame, StreamsSame DEF primary, owners
<1>3. ASSUME SecondaryTyped', UNCHANGED forwards,
             s_to_server' \in [ProcId -> Requests],
             s_to_client' \in [ProcId -> Answers],
             s_closed' = s_closed
      PROVE  Typed'
  <2>1. StreamsTyped'
    BY <1>0, <1>1, <1>3 DEF Typed, StreamsTyped, p_streams
  <2> QED
    BY <1>0, <1>1, <1>2, <1>3, <2>1, LinkSame DEF Typed
<1>4. ASSUME NEW t \in ProcId, S!HandleRequest(t),
             diverged' = (diverged \/ p_process = "running" \/ forwards # <<>>)
      PROVE  Inv'
  <2>1. PICK m \in RequestMessage :
          /\ Goes(m, s_key_states, s_access_granted, s_reply,
                  s_key_states', s_access_granted', s_reply')
          /\ s_serving' \in {NoProc, [token |-> t, request |-> m]}
    BY <1>0, <1>4, SecondaryRequest
  <2>2. /\ s_to_client' \in [ProcId -> Answers]
        /\ s_to_server' \in [ProcId -> Requests]
        /\ UNCHANGED <<s_token_stream_map, s_issued, s_process, forwards,
                       s_closed>>
    BY <1>0, <1>4, SecondaryRequest
  <2>3. /\ s_key_states' \in KeyMaps /\ s_access_granted' \in Seq(Grant)
        /\ s_reply' \in Replies
    BY <1>0, <2>1, GoesType DEF Typed, SecondaryTyped, ServerTyped
  <2>4. [token |-> t, request |-> m] \in Services
    BY DEF Services, Messages
  <2>5. SecondaryTyped'
    BY <1>0, <2>1, <2>2, <2>3, <2>4 DEF Typed, SecondaryTyped, ServerTyped
  <2>6. t \in s_issued
    BY <1>0, <1>4 DEF S!HandleRequest, Typed, SecondaryTyped, ServerTyped
  <2>7. ASSUME ~ diverged' PROVE Replicates'
    <3>1. Replicates /\ p_process # "running" /\ forwards = <<>>
      BY <1>4, <2>7 DEF Inv
    <3> QED
      BY <1>1, <1>2, <2>2, <2>6, <3>1 DEF Replicates, Last
  <2> QED
    BY <1>3, <2>2, <2>5, <2>7 DEF Inv
<1>5. ASSUME NEW t \in ProcId,
             S!HandleCoalesced(t) \/ S!HandleClose(t) \/ S!HandleStop(t),
             UNCHANGED diverged
      PROVE  Inv'
  <2>1. /\ UNCHANGED <<s_key_states, s_access_granted, s_reply, s_issued,
                       s_serving, forwards, s_closed>>
        /\ s_token_stream_map' \in SUBSET s_token_stream_map
        /\ s_process' \in {s_process, "ended"}
        /\ s_to_client' \in [ProcId -> Answers]
        /\ s_to_server' \in [ProcId -> Requests]
    BY <1>0, <1>5, SecondaryLosesOrEnds
  <2>2. SecondaryTyped'
    BY <1>0, <2>1 DEF Typed, SecondaryTyped, ServerTyped
  <2>3. Typed'
    BY <1>3, <2>1, <2>2
  <2> QED
    BY <1>1, <1>2, <1>5, <2>1, <2>3, ReplicatesSame DEF Inv
<1>6. ASSUME S!DeliverGrants, UNCHANGED diverged
      PROVE  Inv'
  <2>1. /\ UNCHANGED <<s_key_states, s_reply, s_token_stream_map, s_issued,
                       s_process, forwards, s_to_server, s_closed>>
        /\ s_access_granted' \in Seq(Grant)
        /\ s_serving' \in {s_serving, NoProc}
        /\ s_to_client' \in [ProcId -> Answers]
    BY <1>0, <1>6, SecondaryGrants
  <2>2. SecondaryTyped' /\ s_to_server' \in [ProcId -> Requests]
    BY <1>0, <2>1
    DEF Typed, SecondaryTyped, ServerTyped, StreamsTyped
  <2>3. Typed'
    BY <1>3, <2>1, <2>2
  <2> QED
    BY <1>1, <1>2, <1>6, <2>1, <2>3, ReplicatesSame DEF Inv
<1> QED
  BY <1>4, <1>5, <1>6 DEF SecondaryRuns, S!DeliverGrants

(* What is left of a sequence of n elements when k of them are cut off.    *)
LEMMA CutOff ==
  ASSUME NEW T, NEW s \in Seq(T), NEW t, NEW k \in 1 .. Len(s),
         t = SubSeq(s, k + 1, Len(s))
  PROVE  /\ t \in Seq(T) /\ Len(t) = Len(s) - k
         /\ \A i \in 1 .. Len(s) - k : t[i] = s[k + i]
<1> DEFINE n == Len(s)
<1>1. n \in Nat /\ k \in Nat /\ k <= n
  BY LenProperties
<1>2. \A i \in k + 1 .. n : s[i] \in T
  <2>1. \A i \in k + 1 .. n : i \in 1 .. n
    BY <1>1
  <2> QED
    BY <2>1, ElementOfSeq
<1>3. /\ Len(t) = IF k + 1 <= n THEN n - (k + 1) + 1 ELSE 0
      /\ t \in Seq(T)
      /\ \A i \in 1 .. n - (k + 1) + 1 : t[i] = s[(k + 1) + i - 1]
  BY <1>1, <1>2, SubSeqProperties
<1>4. n - (k + 1) + 1 = n - k
  BY <1>1
<1>5. Len(t) = n - k
  <2>1. CASE k + 1 <= n
    BY <1>3, <1>4, <2>1
  <2>2. CASE ~ (k + 1 <= n)
    <3>1. n - k = 0
      BY <1>1, <2>2
    <3> QED
      BY <1>3, <2>2, <3>1
  <2> QED
    BY <2>1, <2>2
<1>6. ASSUME NEW i \in 1 .. n - k PROVE t[i] = s[k + i]
  <2>1. i \in 1 .. n - (k + 1) + 1 /\ (k + 1) + i - 1 = k + i
    BY <1>1
  <2>2. t[i] = s[(k + 1) + i - 1]
    BY <1>3, <2>1
  <2> QED
    BY <2>1, <2>2
<1> QED
  BY <1>3, <1>5, <1>6

(* The secondary reads what the primary has forwarded.                     *)
LEMMA MirrorKeeps ==
  ASSUME Inv, MirrorPrimary
  PROVE  Inv'
<1> DEFINE n == Len(forwards)
<1>0. Typed
  BY DEF Inv
<1>1. /\ images' = SubSeq(images, 1 + n - Len(forwards'), Len(images))
      /\ diverged' = (diverged \/ Len(forwards') < n - 1)
      /\ UNCHANGED <<primary, p_streams, calls, owners>>
  BY DEF MirrorPrimary
<1>2. /\ forwards \in Seq(Messages) /\ images \in Seq(KeyMaps)
      /\ n \in Nat /\ Len(images) = 1 + n
      /\ \A i \in 1 .. n : forwards[i] \in Messages
      /\ \A i \in 1 .. n + 1 : images[i] \in KeyMaps
  BY <1>0, ElementOfSeq, LenProperties DEF Typed, LinkTyped
<1>3. UNCHANGED <<p_key_states, p_serving, p_process>>
      /\ PrimaryTyped' /\ EndsBetweenRequests' /\ CallsTyped' /\ OwnersTyped'
  BY <1>0, <1>1, PrimarySame, StreamsSame DEF primary, owners
<1>4. ASSUME NEW k \in 1 .. n, forwards' = SubSeq(forwards, k + 1, n)
      PROVE  /\ LinkTyped' /\ Len(forwards') = n - k
             /\ \A i \in 1 .. n - k : forwards'[i] = forwards[k + i]
             /\ \A i \in 1 .. n - k + 1 : images'[i] = images[k + i]
  <2>1. /\ forwards' \in Seq(Messages) /\ Len(forwards') = n - k
        /\ \A i \in 1 .. n - k : forwards'[i] = forwards[k + i]
    BY <1>2, <1>4, CutOff
  <2>2. 1 + n - Len(forwards') = k + 1 /\ k \in 1 .. n + 1
    BY <1>2, <2>1
  <2>3. images' = SubSeq(images, k + 1, Len(images)) /\ k \in 1 .. Len(images)
    <3> HIDE DEF n
    <3>1. images' = SubSeq(images, k + 1, Len(images))
      BY <1>1, <2>2
    <3> QED
      BY <1>2, <2>2, <3>1
  <2>4. /\ images' \in Seq(KeyMaps) /\ Len(images') = Len(images) - k
        /\ \A i \in 1 .. Len(images) - k : images'[i] = images[k + i]
    BY <1>2, <2>3, CutOff
  <2>5. Len(images) - k = n - k + 1
    BY <1>2
  <2>6. Len(images') = 1 + Len(forwards')
    BY <1>2, <2>1, <2>4
  <2> QED
    BY <2>1, <2>4, <2>5, <2>6 DEF LinkTyped
<1>5. ASSUME SecondaryTyped', LinkTyped',
             s_to_server' \in [ProcId -> Requests],
             s_to_client' \in [ProcId -> Answers],
             s_closed' = s_closed
      PROVE  Typed'
  <2>1. StreamsTyped'
    BY <1>0, <1>1, <1>5 DEF Typed, StreamsTyped, p_streams
  <2> QED
    BY <1>3, <1>5, <2>1 DEF Typed
<1>6. CASE S!HandleForwarded
  <2>1. /\ forwards # <<>> /\ forwards' = Tail(forwards)
        /\ Head(forwards) \in Messages
        /\ Goes(Head(forwards), s_key_states, s_access_granted, s_reply,
                s_key_states', s_access_granted', s_reply')
        /\ s_serving' \in {NoProc, [token |-> PrimaryToken,
                                    request |-> Head(forwards)]}
        /\ s_to_client' \in [ProcId -> Answers]
        /\ UNCHANGED <<s_token_stream_map, s_issued, s_process, s_closed,
                       s_to_server>>
    BY <1>0, <1>6, SecondaryForwarded
  <2>2. /\ s_key_states' \in KeyMaps /\ s_access_granted' \in Seq(Grant)
        /\ s_reply' \in Replies
    BY <1>0, <2>1, GoesType DEF Typed, SecondaryTyped, ServerTyped
  <2>3. [token |-> PrimaryToken, request |-> Head(forwards)] \in Services
    BY <2>1 DEF Services
  <2>4. SecondaryTyped' /\ s_to_server' \in [ProcId -> Requests]
    BY <1>0, <2>1, <2>2, <2>3
    DEF Typed, SecondaryTyped, ServerTyped, StreamsTyped
  <2>5. n > 0 /\ forwards' = SubSeq(forwards, 1 + 1, n)
        /\ Head(forwards) = forwards[1]
    BY <1>2, <2>1, EmptySeq
  <2>6. /\ LinkTyped' /\ Len(forwards') = n - 1
        /\ \A i \in 1 .. n - 1 : forwards'[i] = forwards[i + 1]
        /\ \A i \in 1 .. n : images'[i] = images[i + 1]
    <3>1. 1 \in 1 .. n /\ n - 1 + 1 = n
      BY <1>2, <2>5
    <3>2. /\ LinkTyped' /\ Len(forwards') = n - 1
          /\ \A i \in 1 .. n - 1 : forwards'[i] = forwards[1 + i]
          /\ \A i \in 1 .. n - 1 + 1 : images'[i] = images[1 + i]
      BY <1>4, <2>5, <3>1
    <3>3. ASSUME NEW i \in 1 .. n - 1
          PROVE  forwards'[i] = forwards[i + 1]
      <4>1. 1 + i = i + 1
        BY <1>2
      <4> QED
        BY <3>2, <4>1
    <3>4. ASSUME NEW i \in 1 .. n
          PROVE  images'[i] = images[i + 1]
      <4>1. 1 + i = i + 1 /\ i \in 1 .. n - 1 + 1
        BY <1>2, <3>1
      <4> QED
        BY <3>2, <4>1
    <3> QED
      BY <3>2, <3>3, <3>4
  <2>7. ASSUME ~ diverged' PROVE Replicates'
    <3>1. Replicates
      BY <1>1, <2>7 DEF Inv
    <3>2. images[2] = EffectOf(images[1], forwards[1])
          /\ s_key_states = images[1]
      BY <1>2, <2>1, <2>5, <3>1 DEF Replicates
    <3>3. s_key_states' = images'[1]
      <4>1. images'[1] = images[2]
        <5>1. 1 \in 1 .. n /\ 1 + 1 = 2
          BY <1>2, <2>5
        <5> QED
          BY <2>6, <5>1
      <4>2. s_key_states' = EffectOf(s_key_states, forwards[1])
        BY <2>1, <2>5 DEF Goes
      <4> QED
        BY <3>2, <4>1, <4>2
    <3>4. ASSUME NEW i \in 1 .. n - 1
          PROVE  images'[i + 1] = EffectOf(images'[i], forwards'[i])
      <4>1. i \in 1 .. n /\ i + 1 \in 1 .. n
        BY <1>2
      <4>2. images[(i + 1) + 1] = EffectOf(images[i + 1], forwards[i + 1])
        BY <3>1, <4>1 DEF Replicates
      <4> QED
        BY <2>6, <4>1, <4>2
    <3>5. Last(images') = Last(images)
      <4>1. n \in 1 .. n /\ Len(images') = n /\ Len(images) = n + 1
        BY <1>2, <2>5, <2>6 DEF LinkTyped
      <4>2. images'[n] = images[n + 1]
        BY <2>6, <4>1
      <4> QED
        BY <4>1, <4>2 DEF Last
    <3> QED
      BY <1>3, <2>6, <3>1, <3>3, <3>4, <3>5 DEF Replicates
  <2> QED
    BY <1>5, <2>1, <2>4, <2>6, <2>7 DEF Inv
<1>7. CASE S!HandleForwardedCoalesced
  <2>1. PICK k \in 2 .. n : forwards' = SubSeq(forwards, k + 1, n)
    BY <1>7 DEF S!HandleForwardedCoalesced
  <2>2. UNCHANGED <<s_key_states, s_access_granted, s_reply,
                    s_token_stream_map, s_issued, s_serving, s_process,
                    s_to_server, s_to_client, s_closed>>
    BY <1>7
    DEF S!HandleForwardedCoalesced, S!server, S!manager, S!streams
  <2>3. LinkTyped' /\ Len(forwards') = n - k
    <3>1. k \in 1 .. n
      BY <1>2
    <3> QED
      BY <1>4, <2>1, <3>1
  <2>4. diverged'
    <3>1. n - k < n - 1
      BY <1>2
    <3> QED
      BY <1>1, <2>3, <3>1
  <2>5. Typed'
    BY <1>0, <1>5, <2>2, <2>3
    DEF Typed, SecondaryTyped, ServerTyped, StreamsTyped
  <2> QED
    BY <2>4, <2>5 DEF Inv
<1> QED
  BY <1>6, <1>7 DEF MirrorPrimary

----------------------------------------------------------------------------
(* THE THEOREMS *)

(* In the beginning both maps are empty and nothing is under way.          *)
LEMMA InitInv == Init => Inv
<1> SUFFICES ASSUME Init PROVE Inv
  OBVIOUS
<1> DEFINE none == [k \in KeyId |-> NoEntry]
<1>1. /\ p_key_states = none /\ s_key_states = none
      /\ p_access_granted = <<>> /\ s_access_granted = <<>>
      /\ p_reply = [res |-> "Ok", holder |-> NoProc]
      /\ s_reply = [res |-> "Ok", holder |-> NoProc]
  BY SameMessages DEF Init, P!ServerInit, S!ServerInit, P!AM!Init, S!AM!Init
<1>2. /\ p_token_stream_map = {} /\ p_issued = {} /\ p_serving = NoProc
      /\ request_counter = 0 /\ p_process = "running"
      /\ s_token_stream_map = {} /\ s_issued = {} /\ s_serving = NoProc
      /\ s_process = "running"
      /\ forwards = <<>> /\ images = <<none>>
  BY <1>1 DEF Init, P!ServerInit, S!ServerInit
<1>3. none \in KeyMaps /\ <<>> \in Seq(Grant) /\ <<>> \in Seq(Messages)
  BY EmptySeq DEF KeyMaps
<1>4. PrimaryTyped /\ SecondaryTyped
  BY <1>1, <1>2, <1>3
  DEF PrimaryTyped, SecondaryTyped, ServerTyped, Replies
<1>5. StreamsTyped
  BY EmptySeq
  DEF Init, AtP!StreamsInit, AtS!StreamsInit, StreamsTyped, Requests, Answers
<1>6. CallsTyped /\ OwnersTyped
  BY DEF Init, AtP!ClientInit, CallsTyped, OwnersTyped, Started
<1>7. EndsBetweenRequests
  BY <1>2, ExitAfterAssumption DEF EndsBetweenRequests
<1>8. images \in Seq(KeyMaps) /\ Len(images) = 1 /\ images[1] = none
      /\ Len(forwards) = 0
  BY <1>2, <1>3
<1>9. LinkTyped
  BY <1>2, <1>3, <1>8 DEF LinkTyped
<1>10. Replicates
  BY <1>1, <1>2, <1>8 DEF Replicates, Last
<1> QED
  BY <1>4, <1>5, <1>6, <1>7, <1>9, <1>10 DEF Inv, Typed

(* A server that a lost connection ends leaves what it has said unread, and*)
(* its map as it is.                                                       *)
LEMMA LoseConnectionKeeps ==
  ASSUME Inv, LoseConnection
  PROVE  Inv'
<1>0. Typed
  BY DEF Inv
<1>1. UNCHANGED <<forwards, p_streams, s_streams, calls, owners, history>>
  BY DEF LoseConnection
<1>2. StreamsTyped' /\ CallsTyped' /\ OwnersTyped' /\ LinkTyped'
  BY <1>0, <1>1, StreamsSame, LinkSame DEF owners, history
<1>3. CASE UNCHANGED secondary /\ NextId(p_issued) \in ProcId
             /\ P!HandleLostConnection(NextId(p_issued))
  <2> DEFINE id == NextId(p_issued)
  <2>1. /\ id \in ProcId /\ p_process = "running" /\ p_serving = NoProc
        /\ p_issued' = p_issued \cup {id} /\ p_process' = "ended"
        /\ UNCHANGED <<p_key_states, p_access_granted, p_reply,
                       p_token_stream_map, p_serving, request_counter>>
    BY <1>3 DEF P!HandleLostConnection, P!Polling, P!manager
  <2> HIDE DEF id
  <2>2. PrimaryTyped' /\ EndsBetweenRequests'
    <3>1. request_counter \in Nat /\ request_counter <= ExitAfter
      BY <1>0, <2>1, ExitAfterAssumption DEF Typed, EndsBetweenRequests
    <3> QED
      BY <1>0, <2>1, <3>1
      DEF Typed, PrimaryTyped, ServerTyped, EndsBetweenRequests
  <2>3. SecondaryTyped' /\ UNCHANGED s_key_states /\ UNCHANGED s_issued
    BY <1>0, <1>3, SecondarySame DEF secondary
  <2>4. Replicates => Replicates'
    BY <1>1, <2>1, <2>3 DEF Replicates, Last, history
  <2> QED
    BY <1>1, <1>2, <2>2, <2>3, <2>4 DEF Inv, Typed, history
<1>4. CASE UNCHANGED primary /\ NextId(s_issued) \in ProcId
             /\ S!HandleLostConnection(NextId(s_issued))
  <2> DEFINE id == NextId(s_issued)
  <2>1. /\ id \in ProcId
        /\ s_issued' = s_issued \cup {id} /\ s_process' = "ended"
        /\ UNCHANGED <<s_key_states, s_access_granted, s_reply,
                       s_token_stream_map, s_serving>>
    BY <1>4 DEF S!HandleLostConnection, S!manager
  <2> HIDE DEF id
  <2>2. SecondaryTyped'
    BY <1>0, <2>1 DEF Typed, SecondaryTyped, ServerTyped
  <2>3. PrimaryTyped' /\ EndsBetweenRequests'
    BY <1>0, <1>4, PrimarySame
  <2>4. Replicates => Replicates'
    BY <1>1, <1>4, <2>1, ReplicatesSame DEF primary, history
  <2> QED
    BY <1>1, <1>2, <2>2, <2>3, <2>4 DEF Inv, Typed, history
<1> QED
  BY <1>3, <1>4 DEF LoseConnection

(* Every step keeps the invariant: one lemma above for each kind.          *)
LEMMA NextKeepsInv == Inv /\ [Next]_vars => Inv'
<1> SUFFICES ASSUME Inv, [Next]_vars
             PROVE  Inv'
  OBVIOUS
<1>1. ASSUME NEW c \in ClientId, StartAtPrimary(c)
      PROVE  Inv'
  BY <1>1, StartAtPrimaryKeeps
<1>2. ASSUME NEW c \in ClientId, StartAtSecondary(c)
      PROVE  Inv'
  BY <1>2, StartAtSecondaryKeeps
<1>3. ASSUME NEW c \in ClientId,
             \/ \E t \in RequestType, k \in KeyId : MakeCall(c, t, k)
             \/ ReadMessage(c) \/ GiveUp(c) \/ Spin(c) \/ Stop(c)
      PROVE  Inv'
  BY <1>3, ClientKeeps
<1>4. ASSUME NEW c \in ClientId, SwitchToSecondary(c)
      PROVE  Inv'
  BY <1>4, SwitchKeeps
<1>5. CASE PrimaryRuns
  BY <1>5, PrimaryRunsKeeps
<1>6. CASE SecondaryRuns
  BY <1>6, SecondaryRunsKeeps
<1>7. CASE MirrorPrimary
  BY <1>7, MirrorKeeps
<1>8. CASE LoseConnection
  BY <1>8, LoseConnectionKeeps
<1>9. CASE UNCHANGED vars
  <2>0. Typed
    BY DEF Inv
  <2>1. UNCHANGED <<primary, secondary, forwards, p_streams, s_streams, calls,
                    owners, history>>
    BY <1>9 DEF vars
  <2>2. Typed'
    BY <2>0, <2>1, PrimarySame, SecondarySame, StreamsSame, LinkSame
    DEF Typed, owners, history
  <2> QED
    BY <2>1, <2>2, ReplicatesSame DEF Inv, primary, secondary, history
<1> QED
  BY <1>1, <1>2, <1>3, <1>4, <1>5, <1>6, <1>7, <1>8, <1>9 DEF Next

(* The strengthened invariant: the types, and, while nothing has been kept *)
(* from the secondary, the stream between the servers leads from its map   *)
(* to the primary's.                                                       *)
THEOREM FailoverInvariance == Spec => []Inv
<1>1. Init => Inv
  BY InitInv
<1>2. Inv /\ [Next]_vars => Inv'
  BY NextKeepsInv
<1> QED
  BY <1>1, <1>2, PTL DEF Spec

(* Both servers, the stream between them and the clients keep their types: *)
(* an order the primary forwards is well formed, a client that has started *)
(* has a connection, and to each forwarded message belongs an image of the *)
(* primary's map.                                                          *)
THEOREM FailoverTypes == Spec => []TypeOK
<1>1. Inv => TypeOK
  BY TypedIsTypeOK DEF Inv
<1> QED
  BY <1>1, FailoverInvariance, PTL

(* The secondary is a correct, if older, copy of the primary, however many *)
(* clients come, go, give up or change to it, as long as no change was     *)
(* kept from it and it has not begun to serve on its own.                  *)
THEOREM MirrorIsFaithful == Spec => []MirrorIsPastPrimary
<1>1. Inv => MirrorIsPastPrimary
  BY DEF Inv, Replicates, MirrorIsPastPrimary
<1> QED
  BY <1>1, FailoverInvariance, PTL
============================================================================
