------------------------ MODULE AccessManagerProofs ------------------------
(***************************************************************************)
(* Proofs about AccessManager for any set of processes, any set of keys    *)
(* and any bound on outstanding requests. The inductive invariant IInv is  *)
(* the type invariant together with EntryInv for every key; that each      *)
(* change to an entry keeps EntryInv is shown in KeyStatesProofs.          *)
(***************************************************************************)
EXTENDS AccessManager, KeyStatesProofs

(* The inductive invariant. *)
IInv ==
  /\ TypeOK
  /\ \A k \in KeyId : Exists(k) => EntryInv(key_states[k])

----------------------------------------------------------------------------
(* THE INDUCTIVE INVARIANT *)

(* The manager starts without keys.                                        *)
LEMMA InitIInv == Init => IInv
BY EmptySeq DEF Init, IInv, TypeOK, Exists, Reply, Results

(* Storing an entry that satisfies EntryInv keeps the invariant's part     *)
(* about the map.                                                          *)
LEMMA SetEntryKeepsInv ==
  ASSUME IInv, NEW k \in KeyId, NEW ks \in Entry, EntryInv(ks),
         SetEntry(k, ks)
  PROVE  /\ key_states' \in [KeyId -> Entry \cup {NoEntry}]
         /\ \A j \in KeyId : Exists(j)' => EntryInv(key_states[j])'
BY DEF IInv, TypeOK, SetEntry, Exists

(* A failing call changes neither the map nor the channel.                 *)
LEMMA FailKeepsInv ==
  ASSUME IInv, NEW err \in Results, Fail(err)
  PROVE  IInv'
BY DEF IInv, TypeOK, Fail, Return, Reply, Exists

(* Every call of every process keeps the invariant; one step per call.     *)
LEMMA StepIInv == IInv /\ [Next]_vars => IInv'
<1> SUFFICES ASSUME IInv, [Next]_vars
             PROVE  IInv'
  OBVIOUS
<1>1. /\ key_states \in [KeyId -> Entry \cup {NoEntry}]
      /\ access_granted \in Seq(Grant)
      /\ reply \in Reply
      /\ \A k \in KeyId : Exists(k) => key_states[k] \in Entry
      /\ \A k \in KeyId : Exists(k) => EntryInv(key_states[k])
  BY DEF IInv, TypeOK, Exists
<1>2. /\ "Ok" \in Results /\ "RequestAccess" \in Results
      /\ "ReleaseAccess" \in Results /\ "KeyAccessed" \in Results
      /\ "KeyExists" \in Results /\ "KeyNotFound" \in Results
  BY DEF Results
<1>3. ASSUME NEW p \in ProcId, NEW k \in KeyId, Create(p, k)
      PROVE  IInv'
  <2>1. CASE Fail("KeyExists")
    BY <1>2, <2>1, FailKeepsInv
  <2>2. CASE SetEntry(k, NewKeyState(p)) /\ Return("Ok")
             /\ UNCHANGED access_granted
    <3>1. NewKeyState(p) \in Entry /\ EntryInv(NewKeyState(p))
      BY NewKeyStateKeepsInv
    <3> QED
      BY <1>1, <1>2, <2>2, <3>1, SetEntryKeepsInv
      DEF IInv, TypeOK, Return, Reply
  <2> QED
    BY <1>3, <2>1, <2>2 DEF Create
<1>4. ASSUME NEW k \in KeyId, Delete(k)
      PROVE  IInv'
  <2>1. CASE \E err \in {"KeyNotFound", "KeyAccessed"} : Fail(err)
    BY <1>2, <2>1, FailKeepsInv
  <2>2. CASE SetEntry(k, NoEntry) /\ Return("Ok") /\ UNCHANGED access_granted
    BY <1>1, <1>2, <2>2
    DEF IInv, TypeOK, SetEntry, Exists, Return, Reply
  <2> QED
    BY <1>4, <2>1, <2>2 DEF Delete
<1>5. ASSUME NEW p \in ProcId, NEW k \in KeyId, Read(p, k)
      PROVE  IInv'
  <2>1. CASE Fail("KeyNotFound")
    BY <1>2, <2>1, FailKeepsInv
  <2>2. CASE /\ Exists(k)
             /\ ReadMustQueue(key_states[k])
             /\ SetEntry(k, Enqueue(key_states[k], p, "Read"))
             /\ Return("RequestAccess")
             /\ UNCHANGED access_granted
    <3>1. Accessed(key_states[k]) /\ "Read" \in AccessType
      BY <1>1, <2>2
      DEF EntryInv, ReadMustQueue, FrontIsWrite, Accessed, AccessType
    <3>2. /\ Enqueue(key_states[k], p, "Read") \in Entry
          /\ EntryInv(Enqueue(key_states[k], p, "Read"))
      BY <1>1, <2>2, <3>1, EnqueueKeepsInv
    <3> QED
      BY <1>1, <1>2, <2>2, <3>2, SetEntryKeepsInv
      DEF IInv, TypeOK, Return, Reply
  <2>3. CASE /\ Exists(k)
             /\ ~ ReadMustQueue(key_states[k])
             /\ SetEntry(k, RegisterReader(key_states[k], p))
             /\ \E h \in HolderChoices(RegisterReader(key_states[k], p)) :
                  reply' = [res |-> "Ok", holder |-> h]
             /\ UNCHANGED access_granted
    <3>1. /\ RegisterReader(key_states[k], p) \in Entry
          /\ EntryInv(RegisterReader(key_states[k], p))
          /\ HolderChoices(RegisterReader(key_states[k], p)) \subseteq ProcId
      BY <1>1, <2>3, RegisterReaderKeepsInv
    <3>2. reply' \in Reply
      BY <1>2, <2>3, <3>1 DEF Reply
    <3> QED
      BY <1>1, <2>3, <3>1, <3>2, SetEntryKeepsInv DEF IInv, TypeOK
  <2> QED
    BY <1>5, <2>1, <2>2, <2>3 DEF Read
<1>6. ASSUME NEW p \in ProcId, NEW k \in KeyId, Write(p, k)
      PROVE  IInv'
  <2>1. CASE Fail("KeyNotFound")
    BY <1>2, <2>1, FailKeepsInv
  <2>2. CASE /\ Exists(k)
             /\ Accessed(key_states[k])
             /\ SetEntry(k, Enqueue(key_states[k], p, "Write"))
             /\ Return("RequestAccess")
             /\ UNCHANGED access_granted
    <3>1. /\ Enqueue(key_states[k], p, "Write") \in Entry
          /\ EntryInv(Enqueue(key_states[k], p, "Write"))
      BY <1>1, <2>2, EnqueueKeepsInv DEF AccessType
    <3> QED
      BY <1>1, <1>2, <2>2, <3>1, SetEntryKeepsInv
      DEF IInv, TypeOK, Return, Reply
  <2>3. CASE /\ Exists(k)
             /\ ~ Accessed(key_states[k])
             /\ SetEntry(k, RegisterWriter(key_states[k], p))
             /\ Return("Ok")
             /\ UNCHANGED access_granted
    <3>1. /\ RegisterWriter(key_states[k], p) \in Entry
          /\ EntryInv(RegisterWriter(key_states[k], p))
      BY <1>1, <2>3, RegisterWriterKeepsInv
    <3> QED
      BY <1>1, <1>2, <2>3, <3>1, SetEntryKeepsInv
      DEF IInv, TypeOK, Return, Reply
  <2> QED
    BY <1>6, <2>1, <2>2, <2>3 DEF Write
<1>7. ASSUME NEW p \in ProcId, NEW k \in KeyId, Release(p, k)
      PROVE  IInv'
  <2>1. CASE \E err \in {"KeyNotFound", "ReleaseAccess"} : Fail(err)
    BY <1>2, <2>1, FailKeepsInv
  <2>2. CASE ReleaseHeld(p, k)
    <3>1. /\ key_states[k] \in Entry
          /\ EntryInv(key_states[k])
          /\ Holds(key_states[k], p)
      BY <1>1, <2>2 DEF ReleaseHeld
    <3>2. /\ AfterRelease(key_states[k], p) \in Entry
          /\ EntryInv(AfterRelease(key_states[k], p))
      BY <3>1, AfterReleaseKeepsInv
    <3>3. PICK h \in WakeHolders(key_states[k], p) :
            access_granted' =
              access_granted \o GrantsOnRelease(key_states[k], p, k, h)
      BY <2>2 DEF ReleaseHeld
    <3>4. GrantsOnRelease(key_states[k], p, k, h) \in Seq(Grant)
      <4>1. WakeHolders(key_states[k], p) \subseteq ProcId
        BY <3>1 DEF WakeHolders, HolderChoices, Surrender, Entry
      <4> QED
        BY <3>1, <4>1, GrantsType
    <3>5. access_granted' \in Seq(Grant)
      BY <1>1, <3>3, <3>4, ConcatProperties
    <3> QED
      BY <1>2, <2>2, <3>2, <3>5, SetEntryKeepsInv
      DEF ReleaseHeld, IInv, TypeOK, Return, Reply
  <2> QED
    BY <1>7, <2>1, <2>2 DEF Release
<1>8. CASE TryRecv
  BY <1>1, <1>8, HeadTailProperties DEF TryRecv, IInv, TypeOK, Exists
<1>9. CASE UNCHANGED vars
  BY <1>1, <1>9 DEF vars, IInv, TypeOK, Exists
<1> QED
  BY <1>3, <1>4, <1>5, <1>6, <1>7, <1>8, <1>9 DEF Next

(* Every reachable state satisfies the inductive invariant.                *)
THEOREM Invariance == Spec => []IInv
<1> QED
  BY InitIInv, StepIInv, PTL DEF Spec

(* The map, the channel and the replies keep their types, whatever is      *)
(* called; only reads and writes are queued.                               *)
THEOREM TypeCorrectness == Spec => []TypeOK
<1>1. IInv => TypeOK
  BY DEF IInv
<1> QED
  BY <1>1, Invariance, PTL

(* read, write and release together never let a writer share a key.        *)
THEOREM WriterExclusion == Spec => []ExclusiveWriter
<1>1. IInv => ExclusiveWriter
  BY DEF IInv, EntryInv, ExclusiveWriter
<1> QED
  BY <1>1, Invariance, PTL

(* A key nobody accesses has no waiters, so delete strands nobody.         *)
THEOREM IdleKeysHaveNoWaiters == Spec => []IdleMeansNoWaiters
<1>1. IInv => IdleMeansNoWaiters
  BY DEF IInv, EntryInv, IdleMeansNoWaiters
<1> QED
  BY <1>1, Invariance, PTL

(* While readers are active, whoever waits waits behind a writer.          *)
THEOREM ReadersQueueBehindWriter == Spec => []ReadersWaitBehindWriter
<1>1. IInv => ReadersWaitBehindWriter
  BY DEF IInv, EntryInv, ReadersWaitBehindWriter
<1> QED
  BY <1>1, Invariance, PTL

----------------------------------------------------------------------------
(* THE GRANTS *)

(* Every grant a call sends names the key's creator as the holder.         *)
NewGrantsNameCreator ==
  \A i \in Len(access_granted) + 1 .. Len(access_granted') :
    LET g == access_granted'[i]
    IN  Exists(g.key) /\ g.holder = key_states[g.key].creator

(* The step behind QueueGrantsNameCreator: only release() sends grants,    *)
(* and it does so when nobody accesses the key.                            *)
LEMMA StepGrantsNameCreator == IInv /\ [Next]_vars => NewGrantsNameCreator
<1> SUFFICES ASSUME IInv, [Next]_vars
             PROVE  NewGrantsNameCreator
  OBVIOUS
<1>1. /\ access_granted \in Seq(Grant)
      /\ Len(access_granted) \in Nat
      /\ \A k \in KeyId : Exists(k) => key_states[k] \in Entry
      /\ \A k \in KeyId : Exists(k) => EntryInv(key_states[k])
  BY LenProperties DEF IInv, TypeOK, Exists
<1>2. CASE UNCHANGED access_granted
  BY <1>1, <1>2 DEF NewGrantsNameCreator
<1>3. CASE TryRecv
  BY <1>1, <1>3, HeadTailProperties DEF TryRecv, NewGrantsNameCreator
<1>4. ASSUME NEW p \in ProcId, NEW k \in KeyId, ReleaseHeld(p, k)
      PROVE  NewGrantsNameCreator
  <2> DEFINE ks == key_states[k]
  <2>1. Exists(k) /\ ks \in Entry /\ EntryInv(ks) /\ Holds(ks, p)
    BY <1>1, <1>4 DEF ReleaseHeld
  <2>2. PICK h \in WakeHolders(ks, p) :
          access_granted' = access_granted \o GrantsOnRelease(ks, p, k, h)
    BY <1>4 DEF ReleaseHeld
  <2>3. CASE LastRelease(ks, p)
    <3> DEFINE g == GrantsOnRelease(ks, p, k, h)
    <3>1. h = ks.creator /\ h \in ProcId
      BY <2>1, <2>2, <2>3, WakeHoldersIsCreator DEF Entry
    <3>2. /\ g \in Seq(Grant)
          /\ \A i \in 1 .. Len(g) : g[i].key = k /\ g[i].holder = h
      BY <2>1, <3>1, GrantsType
    <3> HIDE DEF g
    <3>3. /\ Len(access_granted') = Len(access_granted) + Len(g)
          /\ Len(g) \in Nat
          /\ \A i \in 1 .. Len(access_granted) + Len(g) :
               access_granted'[i] = IF i <= Len(access_granted)
                                    THEN access_granted[i]
                                    ELSE g[i - Len(access_granted)]
      BY <1>1, <2>2, <3>2, ConcatProperties, LenProperties DEF g
    <3>4. ASSUME NEW i \in Len(access_granted) + 1 .. Len(access_granted')
          PROVE  /\ access_granted'[i].key = k
                 /\ access_granted'[i].holder = ks.creator
      <4>1. /\ i - Len(access_granted) \in 1 .. Len(g)
            /\ access_granted'[i] = g[i - Len(access_granted)]
        BY <1>1, <3>3
      <4> QED
        BY <3>1, <3>2, <4>1
    <3> QED
      BY <2>1, <3>4 DEF NewGrantsNameCreator
  <2>4. CASE ~ LastRelease(ks, p)
    <3>1. access_granted' = access_granted
      BY <1>1, <2>2, <2>4, ConcatEmptySeq DEF GrantsOnRelease
    <3> QED
      BY <1>2, <3>1
  <2> QED
    BY <2>3, <2>4
<1> QED
  BY <1>2, <1>3, <1>4
  DEF Next, Create, Delete, Read, Write, Release, Fail, vars

(* Waiters are always sent to the creator of the key for its data, even    *)
(* when another process has written it since.                              *)
THEOREM QueueGrantsNameCreator == Spec => GrantsNameCreator
<1>1. IInv /\ [Next]_vars => [NewGrantsNameCreator]_vars
  BY StepGrantsNameCreator
<1> QED
  BY <1>1, Invariance, PTL DEF Spec, GrantsNameCreator, NewGrantsNameCreator
============================================================================
