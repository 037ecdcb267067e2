-------------------------- MODULE KeyStatesProofs --------------------------
(***************************************************************************)
(* Lemmas about the operators on one registry entry. EntryInv says what    *)
(* every entry satisfies between two calls, whoever owns the map; the      *)
(* lemmas say that each change to an entry keeps its type and EntryInv.    *)
(***************************************************************************)
EXTENDS KeyStates, SequenceTheorems, WellFoundedInduction, TLAPS

(* What an entry of the map satisfies between two calls. *)
EntryInv(ks) ==
  /\ ks.writer # NoProc => ks.readers = {}
  /\ ~ Accessed(ks) => ks.pending = <<>>
  /\ ks.readers # {} => ks.pending = <<>> \/ FrontIsWrite(ks)

----------------------------------------------------------------------------
(* LEMMAS ABOUT THE OPERATORS ON ENTRIES *)

(* A nonempty set of natural numbers has a least element. *)
LEMMA LeastElement ==
  ASSUME NEW S \in SUBSET Nat, S # {}
  PROVE  \E m \in S : \A i \in S : m <= i
<1>1. PICK m \in S : \A i \in S : <<i, m>> \notin OpToRel(<, Nat)
  BY NatLessThanWellFounded, WFMin, Zenon
<1>2. \A i \in S : ~ (i < m)
  BY <1>1 DEF OpToRel
<1> QED
  BY <1>2

(* The batch handle_requesting grants is the longest prefix of reads. *)
LEMMA ReadBatchPrefix ==
  ASSUME NEW q \in Seq(Request)
  PROVE  /\ ReadBatch(q) \in 0 .. Len(q)
         /\ \A i \in 1 .. ReadBatch(q) : q[i].type = "Read"
         /\ ReadBatch(q) < Len(q) => q[ReadBatch(q) + 1].type # "Read"
<1> DEFINE P(n) == /\ \A i \in 1 .. n : q[i].type = "Read"
                   /\ n < Len(q) => q[n+1].type # "Read"
           S == {i \in 1 .. Len(q) : q[i].type # "Read"}
<1>1. \E n \in 0 .. Len(q) : P(n)
  <2>1. CASE S = {}
    <3>1. P(Len(q))
      BY <2>1, LenProperties
    <3> QED
      BY <3>1, LenProperties
  <2>2. CASE S # {}
    <3>0. S \in SUBSET Nat
      BY LenProperties
    <3>1. PICK m \in S : \A i \in S : m <= i
      BY <2>2, <3>0, LeastElement, Zenon
    <3>2. m - 1 \in 0 .. Len(q) /\ (m - 1) + 1 = m
      BY LenProperties
    <3>3. P(m - 1)
      BY <3>1, <3>2, LenProperties
    <3> QED
      BY <3>2, <3>3
  <2> QED
    BY <2>1, <2>2
<1> QED
  BY <1>1 DEF ReadBatch

(* Serving the queue of an entry nobody accesses takes between none and    *)
(* all of the requests, and takes one whenever there is one.               *)
LEMMA ServedCountRange ==
  ASSUME NEW ks \in Entry
  PROVE  /\ ServedCount(ks) \in 0 .. Len(ks.pending)
         /\ ks.pending # <<>> => ServedCount(ks) > 0
<1>1. ks.pending \in Seq(Request)
  BY DEF Entry
<1>2. CASE FrontIsWrite(ks)
  BY <1>1, <1>2, EmptySeq, LenProperties DEF ServedCount, FrontIsWrite
<1>3. CASE ~ FrontIsWrite(ks)
  <2>1. ServedCount(ks) = ReadBatch(ks.pending)
    BY <1>3 DEF ServedCount
  <2>2. ASSUME ks.pending # <<>>, ReadBatch(ks.pending) = 0
        PROVE  FALSE
    <3>1. ks.pending[1].type # "Read"
      BY <1>1, <2>2, ReadBatchPrefix, EmptySeq, LenProperties
    <3>2. ks.pending[1] \in Request
      BY <1>1, <2>2, ElementOfSeq, EmptySeq, LenProperties
    <3>3. Head(ks.pending).type = "Write"
      BY <1>1, <2>2, <3>1, <3>2 DEF Request, AccessType
    <3> QED
      BY <1>3, <2>2, <3>3 DEF FrontIsWrite
  <2> QED
    BY <1>1, <2>1, <2>2, ReadBatchPrefix, LenProperties
<1> QED
  BY <1>2, <1>3

(* The four fields of the entry handle_requesting leaves. *)
LEMMA HandleRequestingFields ==
  ASSUME NEW ks \in Entry
  PROVE  LET n == ServedCount(ks)
             r == HandleRequesting(ks)
         IN  /\ r.pending = SubSeq(ks.pending, n + 1, Len(ks.pending))
             /\ r.writer = IF FrontIsWrite(ks) THEN Head(ks.pending).proc
                           ELSE ks.writer
             /\ r.readers = IF FrontIsWrite(ks) THEN ks.readers
                            ELSE ks.readers
                                   \cup {ks.pending[i].proc : i \in 1 .. n}
             /\ r.creator = ks.creator
BY DEF Entry, HandleRequesting

(* handle_requesting keeps the type of the entry. *)
LEMMA HandleRequestingType ==
  ASSUME NEW ks \in Entry
  PROVE  HandleRequesting(ks) \in Entry
<1> DEFINE q == ks.pending
           n == ServedCount(ks)
<1>1. q \in Seq(Request) /\ n \in 0 .. Len(q)
  BY ServedCountRange DEF Entry
<1>2. \A i \in 1 .. Len(q) : q[i] \in Request
  BY <1>1, ElementOfSeq
<1>3. SubSeq(q, n + 1, Len(q)) \in Seq(Request)
  BY <1>1, SubSeqProperties, LenProperties
<1>4. CASE FrontIsWrite(ks)
  <2>1. Head(q) \in Request
    BY <1>1, <1>4, HeadTailProperties DEF FrontIsWrite
  <2>2. Head(q).proc \in ProcId
    BY <2>1 DEF Request
  <2> QED
    BY <1>3, <1>4, <2>2 DEF Entry, HandleRequesting
<1>5. CASE ~ FrontIsWrite(ks)
  <2>1. {q[i].proc : i \in 1 .. n} \in SUBSET ProcId
    BY <1>1, <1>2, LenProperties DEF Request
  <2> QED
    BY <1>3, <1>5, <2>1 DEF Entry, HandleRequesting
<1> QED
  BY <1>4, <1>5

(* handle_requesting, run on an entry nobody accesses, establishes         *)
(* EntryInv.                                                               *)
LEMMA HandleRequestingKeepsInv ==
  ASSUME NEW ks \in Entry, ~ Accessed(ks)
  PROVE  EntryInv(HandleRequesting(ks))
<1> DEFINE q == ks.pending
           n == ServedCount(ks)
           r == HandleRequesting(ks)
<1>1. q \in Seq(Request) /\ ks.readers = {} /\ ks.writer = NoProc
  BY DEF Entry, Accessed
<1>2. n \in 0 .. Len(q) /\ (q # <<>> => n > 0)
  BY ServedCountRange
<1>3. \A i \in 1 .. Len(q) : q[i] \in Request
  BY <1>1, ElementOfSeq
<1>4. CASE FrontIsWrite(ks)
  <2>1. Head(q) \in Request
    BY <1>1, <1>4, HeadTailProperties DEF FrontIsWrite
  <2>2. r.writer = Head(q).proc /\ r.readers = {}
    BY <1>1, <1>4, HandleRequestingFields
  <2>3. Head(q).proc # NoProc
    BY <2>1, NoProcAssumption DEF Request
  <2> QED
    BY <2>2, <2>3 DEF EntryInv, Accessed
<1>5. CASE ~ FrontIsWrite(ks)
  <2> DEFINE R == {q[i].proc : i \in 1 .. n}
  <2>1. n = ReadBatch(q)
    BY <1>5 DEF ServedCount
  <2>2. /\ r.pending = SubSeq(q, n + 1, Len(q))
        /\ r.writer = NoProc
        /\ r.readers = R
    BY <1>1, <1>5, HandleRequestingFields
  <2>3. CASE n = Len(q)
    <3>1. r.pending = <<>>
      BY <1>1, <1>2, <2>2, <2>3, SubSeqProperties, EmptySeq, LenProperties
    <3> QED
      BY <2>2, <3>1 DEF EntryInv
  <2>4. CASE n # Len(q)
    <3>1. n < Len(q) /\ q[n + 1] \in Request /\ q[n + 1].type # "Read"
      BY <1>1, <1>2, <1>3, <2>1, <2>4, ReadBatchPrefix, LenProperties
    <3>2. q[n + 1].type = "Write"
      BY <3>1 DEF Request, AccessType
    <3>3. r.pending # <<>> /\ Head(r.pending) = q[n + 1]
      <4>1. /\ r.pending \in Seq(Request)
            /\ Len(r.pending) = Len(q) - n
            /\ r.pending[1] = q[n + 1]
        <5>1. \A i \in n + 1 .. Len(q) : q[i] \in Request
          BY <1>1, <1>2, <1>3, LenProperties
        <5>2. n + 1 \in Int /\ Len(q) \in Int /\ n + 1 <= Len(q)
          BY <1>1, <1>2, <3>1, LenProperties
        <5> DEFINE s == SubSeq(q, n + 1, Len(q))
        <5>3. /\ s \in Seq(Request)
              /\ Len(s) = Len(q) - (n + 1) + 1
              /\ \A i \in 1 .. Len(q) - (n + 1) + 1 : s[i] = q[(n+1) + i - 1]
          BY <5>1, <5>2, SubSeqProperties
        <5> QED
          BY <1>2, <2>2, <5>2, <5>3
      <4> QED
        BY <1>1, <1>2, <3>1, <4>1, EmptySeq, LenProperties
    <3>4. FrontIsWrite(r)
      BY <3>2, <3>3 DEF FrontIsWrite
    <3>5. 1 \in 1 .. n
      BY <1>1, <1>2, <3>1, EmptySeq, LenProperties
    <3> QED
      BY <2>2, <3>4, <3>5 DEF EntryInv, Accessed
  <2> QED
    BY <2>3, <2>4
<1> QED
  BY <1>4, <1>5

(* What is left of a sequence when its first n elements are taken off.     *)
LEMMA SuffixElements ==
  ASSUME NEW S, NEW q \in Seq(S), NEW n \in 0 .. Len(q)
  PROVE  LET s == SubSeq(q, n + 1, Len(q))
         IN  /\ s \in Seq(S)
             /\ Len(s) = Len(q) - n
             /\ \A i \in 1 .. Len(s) : s[i] = q[n + i] /\ n + i \in 1 .. Len(q)
<1> DEFINE s == SubSeq(q, n + 1, Len(q))
<1>1. Len(q) \in Nat /\ \A i \in n + 1 .. Len(q) : q[i] \in S
  BY ElementOfSeq, LenProperties
<1>2. /\ s \in Seq(S)
      /\ Len(s) = IF n + 1 <= Len(q) THEN Len(q) - (n + 1) + 1 ELSE 0
      /\ \A i \in 1 .. Len(q) - (n + 1) + 1 : s[i] = q[(n + 1) + i - 1]
  BY <1>1, SubSeqProperties
<1> HIDE DEF s
<1>3. Len(s) = Len(q) - n
  BY <1>1, <1>2
<1>4. \A i \in 1 .. Len(s) : s[i] = q[n + i] /\ n + i \in 1 .. Len(q)
  <2> SUFFICES ASSUME NEW i \in 1 .. Len(s)
               PROVE  s[i] = q[n + i] /\ n + i \in 1 .. Len(q)
    OBVIOUS
  <2>1. i \in 1 .. Len(q) - (n + 1) + 1 /\ (n + 1) + i - 1 = n + i
    BY <1>1, <1>3
  <2> QED
    BY <1>1, <1>2, <1>3, <2>1
<1> QED
  BY <1>2, <1>3, <1>4 DEF s

(* A function on 1 .. n is a sequence of length n.                         *)
LEMMA FunctionIsSeq ==
  ASSUME NEW S, NEW n \in Nat, NEW f \in [1 .. n -> S]
  PROVE  f \in Seq(S) /\ Len(f) = n
<1>1. f \in Seq(S)
  BY SeqDef
<1>2. Len(f) \in Nat /\ 1 .. Len(f) = 1 .. n
  BY <1>1, LenProperties
<1> QED
  BY <1>1, <1>2

(* The grants one release sends are grants, and name its key.              *)
LEMMA GrantsType ==
  ASSUME NEW ks \in Entry, NEW p \in ProcId, NEW k \in KeyId,
         NEW h \in ProcId
  PROVE  /\ GrantsOnRelease(ks, p, k, h) \in Seq(Grant)
         /\ \A i \in 1 .. Len(GrantsOnRelease(ks, p, k, h)) :
              /\ GrantsOnRelease(ks, p, k, h)[i].key = k
              /\ GrantsOnRelease(ks, p, k, h)[i].holder = h
<1> DEFINE s == Surrender(ks, p)
           n == ServedCount(s)
           g == GrantsOf(s, k, h)
<1>1. s \in Entry
  BY DEF Surrender, Entry
<1>2. s.pending \in Seq(Request) /\ n \in 0 .. Len(s.pending)
  BY <1>1, ServedCountRange DEF Entry
<1>3. \A i \in 1 .. n : s.pending[i] \in Request
  BY <1>2, ElementOfSeq, LenProperties
<1>4. g = [i \in 1 .. n |-> [proc |-> s.pending[i].proc, key |-> k,
                             type |-> s.pending[i].type, holder |-> h]]
  BY DEF GrantsOf
<1>5. \A i \in 1 .. n : [proc |-> s.pending[i].proc, key |-> k,
                         type |-> s.pending[i].type, holder |-> h] \in Grant
  BY <1>3 DEF Request, Grant
<1>6. g \in Seq(Grant) /\ Len(g) = n
  <2>1. g \in [1 .. n -> Grant]
    BY <1>4, <1>5
  <2> HIDE DEF g
  <2> QED
    BY <1>2, <2>1, FunctionIsSeq, LenProperties
<1>7. \A i \in 1 .. Len(g) : g[i].key = k /\ g[i].holder = h
  <2> SUFFICES ASSUME NEW i \in 1 .. n
               PROVE  g[i].key = k /\ g[i].holder = h
    BY <1>6
  <2> QED
    BY <1>4
<1>8. <<>> \in Seq(Grant) /\ Len(<<>>) = 0
  BY EmptySeq
<1> QED
  BY <1>6, <1>7, <1>8 DEF GrantsOnRelease

(* The holder found during a release is the creator: nobody accesses the   *)
(* key at that moment.                                                     *)
LEMMA WakeHoldersIsCreator ==
  ASSUME NEW ks \in Entry, NEW p \in ProcId, EntryInv(ks),
         Holds(ks, p), LastRelease(ks, p)
  PROVE  /\ ~ Accessed(Surrender(ks, p))
         /\ Surrender(ks, p) \in Entry
         /\ WakeHolders(ks, p) = {ks.creator}
<1>1. CASE ks.writer = p
  BY <1>1, NoProcAssumption
  DEF Entry, EntryInv, Accessed, Surrender, WakeHolders, HolderChoices
<1>2. CASE ks.writer # p
  BY <1>2, NoProcAssumption
  DEF Entry, EntryInv, Holds, LastRelease, Accessed, Surrender, WakeHolders,
      HolderChoices
<1> QED
  BY <1>1, <1>2

(* A release keeps the type of the entry, its creator and EntryInv.        *)
LEMMA AfterReleaseKeepsInv ==
  ASSUME NEW ks \in Entry, NEW p \in ProcId, EntryInv(ks), Holds(ks, p)
  PROVE  /\ AfterRelease(ks, p) \in Entry
         /\ AfterRelease(ks, p).creator = ks.creator
         /\ EntryInv(AfterRelease(ks, p))
<1>1. CASE LastRelease(ks, p)
  <2>1. Surrender(ks, p) \in Entry /\ ~ Accessed(Surrender(ks, p))
    BY <1>1, WakeHoldersIsCreator
  <2>2. Surrender(ks, p).creator = ks.creator
    BY DEF Surrender, Entry
  <2>3. HandleRequesting(Surrender(ks, p)).creator = ks.creator
    BY <2>1, <2>2, HandleRequestingFields
  <2> QED
    BY <1>1, <2>1, <2>3, HandleRequestingType, HandleRequestingKeepsInv
    DEF AfterRelease
<1>2. CASE ~ LastRelease(ks, p)
  <2>1. ks.writer # p /\ ks.readers \ {p} # {}
    BY <1>2 DEF LastRelease
  <2>2. Surrender(ks, p) = [ks EXCEPT !.readers = @ \ {p}]
    BY <2>1 DEF Surrender
  <2> QED
    BY <1>2, <2>1, <2>2
    DEF AfterRelease, Entry, EntryInv, Accessed, FrontIsWrite
<1> QED
  BY <1>1, <1>2

(* The entry create() inserts: no access, no waiter.                       *)
LEMMA NewKeyStateKeepsInv ==
  ASSUME NEW p \in ProcId
  PROVE  NewKeyState(p) \in Entry /\ EntryInv(NewKeyState(p))
BY EmptySeq DEF NewKeyState, Entry, EntryInv

(* Queueing a request that read() or write() must not grant at once keeps  *)
(* EntryInv.                                                               *)
LEMMA EnqueueKeepsInv ==
  ASSUME NEW ks \in Entry, EntryInv(ks), Accessed(ks),
         NEW p \in ProcId, NEW t \in AccessType,
         t = "Read" => ReadMustQueue(ks)
  PROVE  Enqueue(ks, p, t) \in Entry /\ EntryInv(Enqueue(ks, p, t))
<1> DEFINE r == [proc |-> p, type |-> t]
           q == ks.pending
           e == Enqueue(ks, p, t)
<1>1. q \in Seq(Request) /\ r \in Request
  BY DEF Entry, Request
<1>2. /\ Append(q, r) \in Seq(Request)
      /\ Append(q, r) # <<>>
      /\ Head(Append(q, r)) = IF q = <<>> THEN r ELSE Head(q)
  BY <1>1, AppendProperties, EmptySeq, LenProperties
<1>3. e = [ks EXCEPT !.pending = Append(q, r)]
  BY DEF Enqueue
<1>4. /\ e \in Entry
      /\ e.pending = Append(q, r)
      /\ e.readers = ks.readers
      /\ e.writer = ks.writer
  BY <1>2, <1>3 DEF Entry
<1>5. ASSUME ks.readers # {} PROVE FrontIsWrite(e)
  <2>1. ks.writer = NoProc
    BY <1>5 DEF EntryInv
  <2>2. CASE q = <<>>
    <3>1. t = "Write"
      BY <2>1, <2>2 DEF ReadMustQueue, FrontIsWrite, AccessType
    <3> QED
      BY <1>2, <1>4, <2>2, <3>1 DEF FrontIsWrite
  <2>3. CASE q # <<>>
    BY <1>2, <1>4, <1>5, <2>3 DEF FrontIsWrite, EntryInv
  <2> QED
    BY <2>2, <2>3
<1> QED
  BY <1>4, <1>5 DEF EntryInv, Accessed

(* The immediate grant of a read keeps EntryInv, and the holder it names   *)
(* is a process.                                                           *)
LEMMA RegisterReaderKeepsInv ==
  ASSUME NEW ks \in Entry, EntryInv(ks), ~ ReadMustQueue(ks),
         NEW p \in ProcId
  PROVE  /\ RegisterReader(ks, p) \in Entry
         /\ EntryInv(RegisterReader(ks, p))
         /\ HolderChoices(RegisterReader(ks, p)) \subseteq ProcId
BY DEF RegisterReader, Entry, EntryInv, Accessed, ReadMustQueue,
       FrontIsWrite, HolderChoices

(* So does the immediate grant of a write, for which nobody may be queued. *)
LEMMA RegisterWriterKeepsInv ==
  ASSUME NEW ks \in Entry, EntryInv(ks), ~ Accessed(ks), NEW p \in ProcId
  PROVE  /\ RegisterWriter(ks, p) \in Entry
         /\ EntryInv(RegisterWriter(ks, p))
BY NoProcAssumption DEF RegisterWriter, Entry, EntryInv, Accessed

(* A release by p serves the first n requests of the queue, in order: each *)
(* of them leaves the queue, is sent a grant that names h and is           *)
(* registered, everybody else stays as he is, and p is out.                *)
Serves(ks, p, k, h, n) ==
  LET q == ks.pending
      r == AfterRelease(ks, p)
      g == GrantsOnRelease(ks, p, k, h)
  IN  /\ r.pending = SubSeq(q, n + 1, Len(q))
      /\ Len(g) = n
      /\ \A i \in 1 .. n :
           /\ g[i] = [proc |-> q[i].proc, key |-> k,
                      type |-> q[i].type, holder |-> h]
           /\ IF q[i].type = "Write" THEN r.writer = q[i].proc
                                     ELSE q[i].proc \in r.readers
      /\ \A u \in ProcId \ {p} :
           /\ ks.writer = u => r.writer = u
           /\ u \in ks.readers => u \in r.readers
      /\ \A u \in ProcId :
           /\ r.writer = u =>
                \/ ks.writer = u /\ u # p
                \/ \E i \in 1 .. n : q[i].proc = u
           /\ u \in r.readers =>
                \/ u \in ks.readers /\ u # p
                \/ \E i \in 1 .. n : q[i].proc = u

(* Every release does, for some n.                                         *)
LEMMA AfterReleaseServes ==
  ASSUME NEW ks \in Entry, NEW p \in ProcId, EntryInv(ks), Holds(ks, p),
         NEW k \in KeyId, NEW h \in ProcId
  PROVE  \E n \in 0 .. Len(ks.pending) : Serves(ks, p, k, h, n)
<1> DEFINE q == ks.pending
           s == Surrender(ks, p)
           r == AfterRelease(ks, p)
           g == GrantsOnRelease(ks, p, k, h)
<1>1. /\ s \in Entry /\ s.pending = q /\ q \in Seq(Request)
      /\ Len(q) \in Nat
  BY LenProperties DEF Surrender, Entry
<1>2. /\ s.writer # NoProc => s.writer = ks.writer /\ ks.writer # p
      /\ \A u \in s.readers : u \in ks.readers /\ u # p
      /\ \A u \in ProcId \ {p} : /\ ks.writer = u => s.writer = u
                                 /\ u \in ks.readers => u \in s.readers
  BY NoProcAssumption DEF Surrender, Entry, EntryInv
<1>3. CASE LastRelease(ks, p)
  <2> DEFINE n == ServedCount(s)
  <2>1. ~ Accessed(s)
    BY <1>3, WakeHoldersIsCreator
  <2>2. n \in 0 .. Len(q) /\ (q # <<>> => n > 0)
    BY <1>1, ServedCountRange
  <2>3. /\ r.pending = SubSeq(q, n + 1, Len(q))
        /\ r.writer = IF FrontIsWrite(s) THEN Head(q).proc ELSE s.writer
        /\ r.readers = IF FrontIsWrite(s) THEN s.readers
                       ELSE s.readers \cup {q[i].proc : i \in 1 .. n}
    <3>1. r = HandleRequesting(s)
      BY <1>3 DEF AfterRelease
    <3>2. s \in Entry /\ s.pending = q
      BY <1>1
    <3> HIDE DEF r, s, q
    <3>3. LET e == HandleRequesting(s)
          IN  /\ e.pending = SubSeq(s.pending, n + 1, Len(s.pending))
              /\ e.writer = IF FrontIsWrite(s) THEN Head(s.pending).proc
                            ELSE s.writer
              /\ e.readers = IF FrontIsWrite(s) THEN s.readers
                             ELSE s.readers
                                    \cup {s.pending[i].proc : i \in 1 .. n}
      BY <3>2, HandleRequestingFields, Zenon
    <3> HIDE DEF n
    <3> QED
      BY <3>1, <3>2, <3>3
  <2>4. /\ g = [i \in 1 .. n |-> [proc |-> q[i].proc, key |-> k,
                                  type |-> q[i].type, holder |-> h]]
        /\ g \in Seq(Grant)
    BY <1>1, <1>3, GrantsType DEF GrantsOnRelease, GrantsOf
  <2>5. Len(g) = n
    <3> HIDE DEF g, n, q
    <3> QED
      BY <1>1, <2>2, <2>4, LenProperties
  <2>6. \A i \in 1 .. n :
          IF q[i].type = "Write" THEN r.writer = q[i].proc
                                 ELSE q[i].proc \in r.readers
    <3>1. CASE FrontIsWrite(s)
      <4>1. n = 1 /\ Head(q) = q[1] /\ q[1].type = "Write"
        BY <1>1, <3>1, EmptySeq DEF ServedCount, FrontIsWrite
      <4> HIDE DEF n, q, r
      <4> QED
        BY <2>3, <3>1, <4>1
    <3>2. CASE ~ FrontIsWrite(s)
      <4>1. \A i \in 1 .. n : q[i].type = "Read"
        BY <1>1, <3>2, ReadBatchPrefix DEF ServedCount
      <4> HIDE DEF n, q, r
      <4> QED
        BY <2>3, <3>2, <4>1
    <3> QED
      BY <3>1, <3>2
  <2>7. \A u \in ProcId : s.writer # u /\ u \notin s.readers
    BY <2>1, NoProcAssumption DEF Accessed
  <2>8. ASSUME NEW u \in ProcId, r.writer = u \/ u \in r.readers
        PROVE  \E i \in 1 .. n : q[i].proc = u
    <3>1. CASE FrontIsWrite(s)
      <4>1. n = 1 /\ Head(q) = q[1]
        BY <1>1, <3>1, EmptySeq DEF ServedCount, FrontIsWrite
      <4> HIDE DEF n, q, r
      <4> QED
        BY <2>3, <2>7, <2>8, <3>1, <4>1
    <3>2. CASE ~ FrontIsWrite(s)
      <4> HIDE DEF n, q, r
      <4> QED
        BY <2>3, <2>7, <2>8, <3>2
    <3> QED
      BY <3>1, <3>2
  <2>9. \A i \in 1 .. n :
          g[i] = [proc |-> q[i].proc, key |-> k,
                  type |-> q[i].type, holder |-> h]
    BY <2>4
  <2> HIDE DEF g, n, q, r, s
  <2>10. \A u \in ProcId \ {p} : ks.writer # u /\ u \notin ks.readers
    BY <1>2, <2>7
  <2>11. Serves(ks, p, k, h, n)
    BY <2>3, <2>5, <2>6, <2>8, <2>9, <2>10 DEF Serves, q, r, g
  <2> QED
    BY <2>2, <2>11 DEF q
<1>4. CASE ~ LastRelease(ks, p)
  <2>1. r = s /\ g = <<>>
    BY <1>4 DEF AfterRelease, GrantsOnRelease
  <2>2. SubSeq(q, 0 + 1, Len(q)) = q /\ 0 \in 0 .. Len(q)
    BY <1>1, SubSeqFull
  <2>3. Len(g) = 0
    BY <2>1, EmptySeq
  <2>4. r.pending = SubSeq(q, 0 + 1, Len(q))
    BY <1>1, <2>1, <2>2
  <2> HIDE DEF g, q, r, s
  <2>5. \A u \in ProcId :
          /\ r.writer = u => ks.writer = u /\ u # p
          /\ u \in r.readers => u \in ks.readers /\ u # p
    BY <1>2, <2>1, NoProcAssumption
  <2>6. Serves(ks, p, k, h, 0)
    BY <1>2, <2>1, <2>3, <2>4, <2>5 DEF Serves, q, r, g
  <2> QED
    BY <2>2, <2>6 DEF q
<1> QED
  BY <1>3, <1>4
----------------------------------------------------------------------------
(* THE PLACE OF ONE PROCESS IN A QUEUE AND IN THE CHANNEL                  *)
(*                                                                         *)
(* A release takes the front of a queue and appends a grant for each of    *)
(* its requests to the channel. What this means for one process is told by *)
(* how often it is in either.                                              *)

(* p has no element of the sequence s. *)
NoneIn(s, p) == \A i \in 1 .. Len(s) : s[i].proc # p

(* p has one element of the sequence s. *)
Once(s, p) ==
  \E i \in 1 .. Len(s) :
    s[i].proc = p /\ \A j \in 1 .. Len(s) : s[j].proc = p => j = i

(* r is what is left of the queue q when its first n elements are taken    *)
(* off.                                                                    *)
Cut(r, q, n) ==
  Len(r) = Len(q) - n /\ \A i \in 1 .. Len(r) : r[i] = q[n + i]

(* t is the channel s with grants to the first n of q appended.            *)
Joins(t, s, q, n) ==
  /\ Len(t) = Len(s) + n
  /\ \A i \in 1 .. Len(t) :
       t[i].proc = IF i <= Len(s) THEN s[i].proc ELSE q[i - Len(s)].proc

(* A process without an element in a queue has none in what is left of it  *)
(* when its front has been served.                                         *)
LEMMA CutNone ==
  ASSUME NEW q, NEW r, NEW n \in Nat, Len(q) \in Nat, n <= Len(q),
         Cut(r, q, n), NEW p, NoneIn(q, p)
  PROVE  NoneIn(r, p)
<1> SUFFICES ASSUME NEW i \in 1 .. Len(r)
             PROVE  r[i].proc # p
  BY DEF NoneIn
<1>1. r[i] = q[n + i] /\ n + i \in 1 .. Len(q)
  BY DEF Cut
<1> QED
  BY <1>1 DEF NoneIn

(* A channel to which the front of a queue is appended has no element of a *)
(* process that is in neither.                                             *)
LEMMA JoinNone ==
  ASSUME NEW s, NEW q, NEW t, NEW n \in Nat, Len(q) \in Nat, Len(s) \in Nat,
         n <= Len(q), Joins(t, s, q, n), NEW p, NoneIn(s, p), NoneIn(q, p)
  PROVE  NoneIn(t, p)
<1> SUFFICES ASSUME NEW i \in 1 .. Len(t)
             PROVE  t[i].proc # p
  BY DEF NoneIn
<1>1. t[i].proc = IF i <= Len(s) THEN s[i].proc ELSE q[i - Len(s)].proc
  BY DEF Joins
<1>2. i <= Len(s) => i \in 1 .. Len(s)
  OBVIOUS
<1>3. ~ (i <= Len(s)) => i - Len(s) \in 1 .. Len(q)
  BY DEF Joins
<1> QED
  BY <1>1, <1>2, <1>3 DEF NoneIn

(* A grant that is alone in the channel stays alone when the front of a    *)
(* queue without a request of its process is appended.                     *)
LEMMA JoinOnce ==
  ASSUME NEW s, NEW q, NEW t, NEW n \in Nat, Len(q) \in Nat, Len(s) \in Nat,
         n <= Len(q), Joins(t, s, q, n), NEW p, Once(s, p), NoneIn(q, p)
  PROVE  Once(t, p)
<1>1. PICK i \in 1 .. Len(s) :
        s[i].proc = p /\ \A j \in 1 .. Len(s) : s[j].proc = p => j = i
  BY DEF Once
<1>2. i \in 1 .. Len(t) /\ t[i].proc = p
  BY <1>1 DEF Joins
<1>3. ASSUME NEW j \in 1 .. Len(t), t[j].proc = p
      PROVE  j = i
  <2>1. t[j].proc = IF j <= Len(s) THEN s[j].proc ELSE q[j - Len(s)].proc
    BY DEF Joins
  <2>2. ~ (j <= Len(s)) => j - Len(s) \in 1 .. Len(q)
    BY DEF Joins
  <2> QED
    BY <1>1, <1>3, <2>1, <2>2 DEF NoneIn
<1> QED
  BY <1>2, <1>3 DEF Once

(* The one element of p in q stays in it or is among those joined to s.    *)
LEMMA CutOrJoin ==
  ASSUME NEW s, NEW q, NEW r, NEW t, NEW n \in Nat,
         Len(q) \in Nat, Len(s) \in Nat, n <= Len(q),
         Cut(r, q, n), Joins(t, s, q, n), NEW p, NoneIn(s, p), Once(q, p)
  PROVE  \/ Once(r, p) /\ NoneIn(t, p)
         \/ NoneIn(r, p) /\ Once(t, p)
<1>1. PICK i \in 1 .. Len(q) :
        q[i].proc = p /\ \A j \in 1 .. Len(q) : q[j].proc = p => j = i
  BY DEF Once
<1>2. ASSUME NEW j \in 1 .. Len(t), t[j].proc = p
      PROVE  j = Len(s) + i /\ i <= n
  <2>1. t[j].proc = IF j <= Len(s) THEN s[j].proc ELSE q[j - Len(s)].proc
    BY DEF Joins
  <2>2. ~ (j <= Len(s))
    BY <1>2, <2>1 DEF NoneIn
  <2>3. j - Len(s) \in 1 .. n
    BY <2>2 DEF Joins
  <2>4. j - Len(s) \in 1 .. Len(q) /\ q[j - Len(s)].proc = p
    <3>1. j - Len(s) \in 1 .. Len(q)
      BY <2>3
    <3>2. t[j].proc = q[j - Len(s)].proc
      BY <2>1, <2>2
    <3> QED
      BY <1>2, <3>1, <3>2
  <2>5. j - Len(s) = i
    BY <1>1, <2>4
  <2> QED
    BY <2>3, <2>5
<1>3. ASSUME NEW j \in 1 .. Len(r), r[j].proc = p
      PROVE  j = i - n /\ ~ (i <= n)
  <2>1. r[j] = q[n + j] /\ n + j \in 1 .. Len(q)
    BY DEF Cut
  <2>2. n + j = i
    BY <1>1, <1>3, <2>1
  <2> QED
    BY <2>2
<1>4. CASE i <= n
  <2>1. NoneIn(r, p)
    BY <1>3, <1>4 DEF NoneIn
  <2>2. Len(s) + i \in 1 .. Len(t)
    BY <1>4 DEF Joins
  <2>3. t[Len(s) + i].proc = q[(Len(s) + i) - Len(s)].proc
    BY <2>2 DEF Joins
  <2>4. (Len(s) + i) - Len(s) = i
    OBVIOUS
  <2>5. t[Len(s) + i].proc = p
    BY <1>1, <2>3, <2>4
  <2>6. Once(t, p)
    BY <1>2, <2>2, <2>5 DEF Once
  <2> QED
    BY <2>1, <2>6
<1>5. CASE ~ (i <= n)
  <2>1. NoneIn(t, p)
    BY <1>2, <1>5 DEF NoneIn
  <2>2. i - n \in 1 .. Len(r) /\ n + (i - n) = i
    BY <1>5 DEF Cut
  <2>3. r[i - n].proc = p
    BY <1>1, <2>2 DEF Cut
  <2>4. Once(r, p)
    BY <1>3, <2>2, <2>3 DEF Once
  <2> QED
    BY <2>1, <2>4
<1> QED
  BY <1>4, <1>5

(* An element of another process is appended.                              *)
LEMMA AppendOther ==
  ASSUME NEW S, NEW q \in Seq(S), NEW x \in S, NEW p, x.proc # p
  PROVE  /\ NoneIn(q, p) => NoneIn(Append(q, x), p)
         /\ Once(q, p) => Once(Append(q, x), p)
<1> DEFINE r == Append(q, x)
<1>1. /\ Len(q) \in Nat /\ Len(r) = Len(q) + 1
      /\ \A i \in 1 .. Len(q) : r[i] = q[i]
      /\ r[Len(q) + 1] = x
  BY AppendProperties, LenProperties
<1> HIDE DEF r
<1>2. \A i \in 1 .. Len(r) : i \in 1 .. Len(q) \/ i = Len(q) + 1
  BY <1>1
<1>3. NoneIn(q, p) => NoneIn(r, p)
  BY <1>1, <1>2 DEF NoneIn
<1>4. ASSUME Once(q, p)
      PROVE  Once(r, p)
  <2>1. PICK i \in 1 .. Len(q) :
          q[i].proc = p /\ \A j \in 1 .. Len(q) : q[j].proc = p => j = i
    BY <1>4 DEF Once
  <2>2. i \in 1 .. Len(r) /\ r[i].proc = p
    BY <1>1, <2>1
  <2>3. \A j \in 1 .. Len(r) : r[j].proc = p => j = i
    BY <1>1, <1>2, <2>1
  <2> QED
    BY <2>2, <2>3 DEF Once
<1> QED
  BY <1>3, <1>4 DEF r

(* An element of p is appended where there was none.                       *)
LEMMA AppendOwn ==
  ASSUME NEW S, NEW q \in Seq(S), NEW x \in S, NEW p, x.proc = p,
         NoneIn(q, p)
  PROVE  Once(Append(q, x), p)
<1> DEFINE r == Append(q, x)
<1>1. /\ Len(q) \in Nat /\ Len(r) = Len(q) + 1
      /\ \A i \in 1 .. Len(q) : r[i] = q[i]
      /\ r[Len(q) + 1] = x
  BY AppendProperties, LenProperties
<1> HIDE DEF r
<1>2. \A i \in 1 .. Len(r) : i \in 1 .. Len(q) \/ i = Len(q) + 1
  BY <1>1
<1>3. Len(q) + 1 \in 1 .. Len(r) /\ r[Len(q) + 1].proc = p
  BY <1>1
<1>4. \A j \in 1 .. Len(r) : r[j].proc = p => j = Len(q) + 1
  BY <1>1, <1>2 DEF NoneIn
<1> QED
  BY <1>3, <1>4 DEF Once, r
============================================================================
