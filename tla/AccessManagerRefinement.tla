---------------------- MODULE AccessManagerRefinement ----------------------
(***************************************************************************)
(* The proof that AccessManager implements FairLock, for any set of        *)
(* processes, any set of keys and any bound on outstanding requests. Every *)
(* call of the manager is one step of the lock, which admits the first n   *)
(* requests of a queue: n = 0 when the request is queued, n = 1 when it is *)
(* granted at once, n = 0 when a reader leaves others behind, and          *)
(* n = ServedCount when the last access is released.                       *)
(***************************************************************************)
EXTENDS AccessManagerProofs

(* The variables of FairLock, as ImplementsFairLock maps them. *)
liveBar == {k \in KeyId : Exists(k)}

holdingBar == [k \in KeyId |-> HoldingOf(key_states[k])]

waitingBar ==
  [k \in KeyId |-> IF Exists(k) THEN key_states[k].pending ELSE <<>>]

NoticesOf(ag) ==
  [i \in DOMAIN ag |->
     [proc |-> ag[i].proc, key |-> ag[i].key, type |-> ag[i].type]]

Notice == [proc : ProcId, key : KeyId, type : AccessType]

----------------------------------------------------------------------------
(* LEMMAS ABOUT THE NOTICES *)

(* The notices of a channel are a sequence as long as the channel.         *)
LEMMA NoticesType ==
  ASSUME NEW ag \in Seq(Grant)
  PROVE  /\ NoticesOf(ag) \in Seq(Notice)
         /\ Len(NoticesOf(ag)) = Len(ag)
         /\ \A i \in 1 .. Len(ag) :
              NoticesOf(ag)[i] = [proc |-> ag[i].proc, key |-> ag[i].key,
                                  type |-> ag[i].type]
<1>1. Len(ag) \in Nat /\ DOMAIN ag = 1 .. Len(ag)
  BY LenProperties
<1>2. \A i \in 1 .. Len(ag) : ag[i] \in Grant
  BY ElementOfSeq
<1>3. NoticesOf(ag) \in [1 .. Len(ag) -> Notice]
  BY <1>1, <1>2 DEF Grant, Notice, NoticesOf
<1>4. NoticesOf(ag) \in Seq(Notice) /\ Len(NoticesOf(ag)) = Len(ag)
  BY <1>1, <1>3, FunctionIsSeq
<1>5. \A i \in 1 .. Len(ag) :
        NoticesOf(ag)[i] = [proc |-> ag[i].proc, key |-> ag[i].key,
                            type |-> ag[i].type]
  BY <1>1 DEF NoticesOf
<1> QED
  BY <1>4, <1>5

(* Receiving a grant takes the first notice away.                          *)
LEMMA NoticesTail ==
  ASSUME NEW ag \in Seq(Grant), ag # <<>>
  PROVE  /\ NoticesOf(ag) # <<>>
         /\ NoticesOf(Tail(ag)) = Tail(NoticesOf(ag))
<1>1. /\ Tail(ag) \in Seq(Grant)
      /\ Len(Tail(ag)) = Len(ag) - 1
      /\ \A i \in 1 .. Len(Tail(ag)) : Tail(ag)[i] = ag[i+1]
      /\ Len(ag) \in Nat \ {0}
  BY HeadTailProperties, EmptySeq, LenProperties
<1> DEFINE n == NoticesOf(ag)
           m == NoticesOf(Tail(ag))
<1>2. /\ n \in Seq(Notice)
      /\ Len(n) = Len(ag)
      /\ \A i \in 1 .. Len(ag) :
           n[i] = [proc |-> ag[i].proc, key |-> ag[i].key,
                   type |-> ag[i].type]
  BY NoticesType
<1>3. /\ m \in Seq(Notice)
      /\ Len(m) = Len(ag) - 1
      /\ \A i \in 1 .. Len(ag) - 1 :
           m[i] = [proc |-> Tail(ag)[i].proc, key |-> Tail(ag)[i].key,
                   type |-> Tail(ag)[i].type]
  BY <1>1, NoticesType
<1> HIDE DEF n, m
<1>4. n # <<>>
  BY <1>1, <1>2, EmptySeq
<1>5. /\ Tail(n) \in Seq(Notice)
      /\ Len(Tail(n)) = Len(ag) - 1
      /\ \A i \in 1 .. Len(ag) - 1 : Tail(n)[i] = n[i+1]
  BY <1>2, <1>4, HeadTailProperties
<1>6. \A i \in 1 .. Len(ag) - 1 : m[i] = Tail(n)[i]
  <2> SUFFICES ASSUME NEW i \in 1 .. Len(ag) - 1
               PROVE  m[i] = n[i+1]
    BY <1>5
  <2>1. i + 1 \in 1 .. Len(ag) /\ Tail(ag)[i] = ag[i+1]
    BY <1>1
  <2> QED
    BY <1>2, <1>3, <2>1
<1>7. m = Tail(n)
  BY <1>3, <1>5, <1>6, SeqEqual
<1> QED
  BY <1>4, <1>7 DEF n, m

(* The grants a call sends add their notices at the end.                   *)
LEMMA NoticesConcat ==
  ASSUME NEW a \in Seq(Grant), NEW g \in Seq(Grant)
  PROVE  NoticesOf(a \o g) = NoticesOf(a) \o NoticesOf(g)
<1>1. /\ a \o g \in Seq(Grant)
      /\ Len(a \o g) = Len(a) + Len(g)
      /\ Len(a) \in Nat /\ Len(g) \in Nat
      /\ \A i \in 1 .. Len(a) + Len(g) :
           (a \o g)[i] = IF i <= Len(a) THEN a[i] ELSE g[i - Len(a)]
  BY ConcatProperties, LenProperties
<1> DEFINE N(c, i) == [proc |-> c[i].proc, key |-> c[i].key,
                       type |-> c[i].type]
           na == NoticesOf(a)
           ng == NoticesOf(g)
           nc == NoticesOf(a \o g)
<1>2. /\ na \in Seq(Notice) /\ Len(na) = Len(a)
      /\ \A i \in 1 .. Len(a) : na[i] = N(a, i)
  BY NoticesType
<1>3. /\ ng \in Seq(Notice) /\ Len(ng) = Len(g)
      /\ \A i \in 1 .. Len(g) : ng[i] = N(g, i)
  BY NoticesType
<1>4. /\ nc \in Seq(Notice) /\ Len(nc) = Len(a) + Len(g)
      /\ \A i \in 1 .. Len(a) + Len(g) : nc[i] = N(a \o g, i)
  <2>1. /\ nc \in Seq(Notice) /\ Len(nc) = Len(a \o g)
        /\ \A i \in 1 .. Len(a \o g) : nc[i] = N(a \o g, i)
    BY <1>1, NoticesType
  <2> QED
    BY <1>1, <2>1
<1> HIDE DEF na, ng, nc
<1>5. /\ na \o ng \in Seq(Notice)
      /\ Len(na \o ng) = Len(a) + Len(g)
      /\ \A i \in 1 .. Len(a) + Len(g) :
           (na \o ng)[i] = IF i <= Len(a) THEN na[i] ELSE ng[i - Len(a)]
  <2>1. na \in Seq(Notice) /\ ng \in Seq(Notice)
    BY <1>2, <1>3
  <2>2. /\ na \o ng \in Seq(Notice)
        /\ Len(na \o ng) = Len(na) + Len(ng)
        /\ \A i \in 1 .. Len(na) + Len(ng) :
             (na \o ng)[i] = IF i <= Len(na) THEN na[i] ELSE ng[i - Len(na)]
    BY <2>1, ConcatProperties
  <2>3. Len(na) = Len(a) /\ Len(ng) = Len(g)
    BY <1>2, <1>3
  <2> QED
    BY <2>2, <2>3
<1>6. ASSUME NEW i \in 1 .. Len(a) + Len(g)
      PROVE  nc[i] = (na \o ng)[i]
  <2>1. CASE i <= Len(a)
    <3>1. i \in 1 .. Len(a) /\ (a \o g)[i] = a[i]
      BY <1>1, <2>1
    <3> QED
      BY <1>2, <1>4, <1>5, <2>1, <3>1
  <2>2. CASE ~ (i <= Len(a))
    <3>1. i - Len(a) \in 1 .. Len(g) /\ (a \o g)[i] = g[i - Len(a)]
      BY <1>1, <2>2
    <3> QED
      BY <1>3, <1>4, <1>5, <2>2, <3>1
  <2> QED
    BY <2>1, <2>2
<1>7. nc = na \o ng
  BY <1>4, <1>5, <1>6, SeqEqual
<1> QED
  BY <1>7 DEF na, ng, nc

(* The notices of the grants one run of handle_requesting sends are those  *)
(* of the requests it takes off the queue, in queue order.                 *)
LEMMA NoticesOfGrants ==
  ASSUME NEW ks \in Entry, NEW k \in KeyId, NEW h \in ProcId
  PROVE  NoticesOf(GrantsOf(ks, k, h)) =
           [i \in 1 .. ServedCount(ks) |->
              [proc |-> ks.pending[i].proc, key |-> k,
               type |-> ks.pending[i].type]]
BY DEF NoticesOf, GrantsOf
----------------------------------------------------------------------------
(* LEMMAS ABOUT WHAT THE LOCK ADMITS *)

(* The accesses in force on an entry, field by field.                      *)
LEMMA HoldingOfEntry ==
  ASSUME NEW ks \in Entry
  PROVE  /\ \A a \in HoldingOf(ks) :
              \/ a = [proc |-> ks.writer, type |-> "Write"]
                 /\ ks.writer # NoProc
              \/ a.type = "Read" /\ a.proc \in ks.readers
                 /\ a = [proc |-> a.proc, type |-> "Read"]
         /\ ks.writer # NoProc =>
              [proc |-> ks.writer, type |-> "Write"] \in HoldingOf(ks)
         /\ \A p \in ks.readers :
              [proc |-> p, type |-> "Read"] \in HoldingOf(ks)
         /\ HoldingOf(ks) = {} <=> ~ Accessed(ks)
<1>1. ks # NoEntry
  BY NoEntryAssumption
<1> DEFINE R == {[proc |-> p, type |-> t] : p \in ks.readers, t \in {"Read"}}
           W == {[proc |-> p, type |-> t] :
                   p \in {ks.writer} \ {NoProc}, t \in {"Write"}}
<1>2. HoldingOf(ks) = R \cup W
  BY <1>1 DEF HoldingOf
<1>3. \A a \in W : a = [proc |-> ks.writer, type |-> "Write"]
                   /\ ks.writer # NoProc
  OBVIOUS
<1>4. \A a \in R : /\ a.type = "Read" /\ a.proc \in ks.readers
                   /\ a = [proc |-> a.proc, type |-> "Read"]
  OBVIOUS
<1>5. ks.writer # NoProc => [proc |-> ks.writer, type |-> "Write"] \in W
  OBVIOUS
<1>6. \A p \in ks.readers : [proc |-> p, type |-> "Read"] \in R
  OBVIOUS
<1> HIDE DEF R, W
<1>7. HoldingOf(ks) = {} <=> ~ Accessed(ks)
  BY <1>2, <1>3, <1>4, <1>5, <1>6 DEF Accessed
<1> QED
  BY <1>2, <1>3, <1>4, <1>5, <1>6, <1>7

(* A request that read() or write() queues could not have been admitted,   *)
(* nor could anyone in front of it.                                        *)
LEMMA QueuedAdmitsNone ==
  ASSUME NEW ks \in Entry, EntryInv(ks), Accessed(ks), NEW a \in Request,
         a.type = "Read" => ReadMustQueue(ks)
  PROVE  FL!Admits(HoldingOf(ks), Append(ks.pending, a), 0)
<1> DEFINE q == Append(ks.pending, a)
           H == HoldingOf(ks)
<1>1. ks.pending \in Seq(Request) /\ a.type \in AccessType
  BY DEF Entry, Request
<1>2. /\ q \in Seq(Request)
      /\ Len(q) > 0
      /\ q[1] = IF ks.pending = <<>> THEN a ELSE Head(ks.pending)
  BY <1>1, AppendProperties, EmptySeq, LenProperties
<1>3. H # {}
  BY HoldingOfEntry
<1>4. ~ (/\ \A b \in H : b.type = "Read"
         /\ q[1].type = "Read")
  <2>1. CASE ks.writer # NoProc
    BY <2>1, HoldingOfEntry
  <2>2. CASE ks.writer = NoProc
    <3>1. ks.readers # {}
      BY <2>2 DEF Accessed
    <3>2. q[1].type = "Write"
      BY <1>1, <1>2, <2>2, <3>1
      DEF EntryInv, ReadMustQueue, FrontIsWrite, AccessType
    <3> QED
      BY <3>2
  <2> QED
    BY <2>1, <2>2
<1> HIDE DEF q, H
<1>5. ~ FL!Compatible(H, q, 1)
  BY <1>3, <1>4 DEF FL!Compatible
<1>6. FL!Compatible(H, q, 0)
  BY DEF FL!Compatible
<1>7. FL!Admits(H, q, 0)
  BY <1>5, <1>6 DEF FL!Admits
<1> QED
  BY <1>7 DEF q, H

(* A request that finds nobody waiting and that suits the holders is       *)
(* admitted.                                                               *)
LEMMA AloneAdmitsOne ==
  ASSUME NEW a \in Request, NEW H,
         H = {} \/ (a.type = "Read" /\ \A b \in H : b.type = "Read")
  PROVE  FL!Admits(H, Append(<<>>, a), 1)
<1>1. Append(<<>>, a)[1] = a /\ Len(Append(<<>>, a)) = 1
  BY EmptySeq, AppendProperties
<1>2. FL!Compatible(H, Append(<<>>, a), 1)
  BY <1>1 DEF FL!Compatible
<1> QED
  BY <1>1, <1>2 DEF FL!Admits

(* Readers that stay when one of them leaves admit nobody.                 *)
LEMMA LeftoverAdmitsNone ==
  ASSUME NEW ks \in Entry, EntryInv(ks), NEW p \in ProcId,
         ~ LastRelease(ks, p)
  PROVE  FL!Admits(HoldingOf(Surrender(ks, p)), ks.pending, 0)
<1> DEFINE s == Surrender(ks, p)
           H == HoldingOf(s)
           q == ks.pending
<1>1. /\ s \in Entry /\ s.readers # {} /\ s.pending = q
      /\ ks.readers # {} /\ q \in Seq(Request)
  BY DEF LastRelease, Surrender, Entry
<1>2. H # {}
  BY <1>1, HoldingOfEntry DEF Accessed
<1>3. Len(q) > 0 => q[1].type # "Read"
  BY <1>1, EmptySeq, LenProperties DEF EntryInv, FrontIsWrite
<1> HIDE DEF H, q, s
<1>4. Len(q) > 0 => ~ FL!Compatible(H, q, 1)
  BY <1>2, <1>3 DEF FL!Compatible
<1>5. FL!Compatible(H, q, 0)
  BY DEF FL!Compatible
<1>6. FL!Admits(H, q, 0)
  BY <1>4, <1>5 DEF FL!Admits
<1> QED
  BY <1>6 DEF H, q, s

(* handle_requesting serves exactly the requests the lock admits when      *)
(* nobody holds the key.                                                   *)
LEMMA ServeAdmits ==
  ASSUME NEW s \in Entry, ~ Accessed(s)
  PROVE  /\ FL!Admits({}, s.pending, ServedCount(s))
         /\ HoldingOf(HandleRequesting(s)) =
              {s.pending[i] : i \in 1 .. ServedCount(s)}
<1> DEFINE q == s.pending
           n == ServedCount(s)
           r == HandleRequesting(s)
<1>1. q \in Seq(Request) /\ n \in 0 .. Len(q) /\ Len(q) \in Nat
  BY ServedCountRange, LenProperties DEF Entry
<1>2. \A i \in 1 .. n : /\ q[i] \in Request
                        /\ q[i] = [proc |-> q[i].proc, type |-> q[i].type]
                        /\ q[i].proc # NoProc
  <2>1. \A i \in 1 .. n : q[i] \in Request
    BY <1>1, ElementOfSeq
  <2> QED
    BY <2>1, NoProcAssumption DEF Request
<1>3. s.readers = {} /\ s.writer = NoProc
  BY DEF Accessed
<1>4. r \in Entry /\ r # NoEntry
  BY HandleRequestingType, NoEntryAssumption
<1>5. CASE FrontIsWrite(s)
  <2>1. n = 1 /\ q[1] = Head(q) /\ q[1].type = "Write" /\ Len(q) > 0
    BY <1>1, <1>5, EmptySeq DEF ServedCount, FrontIsWrite
  <2>2. r.readers = {} /\ r.writer = q[1].proc
    BY <1>3, <1>5, <2>1, HandleRequestingFields
  <2>3. HoldingOf(r) = {[proc |-> q[1].proc, type |-> "Write"]}
    BY <1>2, <1>4, <2>1, <2>2 DEF HoldingOf
  <2>4. HoldingOf(r) = {q[1]}
    BY <1>2, <2>1, <2>3
  <2>5. FL!Admits({}, q, n)
    <3> HIDE DEF q, n
    <3> QED
      BY <2>1 DEF FL!Admits, FL!Compatible
  <2>6. {q[i] : i \in 1 .. n} = {q[1]}
    BY <2>1
  <2> QED
    BY <2>4, <2>5, <2>6
<1>6. CASE ~ FrontIsWrite(s)
  <2>1. n = ReadBatch(q)
    BY <1>6 DEF ServedCount
  <2>2. /\ \A i \in 1 .. n : q[i].type = "Read"
        /\ n < Len(q) => q[n + 1].type # "Read"
    BY <1>1, <2>1, ReadBatchPrefix
  <2>3. r.readers = {q[i].proc : i \in 1 .. n} /\ r.writer = NoProc
    BY <1>3, <1>6, HandleRequestingFields
  <2>4. HoldingOf(r) = {[proc |-> p, type |-> "Read"] : p \in r.readers}
    BY <1>4, <2>3 DEF HoldingOf
  <2>5. HoldingOf(r) = {q[i] : i \in 1 .. n}
    <3>1. HoldingOf(r) = {[proc |-> q[i].proc, type |-> "Read"] : i \in 1 .. n}
      BY <2>3, <2>4
    <3>2. \A i \in 1 .. n : q[i] = [proc |-> q[i].proc, type |-> "Read"]
      BY <1>2, <2>2
    <3> HIDE DEF q, n, r
    <3> QED
      BY <3>1, <3>2
  <2>6. n < Len(q) => n > 0
    BY <1>1, ServedCountRange, EmptySeq
  <2>7. FL!Admits({}, q, n)
    <3> HIDE DEF q, n
    <3> QED
      BY <1>1, <2>2, <2>6 DEF FL!Admits, FL!Compatible
  <2> QED
    BY <2>5, <2>7
<1> QED
  BY <1>5, <1>6
----------------------------------------------------------------------------
(* LEMMAS ABOUT THE ACCESSES IN FORCE *)

(* Registering adds the access that was asked for, and no other.           *)
LEMMA HoldingAfterRegister ==
  ASSUME NEW ks \in Entry, NEW p \in ProcId
  PROVE  /\ HoldingOf(RegisterReader(ks, p)) =
              HoldingOf(ks) \cup {[proc |-> p, type |-> "Read"]}
         /\ ks.writer = NoProc =>
              HoldingOf(RegisterWriter(ks, p)) =
                HoldingOf(ks) \cup {[proc |-> p, type |-> "Write"]}
<1> DEFINE r == RegisterReader(ks, p)
           w == RegisterWriter(ks, p)
<1>1. /\ r \in Entry /\ r.readers = ks.readers \cup {p}
      /\ r.writer = ks.writer
  BY DEF RegisterReader, Entry
<1>2. w \in Entry /\ w.readers = ks.readers /\ w.writer = p
  BY DEF RegisterWriter, Entry
<1>3. ks # NoEntry /\ r # NoEntry /\ w # NoEntry /\ p # NoProc
  BY <1>1, <1>2, NoEntryAssumption, NoProcAssumption
<1> HIDE DEF r, w
<1>4. HoldingOf(r) = HoldingOf(ks) \cup {[proc |-> p, type |-> "Read"]}
  BY <1>1, <1>3 DEF HoldingOf
<1>5. ks.writer = NoProc =>
        HoldingOf(w) = HoldingOf(ks) \cup {[proc |-> p, type |-> "Write"]}
  BY <1>2, <1>3 DEF HoldingOf
<1> QED
  BY <1>4, <1>5 DEF r, w

(* Surrender takes one access of the process away, and no other.           *)
LEMMA HoldingAfterSurrender ==
  ASSUME NEW ks \in Entry, EntryInv(ks), NEW p \in ProcId, Holds(ks, p)
  PROVE  \E t \in AccessType :
           /\ [proc |-> p, type |-> t] \in HoldingOf(ks)
           /\ HoldingOf(Surrender(ks, p)) =
                HoldingOf(ks) \ {[proc |-> p, type |-> t]}
<1> DEFINE s == Surrender(ks, p)
<1>1. s \in Entry /\ p # NoProc
  BY NoProcAssumption DEF Surrender, Entry
<1>2. ks # NoEntry /\ s # NoEntry
  BY <1>1, NoEntryAssumption
<1>3. CASE ks.writer = p
  <2>1. ks.readers = {} /\ s.readers = {} /\ s.writer = NoProc
    BY <1>1, <1>3 DEF Surrender, Entry, EntryInv
  <2>2. HoldingOf(ks) = {[proc |-> p, type |-> "Write"]}
    BY <1>1, <1>2, <1>3, <2>1 DEF HoldingOf
  <2>3. HoldingOf(s) = {}
    BY <1>2, <2>1 DEF HoldingOf
  <2> QED
    BY <2>2, <2>3 DEF AccessType
<1>4. CASE ks.writer # p
  <2>1. /\ p \in ks.readers /\ ks.writer = NoProc
        /\ s.readers = ks.readers \ {p} /\ s.writer = NoProc
    BY <1>4 DEF Surrender, Entry, EntryInv, Holds
  <2>2. HoldingOf(ks) = {[proc |-> u, type |-> "Read"] : u \in ks.readers}
    BY <1>2, <2>1 DEF HoldingOf
  <2>3. HoldingOf(s) = {[proc |-> u, type |-> "Read"] : u \in s.readers}
    BY <1>2, <2>1 DEF HoldingOf
  <2>4. /\ [proc |-> p, type |-> "Read"] \in HoldingOf(ks)
        /\ HoldingOf(s) = HoldingOf(ks) \ {[proc |-> p, type |-> "Read"]}
    BY <2>1, <2>2, <2>3
  <2> QED
    BY <2>4 DEF AccessType
<1> QED
  BY <1>3, <1>4

(* Storing an entry changes what the lock sees of that key, and of no      *)
(* other.                                                                  *)
LEMMA SetEntryBar ==
  ASSUME TypeOK, NEW k \in KeyId, NEW ks \in Entry, SetEntry(k, ks)
  PROVE  /\ liveBar' = liveBar \cup {k}
         /\ holdingBar' = [holdingBar EXCEPT ![k] = HoldingOf(ks)]
         /\ waitingBar' = [waitingBar EXCEPT ![k] = ks.pending]
<1>1. /\ key_states \in [KeyId -> Entry \cup {NoEntry}]
      /\ key_states' = [key_states EXCEPT ![k] = ks]
      /\ ks # NoEntry
  BY NoEntryAssumption DEF TypeOK, SetEntry
<1>2. \A j \in KeyId : key_states'[j] = IF j = k THEN ks ELSE key_states[j]
  BY <1>1
<1>3. liveBar' = liveBar \cup {k}
  BY <1>1, <1>2 DEF liveBar, Exists
<1>4. holdingBar' = [holdingBar EXCEPT ![k] = HoldingOf(ks)]
  <2>1. holdingBar' = [j \in KeyId |-> HoldingOf(key_states'[j])]
    BY DEF holdingBar, HoldingOf
  <2>2. holdingBar = [j \in KeyId |-> HoldingOf(key_states[j])]
    BY DEF holdingBar
  <2> QED
    BY <1>2, <2>1, <2>2
<1>5. waitingBar' = [waitingBar EXCEPT ![k] = ks.pending]
  BY <1>1, <1>2 DEF waitingBar, Exists
<1> QED
  BY <1>3, <1>4, <1>5
----------------------------------------------------------------------------
(* THE STEPS OF THE LOCK, IN THE MANAGER'S VARIABLES *)

noticesBar == NoticesOf(access_granted)

answerBar == AnswerOf(reply.res)

(* What is to be shown of a call for it to be an arrival.                  *)
LEMMA ArriveBar ==
  ASSUME NEW k \in KeyId, NEW a \in Request, k \in liveBar,
         NEW n \in 0 .. Len(Append(waitingBar[k], a)),
         FL!Admits(holdingBar[k], Append(waitingBar[k], a), n),
         holdingBar' =
           [holdingBar EXCEPT ![k] =
              holdingBar[k]
                \cup {Append(waitingBar[k], a)[i] : i \in 1 .. n}],
         waitingBar' =
           [waitingBar EXCEPT ![k] =
              SubSeq(Append(waitingBar[k], a), n + 1,
                     Len(Append(waitingBar[k], a)))],
         answerBar' = IF n = Len(Append(waitingBar[k], a)) THEN "ok"
                      ELSE "wait",
         liveBar' = liveBar, noticesBar' = noticesBar
  PROVE  FL!Next
<1>1. FL!Arrive(k, a)
  BY DEF FL!Arrive, FL!Admit, liveBar, holdingBar, waitingBar, noticesBar,
         NoticesOf, answerBar
<1>2. a \in FL!Access
  BY DEF FL!Access, Request, AccessType
<1> QED
  BY <1>1, <1>2 DEF FL!Next

(* What is to be shown of a release for it to be a departure.              *)
LEMMA LeaveBar ==
  ASSUME NEW k \in KeyId, NEW a \in Request, k \in liveBar,
         a \in holdingBar[k],
         NEW n \in 0 .. Len(waitingBar[k]),
         FL!Admits(holdingBar[k] \ {a}, waitingBar[k], n),
         holdingBar' =
           [holdingBar EXCEPT ![k] =
              (holdingBar[k] \ {a}) \cup {waitingBar[k][i] : i \in 1 .. n}],
         waitingBar' =
           [waitingBar EXCEPT ![k] =
              SubSeq(waitingBar[k], n + 1, Len(waitingBar[k]))],
         noticesBar' =
           noticesBar \o
             [i \in 1 .. n |-> [proc |-> waitingBar[k][i].proc, key |-> k,
                                type |-> waitingBar[k][i].type]],
         answerBar' = "ok", liveBar' = liveBar
  PROVE  FL!Next
<1>1. FL!Leave(k, a)
  BY DEF FL!Leave, FL!Admit, liveBar, holdingBar, waitingBar, noticesBar,
         NoticesOf, answerBar
<1>2. a \in FL!Access
  BY DEF FL!Access, Request, AccessType
<1> QED
  BY <1>1, <1>2 DEF FL!Next

(* A call that fails is a refusal.                                         *)
LEMMA FailRefuses ==
  ASSUME NEW err \in {"KeyNotFound", "KeyExists", "KeyAccessed",
                      "ReleaseAccess"},
         Fail(err)
  PROVE  FL!Next
<1>1. AnswerOf(reply.res)' = "refused"
  BY DEF Fail, Return, AnswerOf
<1>2. FL!Refuse
  BY <1>1 DEF FL!Refuse, Fail, Exists, HoldingOf
<1> QED
  BY <1>2 DEF FL!Next

(* A request that read() or write() queues is an arrival that admits       *)
(* nobody.                                                                 *)
LEMMA QueuedArrives ==
  ASSUME IInv, NEW k \in KeyId, Exists(k), NEW p \in ProcId,
         NEW t \in AccessType,
         Accessed(key_states[k]),
         t = "Read" => ReadMustQueue(key_states[k]),
         SetEntry(k, Enqueue(key_states[k], p, t)),
         Return("RequestAccess"),
         UNCHANGED access_granted
  PROVE  FL!Next
<1> DEFINE ks == key_states[k]
           a == [proc |-> p, type |-> t]
           q == Append(ks.pending, a)
<1>1. ks \in Entry /\ EntryInv(ks) /\ a \in Request /\ TypeOK
  BY DEF IInv, TypeOK, Exists, Request
<1>2. /\ k \in liveBar /\ holdingBar[k] = HoldingOf(ks)
      /\ waitingBar[k] = ks.pending
      /\ ks.pending \in Seq(Request)
  BY <1>1 DEF liveBar, holdingBar, waitingBar, Entry
<1>3. /\ Enqueue(ks, p, t) \in Entry
      /\ HoldingOf(Enqueue(ks, p, t)) = HoldingOf(ks)
      /\ Enqueue(ks, p, t).pending = q
  <2>1. /\ Enqueue(ks, p, t) \in Entry
        /\ Enqueue(ks, p, t).readers = ks.readers
        /\ Enqueue(ks, p, t).writer = ks.writer
        /\ Enqueue(ks, p, t).pending = q
    BY <1>1, EnqueueKeepsInv DEF Enqueue, Entry
  <2> QED
    BY <1>1, <2>1, NoEntryAssumption DEF HoldingOf
<1>4. /\ liveBar' = liveBar
      /\ holdingBar' = [holdingBar EXCEPT ![k] = HoldingOf(ks)]
      /\ waitingBar' = [waitingBar EXCEPT ![k] = q]
  <2> DEFINE e == Enqueue(ks, p, t)
  <2>1. SetEntry(k, e)
    OBVIOUS
  <2> HIDE DEF e, q
  <2>2. /\ liveBar' = liveBar \cup {k}
        /\ holdingBar' = [holdingBar EXCEPT ![k] = HoldingOf(e)]
        /\ waitingBar' = [waitingBar EXCEPT ![k] = e.pending]
    BY <1>1, <1>3, <2>1, SetEntryBar DEF e
  <2> QED
    BY <1>2, <1>3, <2>2 DEF e
<1>5. FL!Admits(HoldingOf(ks), q, 0)
  BY <1>1, QueuedAdmitsNone
<1>6. q \in Seq(Request) /\ Len(q) \in Nat \ {0}
  BY <1>1, <1>2, AppendProperties, LenProperties
<1>7. answerBar' = "wait" /\ noticesBar' = noticesBar
  BY DEF answerBar, noticesBar, Return, AnswerOf, NoticesOf
<1> HIDE DEF ks, a, q
<1>8. SubSeq(q, 0 + 1, Len(q)) = q
  BY <1>6, SubSeqFull
<1>9. HoldingOf(ks) \cup {q[i] : i \in 1 .. 0} = HoldingOf(ks)
  OBVIOUS
<1>10. q = Append(waitingBar[k], a)
  BY <1>2 DEF q
<1>11. 0 \in 0 .. Len(q) /\ Len(q) # 0
  BY <1>6
<1> QED
  BY <1>1, <1>2, <1>4, <1>5, <1>7, <1>8, <1>9, <1>10, <1>11, ArriveBar

(* A request granted at once is an arrival that admits itself: nobody is   *)
(* waiting, or it would have been queued.                                  *)
LEMMA GrantedArrives ==
  ASSUME IInv, NEW k \in KeyId, Exists(k), NEW a \in Request,
         key_states[k].pending = <<>>,
         \/ ~ Accessed(key_states[k])
         \/ a.type = "Read" /\ key_states[k].writer = NoProc,
         NEW ks \in Entry, SetEntry(k, ks),
         ks.pending = <<>>,
         HoldingOf(ks) = HoldingOf(key_states[k]) \cup {a},
         reply'.res = "Ok",
         UNCHANGED access_granted
  PROVE  FL!Next
<1> DEFINE H == HoldingOf(key_states[k])
           q == Append(<<>>, a)
<1>1. key_states[k] \in Entry /\ TypeOK
  BY DEF IInv, TypeOK, Exists
<1>2. k \in liveBar /\ holdingBar[k] = H /\ waitingBar[k] = <<>>
  BY DEF liveBar, holdingBar, waitingBar
<1>3. H = {} \/ (a.type = "Read" /\ \A b \in H : b.type = "Read")
  BY <1>1, HoldingOfEntry
<1>4. q \in Seq(Request) /\ Len(q) = 1 /\ q[1] = a
  BY EmptySeq, AppendProperties
<1>5. /\ liveBar' = liveBar
      /\ holdingBar' = [holdingBar EXCEPT ![k] = HoldingOf(ks)]
      /\ waitingBar' = [waitingBar EXCEPT ![k] = <<>>]
  <2>1. /\ liveBar' = liveBar \cup {k}
        /\ holdingBar' = [holdingBar EXCEPT ![k] = HoldingOf(ks)]
        /\ waitingBar' = [waitingBar EXCEPT ![k] = ks.pending]
    BY <1>1, SetEntryBar
  <2> QED
    BY <1>2, <2>1
<1>6. answerBar' = "ok" /\ noticesBar' = noticesBar
  BY DEF answerBar, noticesBar, AnswerOf, NoticesOf
<1> HIDE DEF H
<1>7. FL!Admits(H, q, 1)
  BY <1>3, AloneAdmitsOne
<1> HIDE DEF q
<1>8. SubSeq(q, 1 + 1, Len(q)) = <<>>
  BY <1>4, SubSeqEmpty
<1>9. H \cup {q[i] : i \in 1 .. 1} = HoldingOf(ks)
  BY <1>4 DEF H
<1>10. q = Append(waitingBar[k], a)
  BY <1>2 DEF q
<1>11. 1 \in 0 .. Len(q)
  BY <1>4
<1> QED
  <2> DEFINE w == Append(waitingBar[k], a)
  <2>1. /\ 1 \in 0 .. Len(w) /\ 1 = Len(w)
        /\ FL!Admits(holdingBar[k], w, 1)
    BY <1>2, <1>4, <1>7, <1>10, <1>11
  <2>2. holdingBar' =
          [holdingBar EXCEPT ![k] = holdingBar[k] \cup {w[i] : i \in 1 .. 1}]
    BY <1>2, <1>5, <1>9, <1>10
  <2>3. waitingBar' =
          [waitingBar EXCEPT ![k] = SubSeq(w, 1 + 1, Len(w))]
    BY <1>5, <1>8, <1>10
  <2>4. /\ answerBar' = IF 1 = Len(w) THEN "ok" ELSE "wait"
        /\ k \in liveBar /\ liveBar' = liveBar /\ noticesBar' = noticesBar
    BY <1>2, <1>5, <1>6, <2>1
  <2> QED
    BY <2>1, <2>2, <2>3, <2>4, ArriveBar

(* A release is a departure: the requests served are those admitted, and   *)
(* the grants sent are the notices.                                        *)
LEMMA ReleaseLeaves ==
  ASSUME IInv, NEW k \in KeyId, NEW p \in ProcId, ReleaseHeld(p, k)
  PROVE  FL!Next
<1> DEFINE ks == key_states[k]
           s == Surrender(ks, p)
           r == AfterRelease(ks, p)
           q == ks.pending
<1>1. /\ ks \in Entry /\ EntryInv(ks) /\ Holds(ks, p) /\ TypeOK
      /\ Exists(k) /\ SetEntry(k, r) /\ q \in Seq(Request)
      /\ access_granted \in Seq(Grant)
  BY DEF IInv, TypeOK, Exists, ReleaseHeld, Entry
<1>2. PICK h \in WakeHolders(ks, p) :
        access_granted' = access_granted \o GrantsOnRelease(ks, p, k, h)
  BY DEF ReleaseHeld
<1>3. PICK t \in AccessType :
        /\ [proc |-> p, type |-> t] \in HoldingOf(ks)
        /\ HoldingOf(s) = HoldingOf(ks) \ {[proc |-> p, type |-> t]}
  BY <1>1, HoldingAfterSurrender
<1> DEFINE a == [proc |-> p, type |-> t]
<1>4. a \in Request
  BY DEF Request
<1>5. k \in liveBar /\ holdingBar[k] = HoldingOf(ks) /\ waitingBar[k] = q
  BY <1>1 DEF liveBar, holdingBar, waitingBar
<1>6. /\ s \in Entry /\ s.pending = q /\ r \in Entry
  BY <1>1, AfterReleaseKeepsInv DEF Surrender, Entry
<1>7. /\ liveBar' = liveBar
      /\ holdingBar' = [holdingBar EXCEPT ![k] = HoldingOf(r)]
      /\ waitingBar' = [waitingBar EXCEPT ![k] = r.pending]
  <2>1. /\ TypeOK /\ Exists(k) /\ r \in Entry /\ SetEntry(k, r)
        /\ k \in liveBar
    BY <1>1, <1>5, <1>6
  <2> HIDE DEF r
  <2>2. /\ liveBar' = liveBar \cup {k}
        /\ holdingBar' = [holdingBar EXCEPT ![k] = HoldingOf(r)]
        /\ waitingBar' = [waitingBar EXCEPT ![k] = r.pending]
    BY <2>1, SetEntryBar
  <2> QED
    BY <2>1, <2>2
<1>8. answerBar' = "ok"
  BY DEF answerBar, AnswerOf, ReleaseHeld, Return
<1>9. WakeHolders(ks, p) \subseteq ProcId
  BY <1>1 DEF WakeHolders, HolderChoices, Surrender, Entry
<1>10. CASE LastRelease(ks, p)
  <2> DEFINE n == ServedCount(s)
             N == [i \in 1 .. n |-> [proc |-> q[i].proc, key |-> k,
                                     type |-> q[i].type]]
  <2>1. ~ Accessed(s) /\ HoldingOf(s) = {}
    BY <1>1, <1>6, <1>10, WakeHoldersIsCreator, HoldingOfEntry
  <2>2. r = HandleRequesting(s)
    BY <1>10 DEF AfterRelease
  <2>3. /\ FL!Admits({}, q, n)
        /\ HoldingOf(r) = {q[i] : i \in 1 .. n}
        /\ n \in 0 .. Len(q)
        /\ r.pending = SubSeq(q, n + 1, Len(q))
    <3> HIDE DEF s, r, q
    <3>1. /\ FL!Admits({}, s.pending, ServedCount(s))
          /\ HoldingOf(HandleRequesting(s)) =
               {s.pending[i] : i \in 1 .. ServedCount(s)}
      BY <1>6, <2>1, ServeAdmits
    <3>2. ServedCount(s) \in 0 .. Len(s.pending)
      BY <1>6, ServedCountRange
    <3>3. HandleRequesting(s).pending =
            SubSeq(s.pending, ServedCount(s) + 1, Len(s.pending))
      BY <1>6, HandleRequestingFields
    <3>4. s.pending = q
      BY <1>6
    <3> QED
      BY <2>2, <3>1, <3>2, <3>3, <3>4
  <2>4. noticesBar' = noticesBar \o N
    <3>1. /\ GrantsOnRelease(ks, p, k, h) = GrantsOf(s, k, h)
          /\ GrantsOnRelease(ks, p, k, h) \in Seq(Grant)
      BY <1>1, <1>2, <1>9, <1>10, GrantsType DEF GrantsOnRelease
    <3>2. NoticesOf(GrantsOf(s, k, h)) = N
      <4> HIDE DEF s, q, ks
      <4>1. NoticesOf(GrantsOf(s, k, h)) =
              [i \in 1 .. ServedCount(s) |->
                 [proc |-> s.pending[i].proc, key |-> k,
                  type |-> s.pending[i].type]]
        BY <1>6, <1>9, NoticesOfGrants
      <4> QED
        BY <1>6, <4>1
    <3>3. NoticesOf(access_granted') = noticesBar \o N
      <4> DEFINE g == GrantsOnRelease(ks, p, k, h)
      <4>1. access_granted' = access_granted \o g /\ NoticesOf(g) = N
        BY <1>2, <3>1, <3>2
      <4>2. g \in Seq(Grant)
        BY <3>1
      <4> HIDE DEF g, N
      <4>3. NoticesOf(access_granted \o g)
              = NoticesOf(access_granted) \o NoticesOf(g)
        BY <1>1, <4>2, NoticesConcat
      <4> QED
        BY <4>1, <4>3 DEF noticesBar
    <3> QED
      BY <3>3 DEF noticesBar, NoticesOf
  <2>5. HoldingOf(ks) \ {a} = {}
    BY <1>3, <2>1
  <2> HIDE DEF a, r, s, n, q, ks
  <2>6. (HoldingOf(ks) \ {a}) \cup {q[i] : i \in 1 .. n} = HoldingOf(r)
    BY <2>3, <2>5
  <2>7. a \in HoldingOf(ks)
    BY <1>3 DEF a, ks
  <2> SUFFICES /\ a \in holdingBar[k]
               /\ n \in 0 .. Len(waitingBar[k])
               /\ FL!Admits(holdingBar[k] \ {a}, waitingBar[k], n)
               /\ holdingBar' =
                    [holdingBar EXCEPT ![k] =
                       (holdingBar[k] \ {a})
                         \cup {waitingBar[k][i] : i \in 1 .. n}]
               /\ waitingBar' =
                    [waitingBar EXCEPT ![k] =
                       SubSeq(waitingBar[k], n + 1, Len(waitingBar[k]))]
               /\ noticesBar' =
                    noticesBar \o
                      [i \in 1 .. n |->
                         [proc |-> waitingBar[k][i].proc, key |-> k,
                          type |-> waitingBar[k][i].type]]
    BY <1>4, <1>5, <1>7, <1>8, LeaveBar
  <2> QED
    <3>1. /\ a \in holdingBar[k]
          /\ n \in 0 .. Len(waitingBar[k])
          /\ FL!Admits(holdingBar[k] \ {a}, waitingBar[k], n)
      BY <1>5, <2>3, <2>5, <2>7
    <3>2. holdingBar' =
            [holdingBar EXCEPT ![k] =
               (holdingBar[k] \ {a}) \cup {waitingBar[k][i] : i \in 1 .. n}]
      BY <1>5, <1>7, <2>6
    <3>3. waitingBar' =
            [waitingBar EXCEPT ![k] =
               SubSeq(waitingBar[k], n + 1, Len(waitingBar[k]))]
      BY <1>5, <1>7, <2>3
    <3>4. noticesBar' =
            noticesBar \o
              [i \in 1 .. n |->
                 [proc |-> waitingBar[k][i].proc, key |-> k,
                  type |-> waitingBar[k][i].type]]
      BY <1>5, <2>4
    <3> QED
      BY <3>1, <3>2, <3>3, <3>4, Zenon
<1>11. CASE ~ LastRelease(ks, p)
  <2>1. r = s
    BY <1>11 DEF AfterRelease
  <2>2. FL!Admits(HoldingOf(s), q, 0)
    BY <1>1, <1>11, LeftoverAdmitsNone
  <2>3. noticesBar' = noticesBar /\ noticesBar \in Seq(Notice)
    <3>1. access_granted' = access_granted
      BY <1>1, <1>2, <1>11, ConcatEmptySeq DEF GrantsOnRelease
    <3> QED
      BY <1>1, <3>1, NoticesType DEF noticesBar, NoticesOf
  <2> DEFINE N == [i \in 1 .. 0 |-> [proc |-> q[i].proc, key |-> k,
                                     type |-> q[i].type]]
  <2>4. noticesBar' = noticesBar \o N
    <3>1. N = <<>>
      <4>1. N \in [1 .. 0 -> Notice]
        OBVIOUS
      <4>2. N \in Seq(Notice) /\ Len(N) = 0
        <5> HIDE DEF N
        <5> QED
          BY <4>1, FunctionIsSeq
      <4> QED
        BY <4>2, EmptySeq
    <3> HIDE DEF N
    <3> QED
      BY <2>3, <3>1, ConcatEmptySeq
  <2>5. SubSeq(q, 0 + 1, Len(q)) = q /\ 0 \in 0 .. Len(q)
    BY <1>1, SubSeqFull, LenProperties
  <2>6. a \in HoldingOf(ks) /\ HoldingOf(ks) \ {a} = HoldingOf(s)
    BY <1>3
  <2>7. r.pending = q
    BY <1>6, <2>1
  <2> HIDE DEF a, r, s, q, ks
  <2>8. (HoldingOf(ks) \ {a}) \cup {q[i] : i \in 1 .. 0} = HoldingOf(r)
    BY <2>1, <2>6
  <2> SUFFICES /\ a \in holdingBar[k]
               /\ 0 \in 0 .. Len(waitingBar[k])
               /\ FL!Admits(holdingBar[k] \ {a}, waitingBar[k], 0)
               /\ holdingBar' =
                    [holdingBar EXCEPT ![k] =
                       (holdingBar[k] \ {a})
                         \cup {waitingBar[k][i] : i \in 1 .. 0}]
               /\ waitingBar' =
                    [waitingBar EXCEPT ![k] =
                       SubSeq(waitingBar[k], 0 + 1, Len(waitingBar[k]))]
               /\ noticesBar' =
                    noticesBar \o
                      [i \in 1 .. 0 |->
                         [proc |-> waitingBar[k][i].proc, key |-> k,
                          type |-> waitingBar[k][i].type]]
    BY <1>4, <1>5, <1>7, <1>8, LeaveBar
  <2> QED
    BY <1>5, <1>7, <2>2, <2>4, <2>5, <2>6, <2>7, <2>8
<1> QED
  BY <1>10, <1>11
----------------------------------------------------------------------------
(* THE REFINEMENT *)

(* A manager without keys is a lock without keys.                          *)
LEMMA InitRefines == Init => FL!Init
BY DEF Init, FL!Init, Exists, HoldingOf, AnswerOf

(* Every step of the manager is a step of the lock, or changes nothing the *)
(* lock can see; one step per call.                                        *)
LEMMA StepRefines == IInv /\ [Next]_vars => [FL!Next]_FL!vars
<1> SUFFICES ASSUME IInv, [Next]_vars
             PROVE  [FL!Next]_FL!vars
  OBVIOUS
<1>1. /\ TypeOK
      /\ \A k \in KeyId : Exists(k) => /\ key_states[k] \in Entry
                                       /\ EntryInv(key_states[k])
  BY DEF IInv, TypeOK, Exists
<1>2. ASSUME NEW p \in ProcId, NEW k \in KeyId, Create(p, k)
      PROVE  FL!Next
  <2>1. CASE Fail("KeyExists")
    BY <2>1, FailRefuses
  <2>2. CASE /\ ~ Exists(k)
             /\ SetEntry(k, NewKeyState(p))
             /\ Return("Ok")
             /\ UNCHANGED access_granted
    <3> DEFINE e == NewKeyState(p)
    <3>1. /\ e \in Entry /\ e.pending = <<>> /\ HoldingOf(e) = {}
      BY NewKeyStateKeepsInv, NoEntryAssumption
      DEF NewKeyState, HoldingOf, Entry
    <3>2. /\ k \notin liveBar /\ holdingBar[k] = {} /\ waitingBar[k] = <<>>
      BY <2>2 DEF liveBar, holdingBar, waitingBar, Exists, HoldingOf
    <3>3. /\ liveBar' = liveBar \cup {k}
          /\ holdingBar' = [holdingBar EXCEPT ![k] = {}]
          /\ waitingBar' = [waitingBar EXCEPT ![k] = <<>>]
      <4>1. SetEntry(k, e)
        BY <2>2
      <4> HIDE DEF e
      <4>2. /\ liveBar' = liveBar \cup {k}
            /\ holdingBar' = [holdingBar EXCEPT ![k] = HoldingOf(e)]
            /\ waitingBar' = [waitingBar EXCEPT ![k] = e.pending]
        BY <1>1, <3>1, <4>1, SetEntryBar
      <4> QED
        BY <3>1, <4>2
    <3>4. holdingBar' = holdingBar /\ waitingBar' = waitingBar
      BY <3>2, <3>3 DEF holdingBar, waitingBar
    <3>5. answerBar' = "ok" /\ noticesBar' = noticesBar
      BY <2>2 DEF answerBar, AnswerOf, Return, noticesBar, NoticesOf
    <3>6. FL!Create(k)
      BY <3>2, <3>3, <3>4, <3>5
      DEF FL!Create, liveBar, holdingBar, waitingBar, noticesBar, NoticesOf,
          answerBar
    <3> QED
      BY <3>6 DEF FL!Next
  <2> QED
    BY <1>2, <2>1, <2>2 DEF Create
<1>3. ASSUME NEW k \in KeyId, Delete(k)
      PROVE  FL!Next
  <2>1. CASE \E err \in {"KeyNotFound", "KeyAccessed"} : Fail(err)
    BY <2>1, FailRefuses
  <2>2. CASE /\ Exists(k)
             /\ ~ Accessed(key_states[k])
             /\ SetEntry(k, NoEntry)
             /\ Return("Ok")
             /\ UNCHANGED access_granted
    <3>1. key_states[k].pending = <<>> /\ HoldingOf(key_states[k]) = {}
      BY <1>1, <2>2, HoldingOfEntry DEF EntryInv
    <3>2. k \in liveBar /\ holdingBar[k] = {} /\ waitingBar[k] = <<>>
      BY <2>2, <3>1 DEF liveBar, holdingBar, waitingBar
    <3>3. /\ key_states \in [KeyId -> Entry \cup {NoEntry}]
          /\ key_states' = [key_states EXCEPT ![k] = NoEntry]
      BY <1>1, <2>2 DEF TypeOK, SetEntry
    <3>4. liveBar' = liveBar \ {k}
      BY <3>3 DEF liveBar, Exists
    <3>5. waitingBar' = waitingBar
      BY <3>1, <3>3 DEF waitingBar, Exists
    <3>6. holdingBar' = holdingBar
      <4>1. HoldingOf(NoEntry) = {}
        BY DEF HoldingOf
      <4>2. \A j \in KeyId : HoldingOf(key_states'[j])
                               = HoldingOf(key_states[j])
        BY <3>1, <3>3, <4>1
      <4>3. holdingBar' = [j \in KeyId |-> HoldingOf(key_states'[j])]
        BY DEF holdingBar, HoldingOf
      <4> QED
        BY <4>2, <4>3 DEF holdingBar
    <3>7. answerBar' = "ok" /\ noticesBar' = noticesBar
      BY <2>2 DEF answerBar, AnswerOf, Return, noticesBar, NoticesOf
    <3>8. FL!Delete(k)
      BY <3>2, <3>4, <3>5, <3>6, <3>7
      DEF FL!Delete, liveBar, holdingBar, waitingBar, noticesBar, NoticesOf,
          answerBar
    <3> QED
      BY <3>8 DEF FL!Next
  <2> QED
    BY <1>3, <2>1, <2>2 DEF Delete
<1>4. ASSUME NEW p \in ProcId, NEW k \in KeyId, Read(p, k)
      PROVE  FL!Next
  <2>1. CASE Fail("KeyNotFound")
    BY <2>1, FailRefuses
  <2>2. CASE /\ Exists(k)
             /\ ReadMustQueue(key_states[k])
             /\ SetEntry(k, Enqueue(key_states[k], p, "Read"))
             /\ Return("RequestAccess")
             /\ UNCHANGED access_granted
    <3>1. Accessed(key_states[k]) /\ "Read" \in AccessType
      BY <1>1, <2>2
      DEF EntryInv, ReadMustQueue, FrontIsWrite, Accessed, AccessType
    <3> QED
      BY <2>2, <3>1, QueuedArrives
  <2>3. CASE /\ Exists(k)
             /\ ~ ReadMustQueue(key_states[k])
             /\ SetEntry(k, RegisterReader(key_states[k], p))
             /\ \E h \in HolderChoices(RegisterReader(key_states[k], p)) :
                  reply' = [res |-> "Ok", holder |-> h]
             /\ UNCHANGED access_granted
    <3> DEFINE ks == key_states[k]
               e == RegisterReader(ks, p)
               a == [proc |-> p, type |-> "Read"]
    <3>1. ks \in Entry /\ EntryInv(ks) /\ e \in Entry /\ a \in Request
      BY <1>1, <2>3, RegisterReaderKeepsInv DEF Request, AccessType
    <3>2. ks.writer = NoProc /\ ks.pending = <<>> /\ e.pending = <<>>
      BY <2>3, <3>1
      DEF ReadMustQueue, EntryInv, Accessed, FrontIsWrite, RegisterReader,
          Entry
    <3>3. HoldingOf(e) = HoldingOf(ks) \cup {a}
      BY <3>1, HoldingAfterRegister
    <3>4. reply'.res = "Ok" /\ a.type = "Read"
      BY <2>3
    <3>5. SetEntry(k, e)
      BY <2>3
    <3> HIDE DEF e, a
    <3> QED
      BY <2>3, <3>1, <3>2, <3>3, <3>4, <3>5, GrantedArrives
  <2> QED
    BY <1>4, <2>1, <2>2, <2>3 DEF Read
<1>5. ASSUME NEW p \in ProcId, NEW k \in KeyId, Write(p, k)
      PROVE  FL!Next
  <2>1. CASE Fail("KeyNotFound")
    BY <2>1, FailRefuses
  <2>2. CASE /\ Exists(k)
             /\ Accessed(key_states[k])
             /\ SetEntry(k, Enqueue(key_states[k], p, "Write"))
             /\ Return("RequestAccess")
             /\ UNCHANGED access_granted
    <3>1. "Write" \in AccessType /\ "Write" # "Read"
      BY DEF AccessType
    <3> QED
      BY <2>2, <3>1, QueuedArrives
  <2>3. CASE /\ Exists(k)
             /\ ~ Accessed(key_states[k])
             /\ SetEntry(k, RegisterWriter(key_states[k], p))
             /\ Return("Ok")
             /\ UNCHANGED access_granted
    <3> DEFINE ks == key_states[k]
               e == RegisterWriter(ks, p)
               a == [proc |-> p, type |-> "Write"]
    <3>1. ks \in Entry /\ EntryInv(ks) /\ e \in Entry /\ a \in Request
      BY <1>1, <2>3, RegisterWriterKeepsInv DEF Request, AccessType
    <3>2. ks.writer = NoProc /\ ks.pending = <<>> /\ e.pending = <<>>
      BY <2>3, <3>1 DEF EntryInv, Accessed, RegisterWriter, Entry
    <3>3. HoldingOf(e) = HoldingOf(ks) \cup {a}
      BY <3>1, <3>2, HoldingAfterRegister
    <3>4. reply'.res = "Ok" /\ SetEntry(k, e)
      BY <2>3 DEF Return
    <3> HIDE DEF e, a
    <3> QED
      BY <2>3, <3>1, <3>2, <3>3, <3>4, GrantedArrives
  <2> QED
    BY <1>5, <2>1, <2>2, <2>3 DEF Write
<1>6. ASSUME NEW p \in ProcId, NEW k \in KeyId, Release(p, k)
      PROVE  FL!Next
  <2>1. CASE \E err \in {"KeyNotFound", "ReleaseAccess"} : Fail(err)
    BY <2>1, FailRefuses
  <2>2. CASE ReleaseHeld(p, k)
    BY <2>2, ReleaseLeaves
  <2> QED
    BY <1>6, <2>1, <2>2 DEF Release
<1>7. CASE TryRecv
  <2>1. /\ access_granted \in Seq(Grant) /\ access_granted # <<>>
        /\ access_granted' = Tail(access_granted)
        /\ UNCHANGED <<key_states, reply>>
    BY <1>1, <1>7 DEF TypeOK, TryRecv
  <2>2. noticesBar # <<>> /\ noticesBar' = Tail(noticesBar)
    <3>1. NoticesOf(access_granted') = Tail(noticesBar)
      BY <2>1, NoticesTail DEF noticesBar
    <3>2. noticesBar' = NoticesOf(access_granted')
      BY DEF noticesBar, NoticesOf
    <3>3. noticesBar # <<>>
      BY <2>1, NoticesTail DEF noticesBar
    <3> QED
      BY <3>1, <3>2, <3>3
  <2>3. /\ liveBar' = liveBar /\ holdingBar' = holdingBar
        /\ waitingBar' = waitingBar /\ answerBar' = answerBar
    BY <2>1 DEF liveBar, holdingBar, waitingBar, answerBar, Exists,
                HoldingOf, AnswerOf
  <2>4. FL!Collect
    BY <2>2, <2>3
    DEF FL!Collect, liveBar, holdingBar, waitingBar, noticesBar, NoticesOf,
        answerBar
  <2> QED
    BY <2>4 DEF FL!Next
<1>8. CASE UNCHANGED vars
  BY <1>8 DEF vars, FL!vars, Exists, HoldingOf, AnswerOf
<1> QED
  BY <1>2, <1>3, <1>4, <1>5, <1>6, <1>7, <1>8 DEF Next

(* The manager implements the first-come-first-served lock: nobody         *)
(* overtakes, nobody who could be admitted is left waiting, and the        *)
(* admitted waiters and only they are notified, in order.                  *)
THEOREM Refinement == Spec => ImplementsFairLock
<1> QED
  BY InitRefines, Invariance, StepRefines, PTL
  DEF Spec, ImplementsFairLock, FL!Spec
============================================================================
