------------------------- MODULE DataSharingProofs -------------------------
(***************************************************************************)
(* Proofs about DataSharing, for any number of readers, any timeouts and   *)
(* any bounds: the types, and that a copy of the data stays current until  *)
(* the reader gives its access up.                                         *)
(*                                                                         *)
(* The argument: a program is at a step at which it uses the data only     *)
(* while its client believes in the access the step needs. Clients in sync *)
(* exclude each other (RegistryProofs), so while a reader fetches or keeps *)
(* a copy the creator does not write; and the creator stores its first     *)
(* value before it has answered anybody.                                   *)
(***************************************************************************)
EXTENDS DataSharing, RegistryProofs

CreatorStep == {"create", "store", "create_again", "write", "update",
                "release1", "end", "ended"}

ReaderStep == {"try_create", "read", "fetch", "fetching", "release2",
               "delete", "end", "ended"}

(* Each process runs its own program. *)
Roles ==
  /\ step[Creator] \in CreatorStep
  /\ \A p \in ProcId \ {Creator} : step[p] \in ReaderStep

(* A call is the one of the step. *)
CallOfStep(p) ==
  InCall(p) =>
    /\ step[p] \in DOMAIN RequestAt
    /\ call[p].kind = "sync"
    /\ call[p].type = RequestAt[step[p]] /\ call[p].key = DataKey

(* p uses the data under a read access. *)
Reading(p) ==
  \/ step[p] \in {"fetch", "fetching"}
  \/ step[p] = "release2" /\ ~ InCall(p)

(* Who uses the data believes in the access it takes. *)
Believes(p) ==
  /\ Reading(p) => [key |-> DataKey, type |-> "Read"] \in held[p]
  /\ step[p] = "update" => [key |-> DataKey, type |-> "Write"] \in held[p]

(* Nobody has been answered before there is something to answer. *)
NothingBeforeStore ==
  step[Creator] \in {"create", "store"} =>
    /\ store[Creator][DataKey] = NoData
    /\ \A p \in ProcId : answers[p] = NoData

(* An answer comes once, to who has asked; a copy is made of an answer. *)
AnswersComeOnce ==
  \A p \in ProcId :
    /\ answers[p] # NoData =>
         /\ p \notin requests
         /\ step[p] \in {"fetching", "release2", "delete", "end", "ended"}
    /\ step[p] = "release2" => answers[p] # NoData

OneKeyStored ==
  \A p \in ProcId : \A k \in KeyId \ {DataKey} : store[p][k] = NoData

(* What was answered, and then what was copied, is what the creator has. *)
Current(p) ==
  /\ step[p] = "fetching" /\ answers[p] # NoData =>
       answers[p] = store[Creator][DataKey]
  /\ step[p] = "release2" /\ ~ InCall(p) =>
       store[p][DataKey] = store[Creator][DataKey]

(* Neither the reader p nor the creator has made a call too early. *)
Undisturbed(p) == {p, Creator} \cap overlapped = {}

SInv ==
  /\ RInv
  /\ DataTypeOK
  /\ Roles
  /\ \A p \in ProcId : CallOfStep(p) /\ Believes(p)
  /\ NothingBeforeStore
  /\ AnswersComeOnce
  /\ OneKeyStored
  /\ \A p \in ProcId \ {Creator} : Undisturbed(p) => Current(p)

----------------------------------------------------------------------------
(* THE STEPS OF THE PROGRAMS *)

(* The data is kept under a key.                                           *)
LEMMA DataKeyIsKey == DataKey \in KeyId
BY KeyAssumption DEF DataKey

(* The steps that are calls, and what they call.                           *)
LEMMA CallSteps ==
  /\ DOMAIN RequestAt =
       {"create", "create_again", "write", "release1", "try_create", "read",
        "release2", "delete"}
  /\ RequestAt["create"] = "Create" /\ RequestAt["create_again"] = "Create"
  /\ RequestAt["write"] = "Write" /\ RequestAt["release1"] = "Release"
  /\ RequestAt["try_create"] = "Create" /\ RequestAt["read"] = "Read"
  /\ RequestAt["release2"] = "Release" /\ RequestAt["delete"] = "Delete"
  /\ \A s \in DOMAIN RequestAt : RequestAt[s] \in RequestType
BY DEF RequestAt, RequestType, AccessType

(* Where a program goes after a call; to use the data only if it was       *)
(* granted the access.                                                     *)
LEMMA AfterCall ==
  ASSUME NEW s \in DOMAIN RequestAt, NEW ok \in BOOLEAN
  PROVE  /\ After(s, ok) \in {"store", "write", "update", "read", "fetch",
                              "delete", "end"}
         /\ s \in CreatorStep => After(s, ok) \in CreatorStep
         /\ s \in ReaderStep => After(s, ok) \in ReaderStep
         /\ After(s, ok) = "store" => s = "create"
         /\ After(s, ok) = "update" => s = "write" /\ ok
         /\ After(s, ok) = "fetch" => s = "read" /\ ok
BY CallSteps DEF After, CreatorStep, ReaderStep

(* A step of the programs is one of the registry and its clients, or none. *)
LEMMA RegistryKeepsRInv ==
  ASSUME RInv, SharingNext \/ UNCHANGED sharing
  PROVE  RInv'
<1>1. [Next]_vars
  BY DataKeyIsKey, CallSteps
  DEF SharingNext, Progress, ProgramCall, ProgramReads, ProgramTimesOut,
      ProgramEnds, RegistryRuns, StoreInitial, Update, Bind, Fetch,
      HandleFetch, Copy, Next, sharing
<1> QED
  BY <1>1, NextKeepsRInv

(* A step of the program of p that touches no data: what is left to show   *)
(* of it is where p goes on and what its client believes then.             *)
LEMMA ProgramMoves ==
  ASSUME SInv, RInv', NEW p \in ProcId, NEW s \in Step, GoTo(p, s),
         UNCHANGED <<store, requests, answers>>,
         overlapped \subseteq overlapped',
         \A u \in ProcId \ {p} : call'[u] = call[u] /\ held'[u] = held[u],
         CallOfStep(p)', Believes(p)',
         step[p] \in CreatorStep => s \in CreatorStep,
         step[p] \in ReaderStep => s \in ReaderStep,
         step[p] # "fetching" /\ s # "fetching",
         s \in {"create", "store"} => step[p] \in {"create", "store"},
         step[p] \in {"release2", "delete", "end", "ended"} =>
           s \in {"release2", "delete", "end", "ended"},
         s = "release2" => step[p] = "release2" /\ InCall(p)'
  PROVE  SInv'
<1>1. /\ step \in [ProcId -> Step] /\ step'[p] = s
      /\ \A u \in ProcId \ {p} : step'[u] = step[u]
      /\ step' \in [ProcId -> Step]
  BY DEF SInv, DataTypeOK, GoTo
<1>2. DataTypeOK'
  <2>1. requests \subseteq ProcId /\ p \notin requests
    BY DEF SInv, DataTypeOK
  <2> QED
    BY <1>1, <2>1 DEF SInv, DataTypeOK
<1>3. Roles'
  BY <1>1, CreatorAssumption DEF SInv, Roles
<1>4. ASSUME NEW u \in ProcId
      PROVE  CallOfStep(u)' /\ Believes(u)'
  BY <1>1 DEF SInv, CallOfStep, Believes, Reading, InCall
<1>5. NothingBeforeStore'
  BY <1>1, CreatorAssumption DEF SInv, NothingBeforeStore
<1>6. AnswersComeOnce'
  BY <1>1 DEF SInv, AnswersComeOnce
<1>7. OneKeyStored'
  BY DEF SInv, OneKeyStored
<1>8. ASSUME NEW u \in ProcId \ {Creator}, Undisturbed(u)'
      PROVE  Current(u)'
  BY <1>1, <1>8 DEF SInv, Current, InCall, Undisturbed
<1> QED
  BY <1>2, <1>3, <1>4, <1>5, <1>6, <1>7, <1>8 DEF SInv

(* A program makes the call of its step.                                   *)
LEMMA ProgramCallKeeps ==
  ASSUME SInv, RInv', NEW p \in ProcId, ProgramCall(p)
  PROVE  SInv'
<1> DEFINE s == step[p]
           t == RequestAt[s]
<1>1. /\ s \in DOMAIN RequestAt /\ UNCHANGED data /\ ~ InCall(p)
      /\ call' = [call EXCEPT ![p] = [kind |-> "sync", type |-> t,
                                      key |-> DataKey, awaits |-> NoKey]]
      /\ held' = [held EXCEPT ![p] = IF t = "Release"
                                     THEN {a \in @ : a.key # DataKey} ELSE @]
      /\ overlapped \subseteq overlapped'
  BY DEF ProgramCall, MakeCall, BeginCall
<1>2. /\ call \in [ProcId -> Call \cup {NoCall}]
      /\ held \in [ProcId -> SUBSET Access]
      /\ step \in [ProcId -> Step]
  BY StateTypes DEF SInv, RInv, Typed, DataTypeOK
<1>3. /\ call'[p] = [kind |-> "sync", type |-> t, key |-> DataKey,
                     awaits |-> NoKey]
      /\ \A u \in ProcId \ {p} : call'[u] = call[u] /\ held'[u] = held[u]
  BY <1>1, <1>2
<1>4. InCall(p)'
  <2>1. call'[p] \in Call
    BY <1>1, <1>3, CallSteps, DataKeyIsKey DEF Call, CallKind
  <2> QED
    BY <2>1, NoCallAssumption DEF InCall
<1>5. GoTo(p, s)
  BY <1>1, <1>2 DEF GoTo, data
<1>6. CallOfStep(p)'
  BY <1>1, <1>3 DEF CallOfStep, data
<1>7. Believes(p)'
  BY <1>1, <1>4, CallSteps DEF Believes, Reading, data
<1>8. /\ UNCHANGED <<store, requests, answers>> /\ s \in Step
      /\ s # "fetching" /\ s # "store"
  BY <1>1, <1>2, CallSteps DEF data
<1> HIDE DEF s, t
<1> QED
  BY <1>1, <1>3, <1>4, <1>5, <1>6, <1>7, <1>8, ProgramMoves DEF s

(* A call of a program returns, and the program goes on by what it is told.*)
LEMMA CallEnds ==
  ASSUME SInv, RInv', NEW p \in ProcId, InCall(p), Return(p),
         NEW ok \in BOOLEAN, GoTo(p, After(step[p], ok)),
         UNCHANGED <<store, requests, answers, overlapped>>,
         \A u \in ProcId \ {p} : held'[u] = held[u],
         ok /\ call[p].type \in AccessType => AccessOf(call[p]) \in held'[p]
  PROVE  SInv'
<1> DEFINE s == After(step[p], ok)
<1>1. /\ call \in [ProcId -> Call \cup {NoCall}]
      /\ step \in [ProcId -> Step]
  BY StateTypes DEF SInv, RInv, Typed, DataTypeOK
<1>2. /\ step[p] \in DOMAIN RequestAt
      /\ call[p].type = RequestAt[step[p]] /\ call[p].key = DataKey
  BY DEF SInv, CallOfStep
<1>3. ~ InCall(p)' /\ \A u \in ProcId \ {p} : call'[u] = call[u]
  BY <1>1 DEF Return, InCall
<1>4. /\ s \in {"store", "write", "update", "read", "fetch", "delete", "end"}
      /\ step[p] \in CreatorStep => s \in CreatorStep
      /\ step[p] \in ReaderStep => s \in ReaderStep
      /\ s = "store" => step[p] = "create"
      /\ s = "update" => step[p] = "write" /\ ok
      /\ s = "fetch" => step[p] = "read" /\ ok
  BY <1>2, AfterCall
<1>5. step'[p] = s
  BY <1>1 DEF GoTo
<1>6. CallOfStep(p)'
  BY <1>3 DEF CallOfStep
<1>7. Believes(p)'
  <2>1. Reading(p)' => s = "fetch"
    BY <1>4, <1>5 DEF Reading
  <2>2. ASSUME s = "fetch"
        PROVE  [key |-> DataKey, type |-> "Read"] \in held'[p]
    BY <1>2, <1>4, <2>2, CallSteps DEF AccessOf, AccessType
  <2>3. ASSUME s = "update"
        PROVE  [key |-> DataKey, type |-> "Write"] \in held'[p]
    BY <1>2, <1>4, <2>3, CallSteps DEF AccessOf, AccessType
  <2> QED
    BY <1>5, <2>1, <2>2, <2>3 DEF Believes
<1>8. /\ s \in Step /\ step[p] # "fetching" /\ s # "fetching"
      /\ s # "create" /\ s # "release2"
      /\ step[p] \in {"release2", "delete", "end", "ended"} =>
           s \in {"release2", "delete", "end", "ended"}
  BY <1>2, <1>4, CallSteps DEF Step, After
<1> HIDE DEF s
<1> QED
  BY <1>3, <1>4, <1>6, <1>7, <1>8, ProgramMoves DEF s

(* A program reads a message: its call returns or goes on waiting.         *)
LEMMA ProgramReadsKeeps ==
  ASSUME SInv, RInv', NEW p \in ProcId, ProgramReads(p)
  PROVE  SInv'
<1>1. /\ ReadMessage(p)
      /\ UNCHANGED <<store, requests, answers, overlapped>>
      /\ call'[p] = NoCall => GoTo(p, After(step[p], ReturnsOk(p)))
      /\ call'[p] # NoCall => UNCHANGED step
  BY DEF ProgramReads, ReadMessage
<1>2. /\ call \in [ProcId -> Call \cup {NoCall}]
      /\ held \in [ProcId -> SUBSET Access]
      /\ step \in [ProcId -> Step]
  BY StateTypes DEF SInv, RInv, Typed, DataTypeOK
<1>3. ReturnsOk(p) \in BOOLEAN
  BY DEF ReturnsOk, Grants
<1>4. CASE CallGranted(p, p)
  <2>1. /\ InCall(p) /\ Return(p) /\ call[p].kind = "sync"
        /\ Acquire(p, call[p].key, call[p].type)
    BY <1>4 DEF CallGranted, SInv, CallOfStep
  <2>2. /\ AccessOf(call[p]) \in held'[p]
        /\ \A u \in ProcId \ {p} : held'[u] = held[u]
    BY <1>2, <2>1 DEF Acquire, AccessOf
  <2>3. call'[p] = NoCall
    BY <1>2, <2>1 DEF Return
  <2> QED
    BY <1>1, <1>3, <2>1, <2>2, <2>3, CallEnds
<1>5. CASE CallWaits(p, p)
  <2>1. /\ InCall(p) /\ UNCHANGED held
        /\ call' = [call EXCEPT ![p].awaits = Front(p).key]
    BY <1>5 DEF CallWaits
  <2>2. call[p] \in Call
    BY <1>2, <2>1 DEF InCall
  <2>3. /\ call'[p] = [call[p] EXCEPT !.awaits = Front(p).key]
        /\ \A u \in ProcId \ {p} : call'[u] = call[u]
    BY <1>2, <2>1
  <2>4. /\ call'[p].kind = call[p].kind /\ call'[p].type = call[p].type
        /\ call'[p].key = call[p].key
    BY <2>2, <2>3 DEF Call
  <2>5. Front(p).key \in KeyId
    BY <1>5, StateTypes, HeadTailProperties, ResponseFields
    DEF CallWaits, Receive, Front, SInv, RInv, Typed
  <2>6. InCall(p)'
    <3>1. call'[p] \in Call
      BY <2>2, <2>3, <2>5 DEF Call
    <3> QED
      BY <3>1, NoCallAssumption DEF InCall
  <2>7. UNCHANGED step /\ GoTo(p, step[p]) /\ step[p] \in DOMAIN RequestAt
    BY <1>1, <1>2, <2>1, <2>6 DEF InCall, GoTo, SInv, CallOfStep
  <2>8. CallOfStep(p)' /\ Believes(p)'
    BY <2>1, <2>4, <2>6, <2>7 DEF SInv, CallOfStep, Believes, Reading
  <2>9. step[p] \in Step /\ step[p] # "fetching"
    BY <1>2, <2>7, CallSteps
  <2> QED
    BY <1>1, <2>1, <2>3, <2>6, <2>7, <2>8, <2>9, ProgramMoves
<1>6. CASE CallReturns(p, p)
  <2>1. /\ InCall(p) /\ Return(p) /\ UNCHANGED held
        /\ call[p].type \in AccessType => ~ Grants(call[p], Front(p))
    BY <1>6 DEF CallReturns
  <2>2. ReturnsOk(p) => call[p].type \notin AccessType
    BY <2>1 DEF ReturnsOk
  <2>3. call'[p] = NoCall
    BY <1>2, <2>1 DEF Return
  <2> QED
    BY <1>1, <1>3, <2>1, <2>2, <2>3, CallEnds
<1>7. ~ AskReturns(p, p) /\ ~ AwaitPutOff(p, p)
  BY DEF AskReturns, AwaitPutOff, SInv, CallOfStep
<1> QED
  BY <1>1, <1>4, <1>5, <1>6, <1>7 DEF ReadMessage

(* A call of a program gives up.                                           *)
LEMMA ProgramTimesOutKeeps ==
  ASSUME SInv, RInv', NEW p \in ProcId, ProgramTimesOut(p)
  PROVE  SInv'
<1>1. /\ InCall(p) /\ Return(p) /\ UNCHANGED held
      /\ UNCHANGED <<store, requests, answers, overlapped>>
      /\ GoTo(p, After(step[p], FALSE))
  BY DEF ProgramTimesOut, TimeOut, CallTimesOut
<1> QED
  BY <1>1, CallEnds

(* A program ends.                                                         *)
LEMMA ProgramEndsKeeps ==
  ASSUME SInv, RInv', NEW p \in ProcId, ProgramEnds(p)
  PROVE  SInv'
<1>1. /\ step[p] = "end" /\ GoTo(p, "ended") /\ Return(p)
      /\ held' = [held EXCEPT ![p] = {}]
      /\ UNCHANGED <<store, requests, answers, overlapped>>
  BY DEF ProgramEnds, LeaveRegistry, Leave
<1>2. /\ call \in [ProcId -> Call \cup {NoCall}]
      /\ held \in [ProcId -> SUBSET Access]
      /\ step \in [ProcId -> Step]
  BY StateTypes DEF SInv, RInv, Typed, DataTypeOK
<1>3. /\ step'[p] = "ended" /\ call'[p] = NoCall
      /\ \A u \in ProcId \ {p} : call'[u] = call[u] /\ held'[u] = held[u]
  BY <1>1, <1>2 DEF GoTo, Return
<1>4. CallOfStep(p)' /\ Believes(p)'
  BY <1>3 DEF CallOfStep, Believes, Reading, InCall
<1>5. "ended" \in Step /\ "ended" \in CreatorStep /\ "ended" \in ReaderStep
  BY DEF Step, CreatorStep, ReaderStep
<1> QED
  BY <1>1, <1>3, <1>4, <1>5, ProgramMoves

----------------------------------------------------------------------------
(* THE STEPS ON THE DATA *)

(* A statement between two calls: the client of p is in no call, and what  *)
(* it believes is as before.                                               *)
LEMMA StatementKeepsBeliefs ==
  ASSUME SInv, NEW p \in ProcId, UNCHANGED <<call, held>>,
         step[p] \notin DOMAIN RequestAt,
         \A u \in ProcId \ {p} : step'[u] = step[u],
         step'[p] \notin {"fetch", "update"},
         step'[p] \in {"fetching", "release2"} =>
           step[p] \in {"fetch", "fetching"}
  PROVE  \A u \in ProcId : CallOfStep(u)' /\ Believes(u)'
<1> SUFFICES ASSUME NEW u \in ProcId
             PROVE  CallOfStep(u)' /\ Believes(u)'
  OBVIOUS
<1>1. CallOfStep(u) /\ Believes(u)
  BY DEF SInv
<1>2. CASE u = p
  <2>1. ~ InCall(p)'
    BY <1>1, <1>2 DEF CallOfStep, InCall
  <2> QED
    BY <1>1, <1>2, <2>1 DEF CallOfStep, Believes, Reading
<1>3. CASE u # p
  BY <1>1, <1>3 DEF CallOfStep, Believes, Reading, InCall
<1> QED
  BY <1>2, <1>3

(* The creator stores its first value: nobody has been answered yet.       *)
LEMMA StoreInitialKeeps ==
  ASSUME SInv, RInv', NEW p \in ProcId, StoreInitial(p)
  PROVE  SInv'
<1>1. /\ step[p] = "store" /\ GoTo(p, "create_again")
      /\ DataStoreCreate(p, DataKey, "initial")
      /\ UNCHANGED <<vars, requests, answers>>
  BY DEF StoreInitial
<1>2. p = Creator
  BY <1>1 DEF SInv, Roles, ReaderStep
<1>3. /\ step' = [step EXCEPT ![p] = "create_again"]
      /\ step \in [ProcId -> Step] /\ step' \in [ProcId -> Step]
      /\ step'[p] = "create_again"
      /\ \A u \in ProcId \ {p} : step'[u] = step[u]
  BY <1>1 DEF GoTo, SInv, DataTypeOK, Step, RequestAt
<1>4. UNCHANGED <<call, held, overlapped>>
  BY <1>1 DEF vars, client
<1>5. /\ store' \in [ProcId -> [KeyId -> Data \cup {NoData}]]
      /\ \A u \in ProcId : \A k \in KeyId \ {DataKey} :
           store'[u][k] = store[u][k]
  BY <1>1, DataKeyIsKey DEF DataStoreCreate, SInv, DataTypeOK, Data
<1>6. DataTypeOK'
  BY <1>1, <1>3, <1>5 DEF SInv, DataTypeOK
<1>7. Roles'
  BY <1>2, <1>3 DEF SInv, Roles, CreatorStep
<1>8. \A u \in ProcId : CallOfStep(u)' /\ Believes(u)'
  BY <1>1, <1>3, <1>4, CallSteps, StatementKeepsBeliefs
<1>9. NothingBeforeStore'
  BY <1>2, <1>3 DEF NothingBeforeStore
<1>10. AnswersComeOnce' /\ \A u \in ProcId : answers[u] = NoData
  BY <1>1, <1>2, <1>3 DEF SInv, AnswersComeOnce, NothingBeforeStore
<1>11. OneKeyStored'
  BY <1>5 DEF SInv, OneKeyStored
<1>12. ASSUME NEW u \in ProcId \ {Creator}
       PROVE  Current(u)'
  BY <1>1, <1>2, <1>3, <1>10 DEF Current, SInv, AnswersComeOnce
<1> QED
  BY <1>6, <1>7, <1>8, <1>9, <1>10, <1>11, <1>12 DEF SInv

(* The creator stores its new value, and believes in its write access:     *)
(* no reader is reading, unless it or the creator has called too early.    *)
LEMMA UpdateKeeps ==
  ASSUME SInv, RInv', NEW p \in ProcId, Update(p)
  PROVE  SInv'
<1>1. /\ step[p] = "update" /\ GoTo(p, "release1")
      /\ DataStoreWrite(p, DataKey, "new")
      /\ UNCHANGED <<vars, requests, answers>>
  BY DEF Update
<1>2. p = Creator
  BY <1>1 DEF SInv, Roles, ReaderStep
<1>3. /\ step \in [ProcId -> Step] /\ step' \in [ProcId -> Step]
      /\ step'[p] = "release1"
      /\ \A u \in ProcId \ {p} : step'[u] = step[u]
  BY <1>1 DEF GoTo, SInv, DataTypeOK, Step, RequestAt
<1>4. UNCHANGED <<call, held, overlapped>>
  BY <1>1 DEF vars, client
<1>5. /\ store' \in [ProcId -> [KeyId -> Data \cup {NoData}]]
      /\ \A u \in ProcId : \A k \in KeyId \ {DataKey} :
           store'[u][k] = store[u][k]
  BY <1>1, DataKeyIsKey DEF DataStoreWrite, SInv, DataTypeOK, Data
<1>6. DataTypeOK'
  BY <1>1, <1>3, <1>5 DEF SInv, DataTypeOK
<1>7. Roles'
  BY <1>2, <1>3 DEF SInv, Roles, CreatorStep
<1>8. \A u \in ProcId : CallOfStep(u)' /\ Believes(u)'
  BY <1>1, <1>3, <1>4, CallSteps, StatementKeepsBeliefs
<1>9. NothingBeforeStore'
  BY <1>2, <1>3 DEF NothingBeforeStore
<1>10. AnswersComeOnce'
  BY <1>1, <1>2, <1>3 DEF SInv, AnswersComeOnce
<1>11. OneKeyStored'
  BY <1>5 DEF SInv, OneKeyStored
<1>12. ASSUME NEW u \in ProcId \ {Creator}, Undisturbed(u)'
       PROVE  Current(u)'
  <2>1. ~ Reading(u)
    <3> SUFFICES ASSUME Reading(u)
                 PROVE  FALSE
      OBVIOUS
    <3> DEFINE a == [key |-> DataKey, type |-> "Write"]
               b == [key |-> DataKey, type |-> "Read"]
    <3>1. a \in held[p] /\ b \in held[u]
      BY <1>1 DEF SInv, Believes
    <3>2. InSyncExclusion
      BY BeliefsExclude DEF SInv
    <3>3. p # u /\ p \in ProcId \ overlapped /\ u \in ProcId \ overlapped
      BY <1>2, <1>4, <1>12 DEF Undisturbed
    <3>4. a.key = b.key => a.type = "Read"
      BY <3>1, <3>2, <3>3 DEF InSyncExclusion
    <3> QED
      BY <3>4
  <2> QED
    BY <1>2, <1>3, <1>4, <2>1 DEF Current, Reading, InCall
<1> QED
  BY <1>6, <1>7, <1>8, <1>9, <1>10, <1>11, <1>12 DEF SInv

(* A reader asks for the data, or is refused.                              *)
LEMMA FetchKeeps ==
  ASSUME SInv, RInv', NEW p \in ProcId, Fetch(p)
  PROVE  SInv'
<1>1. /\ step[p] = "fetch" /\ UNCHANGED <<vars, store, answers>>
      /\ \/ requests' = requests \cup {p} /\ GoTo(p, "fetching")
         \/ requests' = requests /\ GoTo(p, "end")
  BY DEF Fetch
<1>2. p # Creator
  BY <1>1 DEF SInv, Roles, CreatorStep
<1>3. /\ step \in [ProcId -> Step] /\ step' \in [ProcId -> Step]
      /\ \A u \in ProcId \ {p} : step'[u] = step[u]
      /\ \/ requests' = requests \cup {p} /\ step'[p] = "fetching"
         \/ requests' = requests /\ step'[p] = "end"
  BY <1>1 DEF GoTo, SInv, DataTypeOK, Step
<1>4. UNCHANGED <<call, held, overlapped>>
  BY <1>1 DEF vars, client
<1>5. answers[p] = NoData
  BY <1>1 DEF SInv, AnswersComeOnce
<1>6. DataTypeOK'
  BY <1>1, <1>3 DEF SInv, DataTypeOK
<1>7. Roles'
  BY <1>2, <1>3, CreatorAssumption DEF SInv, Roles, ReaderStep
<1>8. \A u \in ProcId : CallOfStep(u)' /\ Believes(u)'
  BY <1>1, <1>3, <1>4, CallSteps, StatementKeepsBeliefs
<1>9. NothingBeforeStore'
  BY <1>1, <1>2, <1>3, CreatorAssumption DEF SInv, NothingBeforeStore
<1>10. AnswersComeOnce'
  BY <1>1, <1>3, <1>5 DEF SInv, AnswersComeOnce
<1>11. OneKeyStored'
  BY <1>1 DEF SInv, OneKeyStored
<1>12. ASSUME NEW u \in ProcId \ {Creator}, Undisturbed(u)'
       PROVE  Current(u)'
  BY <1>1, <1>3, <1>4, <1>5, <1>12 DEF SInv, Current, InCall, Undisturbed
<1> QED
  BY <1>6, <1>7, <1>8, <1>9, <1>10, <1>11, <1>12 DEF SInv

(* The creator's server answers with what the creator has at that moment.  *)
LEMMA HandleFetchKeeps ==
  ASSUME SInv, RInv', NEW p \in ProcId, HandleFetch(p)
  PROVE  SInv'
<1> DEFINE d == store[Creator][DataKey]
<1>1. /\ p \in requests /\ requests' = requests \ {p}
      /\ UNCHANGED <<vars, step, store>>
      /\ \/ d = NoData /\ answers' = answers
         \/ d # NoData /\ answers' = [answers EXCEPT ![p] = d]
  BY DEF HandleFetch
<1>2. UNCHANGED <<call, held, overlapped>>
  BY <1>1 DEF vars, client
<1>3. d \in Data \cup {NoData}
  BY DataKeyIsKey, CreatorAssumption DEF SInv, DataTypeOK
<1>4. /\ answers' \in [ProcId -> Data \cup {NoData}]
      /\ \A u \in ProcId \ {p} : answers'[u] = answers[u]
      /\ \/ answers'[p] = answers[p]
         \/ d # NoData /\ answers'[p] = d
  BY <1>1, <1>3 DEF SInv, DataTypeOK
<1>5. step[p] = "fetching"
  BY <1>1 DEF SInv, DataTypeOK
<1>6. DataTypeOK'
  BY <1>1, <1>4 DEF SInv, DataTypeOK
<1>7. Roles'
  BY <1>1 DEF SInv, Roles
<1>8. \A u \in ProcId : CallOfStep(u)' /\ Believes(u)'
  BY <1>1, <1>2 DEF SInv, CallOfStep, Believes, Reading, InCall
<1>9. NothingBeforeStore'
  BY <1>1, <1>4 DEF SInv, NothingBeforeStore
<1>10. AnswersComeOnce'
  BY <1>1, <1>4, <1>5 DEF SInv, AnswersComeOnce
<1>11. OneKeyStored'
  BY <1>1 DEF SInv, OneKeyStored
<1>12. ASSUME NEW u \in ProcId \ {Creator}, Undisturbed(u)'
       PROVE  Current(u)'
  BY <1>1, <1>2, <1>4, <1>5, <1>12 DEF SInv, Current, InCall, Undisturbed
<1> QED
  BY <1>6, <1>7, <1>8, <1>9, <1>10, <1>11, <1>12 DEF SInv

(* The reader keeps a copy of the answer.                                  *)
LEMMA CopyKeeps ==
  ASSUME SInv, RInv', NEW p \in ProcId, Copy(p)
  PROVE  SInv'
<1>1. /\ step[p] = "fetching" /\ answers[p] # NoData /\ GoTo(p, "release2")
      /\ DataStoreCreate(p, DataKey, answers[p])
      /\ UNCHANGED <<vars, requests, answers>>
  BY DEF Copy
<1>2. p # Creator
  BY <1>1 DEF SInv, Roles, CreatorStep
<1>3. /\ step \in [ProcId -> Step] /\ step' \in [ProcId -> Step]
      /\ step'[p] = "release2"
      /\ \A u \in ProcId \ {p} : step'[u] = step[u]
  BY <1>1 DEF GoTo, SInv, DataTypeOK, Step, RequestAt
<1>4. UNCHANGED <<call, held, overlapped>>
  BY <1>1 DEF vars, client
<1>5. /\ store' \in [ProcId -> [KeyId -> Data \cup {NoData}]]
      /\ store'[p][DataKey] = answers[p]
      /\ \A u \in ProcId \ {p} : store'[u] = store[u]
      /\ \A k \in KeyId \ {DataKey} : store'[p][k] = store[p][k]
  BY <1>1, DataKeyIsKey DEF DataStoreCreate, SInv, DataTypeOK
<1>6. p \notin requests
  BY <1>1 DEF SInv, AnswersComeOnce
<1>7. DataTypeOK'
  BY <1>1, <1>3, <1>5, <1>6 DEF SInv, DataTypeOK
<1>8. Roles'
  BY <1>2, <1>3, CreatorAssumption DEF SInv, Roles, ReaderStep
<1>9. \A u \in ProcId : CallOfStep(u)' /\ Believes(u)'
  BY <1>1, <1>3, <1>4, CallSteps, StatementKeepsBeliefs
<1>10. NothingBeforeStore'
  BY <1>1, <1>2, <1>3, <1>5, CreatorAssumption DEF SInv, NothingBeforeStore
<1>11. AnswersComeOnce'
  BY <1>1, <1>3 DEF SInv, AnswersComeOnce
<1>12. OneKeyStored'
  BY <1>5 DEF SInv, OneKeyStored
<1>13. ASSUME NEW u \in ProcId \ {Creator}, Undisturbed(u)'
       PROVE  Current(u)'
  <2>1. Current(u) /\ store'[Creator] = store[Creator]
    BY <1>2, <1>4, <1>5, <1>13, CreatorAssumption DEF SInv, Undisturbed
  <2>2. CASE u = p
    BY <1>1, <1>3, <1>5, <2>1, <2>2 DEF Current
  <2>3. CASE u # p
    BY <1>1, <1>3, <1>4, <1>5, <2>1, <2>3 DEF Current, InCall
  <2> QED
    BY <2>2, <2>3
<1> QED
  BY <1>7, <1>8, <1>9, <1>10, <1>11, <1>12, <1>13 DEF SInv

----------------------------------------------------------------------------
(* THE THEOREMS *)

(* What the registry does by itself is no program's business.              *)
LEMMA UnmovedProgramsKeep ==
  ASSUME SInv, RInv',
         UNCHANGED <<client, overlapped, step, store, requests, answers>>
  PROVE  SInv'
<1>1. UNCHANGED <<call, held>>
  BY DEF client
<1>2. DataTypeOK' /\ Roles' /\ NothingBeforeStore' /\ AnswersComeOnce'
      /\ OneKeyStored'
  BY DEF SInv, DataTypeOK, Roles, NothingBeforeStore, AnswersComeOnce,
         OneKeyStored
<1>3. \A u \in ProcId : /\ CallOfStep(u)' /\ Believes(u)'
                        /\ Current(u) => Current(u)'
  BY <1>1 DEF SInv, CallOfStep, Believes, Current, Reading, InCall
<1> QED
  BY <1>2, <1>3 DEF SInv, Undisturbed

(* It begins with programs at their first call and nothing stored.         *)
LEMMA InitSInv == SharingInit => SInv
<1> SUFFICES ASSUME SharingInit
             PROVE  SInv
  OBVIOUS
<1>1. /\ RInv /\ call = [p \in ProcId |-> NoCall]
      /\ step = [p \in ProcId |-> IF p = Creator THEN "create"
                                  ELSE "try_create"]
      /\ store = [p \in ProcId |-> [k \in KeyId |-> NoData]]
      /\ requests = {} /\ answers = [p \in ProcId |-> NoData]
  BY InitRInv, ClientsAreNamedByIds DEF SharingInit, Init, ClientInit
<1>2. DataTypeOK
  BY <1>1 DEF DataTypeOK, Step, RequestAt
<1>3. Roles /\ NothingBeforeStore /\ AnswersComeOnce /\ OneKeyStored
  BY <1>1, CreatorAssumption, DataKeyIsKey
  DEF Roles, NothingBeforeStore, AnswersComeOnce, OneKeyStored, CreatorStep,
      ReaderStep
<1>4. \A p \in ProcId : CallOfStep(p) /\ Believes(p) /\ Current(p)
  BY <1>1 DEF CallOfStep, Believes, Reading, Current, InCall
<1> QED
  BY <1>1, <1>2, <1>3, <1>4 DEF SInv

(* Every step keeps the invariant.                                         *)
LEMMA NextKeepsSInv == SInv /\ [SharingNext]_sharing => SInv'
<1> SUFFICES ASSUME SInv, [SharingNext]_sharing
             PROVE  SInv'
  OBVIOUS
<1>0. RInv'
  BY RegistryKeepsRInv DEF SInv
<1>1. ASSUME NEW p \in ProcId,
             \/ ProgramCall(p) \/ ProgramReads(p) \/ ProgramTimesOut(p)
             \/ ProgramEnds(p)
      PROVE  SInv'
  BY <1>0, <1>1, ProgramCallKeeps, ProgramReadsKeeps, ProgramTimesOutKeeps,
     ProgramEndsKeeps
<1>2. ASSUME NEW p \in ProcId,
             \/ StoreInitial(p) \/ Update(p)
             \/ Fetch(p) \/ HandleFetch(p) \/ Copy(p)
      PROVE  SInv'
  BY <1>0, <1>2, StoreInitialKeeps, UpdateKeeps, FetchKeeps,
     HandleFetchKeeps, CopyKeeps
<1>3. CASE Bind
  BY <1>0, <1>3, UnmovedProgramsKeep DEF Bind, vars
<1>4. CASE RegistryRuns
  <2>1. UNCHANGED <<client, overlapped, step, store, requests, answers>>
    BY <1>4 DEF RegistryRuns, HandleGrants, Connect, HandleData, data
  <2> QED
    BY <1>0, <2>1, UnmovedProgramsKeep
<1>5. CASE UNCHANGED sharing
  BY <1>0, <1>5, UnmovedProgramsKeep DEF sharing, vars, data
<1> QED
  BY <1>1, <1>2, <1>3, <1>4, <1>5 DEF SharingNext, Progress

(* The programs' part of the state keeps its types; in particular who has  *)
(* asked the creator's server for data waits for it.                       *)
THEOREM SharingTypes == SharingSpec => []DataTypeOK
<1>1. SharingInit => SInv
  BY InitSInv
<1>2. SInv /\ [SharingNext]_sharing => SInv'
  BY NextKeepsSInv
<1>3. SInv => DataTypeOK
  BY DEF SInv
<1> QED
  BY <1>1, <1>2, <1>3, PTL DEF SharingSpec

(* A copy fetched under a read access is what the creator has until the    *)
(* access is released, for any number of readers and keys: P2PServer takes *)
(* no part in the locking, and need not.                                   *)
THEOREM CopiesStayFresh == SharingSpec => []CopiesAreFresh
<1>1. SharingInit => SInv
  BY InitSInv
<1>2. SInv /\ [SharingNext]_sharing => SInv'
  BY NextKeepsSInv
<1>3. SInv => CopiesAreFresh
  <2> SUFFICES ASSUME SInv, NEW p \in ProcId \ {Creator},
                      step[p] = "release2", ~ InCall(p),
                      {p, Creator} \cap overlapped = {}
               PROVE  store[p] = store[Creator]
    BY DEF CopiesAreFresh
  <2>1. store \in [ProcId -> [KeyId -> Data \cup {NoData}]]
    BY DEF SInv, DataTypeOK
  <2>2. store[p][DataKey] = store[Creator][DataKey]
    BY DEF SInv, Current, Undisturbed
  <2>3. \A k \in KeyId : store[p][k] = store[Creator][k]
    BY <2>2, CreatorAssumption DEF SInv, OneKeyStored
  <2> QED
    BY <2>1, <2>3, CreatorAssumption
<1> QED
  BY <1>1, <1>2, <1>3, PTL DEF SharingSpec
============================================================================
