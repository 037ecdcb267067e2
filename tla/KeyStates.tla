----------------------------- MODULE KeyStates -----------------------------
(***************************************************************************)
(* The data of one registry entry: struct KeyState of access_manager.rs    *)
(* and the parts of AccessManager's methods that touch one entry only.     *)
(* There is no state here: the modules that own a map from keys to entries *)
(* (AccessManager, RegistrySystem) apply these operators to an entry and   *)
(* store the result.                                                       *)
(*                                                                         *)
(* The operators whose names start with Bug are deliberately wrong         *)
(* variants of the operator that follows them; nothing refers to them but  *)
(* the mutation list of PROJECT.json.                                      *)
(***************************************************************************)
EXTENDS Protocol

(* An element of pending_request; only reads and writes are ever queued. *)
Request == [proc : ProcId, type : AccessType]

(* A value of struct KeyState. *)
Entry == [pending : Seq(Request),
          readers : SUBSET ProcId,
          writer  : ProcId \cup {NoProc},
          creator : ProcId]

NewKeyState(p) ==
  [pending |-> <<>>, readers |-> {}, writer |-> NoProc, creator |-> p]

----------------------------------------------------------------------------
(* The tests the methods make on an entry. *)

(* The guard of delete (KeyAccessed) and of write (queue the request). *)
Accessed(ks) == ks.readers # {} \/ ks.writer # NoProc

FrontIsWrite(ks) == ks.pending # <<>> /\ Head(ks.pending).type = "Write"

BugReadMustQueue(ks) == FrontIsWrite(ks)

(* The guard of read: a writer is active or a writer heads the queue. *)
ReadMustQueue(ks) == ks.writer # NoProc \/ FrontIsWrite(ks)

BugHolds(ks, p) == Accessed(ks)

Holds(ks, p) == ks.writer = p \/ p \in ks.readers

BugHolderChoices(ks) ==
  IF ks.readers # {} THEN ks.readers ELSE {ks.writer}

(* The processes holder() may return: the writer, else any reader (the     *)
(* first of a HashSet's iteration order), else the creator.                *)
HolderChoices(ks) ==
  IF ks.writer # NoProc THEN {ks.writer}
  ELSE IF ks.readers # {} THEN ks.readers
  ELSE {ks.creator}

----------------------------------------------------------------------------
(* Changes to an entry. *)

BugEnqueue(ks, p, t) ==
  [ks EXCEPT !.pending = <<[proc |-> p, type |-> t]>> \o @]

Enqueue(ks, p, t) ==
  [ks EXCEPT !.pending = Append(@, [proc |-> p, type |-> t])]

RegisterReader(ks, p) == [ks EXCEPT !.readers = @ \cup {p}]

RegisterWriter(ks, p) == [ks EXCEPT !.writer = p]

(* How many reads head the queue q: the turns of the while-let loop of     *)
(* handle_requesting.                                                      *)
ReadBatch(q) ==
  CHOOSE n \in 0 .. Len(q) :
    /\ \A i \in 1 .. n : q[i].type = "Read"
    /\ n < Len(q) => q[n+1].type # "Read"

BugServedCount(ks) == IF ks.pending = <<>> THEN 0 ELSE 1

(* How many requests one call of handle_requesting takes off the queue. *)
ServedCount(ks) ==
  IF FrontIsWrite(ks) THEN 1 ELSE ReadBatch(ks.pending)

BugHandleRequesting(ks) ==
  [ks EXCEPT !.pending = SubSeq(@, ServedCount(ks) + 1, Len(@))]

(* The entry after handle_requesting: one writer, or every reader up to    *)
(* the next writer, has left the queue and is registered.                  *)
HandleRequesting(ks) ==
  LET q == ks.pending
      n == ServedCount(ks)
  IN  [ks EXCEPT
         !.pending = SubSeq(q, n + 1, Len(q)),
         !.writer  = IF FrontIsWrite(ks) THEN Head(q).proc ELSE @,
         !.readers = IF FrontIsWrite(ks) THEN @
                     ELSE @ \cup {q[i].proc : i \in 1 .. n}]

(* A message on access_granted_tx. *)
Grant == [proc : ProcId, key : KeyId, type : AccessType, holder : ProcId]

(* The messages the same call sends on access_granted_tx, in order. *)
GrantsOf(ks, k, holder) ==
  [i \in 1 .. ServedCount(ks) |->
     [proc |-> ks.pending[i].proc, key |-> k,
      type |-> ks.pending[i].type, holder |-> holder]]

BugSurrender(ks, p) == [ks EXCEPT !.writer = NoProc]

(* Release gives up the write access if p has it, else the read access. *)
Surrender(ks, p) ==
  IF ks.writer = p THEN [ks EXCEPT !.writer = NoProc]
                   ELSE [ks EXCEPT !.readers = @ \ {p}]

BugLastRelease(ks, p) == ks.writer = p

(* Release calls handle_requesting: the writer left, or the last reader. *)
LastRelease(ks, p) == ks.writer = p \/ ks.readers \ {p} = {}

BugWakeHolders(ks, p) == HolderChoices(ks)

(* What holder() may return inside handle_requesting: the access is given  *)
(* up already and the next holders are not yet registered.                 *)
WakeHolders(ks, p) == HolderChoices(Surrender(ks, p))

(* The entry after a release by a process that holds the key. *)
AfterRelease(ks, p) ==
  IF LastRelease(ks, p) THEN HandleRequesting(Surrender(ks, p))
                        ELSE Surrender(ks, p)

(* The grants of the same release; h is what holder() returned in it. *)
GrantsOnRelease(ks, p, k, h) ==
  IF LastRelease(ks, p) THEN GrantsOf(Surrender(ks, p), k, h) ELSE <<>>
============================================================================
