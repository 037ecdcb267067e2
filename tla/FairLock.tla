------------------------------ MODULE FairLock ------------------------------
(***************************************************************************)
(* What AccessManager promises, stated without its case analysis: for each *)
(* live key a first-come-first-served lock with shared and exclusive       *)
(* access. After every operation exactly the longest prefix of the queue   *)
(* that is compatible with the present holders has been admitted, the      *)
(* admitted waiters are notified in queue order, the caller is told "ok"   *)
(* only when it has what it asked for, and a key is only deleted when      *)
(* nobody holds it and nobody waits for it.                                *)
(***************************************************************************)
EXTENDS Naturals, Sequences

CONSTANTS Proc, Key

Access == [proc : Proc, type : {"Read", "Write"}]

VARIABLES
  live,     (* the keys that exist                                         *)
  holding,  (* for each key the accesses in force                          *)
  waiting,  (* for each key the queue of requests not yet admitted         *)
  notices,  (* notifications of admitted waiters, not yet collected        *)
  answer    (* what the last caller was told: "ok", "wait" or "refused"    *)

vars == <<live, holding, waiting, notices, answer>>

Init ==
  /\ live = {}
  /\ holding = [k \in Key |-> {}]
  /\ waiting = [k \in Key |-> <<>>]
  /\ notices = <<>>
  /\ answer = "ok"

(* The first n requests of q can be in force together with those of H. *)
Compatible(H, q, n) ==
  \/ n = 0
  \/ n = 1 /\ H = {}
  \/ /\ \A a \in H : a.type = "Read"
     /\ \A i \in 1 .. n : q[i].type = "Read"

(* The first n requests of q are admitted beside H, and no more can be. *)
Admits(H, q, n) ==
  /\ Compatible(H, q, n)
  /\ n < Len(q) => ~ Compatible(H, q, n + 1)

(* With H in force and q queued on k, admit what can be admitted. *)
Admit(k, H, q, n) ==
  /\ Admits(H, q, n)
  /\ holding' = [holding EXCEPT ![k] = H \cup {q[i] : i \in 1 .. n}]
  /\ waiting' = [waiting EXCEPT ![k] = SubSeq(q, n + 1, Len(q))]

Create(k) ==
  /\ k \notin live
  /\ live' = live \cup {k}
  /\ answer' = "ok"
  /\ UNCHANGED <<holding, waiting, notices>>

(* A deletion never takes a key from a holder or from a waiter. *)
Delete(k) ==
  /\ k \in live
  /\ holding[k] = {} /\ waiting[k] = <<>>
  /\ live' = live \ {k}
  /\ answer' = "ok"
  /\ UNCHANGED <<holding, waiting, notices>>

(* The request joins the queue's end; the caller is told "ok" exactly when *)
(* its request is admitted at once.                                        *)
Arrive(k, a) ==
  LET q == Append(waiting[k], a)
  IN  /\ k \in live
      /\ \E n \in 0 .. Len(q) :
           /\ Admit(k, holding[k], q, n)
           /\ answer' = IF n = Len(q) THEN "ok" ELSE "wait"
      /\ UNCHANGED <<live, notices>>

(* A holder gives up one access; those admitted for it are notified. *)
Leave(k, a) ==
  /\ k \in live
  /\ a \in holding[k]
  /\ \E n \in 0 .. Len(waiting[k]) :
       /\ Admit(k, holding[k] \ {a}, waiting[k], n)
       /\ notices' = notices \o
            [i \in 1 .. n |-> [proc |-> waiting[k][i].proc, key |-> k,
                               type |-> waiting[k][i].type]]
  /\ answer' = "ok"
  /\ UNCHANGED live

(* An operation that cannot be carried out changes nothing: a key created  *)
(* twice, a dead key used, a deletion of a key in use, a release by a      *)
(* process with no access. The state does not keep which operation was     *)
(* called, so this does not say that no other is refused.                  *)
Refuse ==
  /\ answer' = "refused"
  /\ UNCHANGED <<live, holding, waiting, notices>>

Collect ==
  /\ notices # <<>>
  /\ notices' = Tail(notices)
  /\ UNCHANGED <<live, holding, waiting, answer>>

Next ==
  \/ \E k \in Key : Create(k) \/ Delete(k)
  \/ \E k \in Key, a \in Access : Arrive(k, a) \/ Leave(k, a)
  \/ Refuse
  \/ Collect

Spec == Init /\ [][Next]_vars
============================================================================
