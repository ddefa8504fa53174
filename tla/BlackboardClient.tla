--------------------------- MODULE BlackboardClient ---------------------------
(***************************************************************************)
(* The blackboard client's oplog-tailing thread and the EquipletNode's     *)
(* callback on it.                                                         *)
(*                                                                         *)
(* Writers insert messages into the blackboard collection; each insert   *)
(* and each removal appears as an entry of the oplog.  The tailing thread *)
(* takes the oplog entries one at a time and, for each, evaluates every   *)
(* subscription in turn (a MatchFault skips that subscription only); a    *)
(* match runs the subscriber's callback on that thread.  The subscription *)
(* of the EquipletNode (subscribe("instruction") in its constructor) has  *)
(* blackboardReadCallback as its callback, which ends with               *)
(* removeOldestMessage(): the oldest message of the collection is removed.*)
(*                                                                         *)
(* The library is not in src/: the thread is modelled from spec 4.4, the *)
(* callback from EquipletNode.cpp.                                        *)
(***************************************************************************)
EXTENDS Integers, Sequences, SequencesExt

CONSTANTS
  Subs,        \* subscriptions
  NodeSubs,    \* subscriptions whose callback is blackboardReadCallback
  SubOp,       \* SubOp[s]: the MongoOperation s responds to
  SubDocs,     \* SubDocs[s]: documents s's field predicate accepts
  Msgs         \* messages the writers insert, each once (bounds the oplog)

ASSUME NodeSubs \subseteq Subs

Ops == {"insert", "remove"}
Entries == [op : Ops, doc : Msgs]

VARIABLES
  oplog,       \* the store's oplog, in order
  collection,  \* the blackboard collection, oldest message first
  pos,         \* oplog entries the tailing thread has finished
  inEntry,     \* the thread is evaluating oplog[pos + 1]
  pending,     \* subscriptions not yet evaluated for oplog[pos + 1]
  delivered,   \* ghost: oplog indexes passed to each subscription
  faulted,     \* ghost: oplog indexes whose evaluation faulted, per subscription
  removed      \* ghost: messages removed by a callback

vars == <<oplog, collection, pos, inEntry, pending, delivered, faulted, removed>>

(* BasicOperationSubscription::matchesWithEntry (spec 4.4): the entry's   *)
(* operation is the subscription's, and its document satisfies the       *)
(* subscription's field predicate.                                         *)
Matches(s, e) == e.op = SubOp[s] /\ e.doc \in SubDocs[s]

-----------------------------------------------------------------------------
(* A writer inserts a message into the collection.                         *)
Insert(m) ==
  /\ m \notin {oplog[i].doc : i \in DOMAIN oplog}
  /\ collection' = Append(collection, m)
  /\ oplog' = Append(oplog, [op |-> "insert", doc |-> m])
  /\ UNCHANGED <<pos, inEntry, pending, delivered, faulted, removed>>

(* The thread picks up the next oplog entry; every subscription is to be  *)
(* evaluated on it.                                                        *)
StartEntry ==
  /\ ~inEntry
  /\ pos < Len(oplog)
  /\ inEntry' = TRUE
  /\ pending' = Subs
  /\ UNCHANGED <<oplog, collection, pos, delivered, faulted, removed>>

(* All subscriptions evaluated: the thread moves past the entry.           *)
FinishEntry ==
  /\ inEntry
  /\ pending = {}
  /\ pos' = pos + 1
  /\ inEntry' = FALSE
  /\ UNCHANGED <<oplog, collection, pending, delivered, faulted, removed>>

(* blackboardReadCallback: parse the message (no state), then             *)
(* removeOldestMessage(), which removes the oldest message in the         *)
(* collection; the removal is itself an oplog entry.                       *)
BlackboardReadCallback ==
  IF collection = <<>>
    THEN UNCHANGED <<collection, oplog, removed>>
    ELSE /\ collection' = Tail(collection)
         /\ oplog' = Append(oplog, [op |-> "remove", doc |-> Head(collection)])
         /\ removed' = removed \cup {Head(collection)}

(* Subscription s is evaluated on oplog[pos + 1].                          *)
Evaluate(s) ==
  /\ inEntry
  /\ s \in pending
  /\ pending' = pending \ {s}
  /\ LET i == pos + 1 IN
       \/ /\ ~Matches(s, oplog[i])
          /\ UNCHANGED <<oplog, collection, delivered, faulted, removed>>
       \/ /\ faulted' = [faulted EXCEPT ![s] = @ \cup {i}]
          /\ UNCHANGED <<oplog, collection, delivered, removed>>
       \/ /\ Matches(s, oplog[i])
          /\ delivered' = [delivered EXCEPT ![s] = Append(@, i)]
          /\ IF s \in NodeSubs THEN BlackboardReadCallback
                               ELSE UNCHANGED <<oplog, collection, removed>>
          /\ UNCHANGED faulted
  /\ UNCHANGED <<pos, inEntry>>

Init ==
  /\ oplog = <<>>
  /\ collection = <<>>
  /\ pos = 0
  /\ inEntry = FALSE
  /\ pending = {}
  /\ delivered = [s \in Subs |-> <<>>]
  /\ faulted = [s \in Subs |-> {}]
  /\ removed = {}

Next ==
  \/ \E m \in Msgs : Insert(m)
  \/ StartEntry
  \/ \E s \in Subs : Evaluate(s)
  \/ FinishEntry

Spec == Init /\ [][Next]_vars

-----------------------------------------------------------------------------
(* Spec 4.4/6: the consumer acknowledges the oldest entry it has         *)
(* processed.  blackboardReadCallback removes the oldest message of the  *)
(* collection: every message it removes has been delivered to an         *)
(* EquipletNode subscription.                                             *)
RemovedWereProcessed ==
  \A m \in removed :
    \E s \in NodeSubs : \E k \in DOMAIN delivered[s] :
      oplog[delivered[s][k]] = [op |-> "insert", doc |-> m]
=============================================================================
