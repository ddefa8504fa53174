------------------------------- MODULE Registry -------------------------------
(***************************************************************************)
(* What the module registry and the state aggregator promise (spec 4.1,   *)
(* 4.2 and 8), written from the spec.                                      *)
(*                                                                         *)
(* records maps each registered id to its record; order lists the ids in   *)
(* registration order (what list() answers); lastId is the highest id      *)
(* ever assigned, so ids are unique and strictly increasing.  The two      *)
(* cell states are re-derived from the records after every mutation.      *)
(***************************************************************************)
EXTENDS Integers, Sequences, SequencesExt

CONSTANTS
  States,      \* the states a record may hold
  Safe,        \* the safest state: the value of an empty aggregate
  MaxId        \* bound on the ids assigned

VARIABLES records, order, lastId, cellSafety, cellOperation

rvars == <<records, order, lastId, cellSafety, cellOperation>>

Record == [state : States, actor : BOOLEAN, needed : BOOLEAN]

(* recomputeSafety and recomputeOperation (spec 4.2).                      *)
CellSafety(recs) ==
  LET s == {recs[id].state : id \in {i \in DOMAIN recs : recs[i].actor}}
  IN  IF s = {} THEN Safe ELSE Max(s)

CellOperation(recs) ==
  LET s == {recs[id].state : id \in {i \in DOMAIN recs : recs[i].actor /\ recs[i].needed}}
  IN  IF s = {} THEN Safe ELSE Min(s)

(* Every mutation is applied together with both recomputations.            *)
Mutate(recs) ==
  /\ records' = recs
  /\ cellSafety' = CellSafety(recs)
  /\ cellOperation' = CellOperation(recs)

RegInit ==
  /\ records = <<>>
  /\ order = <<>>
  /\ lastId = 0
  /\ cellSafety = Safe
  /\ cellOperation = Safe

(* register: the next sequential id, a record in the safest state.        *)
Register ==
  /\ lastId < MaxId
  /\ \E actor, needed \in BOOLEAN :
       LET id == lastId + 1 IN
         /\ Mutate((id :> [state |-> Safe, actor |-> actor, needed |-> needed]) @@ records)
         /\ order' = Append(order, id)
         /\ lastId' = id

(* deregister(id) of a registered id.                                     *)
Deregister(id) ==
  /\ id \in DOMAIN records
  /\ Mutate([i \in DOMAIN records \ {id} |-> records[i]])
  /\ order' = SelectSeq(order, LAMBDA i : i # id)
  /\ UNCHANGED lastId

(* handleStateChanged(id, s) of a registered id.                           *)
UpdateState(id, s) ==
  /\ id \in DOMAIN records
  /\ Mutate([records EXCEPT ![id].state = s])
  /\ UNCHANGED <<order, lastId>>

RegNext ==
  \/ Register
  \/ \E id \in DOMAIN records : Deregister(id)
  \/ \E id \in DOMAIN records, s \in States : UpdateState(id, s)

RegSpec == RegInit /\ [][RegNext]_rvars
=============================================================================
