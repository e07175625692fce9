-------------------------- MODULE UniqueRowsProofs --------------------------
(***************************************************************************)
(* Machine-checked facts about UniqueRows, for any number of calls and of  *)
(* keys of every table.                                                    *)
(***************************************************************************)
EXTENDS UniqueRows, TLAPS

(* What a call that is under way works on.                                 *)
Working(r) ==
  /\ op[r] \in Ops /\ row[r] # {}
  /\ how[r] = "insert" => /\ row[r] = {[id |-> r, key |-> op[r].key]}
                          /\ op[r].kind \in {"create", "ensure", "put"}
  /\ how[r] = "update" => op[r].kind \in {"put", "change"}
  /\ how[r] = "delete" => op[r].kind = "remove"
  /\ op[r].kind \in {"change", "remove"} => \A e \in row[r] : e.id = op[r].id
  /\ op[r].kind = "create" => how[r] = "insert"

CallsWork == \A r \in UnderWay : Working(r)

(* The others hold nothing.                                                *)
OthersRest ==
  \A r \in Requests \ UnderWay : how[r] = "keep" /\ row[r] = {}

(* A row is named by a call that is done with inserting its key.           *)
RowsNamed ==
  \A e \in rows : e.id # None =>
    pc[e.id] = "done" /\ op[e.id].key = e.key

(* An insert that was not raced finds its key free; that of a constrained  *)
(* key does once it is sent, and it is the only one that was sent.         *)
InsertsFree ==
  \A r \in UnderWay, k \in Keys : Inserts(r, k) =>
    /\ k \in raced \/ Of(k) = {}
    /\ k \in Constrained /\ pc[r] = "flushed" => Of(k) = {}
    /\ \A q \in UnderWay \ {r} : Inserts(q, k) =>
         /\ k \in raced
         /\ k \in Constrained => ~(pc[r] = "flushed" /\ pc[q] = "flushed")

Unique == TypeOK /\ OthersRest /\ CallsWork /\ RowsNamed /\ InsertsFree
          /\ OneRowUnlessRaced

-----------------------------------------------------------------------------
(* Seeded rows are one for each key.                                       *)
LEMMA InitUnique == Init => Unique
<1>. SUFFICES ASSUME Init PROVE Unique
  OBVIOUS
<1>1. UnderWay = {}
  BY DEF Init, UnderWay, InFlight
<1>2. TypeOK
  <2>1. rows \subseteq Rows
    BY SeedsAreKeys DEF Init, Rows, Ids
  <2>. QED BY <2>1 DEF Init, TypeOK
<1>3. OthersRest /\ CallsWork /\ InsertsFree
  BY <1>1 DEF Init, OthersRest, CallsWork, InsertsFree
<1>4. RowsNamed /\ OneRowUnlessRaced
  BY DEF Init, RowsNamed, OneRowUnlessRaced
<1>. QED BY <1>2, <1>3, <1>4 DEF Unique

(* Keys of calls are keys, and a call names at most one row.               *)
LEMMA OpsHaveKeys == \A o \in Ops : o.key \in Keys /\ o.id \in Ids /\ o.kind # "idle"
  BY DEF Ops, Keys, Ids

(* The lookup yields at most one row, of the key that was looked up.       *)
LEMMA SelectKeepsType ==
  ASSUME TypeOK, NEW r \in Requests, NEW o \in Ops, Select(r, o)
  PROVE  TypeOK'
<1>1. o.key \in Keys
  BY OpsHaveKeys
<1>2. Found(o) \subseteq Of(o.key) /\ Of(o.key) \subseteq Rows
  BY DEF Found, Of, TypeOK
<1>3. [id |-> r, key |-> o.key] \in Rows
  BY <1>1 DEF Rows, Ids
<1>4. CASE pc' = [pc EXCEPT ![r] = "flush"]
  <2>1. /\ ~Ambiguous(o) /\ raced' \in {raced, raced \cup {o.key}}
        /\ row' = [row EXCEPT ![r] =
             IF Found(o) = {} THEN {[id |-> r, key |-> o.key]} ELSE Found(o)]
        /\ \E h \in Doings(o) : how' = [how EXCEPT ![r] = h]
        /\ rows' = rows /\ op' = [op EXCEPT ![r] = o]
    BY <1>4 DEF Select, Answer, TypeOK
  <2>2. how' \in [Requests -> {"insert", "update", "delete", "keep"}]
    BY <2>1 DEF Doings, TypeOK
  <2>3. \A e, f \in Found(o) : e = f
    BY <2>1 DEF Ambiguous
  <2>4. row' \in [Requests -> SUBSET Rows]
    BY <1>2, <1>3, <2>1 DEF TypeOK
  <2>5. ASSUME NEW q \in Requests
        PROVE  (\A e, f \in row'[q] : e = f) /\ (\A e \in row'[q] : e.key = op'[q].key)
    <3>1. CASE q = r
      BY <3>1, <1>2, <2>1, <2>3 DEF TypeOK, Of
    <3>2. CASE q # r
      BY <3>2, <2>1 DEF TypeOK
    <3>. QED BY <3>1, <3>2
  <2>6. raced' \in SUBSET Keys
    BY <1>1, <2>1 DEF TypeOK
  <2>. QED BY <1>4, <2>1, <2>2, <2>4, <2>5, <2>6 DEF TypeOK, InFlight
<1>5. CASE pc' # [pc EXCEPT ![r] = "flush"]
  BY <1>5 DEF Select, Answer, TypeOK, Answered
<1>. QED BY <1>4, <1>5

(* Every step keeps the types.                                             *)
LEMMA TypeNext == TypeOK /\ [Next]_vars => TypeOK'
<1>. SUFFICES ASSUME TypeOK, [Next]_vars PROVE TypeOK'
  OBVIOUS
<1>1. ASSUME NEW r \in Requests, Flush(r)
      PROVE  TypeOK'
  BY <1>1 DEF Flush, Answer, TypeOK, InFlight, Answered
<1>2. ASSUME NEW r \in Requests, Commit(r)
      PROVE  TypeOK'
  <2>1. Committed(r) \in SUBSET Rows
    BY DEF Committed, TypeOK
  <2>. QED BY <1>2, <2>1 DEF Commit, Answer, TypeOK, Answered
<1>3. ASSUME NEW r \in Requests, Abort(r)
      PROVE  TypeOK'
  BY <1>3 DEF Abort, Answer, TypeOK, Answered
<1>4. CASE UNCHANGED vars
  BY <1>4 DEF vars, TypeOK
<1>. QED BY <1>1, <1>2, <1>3, <1>4, SelectKeepsType DEF Next, Proceed, AllAnswered
(* The lookup: what a call that goes on may assume of its key.             *)
LEMMA SelectKeepsUnique ==
  ASSUME Unique, NEW r \in Requests, NEW o \in Ops, Select(r, o)
  PROVE  Unique'
<1>1. TypeOK /\ TypeOK' /\ o.key \in Keys /\ rows' = rows
  BY SelectKeepsType, OpsHaveKeys DEF Unique, Select
<1>2. \A q \in Requests \ {r} :
        pc'[q] = pc[q] /\ op'[q] = op[q] /\ how'[q] = how[q] /\ row'[q] = row[q]
  BY <1>1 DEF Select, Answer, TypeOK
<1>3. pc[r] = "new" /\ r \notin UnderWay /\ op'[r] = o
  BY <1>1 DEF Select, UnderWay, InFlight, TypeOK
<1>4. RowsNamed'
  <2>1. ASSUME NEW e \in rows, e.id # None
        PROVE  pc'[e.id] = "done" /\ op'[e.id].key = e.key
    <3>1. pc[e.id] = "done" /\ op[e.id].key = e.key /\ e.id \in Requests
      BY <1>1, <2>1 DEF Unique, RowsNamed, TypeOK, Rows, Ids
    <3>. QED BY <1>2, <1>3, <3>1
  <2>. QED BY <1>1, <2>1 DEF RowsNamed
<1>5. raced \subseteq raced'
  BY DEF Select
<1>6. OneRowUnlessRaced'
  BY <1>1, <1>5 DEF Unique, OneRowUnlessRaced
<1>7. CASE pc' = [pc EXCEPT ![r] = "flush"]
  <2>1. /\ ~Refuses(o)
        /\ row' = [row EXCEPT ![r] =
             IF Found(o) = {} THEN {[id |-> r, key |-> o.key]} ELSE Found(o)]
        /\ \E h \in Doings(o) : how' = [how EXCEPT ![r] = h]
        /\ raced' = IF Found(o) = {} /\ \E q \in UnderWay : Inserts(q, o.key)
                    THEN raced \cup {o.key} ELSE raced
    BY <1>7, <1>1 DEF Select, Answer, TypeOK
  <2>2. /\ how'[r] \in Doings(o)
        /\ row'[r] = IF Found(o) = {} THEN {[id |-> r, key |-> o.key]} ELSE Found(o)
    BY <1>1, <2>1 DEF TypeOK
  <2>3. UnderWay' = UnderWay \cup {r} /\ pc'[r] = "flush"
    BY <1>1, <1>7 DEF UnderWay, InFlight, TypeOK
  <2>4. how'[r] = "insert" => Found(o) = {}
    BY <2>2 DEF Doings
  <2>5. /\ o.kind \in {"create", "ensure", "put", "login", "change", "remove"}
        /\ Found(o) = {} => o.kind \in {"create", "ensure", "put"} /\ Of(o.key) = {}
        /\ o.kind = "create" => Found(o) = {}
    BY <2>1 DEF Ops, Refuses, Found
  <2>6. Working(r)'
    <3>1. o.kind \in {"change", "remove"} => \A e \in Found(o) : e.id = o.id
      BY DEF Found
    <3>. QED BY <1>3, <2>2, <2>5, <3>1 DEF Working, Doings
  <2>7. CallsWork'
    <3>1. ASSUME NEW q \in UnderWay, q # r
          PROVE  Working(q)'
      BY <1>2, <3>1 DEF Unique, CallsWork, Working, UnderWay
    <3>. QED BY <2>3, <2>6, <3>1 DEF CallsWork
  <2>8. OthersRest'
    BY <1>2, <2>3 DEF Unique, OthersRest
  <2>9. InsertsFree'
    <3>1. \A q \in UnderWay, k \in Keys : q # r /\ (Inserts(q, k))' => Inserts(q, k)
      BY <1>2 DEF Inserts, UnderWay
    <3>2. \A k \in Keys : (Inserts(r, k))' =>
            k = o.key /\ Found(o) = {} /\ Of(k) = {}
      BY <1>3, <2>4, <2>5 DEF Inserts
    <3>3. \A q \in UnderWay, k \in Keys : (Inserts(r, k))' /\ (Inserts(q, k))'
             => k \in raced'
      BY <1>3, <2>1, <3>1, <3>2
    <3>4. \A k : (Of(k))' = Of(k)
      BY <1>1 DEF Of
    <3>5. ASSUME NEW k \in Keys, (Inserts(r, k))'
          PROVE  /\ k \in raced' \/ (Of(k))' = {}
                 /\ k \in Constrained /\ pc'[r] = "flushed" => (Of(k))' = {}
                 /\ \A p \in UnderWay' \ {r} : (Inserts(p, k))' =>
                      /\ k \in raced'
                      /\ k \in Constrained => ~(pc'[r] = "flushed" /\ pc'[p] = "flushed")
      BY <2>3, <3>2, <3>3, <3>4, <3>5
    <3>6. ASSUME NEW q \in UnderWay, NEW k \in Keys, (Inserts(q, k))'
          PROVE  /\ k \in raced' \/ (Of(k))' = {}
                 /\ k \in Constrained /\ pc'[q] = "flushed" => (Of(k))' = {}
                 /\ \A p \in UnderWay' \ {q} : (Inserts(p, k))' =>
                      /\ k \in raced'
                      /\ k \in Constrained => ~(pc'[q] = "flushed" /\ pc'[p] = "flushed")
      <4>1. q # r /\ Inserts(q, k) /\ pc'[q] = pc[q]
        BY <1>2, <1>3, <3>1, <3>6 DEF UnderWay
      <4>2. /\ k \in raced \/ Of(k) = {}
            /\ k \in Constrained /\ pc[q] = "flushed" => Of(k) = {}
            /\ \A p \in UnderWay \ {q} : Inserts(p, k) =>
                 /\ k \in raced
                 /\ k \in Constrained => ~(pc[q] = "flushed" /\ pc[p] = "flushed")
        BY <4>1 DEF Unique, InsertsFree
      <4>3. ASSUME NEW p \in UnderWay' \ {q}, (Inserts(p, k))'
            PROVE  /\ k \in raced'
                   /\ k \in Constrained => ~(pc'[q] = "flushed" /\ pc'[p] = "flushed")
        <5>1. CASE p = r
          BY <2>3, <3>3, <3>6, <4>3, <5>1
        <5>2. CASE p # r
          <6>1. p \in UnderWay \ {q} /\ Inserts(p, k) /\ pc'[p] = pc[p]
            BY <1>2, <2>3, <3>1, <4>3, <5>2 DEF UnderWay
          <6>. QED BY <1>5, <4>1, <4>2, <6>1
        <5>. QED BY <5>1, <5>2
      <4>. QED BY <1>5, <3>4, <4>1, <4>2, <4>3
    <3>. QED BY <2>3, <3>5, <3>6 DEF InsertsFree
  <2>. QED BY <1>1, <1>4, <1>6, <2>7, <2>8, <2>9 DEF Unique
<1>8. CASE pc' # [pc EXCEPT ![r] = "flush"]
  <2>1. /\ raced' = raced /\ how'[r] = "keep" /\ row'[r] = {}
        /\ pc'[r] \in {"error", "refused"}
    BY <1>8, <1>1 DEF Select, Answer, TypeOK
  <2>2. UnderWay' = UnderWay
    BY <1>2, <1>3, <2>1 DEF UnderWay, InFlight
  <2>3. OthersRest' /\ CallsWork'
    <3>1. ASSUME NEW q \in UnderWay
          PROVE  Working(q)'
      BY <1>2, <1>3 DEF Unique, CallsWork, Working, UnderWay
    <3>. QED BY <1>2, <2>1, <2>2, <3>1 DEF Unique, OthersRest, CallsWork
  <2>4. InsertsFree'
    <3>1. \A q \in UnderWay, k \in Keys : (Inserts(q, k))' <=> Inserts(q, k)
      BY <1>2, <1>3 DEF Inserts, UnderWay
    <3>2. \A k : (Of(k))' = Of(k)
      BY <1>1 DEF Of
    <3>3. \A q \in UnderWay : pc'[q] = pc[q]
      BY <1>2, <1>3 DEF UnderWay
    <3>. QED BY <2>1, <2>2, <3>1, <3>2, <3>3 DEF Unique, InsertsFree
  <2>. QED BY <1>1, <1>4, <1>6, <2>3, <2>4 DEF Unique
<1>. QED BY <1>7, <1>8
(* A call that ends without a commit.                                      *)
LEMMA EndKeepsUnique ==
  ASSUME Unique, TypeOK', NEW r \in UnderWay, NEW how_ \in Answered,
         Answer(r, how_), UNCHANGED <<rows, op, raced>>
  PROVE  Unique'
<1>1. /\ r \in Requests /\ pc'[r] = how_ /\ how'[r] = "keep" /\ row'[r] = {}
      /\ \A q \in Requests \ {r} :
           pc'[q] = pc[q] /\ how'[q] = how[q] /\ row'[q] = row[q]
      /\ op' = op /\ rows' = rows /\ raced' = raced
  BY DEF Answer, Unique, TypeOK, UnderWay
<1>2. UnderWay' = UnderWay \ {r}
  BY <1>1 DEF UnderWay, InFlight, Answered
<1>3. \A q \in UnderWay' : q \in UnderWay /\ q # r /\ q \in Requests
  BY <1>2 DEF UnderWay
<1>4. OthersRest'
  BY <1>1, <1>2 DEF Unique, OthersRest
<1>5. CallsWork'
  BY <1>1, <1>3 DEF Unique, CallsWork, Working
<1>6. RowsNamed'
  <2>1. ASSUME NEW e \in rows, e.id # None
        PROVE  pc'[e.id] = "done" /\ op[e.id].key = e.key
    <3>1. pc[e.id] = "done" /\ op[e.id].key = e.key /\ e.id \in Requests
      BY <2>1 DEF Unique, RowsNamed, TypeOK, Rows, Ids
    <3>. QED BY <1>1, <3>1 DEF UnderWay, InFlight
  <2>. QED BY <1>1, <2>1 DEF RowsNamed
<1>7. InsertsFree'
  <2>1. \A q \in UnderWay', k \in Keys : (Inserts(q, k))' <=> Inserts(q, k)
    BY <1>1, <1>3 DEF Inserts
  <2>2. \A k : (Of(k))' = Of(k)
    BY <1>1 DEF Of
  <2>. QED BY <1>1, <1>3, <2>1, <2>2 DEF Unique, InsertsFree
<1>8. OneRowUnlessRaced'
  BY <1>1 DEF Unique, OneRowUnlessRaced
<1>. QED BY <1>4, <1>5, <1>6, <1>7, <1>8 DEF Unique

(* The write is sent: a constrained key is free, and nobody else holds it. *)
LEMMA SendKeepsUnique ==
  ASSUME Unique, TypeOK', NEW r \in Requests, pc[r] = "flush", ~Waits(r), ~Fails(r),
         pc' = [pc EXCEPT ![r] = "flushed"], UNCHANGED <<rows, op, how, row, raced>>
  PROVE  Unique'
<1>1. pc'[r] = "flushed" /\ \A q \in Requests \ {r} : pc'[q] = pc[q]
  BY DEF Unique, TypeOK
<1>2. UnderWay' = UnderWay /\ r \in UnderWay
  BY <1>1 DEF UnderWay, InFlight
<1>3. OthersRest' /\ CallsWork'
  BY <1>2 DEF Unique, OthersRest, CallsWork, Working
<1>4. RowsNamed'
  <2>1. ASSUME NEW e \in rows, e.id # None
        PROVE  pc'[e.id] = "done" /\ op[e.id].key = e.key
    <3>1. pc[e.id] = "done" /\ op[e.id].key = e.key /\ e.id \in Requests
      BY <2>1 DEF Unique, RowsNamed, TypeOK, Rows, Ids
    <3>. QED BY <1>1, <3>1
  <2>. QED BY <2>1 DEF RowsNamed
<1>5. InsertsFree'
  <2>1. \A q, k : ((Inserts(q, k))' <=> Inserts(q, k)) /\ (Of(k))' = Of(k)
    BY DEF Inserts, Of
  <2>2. \A k \in Constrained : Inserts(r, k) => Of(k) = {}
    BY DEF Fails
  <2>3. \A q \in UnderWay \ {r}, k \in Constrained :
          Inserts(r, k) /\ Inserts(q, k) => pc[q] # "flushed"
    BY DEF Waits, Blocks, UnderWay
  <2>4. ASSUME NEW q \in UnderWay, NEW k \in Keys, Inserts(q, k)
        PROVE  /\ k \in raced \/ Of(k) = {}
               /\ k \in Constrained /\ pc'[q] = "flushed" => Of(k) = {}
               /\ \A p \in UnderWay \ {q} : Inserts(p, k) =>
                    /\ k \in raced
                    /\ k \in Constrained => ~(pc'[q] = "flushed" /\ pc'[p] = "flushed")
    <3>1. /\ k \in raced \/ Of(k) = {}
          /\ k \in Constrained /\ pc[q] = "flushed" => Of(k) = {}
          /\ \A p \in UnderWay \ {q} : Inserts(p, k) =>
               /\ k \in raced
               /\ k \in Constrained => ~(pc[q] = "flushed" /\ pc[p] = "flushed")
      BY <2>4 DEF Unique, InsertsFree
    <3>2. \A p \in UnderWay : p \in Requests
      BY DEF UnderWay
    <3>3. k \in Constrained /\ pc'[q] = "flushed" => Of(k) = {}
      BY <1>1, <2>2, <2>4, <3>1, <3>2
    <3>4. \A p \in UnderWay \ {q} : Inserts(p, k) =>
            (k \in Constrained => ~(pc'[q] = "flushed" /\ pc'[p] = "flushed"))
      BY <1>1, <2>3, <2>4, <3>1, <3>2
    <3>. QED BY <3>1, <3>3, <3>4
  <2>. QED BY <1>2, <2>1, <2>4 DEF InsertsFree
<1>6. OneRowUnlessRaced'
  BY DEF Unique, OneRowUnlessRaced
<1>. QED BY <1>3, <1>4, <1>5, <1>6 DEF Unique

(* The commit adds the row of an insert, or takes the row of a delete out. *)
LEMMA CommitKeepsUnique ==
  ASSUME Unique, TypeOK', NEW r \in Requests, Commit(r)
  PROVE  Unique'
<1>1. /\ pc[r] = "flushed" /\ pc'[r] = "done" /\ how'[r] = "keep" /\ row'[r] = {}
      /\ \A q \in Requests \ {r} :
           pc'[q] = pc[q] /\ how'[q] = how[q] /\ row'[q] = row[q]
      /\ op' = op /\ raced' = raced /\ rows' = Committed(r)
  BY DEF Commit, Answer, Unique, TypeOK
<1>2. UnderWay' = UnderWay \ {r} /\ r \in UnderWay
  BY <1>1 DEF UnderWay, InFlight
<1>3. \A q \in UnderWay' : q \in UnderWay /\ q # r /\ q \in Requests
  BY <1>2 DEF UnderWay
<1>4. OthersRest'
  BY <1>1, <1>2 DEF Unique, OthersRest
<1>5. CallsWork'
  BY <1>1, <1>3 DEF Unique, CallsWork, Working
<1>6. /\ op[r].key \in Keys
      /\ how[r] = "insert" => row[r] = {[id |-> r, key |-> op[r].key]}
  BY <1>2, OpsHaveKeys DEF Unique, CallsWork, Working
<1>7. \A e \in rows' : e \in rows \/ (how[r] = "insert" /\ e = [id |-> r, key |-> op[r].key])
  BY <1>1, <1>6 DEF Committed
<1>8. RowsNamed'
  <2>1. ASSUME NEW e \in rows, e.id # None
        PROVE  pc'[e.id] = "done" /\ op[e.id].key = e.key
    <3>1. pc[e.id] = "done" /\ op[e.id].key = e.key /\ e.id \in Requests
      BY <2>1 DEF Unique, RowsNamed, TypeOK, Rows, Ids
    <3>. QED BY <1>1, <3>1
  <2>. QED BY <1>1, <1>7, <2>1 DEF RowsNamed
<1>9. \A k \in Keys : (Of(k))' \subseteq Of(k) \/ Inserts(r, k)
  BY <1>7 DEF Of, Inserts
<1>10. InsertsFree'
  <2>1. \A q \in UnderWay', k \in Keys : (Inserts(q, k))' <=> Inserts(q, k)
    BY <1>1, <1>3 DEF Inserts
  <2>2. ASSUME NEW q \in UnderWay', NEW k \in Keys, Inserts(q, k)
        PROVE  /\ k \in raced \/ (Of(k))' = {}
               /\ k \in Constrained /\ pc[q] = "flushed" => (Of(k))' = {}
               /\ \A p \in UnderWay' \ {q} : Inserts(p, k) =>
                    /\ k \in raced
                    /\ k \in Constrained => ~(pc[q] = "flushed" /\ pc[p] = "flushed")
    <3>1. /\ k \in raced \/ Of(k) = {}
          /\ k \in Constrained /\ pc[q] = "flushed" => Of(k) = {}
          /\ \A p \in UnderWay \ {q} : Inserts(p, k) =>
               /\ k \in raced
               /\ k \in Constrained => ~(pc[q] = "flushed" /\ pc[p] = "flushed")
      BY <1>3, <2>2 DEF Unique, InsertsFree
    <3>2. CASE Inserts(r, k)
      BY <1>1, <1>2, <1>3, <2>2, <3>1, <3>2
    <3>3. CASE ~Inserts(r, k)
      BY <1>2, <1>9, <3>1, <3>3
    <3>. QED BY <3>2, <3>3
  <2>. QED BY <1>1, <1>3, <2>1, <2>2 DEF InsertsFree
<1>11. OneRowUnlessRaced'
  <2>1. ASSUME NEW e \in rows', NEW f \in rows', e.key = f.key, e # f, e \in rows
        PROVE  e.key \in raced \ Constrained
    <3>1. CASE f \in rows
      BY <2>1, <3>1 DEF Unique, OneRowUnlessRaced
    <3>2. CASE f \notin rows
      <4>1. Inserts(r, e.key) /\ e \in Of(e.key) /\ e.key \in Keys
        BY <1>6, <1>7, <2>1, <3>2 DEF Inserts, Of
      <4>. QED BY <1>1, <1>2, <4>1 DEF Unique, InsertsFree
    <3>. QED BY <3>1, <3>2
  <2>2. \A e, f \in rows' : e # f => e \in rows \/ f \in rows
    BY <1>7
  <2>. QED BY <1>1, <2>1, <2>2 DEF OneRowUnlessRaced
<1>. QED BY <1>4, <1>5, <1>8, <1>10, <1>11 DEF Unique

(* Every step keeps the invariant behind OneRowUnlessRaced.                *)
LEMMA NextUnique == Unique /\ [Next]_vars => Unique'
<1>. SUFFICES ASSUME Unique, [Next]_vars PROVE Unique'
  OBVIOUS
<1>1. TypeOK'
  BY TypeNext DEF Unique
<1>2. ASSUME NEW r \in Requests, Flush(r)
      PROVE  Unique'
  <2>1. r \in UnderWay /\ "error" \in Answered
    BY <1>2 DEF Flush, UnderWay, InFlight, Answered
  <2>2. CASE Fails(r)
    BY <1>1, <1>2, <2>1, <2>2, EndKeepsUnique DEF Flush
  <2>3. CASE ~Fails(r)
    BY <1>1, <1>2, <2>3, SendKeepsUnique DEF Flush
  <2>. QED BY <2>2, <2>3
<1>3. ASSUME NEW r \in Requests, Abort(r)
      PROVE  Unique'
  <2>1. r \in UnderWay /\ "aborted" \in Answered
    BY <1>3 DEF Abort, UnderWay, Answered
  <2>. QED BY <1>1, <1>3, <2>1, EndKeepsUnique DEF Abort
<1>4. CASE UNCHANGED vars
  BY <1>1, <1>4 DEF vars, Unique, OthersRest, CallsWork, Working, RowsNamed,
       InsertsFree, Inserts, Of, UnderWay, OneRowUnlessRaced
<1>. QED
  BY <1>1, <1>2, <1>3, <1>4, SelectKeepsUnique, CommitKeepsUnique
     DEF Next, Proceed, AllAnswered

(* Every reachable state of the tables and the calls is well typed, and a  *)
(* call works on at most one row, of its own key.                          *)
THEOREM TypeCorrect == Spec => []TypeOK
<1>1. Unique => TypeOK
  BY DEF Unique
<1>. QED BY <1>1, InitUnique, NextUnique, PTL DEF Spec

(* Whatever interleaves and fails, the lookup before the insert keeps a    *)
(* key to one row in the tables that constrain it, and in the others until *)
(* two calls race for it.                                                  *)
THEOREM OneRowPerKey == Spec => []OneRowUnlessRaced
<1>1. Unique => OneRowUnlessRaced
  BY DEF Unique
<1>. QED BY <1>1, InitUnique, NextUnique, PTL DEF Spec
-----------------------------------------------------------------------------
(* A row that is updated or deleted is there, or a call has removed it.    *)
HeldTraced ==
  \A r \in UnderWay : how[r] \in {"update", "delete"} =>
    \A e \in row[r] : e \in rows \/ Removed(e)

Traced == Unique /\ HeldTraced /\ ErrorsHaveCause /\ CreatedStays

(* At the start nothing is removed, answered or failed.                    *)
LEMMA InitTraced == Init => Traced
<1>. SUFFICES ASSUME Init PROVE Traced
  OBVIOUS
<1>1. HeldTraced /\ ErrorsHaveCause /\ CreatedStays
  BY DEF Init, HeldTraced, ErrorsHaveCause, CreatedStays, UnderWay, InFlight
<1>. QED BY <1>1, InitUnique DEF Traced

(* Only users are removed.                                                 *)
LEMMA RemovedAreUsers ==
  ASSUME TypeOK, NEW e, Removed(e)
  PROVE  e.key \in Users
<1>1. PICK r \in Requests : op[r].kind = "remove" /\ op[r].key = e.key
  BY DEF Removed
<1>2. op[r] \in Ops
  BY <1>1 DEF TypeOK, Idle
<1>. QED BY <1>1, <1>2 DEF Ops

(* What a call was answered, and what for, does not change.                *)
LEMMA AnswersStay ==
  ASSUME TypeOK, [Next]_vars, NEW r \in Requests, pc[r] \in Answered
  PROVE  pc'[r] = pc[r] /\ op'[r] = op[r]
<1>1. pc[r] # "new" /\ pc[r] # "flush" /\ pc[r] # "flushed"
  BY DEF Answered
<1>2. ASSUME NEW q \in Requests, NEW o \in Ops, Select(q, o)
      PROVE  pc'[r] = pc[r] /\ op'[r] = op[r]
  BY <1>1, <1>2 DEF Select, Answer, TypeOK
<1>3. ASSUME NEW q \in Requests, Flush(q) \/ Commit(q) \/ Abort(q)
      PROVE  pc'[r] = pc[r] /\ op'[r] = op[r]
  BY <1>1, <1>3 DEF Flush, Commit, Abort, Answer, InFlight, TypeOK
<1>4. CASE UNCHANGED vars
  BY <1>4 DEF vars
<1>. QED BY <1>2, <1>3, <1>4 DEF Next, Proceed, AllAnswered

(* A row that was removed stays removed.                                   *)
LEMMA RemovedStays ==
  ASSUME TypeOK, [Next]_vars, NEW e, Removed(e)
  PROVE  (Removed(e))'
<1>1. PICK r \in Requests : pc[r] = "done" /\ op[r].kind = "remove"
                            /\ op[r].key = e.key /\ op[r].id = e.id
  BY DEF Removed
<1>2. pc'[r] = "done" /\ op'[r] = op[r]
  BY <1>1, AnswersStay DEF Answered
<1>. QED BY <1>1, <1>2 DEF Removed

(* A row only leaves its table when a call removes it.                     *)
LEMMA RowsStay ==
  ASSUME Unique, [Next]_vars, NEW e \in rows
  PROVE  e \in rows' \/ (Removed(e))'
<1>1. ASSUME NEW r \in Requests, Commit(r), e \notin rows'
      PROVE  (Removed(e))'
  <2>1. how[r] = "delete" /\ e \in row[r] /\ r \in UnderWay
    BY <1>1 DEF Commit, Committed, UnderWay, InFlight
  <2>2. op[r].kind = "remove" /\ op[r].key = e.key /\ op[r].id = e.id
    BY <2>1 DEF Unique, CallsWork, Working, TypeOK
  <2>3. pc'[r] = "done" /\ op'[r] = op[r]
    BY <1>1 DEF Commit, Answer, Unique, TypeOK
  <2>. QED BY <2>2, <2>3 DEF Removed
<1>2. ASSUME NEW r \in Requests, Flush(r) \/ Abort(r)
      PROVE  rows' = rows
  BY <1>2 DEF Flush, Abort
<1>3. ASSUME NEW r \in Requests, NEW o \in Ops, Select(r, o)
      PROVE  rows' = rows
  BY <1>3 DEF Select
<1>4. CASE UNCHANGED vars
  BY <1>4 DEF vars
<1>. QED BY <1>1, <1>2, <1>3, <1>4 DEF Next, Proceed, AllAnswered

(* So a constrained key that is there stays, and raced keys stay raced.    *)
LEMMA KeysStay ==
  ASSUME Unique, TypeOK', [Next]_vars
  PROVE  /\ \A k \in Constrained : Of(k) # {} => (Of(k))' # {}
         /\ raced \subseteq raced'
<1>1. ASSUME NEW k \in Constrained, NEW e \in rows, e.key = k
      PROVE  e \in rows'
  <2>1. k \notin Users
    BY TablesDisjoint DEF Constrained
  <2>2. (Removed(e))' => e.key \in Users
    <3>1. ASSUME NEW r \in Requests, op'[r].kind = "remove"
          PROVE  op'[r].key \in Users
      BY <3>1 DEF TypeOK, Idle, Ops
    <3>. QED BY <3>1 DEF Removed
  <2>. QED BY <1>1, <2>1, <2>2, RowsStay
<1>2. \A k \in Constrained : Of(k) # {} => (Of(k))' # {}
  BY <1>1 DEF Of
<1>3. ASSUME NEW r \in Requests, Flush(r) \/ Commit(r) \/ Abort(r)
      PROVE  raced' = raced
  BY <1>3 DEF Flush, Commit, Abort
<1>4. ASSUME NEW r \in Requests, NEW o \in Ops, Select(r, o)
      PROVE  raced \subseteq raced'
  BY <1>4 DEF Select
<1>5. UNCHANGED vars => raced' = raced
  BY DEF vars
<1>6. raced \subseteq raced'
  BY <1>3, <1>4, <1>5 DEF Next, Proceed, AllAnswered
<1>. QED BY <1>2, <1>6

(* A call that fails in the database has a cause.                          *)
Caused(r) ==
  \/ op[r].key \in raced /\ (op[r].key \in Constrained => Of(op[r].key) # {})
  \/ op[r].kind = "change" /\ Removed(op[r])

(* A lookup that finds two rows was raced for.                             *)
LEMMA SelectErrors ==
  ASSUME Unique, NEW r \in Requests, NEW o \in Ops, Select(r, o), pc'[r] = "error"
  PROVE  Caused(r)'
<1>1. Ambiguous(o) /\ op'[r] = o /\ raced' = raced
  BY DEF Select, Answer, Unique, TypeOK
<1>2. PICK e \in Found(o), f \in Found(o) : e # f
  BY <1>1 DEF Ambiguous
<1>3. e \in rows /\ f \in rows /\ e.key = o.key /\ f.key = o.key
  BY DEF Found, Of
<1>4. o.key \in raced \ Constrained
  BY <1>2, <1>3 DEF Unique, OneRowUnlessRaced
<1>. QED BY <1>1, <1>4 DEF Caused

(* A write that fails met a raced key or a removed row.                    *)
LEMMA FlushErrors ==
  ASSUME Unique, HeldTraced, NEW r \in Requests, pc[r] = "flush", Fails(r)
  PROVE  Caused(r)
<1>1. r \in UnderWay
  BY DEF UnderWay, InFlight
<1>2. op[r] \in Ops /\ op[r].key \in Keys
  BY <1>1, OpsHaveKeys DEF Unique, CallsWork, Working
<1>3. CASE \E k \in Constrained : Inserts(r, k) /\ Of(k) # {}
  BY <1>1, <1>2, <1>3 DEF Unique, InsertsFree, Inserts, Caused
<1>4. CASE how[r] = "update" /\ row[r] \cap rows = {}
  <2>1. row[r] # {} /\ op[r].kind \in {"put", "change"}
    BY <1>1, <1>4 DEF Unique, CallsWork, Working
  <2>2. PICK e \in row[r] : Removed(e)
    BY <1>1, <1>4, <2>1 DEF HeldTraced
  <2>3. e.key = op[r].key
    BY DEF Unique, TypeOK
  <2>4. op[r].kind = "change"
    BY <1>2, <2>1, <2>2, <2>3, RemovedAreUsers, TablesDisjoint DEF Ops, Unique
  <2>5. e.id = op[r].id
    BY <1>1, <2>4 DEF Unique, CallsWork, Working
  <2>. QED BY <2>2, <2>3, <2>4, <2>5 DEF Caused, Removed
<1>. QED BY <1>3, <1>4 DEF Fails

(* Errors have a cause, and keep it.                                       *)
LEMMA ErrorsKeepCause ==
  ASSUME Traced, TypeOK', [Next]_vars
  PROVE  ErrorsHaveCause'
<1>1. ASSUME NEW r \in Requests, Caused(r), op'[r] = op[r]
      PROVE  Caused(r)'
  BY <1>1, KeysStay, RemovedStays DEF Caused, Traced, Unique
<1>2. ASSUME NEW r \in Requests, pc[r] = "error"
      PROVE  Caused(r)'
  <2>1. Caused(r)
    BY <1>2 DEF Traced, ErrorsHaveCause, Caused
  <2>. QED BY <1>1, <1>2, <2>1, AnswersStay DEF Answered, Traced, Unique
<1>3. ASSUME NEW r \in Requests, pc[r] # "error", pc'[r] = "error"
      PROVE  Caused(r)'
  <2>1. ASSUME NEW q \in Requests, NEW o \in Ops, Select(q, o)
        PROVE  Caused(r)'
    <3>1. q = r
      BY <1>3, <2>1 DEF Select, Answer, Traced, Unique, TypeOK
    <3>. QED BY <1>3, <2>1, <3>1, SelectErrors DEF Traced
  <2>2. ASSUME NEW q \in Requests, Flush(q)
        PROVE  Caused(r)'
    <3>1. q = r /\ Fails(r) /\ pc[r] = "flush" /\ op' = op
      BY <1>3, <2>2 DEF Flush, Answer, Traced, Unique, TypeOK
    <3>. QED BY <1>1, <3>1, FlushErrors DEF Traced
  <2>3. ASSUME NEW q \in Requests, Commit(q) \/ Abort(q)
        PROVE  FALSE
    BY <1>3, <2>3 DEF Commit, Abort, Answer, Traced, Unique, TypeOK
  <2>4. CASE UNCHANGED vars
    BY <1>3, <2>4 DEF vars
  <2>. QED BY <2>1, <2>2, <2>3, <2>4 DEF Next, Proceed, AllAnswered
<1>. QED BY <1>2, <1>3 DEF ErrorsHaveCause, Caused

(* A row that is held is there or was removed.                             *)
LEMMA HeldStaysTraced ==
  ASSUME Traced, TypeOK', [Next]_vars
  PROVE  HeldTraced'
<1>1. ASSUME NEW r \in UnderWay, how[r] \in {"update", "delete"}, NEW e \in row[r]
      PROVE  e \in rows' \/ (Removed(e))'
  BY <1>1, RowsStay, RemovedStays DEF Traced, Unique, HeldTraced
<1>2. ASSUME NEW r \in Requests, NEW o \in Ops, Select(r, o)
      PROVE  HeldTraced'
  <2>1. /\ \A q \in Requests \ {r} :
             pc'[q] = pc[q] /\ how'[q] = how[q] /\ row'[q] = row[q]
        /\ rows' = rows
    BY <1>2 DEF Select, Answer, Traced, Unique, TypeOK
  <2>2. how'[r] \in {"update", "delete"} => row'[r] \subseteq rows
    <3>1. CASE pc' = [pc EXCEPT ![r] = "flush"]
      <4>1. /\ how'[r] \in Doings(o)
            /\ row'[r] = IF Found(o) = {} THEN {[id |-> r, key |-> o.key]} ELSE Found(o)
        BY <1>2, <3>1 DEF Select, Answer, Traced, Unique, TypeOK
      <4>2. Found(o) \subseteq rows
        BY DEF Found, Of
      <4>3. how'[r] \in {"update", "delete"} => Found(o) # {}
        BY <4>1 DEF Doings
      <4>. QED BY <4>1, <4>2, <4>3
    <3>2. CASE pc' # [pc EXCEPT ![r] = "flush"]
      BY <1>2, <3>2 DEF Select, Answer, Traced, Unique, TypeOK
    <3>. QED BY <3>1, <3>2
  <2>3. ASSUME NEW q \in UnderWay', q # r
        PROVE  q \in UnderWay /\ how'[q] = how[q] /\ row'[q] = row[q]
    BY <2>1, <2>3 DEF UnderWay
  <2>. QED BY <1>1, <2>1, <2>2, <2>3 DEF HeldTraced
<1>3. ASSUME NEW r \in Requests, Flush(r) \/ Commit(r) \/ Abort(r)
      PROVE  HeldTraced'
  <2>1. \A q \in Requests :
          \/ pc'[q] \in Answered
          \/ how'[q] = how[q] /\ row'[q] = row[q]
             /\ (pc'[q] \in InFlight => pc[q] \in InFlight)
    BY <1>3 DEF Flush, Commit, Abort, Answer, Answered, InFlight, Traced, Unique, TypeOK
  <2>2. ASSUME NEW q \in UnderWay'
        PROVE  q \in UnderWay /\ how'[q] = how[q] /\ row'[q] = row[q]
    BY <2>1, <2>2 DEF UnderWay, InFlight, Answered
  <2>. QED BY <1>1, <2>2 DEF HeldTraced
<1>4. CASE UNCHANGED vars
  BY <1>1, <1>4 DEF vars, HeldTraced, UnderWay
<1>. QED BY <1>2, <1>3, <1>4 DEF Next, Proceed, AllAnswered

(* An answered creation put its row there, and it stays or is removed.     *)
LEMMA CreatedKeepStaying ==
  ASSUME Traced, TypeOK', [Next]_vars
  PROVE  CreatedStays'
<1>. DEFINE New(r) == [id |-> r, key |-> op[r].key]
<1>1. ASSUME NEW r \in Requests, pc[r] = "done", op[r].kind = "create",
             NEW e, e = New(r)
      PROVE  e \in rows' \/ (Removed(e))'
  <2>1. e \in rows \/ Removed(e)
    BY <1>1 DEF Traced, CreatedStays
  <2>. QED BY <2>1, RowsStay, RemovedStays DEF Traced, Unique
<1>2. ASSUME NEW r \in Requests, pc[r] # "done", pc'[r] = "done", op'[r].kind = "create"
      PROVE  op' = op /\ New(r) \in rows'
  <2>1. ASSUME NEW q \in Requests, NEW o \in Ops, Select(q, o)
        PROVE  FALSE
    BY <1>2, <2>1 DEF Select, Answer, Traced, Unique, TypeOK
  <2>2. ASSUME NEW q \in Requests, Flush(q) \/ Abort(q)
        PROVE  FALSE
    BY <1>2, <2>2 DEF Flush, Abort, Answer, Traced, Unique, TypeOK
  <2>3. ASSUME NEW q \in Requests, Commit(q)
        PROVE  op' = op /\ New(r) \in rows'
    <3>1. q = r /\ op' = op /\ rows' = Committed(r) /\ r \in UnderWay
      BY <1>2, <2>3 DEF Commit, Answer, Traced, Unique, TypeOK, UnderWay, InFlight
    <3>2. how[r] = "insert" /\ row[r] = {New(r)}
      BY <1>2, <3>1 DEF Traced, Unique, CallsWork, Working
    <3>. QED BY <3>1, <3>2 DEF Committed
  <2>4. CASE UNCHANGED vars
    BY <1>2, <2>4 DEF vars
  <2>. QED BY <2>1, <2>2, <2>3, <2>4 DEF Next, Proceed, AllAnswered
<1>3. ASSUME NEW r \in Requests, pc'[r] = "done", op'[r].kind = "create"
      PROVE  (New(r))' \in rows' \/ (Removed(New(r)))'
  <2>1. CASE pc[r] = "done"
    <3>1. op'[r] = op[r]
      BY <2>1, AnswersStay DEF Answered, Traced, Unique
    <3>2. PICK e : e = New(r)
      OBVIOUS
    <3>3. e \in rows' \/ (Removed(e))'
      BY <1>1, <1>3, <2>1, <3>1, <3>2
    <3>4. e = (New(r))'
      BY <3>1, <3>2
    <3>. QED BY <3>3, <3>4 DEF Removed
  <2>2. CASE pc[r] # "done"
    BY <1>2, <1>3, <2>2
  <2>. QED BY <2>1, <2>2
<1>. QED BY <1>3 DEF CreatedStays

(* Every step keeps the invariant behind ErrorsHaveCause and CreatedStays. *)
LEMMA NextTraced == Traced /\ [Next]_vars => Traced'
<1>. SUFFICES ASSUME Traced, [Next]_vars PROVE Traced'
  OBVIOUS
<1>1. Unique' /\ TypeOK'
  BY NextUnique DEF Traced, Unique
<1>. QED BY <1>1, ErrorsKeepCause, HeldStaysTraced, CreatedKeepStaying DEF Traced

(* A call only fails in the database on a key that two calls raced for, or *)
(* on a row that another call has removed.                                 *)
THEOREM ErrorsAlwaysHaveCause == Spec => []ErrorsHaveCause
<1>1. Traced => ErrorsHaveCause
  BY DEF Traced
<1>. QED BY <1>1, InitTraced, NextTraced, PTL DEF Spec

(* The row of an answered creation stays until a call removes that row,    *)
(* also when a second row of its key is there and is removed.              *)
THEOREM CreatedAlwaysStays == Spec => []CreatedStays
<1>1. Traced => CreatedStays
  BY DEF Traced
<1>. QED BY <1>1, InitTraced, NextTraced, PTL DEF Spec
=============================================================================
