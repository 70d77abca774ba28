------------------------ MODULE ConfigAuthoringProofs ------------------------
(***************************************************************************)
(* Proofs about ConfigAuthoring for any ids, keys and requests in flight,  *)
(* any contents the tables begin with and any number of operations and     *)
(* faults.  A request that no other write has overtaken still sees the     *)
(* tables it has read; one that was overtaken is bound by the kinds of its *)
(* rows, which never change, and by the keys of the database.              *)
(***************************************************************************)
EXTENDS ConfigAuthoring, TLAPS, FiniteSetTheorems

TableTypes ==
  /\ row \in [Ids -> RowSet \cup {Unused, Deleted}]
  /\ request \in [Requests -> RequestSet]
  /\ raced \subseteq Ids

(* What a request is about and what it will write.  An id stays in use, and  *)
(* requests about one row agree on its kind, also when the row is gone.      *)
Sound(x) ==
  x.pc # "idle" =>
    /\ x.op # "none" /\ x.new \in RowSet
    /\ x.id = None <=> Inserts(x) /\ x.pc \in {"check", "write"}
    /\ x.pc = "assert" => x.op = "upsert"
    /\ x.op \in {"upsert", "remove"} => x.new.kind = "view"
    /\ x.op = "delete" => x.new.kind # "set"
    /\ x.id # None => /\ row[x.id] # Unused
                      /\ Exists(x.id) => row[x.id].kind = x.new.kind

SameKind(x, y) ==
  (x.pc # "idle" /\ y.pc # "idle" /\ x.id = y.id /\ x.id # None) => x.new.kind = y.new.kind

RequestsSound ==
  /\ \A q \in Requests : Sound(request[q])
  /\ \A p, q \in Requests : SameKind(request[p], request[q])

(* What a request has read, and checked, holds until another write overtakes *)
(* it.  (What is removed was inserted, not read.)                            *)
UpToDate(x) ==
  (x.pc \in {"check", "write"} /\ ~x.overtaken /\ x.op # "remove") =>
    /\ x.id # None => Exists(x.id) /\ row[x.id] = x.read
    /\ (x.op # "delete" /\ x.new.kind = "field") => AllowsDesignerFields(x.new.parent)
    /\ x.pc = "write" /\ x.op # "delete" =>
         /\ x.new.kind = "rule" => ~Duplicate(x) \/ SameRow(x)
         /\ x.op = "update" /\ x.new.kind = "object" /\ x.new.mode = "system_table" =>
              x.read.mode = "system_table" \/ Fields(x.id) = {}

ReadingsUpToDate == \A q \in Requests : UpToDate(request[q])

TablesInv ==
  /\ TableTypes
  /\ RequestsSound
  /\ ReadingsUpToDate
  /\ NoOrphans
  /\ KeysUnique
  /\ SystemTableHasNoFields

-----------------------------------------------------------------------------
(* What the steps are made of.                                               *)

LEMMA RowIsNoMark ==
  /\ Unused \notin RowSet /\ Deleted \notin RowSet /\ Unused # Deleted
<1>1. Unused.kind \notin Kinds /\ Deleted.kind \notin Kinds /\ Unused.kind # Deleted.kind
  BY DEF Unused, Deleted, Kinds
<1> HIDE DEF Unused, Deleted
<1> QED
  BY <1>1 DEF RowSet

LEMMA ExistsIsRow ==
  ASSUME TableTypes, NEW i \in Ids
  PROVE  Exists(i) <=> row[i] \in RowSet
BY RowIsNoMark DEF TableTypes, Exists

(* Every kind of row is three steps below nothing but a set. *)
LEMMA ParentKinds ==
  ASSUME NEW k \in Kinds
  PROVE  /\ Parent[k] \in Kinds \cup {None}
         /\ Parent[k] # k
         /\ \A l, m, n \in Kinds : Parent[k] = l /\ Parent[l] = m /\ Parent[m] = n => n = "set"
<1>1. None \notin Kinds
  BY AuthoringAssumption
<1>2. /\ Parent["object"] = "set" /\ Parent["rule"] = "field" /\ Parent["panel"] = "view"
      /\ \A x \in {"field", "lifecycle", "transition", "mapping", "view", "instance"} : Parent[x] = "object"
      /\ Parent["set"] = None /\ Parent["relationship"] = None
  BY DEF Parent, Kinds
<1> QED
  BY <1>1, <1>2 DEF Kinds

(* The row that an operation is about, and what it will write there. *)
Allowed(op, pc, i, new) ==
  /\ op \in {"create", "upsert", "update", "delete"} /\ pc \in {"check", "write"}
  /\ new \in RowSet
  /\ IF op \in {"create", "upsert"} THEN i = None
     ELSE i \in Ids /\ Exists(i) /\ row[i].kind = new.kind
  /\ op = "delete" => new.kind # "set"
  /\ op = "upsert" => new.kind = "view"
  /\ op # "delete" /\ new.kind = "field" => AllowsDesignerFields(new.parent)
  /\ op # "delete" /\ pc = "write" => new.kind \notin {"rule", "object"}

Begins(q) ==
  \E g \in BOOLEAN : \E op, pc, i, new :
    Allowed(op, pc, i, new) /\ BeginIn(q, g, op, pc, i, new)

LEMMA NewRowIsRow ==
  ASSUME NEW k \in Kinds, NEW p \in Ids \cup {None}, NEW key \in Keys \cup {None}
  PROVE  /\ NewRow(k, p, key) \in RowSet
         /\ NewRow(k, p, key).kind = k /\ NewRow(k, p, key).parent = p
BY DEF NewRow, RowSet, Modes

LEMMA InsertBegins ==
  ASSUME NEW q \in Requests, NEW k \in Kinds, NEW p \in Ids \cup {None}, NEW key \in Keys,
         NEW pc \in {"check", "write"}, Insert(q, pc, k, p, key),
         k = "field" => AllowsDesignerFields(p),
         pc = "write" => k \notin {"rule", "object"}
  PROVE  Begins(q)
<1>1. Allowed("create", pc, None, NewRow(k, p, key))
  BY NewRowIsRow DEF Allowed
<1> QED
  BY <1>1 DEF Insert, Begin, Begins

LEMMA UpdateBegins ==
  ASSUME TableTypes, NEW q \in Requests, NEW i \in Ids, NEW new,
         NEW pc \in {"check", "write"}, Update(q, pc, i, new),
         new \in RowSet, new.kind = row[i].kind,
         new.kind = "field" => AllowsDesignerFields(new.parent),
         pc = "write" => new.kind \notin {"rule", "object"}
  PROVE  Begins(q)
<1>1. Allowed("update", pc, i, new)
  BY DEF Allowed, Update
<1> QED
  BY <1>1 DEF Update, Begin, Begins

LEMMA DeleteBegins ==
  ASSUME TableTypes, NEW q \in Requests, NEW i \in Ids, NEW k \in Kinds \ {"set"},
         Delete(q, k, i)
  PROVE  Begins(q)
<1>1. Allowed("delete", "write", i, row[i])
  BY ExistsIsRow DEF Allowed, Delete, Is
<1> QED
  BY <1>1 DEF Delete, Begin, Begins

(* Each of the operations of the two services, when it begins. *)
LEMMA AuthorBegins ==
  ASSUME TableTypes, NEW q \in Requests, Author(q)
  PROVE  Begins(q)
<1>1. \A k \in {"set", "object", "field", "rule", "lifecycle", "transition", "mapping", "view",
                "panel", "relationship", "instance"} : k \in Kinds
  BY DEF Kinds
<1>2. \A i \in Ids : Exists(i) => row[i] \in RowSet
  BY ExistsIsRow
<1>3. ASSUME NEW key \in Keys, CreateTemplateSet(q, key)
      PROVE  Begins(q)
  <2>1. PICK g \in BOOLEAN :
          BeginIn(q, g, "create", "write", None,
                  [NewRow("set", None, key) EXCEPT !.global = g])
    BY <1>3 DEF CreateTemplateSet
  <2> DEFINE new == [NewRow("set", None, key) EXCEPT !.global = g]
  <2>2. NewRow("set", None, key) \in RowSet /\ NewRow("set", None, key).kind = "set"
    BY <1>1, NewRowIsRow
  <2>3. new \in RowSet /\ new.kind = "set"
    <3> HIDE DEF new
    <3>1. \A r \in RowSet : /\ [r EXCEPT !.global = g] \in RowSet
                            /\ [r EXCEPT !.global = g].kind = r.kind
      BY DEF RowSet
    <3> QED
      BY <2>2, <3>1 DEF new
  <2>4. Allowed("create", "write", None, new)
    BY <2>3 DEF Allowed
  <2> QED
    BY <2>1, <2>4 DEF Begins
<1>4. ASSUME NEW key \in Keys, CreateConfigRelationship(q, key)
      PROVE  Begins(q)
  BY <1>1, <1>4, InsertBegins DEF CreateConfigRelationship
<1>5. ASSUME NEW i \in Ids, NEW key \in Keys,
             \/ CreateConfigStatusMapping(q, i, key) \/ CreateLifecycle(q, i, key)
             \/ CreateLifecycleTransition(q, i, key) \/ CreateConfigView(q, i, key)
             \/ CreateConfigViewPanel(q, i, key)
      PROVE  Begins(q)
  <2>1. PICK k \in {"mapping", "lifecycle", "transition", "view", "panel"} :
          Insert(q, "check", k, i, key)
    BY <1>5 DEF CreateConfigStatusMapping, CreateLifecycle,
                CreateLifecycleTransition, CreateConfigView, CreateConfigViewPanel
  <2> QED
    BY <1>1, <2>1, InsertBegins
<1>6. ASSUME NEW i \in Ids, NEW key \in Keys,
             CreateConfigField(q, i, key) \/ CreateConfigFieldRule(q, i, key)
      PROVE  Begins(q)
  <2>1. CASE CreateConfigField(q, i, key)
    BY <1>1, <2>1, InsertBegins DEF CreateConfigField
  <2>2. CASE CreateConfigFieldRule(q, i, key)
    BY <1>1, <2>2, InsertBegins DEF CreateConfigFieldRule
  <2> QED
    BY <1>6, <2>1, <2>2
<1>7. ASSUME NEW i \in Ids, NEW key \in Keys,
             UpdateConfigFieldRule(q, i, key) \/ UpdateConfigStatusMapping(q, i, key)
      PROVE  Begins(q)
  <2>1. Exists(i) /\ row[i].kind \in {"rule", "mapping"}
        /\ Update(q, "check", i, [row[i] EXCEPT !.key = key])
    BY <1>7 DEF UpdateConfigFieldRule, UpdateConfigStatusMapping, Is
  <2>2. [row[i] EXCEPT !.key = key] \in RowSet /\ [row[i] EXCEPT !.key = key].kind = row[i].kind
    BY <1>2, <2>1 DEF RowSet
  <2> HIDE DEF Kinds
  <2> QED
    BY <2>1, <2>2, UpdateBegins
<1>8. ASSUME NEW i \in Ids, NEW key \in Keys, NEW mode \in Modes,
             NEW on \in BOOLEAN, UpdateConfigObject(q, i, key, mode, on)
      PROVE  Begins(q)
  <2> DEFINE new == [row[i] EXCEPT !.key = key, !.mode = mode, !.published = on]
  <2>1. Exists(i) /\ row[i].kind = "object" /\ Update(q, "check", i, new)
    BY <1>8 DEF UpdateConfigObject, Is
  <2>2. new \in RowSet /\ new.kind = row[i].kind
    BY <1>2, <2>1 DEF RowSet
  <2> HIDE DEF new
  <2> QED
    BY <2>1, <2>2, UpdateBegins
<1>9. ASSUME NEW s \in Ids, NEW key \in Keys, NEW mode \in Modes, NEW on \in BOOLEAN,
              CreateConfigObject(q, s, key, mode, on)
       PROVE  Begins(q)
  <2> DEFINE new == [NewRow("object", s, key) EXCEPT !.mode = mode, !.published = on]
  <2>1. Begin(q, "create", "check", None, new)
    BY <1>9 DEF CreateConfigObject
  <2>2. NewRow("object", s, key) \in RowSet /\ NewRow("object", s, key).kind = "object"
    BY <1>1, NewRowIsRow
  <2>3. new \in RowSet /\ new.kind = "object"
    BY <2>2 DEF RowSet
  <2> HIDE DEF new
  <2>4. Allowed("create", "check", None, new)
    BY <2>3 DEF Allowed
  <2> QED
    BY <2>1, <2>4 DEF Begin, Begins
<1>10. ASSUME NEW i \in Ids,
              \/ CreateCustomObjectInstance(q, i) \/ UpdateCustomObjectInstance(q, i)
              \/ DeleteCustomObjectInstance(q, i)
       PROVE  Begins(q)
  <2>1. CASE CreateCustomObjectInstance(q, i)
    <3>1. Allowed("create", "write", None, NewRow("instance", i, None))
      BY <1>1, NewRowIsRow DEF Allowed
    <3> QED
      BY <2>1, <3>1 DEF CreateCustomObjectInstance, Begins
  <2>2. CASE UpdateCustomObjectInstance(q, i)
    <3>1. Allowed("update", "write", i, row[i])
      BY <1>2, <2>2 DEF UpdateCustomObjectInstance, Allowed, Is
    <3> QED
      BY <2>2, <3>1 DEF UpdateCustomObjectInstance, Begins
  <2>3. CASE DeleteCustomObjectInstance(q, i)
    <3>1. Allowed("delete", "write", i, row[i])
      BY <1>2, <2>3 DEF DeleteCustomObjectInstance, Allowed, Is
    <3> QED
      BY <2>3, <3>1 DEF DeleteCustomObjectInstance, Begins
  <2> QED
    BY <1>10, <2>1, <2>2, <2>3
<1>11. ASSUME NEW i \in Ids, NEW on \in BOOLEAN, UpdateTemplateSet(q, i, on)
      PROVE  Begins(q)
  <2> DEFINE new == [row[i] EXCEPT !.published = on]
  <2>1. Exists(i) /\ row[i].kind = "set" /\ Update(q, "write", i, new)
    BY <1>11 DEF UpdateTemplateSet, Is
  <2>2. new \in RowSet /\ new.kind = row[i].kind
    BY <1>2, <2>1 DEF RowSet
  <2> HIDE DEF new
  <2> QED
    BY <2>1, <2>2, UpdateBegins
<1>12. ASSUME NEW i \in Ids,
              \/ UpdateConfigField(q, i) \/ UpdateLifecycle(q, i)
              \/ UpdateLifecycleTransition(q, i) \/ UpdateConfigView(q, i)
              \/ UpdateConfigViewPanel(q, i) \/ UpdateConfigRelationship(q, i)
              \/ SwitchScopedConfigView(q, i)
       PROVE  Begins(q)
  <2>1. /\ Exists(i) /\ Update(q, "write", i, row[i]) /\ row[i].kind \notin {"rule", "object"}
        /\ row[i].kind = "field" => AllowsDesignerFields(row[i].parent)
    BY <1>12 DEF UpdateConfigField, UpdateLifecycle, UpdateLifecycleTransition,
                 UpdateConfigView, UpdateConfigViewPanel, UpdateConfigRelationship,
                 SwitchScopedConfigView, Is
  <2> QED
    BY <1>2, <2>1, UpdateBegins
<1>13. ASSUME NEW i \in Ids,
              \/ DeleteConfigObject(q, i) \/ DeleteConfigField(q, i)
              \/ DeleteConfigFieldRule(q, i) \/ DeleteConfigStatusMapping(q, i)
              \/ DeleteLifecycle(q, i) \/ DeleteLifecycleTransition(q, i)
              \/ DeleteConfigView(q, i) \/ DeleteConfigViewPanel(q, i)
              \/ DeleteConfigRelationship(q, i)
       PROVE  Begins(q)
  <2>1. PICK k \in Kinds \ {"set"} : Delete(q, k, i)
    BY <1>1, <1>13 DEF DeleteConfigObject, DeleteConfigField, DeleteConfigFieldRule,
         DeleteConfigStatusMapping, DeleteLifecycle, DeleteLifecycleTransition,
         DeleteConfigView, DeleteConfigViewPanel, DeleteConfigRelationship
  <2> QED
    BY <2>1, DeleteBegins
<1>14. ASSUME NEW i \in Ids, NEW key \in Keys,
              UpsertScopedConfigView(q, i, key) \/ InsertScopedConfigView(q, i, key)
       PROVE  Begins(q)
  <2>1. CASE UpsertScopedConfigView(q, i, key)
    <3> DEFINE new == [row[i] EXCEPT !.key = key]
    <3>1. Exists(i) /\ row[i].kind = "view" /\ Update(q, "write", i, new)
      BY <2>1 DEF UpsertScopedConfigView, Is
    <3>2. new \in RowSet /\ new.kind = row[i].kind
      BY <1>2, <3>1 DEF RowSet
    <3> HIDE DEF new
    <3> QED
      BY <3>1, <3>2, UpdateBegins
  <2>2. CASE InsertScopedConfigView(q, i, key)
    <3>1. Allowed("upsert", "write", None, NewRow("view", i, key))
      BY <1>1, NewRowIsRow DEF Allowed
    <3> QED
      BY <2>2, <3>1 DEF InsertScopedConfigView, Begin, Begins
  <2> QED
    BY <1>14, <2>1, <2>2
<1> QED
  BY <1>3, <1>4, <1>5, <1>6, <1>7, <1>8, <1>9, <1>10, <1>11, <1>12, <1>13, <1>14 DEF Author

Ends(q) ==
  request' = [request EXCEPT ![q] = Quiet] /\ UNCHANGED <<row, raced>>

Asserts(q) == AssertHolds(q) \/ AssertFails(q)

LEMMA Steps ==
  ASSUME TableTypes, [Next]_vars
  PROVE  \/ UNCHANGED <<row, request, raced>>
         \/ Crash
         \/ \E q \in Requests : Begins(q) \/ Check(q) \/ Asserts(q) \/ Ends(q) \/ Write(q)
<1>1. ASSUME NEW q \in Requests, Author(q)
      PROVE  Begins(q)
  BY <1>1, AuthorBegins
<1>2. ASSUME NEW q \in Requests, Serve(q), ~Check(q), ~Write(q), ~Asserts(q)
      PROVE  Ends(q)
  BY <1>2 DEF Serve, CheckRefuses, WriteRejected, LogConfigChange, LogRejected, Asserts, Ends
<1> QED
  BY <1>1, <1>2 DEF Next, vars

(* The row that a request writes: its own, or one not in use. *)
WritesAt(q, i) ==
  /\ request[q].pc = "write" /\ ~Refused(request[q])
  /\ IF request[q].id = None THEN row[i] = Unused ELSE i = request[q].id
  /\ row' = Written(request[q], i)
  /\ raced' = IF request[q].overtaken THEN raced \cup {i} ELSE raced
  /\ revived' = IF ~Deletes(request[q]) /\ row[i] = Deleted THEN revived \cup {i} ELSE revived
  /\ request' = [p \in Requests |->
       IF p = q THEN After(request[q], i)
       ELSE [request[p] EXCEPT !.overtaken = @ \/ request[p].pc \in {"check", "write"}]]
  /\ UNCHANGED <<log, ops, faults, untold>>

LEMMA WriteWritesAt ==
  ASSUME TableTypes, NEW q \in Requests, Write(q)
  PROVE  \E i \in Ids : WritesAt(q, i)
<1>1. request[q].id \in Ids \cup {None}
  BY DEF TableTypes, RequestSet
<1> QED
  BY <1>1 DEF Write, WritesAt

LEMMA WrittenRequests ==
  ASSUME TableTypes, NEW q \in Requests, NEW i \in Ids, WritesAt(q, i), NEW p \in Requests
  PROVE  /\ request'[p] \in RequestSet
         /\ p # q => /\ request'[p].op = request[p].op /\ request'[p].id = request[p].id
                     /\ request'[p].new = request[p].new /\ request'[p].pc = request[p].pc
         /\ (p = q /\ request[p].op = "remove") => request'[p].pc = "idle"
         /\ (p = q /\ request[p].op # "remove") =>
              /\ request'[p].op = request[p].op /\ request'[p].id = i
              /\ request'[p].new = request[p].new
              /\ request'[p].pc = IF request[p].op = "upsert" THEN "assert" ELSE "log"
         /\ request'[p].pc \in {"check", "write"} => request'[p].overtaken
<1>1. request[p] \in RequestSet
  BY DEF TableTypes
<1>2. CASE p = q
  <2>1. request'[p] = After(request[p], i)
    BY <1>2 DEF WritesAt
  <2>2. CASE request[p].op = "remove"
    BY <1>2, <2>1, <2>2 DEF After, Quiet, RequestSet
  <2>3. CASE request[p].op # "remove"
    <3> DEFINE pc == IF request[p].op = "upsert" THEN "assert" ELSE "log"
    <3>1. request'[p] = [request[p] EXCEPT !.pc = pc, !.id = i]
      BY <2>1, <2>3 DEF After
    <3>2. pc \in {"assert", "log"}
      OBVIOUS
    <3>3. /\ request'[p] \in RequestSet /\ request'[p].op = request[p].op
          /\ request'[p].id = i /\ request'[p].new = request[p].new /\ request'[p].pc = pc
      <4> HIDE DEF pc
      <4> QED
        BY <1>1, <3>1, <3>2 DEF RequestSet
    <3> QED
      BY <1>2, <2>3, <3>2, <3>3
  <2> QED
    BY <2>2, <2>3
<1>3. CASE p # q
  <2> DEFINE o == request[p].overtaken \/ request[p].pc \in {"check", "write"}
  <2>1. request'[p] = [request[p] EXCEPT !.overtaken = o]
    BY <1>3 DEF WritesAt
  <2>2. o \in BOOLEAN /\ (request[p].pc \in {"check", "write"} => o)
    OBVIOUS
  <2> HIDE DEF o
  <2>3. /\ request'[p] \in RequestSet
        /\ request'[p].op = request[p].op /\ request'[p].id = request[p].id
        /\ request'[p].new = request[p].new
        /\ request'[p].pc = request[p].pc
    BY <1>1, <2>1, <2>2 DEF RequestSet
  <2>4. request'[p].overtaken = o
    BY <1>1, <2>1 DEF RequestSet
  <2> QED
    BY <1>3, <2>2, <2>3, <2>4
<1> QED
  BY <1>2, <1>3

(* A deletion marks rows, all else writes one row. *)
LEMMA WrittenRows ==
  ASSUME TableTypes, RequestsSound, NEW q \in Requests, NEW i \in Ids, WritesAt(q, i)
  PROVE  /\ row' \in [Ids -> RowSet \cup {Unused, Deleted}]
         /\ request[q].new \in RowSet
         /\ IF Deletes(request[q])
            THEN \A j \in Ids :
                   row'[j] = IF j \in Cascade(i) /\ Exists(i) THEN Deleted ELSE row[j]
            ELSE /\ row'[i] = request[q].new
                 /\ \A j \in Ids \ {i} : row'[j] = row[j]
         /\ Exists(i) => row[i].kind = request[q].new.kind
<1>1. request[q].new \in RowSet /\ Sound(request[q])
  BY DEF WritesAt, RequestsSound, Sound
<1>2. Exists(i) => row[i].kind = request[q].new.kind
  BY <1>1 DEF WritesAt, Sound, Exists
<1>3. CASE Deletes(request[q])
  <2>1. row' = [j \in Ids |-> IF j \in Cascade(i) /\ Exists(i) THEN Deleted ELSE row[j]]
    BY <1>3 DEF WritesAt, Written
  <2> QED
    BY <1>1, <1>2, <1>3, <2>1 DEF TableTypes
<1>4. CASE ~Deletes(request[q])
  <2>1. row' = [row EXCEPT ![i] = request[q].new]
    BY <1>4 DEF WritesAt, Written
  <2> QED
    BY <1>1, <1>2, <1>4, <2>1 DEF TableTypes
<1> QED
  BY <1>3, <1>4

LEMMA QuietIsSound ==
  Quiet \in RequestSet /\ Quiet.pc = "idle"
BY DEF Quiet, RequestSet

LEMMA BeginRequest ==
  ASSUME TableTypes, NEW q \in Requests, NEW g \in BOOLEAN, NEW op, NEW pc, NEW i, NEW new,
         Allowed(op, pc, i, new), BeginIn(q, g, op, pc, i, new)
  PROVE  /\ request' = [request EXCEPT ![q] = request'[q]]
         /\ request'[q] \in RequestSet
         /\ request'[q].pc = pc /\ request'[q].op = op /\ request'[q].id = i
         /\ request'[q].new = new /\ ~request'[q].overtaken
         /\ i # None => request'[q].read = row[i]
         /\ UNCHANGED <<row, raced>>
<1> DEFINE x == [pc |-> pc, op |-> op, id |-> i, new |-> new,
                 read |-> IF i = None THEN Unused ELSE row[i], global |-> g,
                 overtaken |-> FALSE]
<1>1. request' = [request EXCEPT ![q] = x] /\ UNCHANGED <<row, raced>>
  BY DEF BeginIn, Free
<1>2. request'[q] = x
  BY <1>1 DEF TableTypes
<1>3. i # None => i \in Ids /\ row[i] \in RowSet
  BY ExistsIsRow DEF Allowed
<1>4. x \in RequestSet
  <2>1. /\ pc \in {"idle", "check", "write", "assert", "log"}
        /\ op \in {"none", "create", "upsert", "update", "delete", "remove"}
        /\ i \in Ids \cup {None} /\ new \in RowSet \cup {Unused}
        /\ x.read \in RowSet \cup {Unused}
    BY <1>3 DEF Allowed
  <2> QED
    BY <2>1 DEF RequestSet
<1>5. request' = [request EXCEPT ![q] = request'[q]]
  BY <1>1, <1>2
<1>6. x.read = IF i = None THEN Unused ELSE row[i]
  OBVIOUS
<1>7. /\ x.pc = pc /\ x.op = op /\ x.id = i /\ x.new = new /\ ~x.overtaken
  OBVIOUS
<1> HIDE DEF x
<1> QED
  BY <1>1, <1>2, <1>4, <1>5, <1>6, <1>7

-----------------------------------------------------------------------------
(* The invariant, part by part. *)

LEMMA TypesStep ==
  ASSUME TableTypes, RequestsSound, [Next]_vars
  PROVE  TableTypes'
<1>1. CASE UNCHANGED <<row, request, raced>>
  BY <1>1 DEF TableTypes
<1>2. CASE Crash
  BY <1>2, QuietIsSound DEF TableTypes, Crash
<1>3. ASSUME NEW q \in Requests, Begins(q)
      PROVE  TableTypes'
  <2>1. PICK g \in BOOLEAN : \E op, pc, i, new :
          Allowed(op, pc, i, new) /\ BeginIn(q, g, op, pc, i, new)
    BY <1>3 DEF Begins
  <2> QED
    BY <2>1, BeginRequest DEF TableTypes
<1>4. ASSUME NEW q \in Requests, Check(q)
      PROVE  TableTypes'
  BY <1>4 DEF TableTypes, Check, RequestSet
<1>5. ASSUME NEW q \in Requests, Ends(q) \/ Asserts(q)
      PROVE  TableTypes'
  <2>1. CASE Ends(q)
    BY <2>1, QuietIsSound DEF TableTypes, Ends
  <2>2. CASE AssertHolds(q)
    BY <2>2 DEF TableTypes, AssertHolds, RequestSet
  <2>3. CASE AssertFails(q)
    <3>1. [request[q] EXCEPT !.pc = "write", !.op = "remove"] \in RequestSet
      BY DEF TableTypes, RequestSet
    <3>2. request' = [request EXCEPT ![q] = [request[q] EXCEPT !.pc = "write", !.op = "remove"]]
      BY <2>3 DEF AssertFails, TableTypes
    <3> QED
      BY <2>3, <3>1, <3>2 DEF TableTypes, AssertFails
  <2> QED
    BY <1>5, <2>1, <2>2, <2>3 DEF Asserts
<1>6. ASSUME NEW q \in Requests, NEW i \in Ids, WritesAt(q, i)
      PROVE  TableTypes'
  <2>1. request' \in [Requests -> RequestSet]
    <3>1. request' = [p \in Requests |-> request'[p]]
      BY <1>6 DEF WritesAt
    <3> QED
      BY <1>6, <3>1, WrittenRequests
  <2>2. raced' \subseteq Ids
    BY <1>6 DEF WritesAt, TableTypes
  <2> QED
    BY <1>6, <2>1, <2>2, WrittenRows DEF TableTypes
<1> QED
  BY <1>1, <1>2, <1>3, <1>4, <1>5, <1>6, Steps, WriteWritesAt

(* A request goes on as it began, or with the removal of what it inserted.     *)
Proceeds(x, y) ==
  /\ x.pc # "idle" /\ y.id = x.id /\ y.new = x.new
  /\ \/ /\ y.op = x.op /\ (y.pc = "assert" => x.pc = "assert")
        /\ y.pc \in {"check", "write"} <=> x.pc \in {"check", "write"}
     \/ y.op = "remove" /\ x.pc = "assert" /\ y.pc = "write"

(* A request is over, goes on, has written its row, or begins. *)
LEMMA RequestStep ==
  ASSUME TableTypes, RequestsSound, [Next]_vars, NEW p \in Requests
  PROVE  \/ request'[p].pc = "idle"
         \/ Proceeds(request[p], request'[p])
         \/ \E i \in Ids : WritesAt(p, i) /\ request[p].op # "remove"
         \/ /\ Allowed(request'[p].op, request'[p].pc, request'[p].id, request'[p].new)
            /\ row' = row /\ \A q \in Requests \ {p} : request'[q] = request[q]
<1>0. request[p] \in RequestSet
  BY DEF TableTypes
<1>1. ASSUME request'[p] = request[p]
      PROVE  request'[p].pc = "idle" \/ Proceeds(request[p], request'[p])
  BY <1>1 DEF Proceeds
<1>2. CASE Crash
  BY <1>2, QuietIsSound DEF Crash
<1>3. ASSUME NEW q \in Requests, Begins(q), p # q
      PROVE  request'[p] = request[p]
  <2>1. PICK g \in BOOLEAN : \E op, pc, i, new :
          Allowed(op, pc, i, new) /\ BeginIn(q, g, op, pc, i, new)
    BY <1>3 DEF Begins
  <2> QED
    BY <1>3, <2>1, BeginRequest DEF TableTypes
<1>4. ASSUME Begins(p)
      PROVE  /\ Allowed(request'[p].op, request'[p].pc, request'[p].id, request'[p].new)
             /\ row' = row /\ \A q \in Requests \ {p} : request'[q] = request[q]
  <2>1. PICK g \in BOOLEAN : \E op, pc, i, new :
          Allowed(op, pc, i, new) /\ BeginIn(p, g, op, pc, i, new)
    BY <1>4 DEF Begins
  <2> QED
    BY <2>1, BeginRequest DEF TableTypes
<1>5. ASSUME NEW q \in Requests, Check(q) \/ Asserts(q)
      PROVE  request'[p] = request[p] \/ Proceeds(request[p], request'[p])
  <2>1. CASE p # q
    BY <1>5, <2>1 DEF Check, Asserts, AssertHolds, AssertFails, TableTypes
  <2>2. CASE p = q /\ Check(q)
    BY <1>0, <2>2 DEF Check, TableTypes, RequestSet, Proceeds
  <2>3. CASE p = q /\ AssertHolds(q)
    BY <1>0, <2>3 DEF AssertHolds, TableTypes, RequestSet, Proceeds
  <2>4. CASE p = q /\ AssertFails(q)
    BY <1>0, <2>4 DEF AssertFails, TableTypes, RequestSet, Proceeds
  <2> QED
    BY <1>5, <2>1, <2>2, <2>3, <2>4 DEF Asserts
<1>6. ASSUME NEW q \in Requests, Ends(q)
      PROVE  request'[p] = request[p] \/ request'[p].pc = "idle"
  BY <1>6, QuietIsSound DEF Ends, TableTypes
<1>7. ASSUME NEW q \in Requests, NEW i \in Ids, WritesAt(q, i)
      PROVE  \/ request'[p].pc = "idle"
             \/ Proceeds(request[p], request'[p])
             \/ p = q /\ request[p].op # "remove"
  BY <1>7, WrittenRequests DEF Proceeds
<1> QED
  BY <1>1, <1>2, <1>3, <1>4, <1>5, <1>6, <1>7, Steps, WriteWritesAt

(* Rows keep their kinds, and an id that was used is not used again. *)
LEMMA RowStep ==
  ASSUME TableTypes, RequestsSound, [Next]_vars, NEW j \in Ids
  PROVE  \/ row'[j] \in {row[j], Deleted}
         \/ \E q \in Requests :
              /\ request[q].pc = "write" /\ row'[j] = request[q].new
              /\ request[q].new \in RowSet
              /\ request[q].id = j \/ row[j] = Unused
<1>1. CASE row' = row
  BY <1>1
<1>2. ASSUME NEW q \in Requests, NEW i \in Ids, WritesAt(q, i)
      PROVE  \/ row'[j] \in {row[j], Deleted}
             \/ /\ request[q].pc = "write" /\ row'[j] = request[q].new
                /\ request[q].new \in RowSet
                /\ request[q].id = j \/ row[j] = Unused
  BY <1>2, WrittenRows DEF WritesAt
<1>3. row' = row \/ \E q \in Requests : Write(q)
  <2>1. ASSUME NEW q \in Requests, Begins(q)
        PROVE  row' = row
    BY <2>1 DEF Begins, BeginIn, Free
  <2> QED
    BY <2>1, Steps DEF Crash, Check, Asserts, AssertHolds, AssertFails, Ends
<1> QED
  BY <1>1, <1>2, <1>3, WriteWritesAt

LEMMA SoundStep ==
  ASSUME TableTypes, RequestsSound, [Next]_vars
  PROVE  RequestsSound'
<1> USE AuthoringAssumption
<1>1. ASSUME NEW p \in Requests, NEW q \in Requests
      PROVE  SameKind(request[p], request[q])'
  <2>1. SUFFICES ASSUME request'[p].pc # "idle", request'[q].pc # "idle",
                        request'[p].id = request'[q].id, request'[p].id # None, p # q
                 PROVE  request'[p].new.kind = request'[q].new.kind
    BY DEF SameKind
  <2>2. /\ Sound(request[p]) /\ Sound(request[q])
        /\ SameKind(request[p], request[q]) /\ SameKind(request[q], request[p])
    BY DEF RequestsSound
  <2>3. ASSUME NEW x \in Requests, NEW y \in Requests, x # y, request'[y].pc # "idle",
               Allowed(request'[x].op, request'[x].pc, request'[x].id, request'[x].new),
               row' = row, \A z \in Requests \ {x} : request'[z] = request[z],
               request'[x].id = request'[y].id, request'[x].id # None
        PROVE  request'[x].new.kind = request'[y].new.kind
    <3>1. Sound(request[y]) /\ request'[y] = request[y]
      BY <2>3 DEF RequestsSound
    <3>2. Exists(request'[x].id) /\ row[request'[x].id].kind = request'[x].new.kind
      BY <2>3 DEF Allowed
    <3> QED
      BY <2>3, <3>1, <3>2 DEF Sound
  <2>4. ASSUME NEW x \in Requests, NEW y \in Requests, x # y, request'[y].pc # "idle",
               NEW i \in Ids, WritesAt(x, i), request[x].op # "remove",
               request'[x].id = request'[y].id
        PROVE  request'[x].new.kind = request'[y].new.kind
    <3>1. /\ request'[x].id = i /\ request'[x].new = request[x].new
          /\ request'[y].id = request[y].id /\ request'[y].new = request[y].new
          /\ request'[y].pc = request[y].pc
      BY <2>4, WrittenRequests
    <3>2. Sound(request[y]) /\ SameKind(request[x], request[y]) /\ i # None
      BY DEF RequestsSound
    <3>3. row[i] # Unused
      BY <2>4, <3>1, <3>2 DEF Sound
    <3>4. request[x].id = i /\ request[x].pc = "write"
      BY <2>4, <3>3 DEF WritesAt
    <3> QED
      BY <2>4, <3>1, <3>2, <3>4 DEF SameKind
  <2>5. CASE Proceeds(request[p], request'[p]) /\ Proceeds(request[q], request'[q])
    BY <2>1, <2>2, <2>5 DEF SameKind, Proceeds
  <2> QED
    BY <2>1, <2>3, <2>4, <2>5, RequestStep
<1>2. ASSUME NEW p \in Requests
      PROVE  Sound(request[p])'
  <2> DEFINE x == request'[p]
  <2> DEFINE StaysSound ==
               /\ x.op # "none" /\ x.new \in RowSet
               /\ x.id = None <=> Inserts(x) /\ x.pc \in {"check", "write"}
               /\ x.pc = "assert" => x.op = "upsert"
               /\ x.op \in {"upsert", "remove"} => x.new.kind = "view"
               /\ x.op = "delete" => x.new.kind # "set"
               /\ x.id # None =>
                    /\ row'[x.id] # Unused
                    /\ row'[x.id] # Deleted => row'[x.id].kind = x.new.kind
  <2>1. SUFFICES ASSUME x.pc # "idle"
                 PROVE  StaysSound
    BY DEF Sound, Exists
  <2>2. CASE Proceeds(request[p], x)
    <3>1. Sound(request[p])
      BY DEF RequestsSound
    <3>2. x.id # None => x.id \in Ids
      BY <2>2 DEF TableTypes, RequestSet, Proceeds
    <3>3. ASSUME x.id # None
          PROVE  row'[x.id] # Unused /\ (row'[x.id] # Deleted => row'[x.id].kind = x.new.kind)
      <4>1. row[x.id] # Unused /\ (row[x.id] # Deleted => row[x.id].kind = x.new.kind)
        BY <2>2, <3>1, <3>3 DEF Sound, Exists, Proceeds
      <4>2. CASE row'[x.id] \in {row[x.id], Deleted}
        BY <4>1, <4>2, RowIsNoMark
      <4>3. ASSUME NEW q \in Requests, request[q].pc = "write", row'[x.id] = request[q].new,
                   request[q].new \in RowSet, request[q].id = x.id
            PROVE  row'[x.id] # Unused /\ row'[x.id].kind = x.new.kind
        BY <2>2, <3>3, <4>3, RowIsNoMark DEF RequestsSound, SameKind, Proceeds
      <4> QED
        BY <3>2, <3>3, <4>1, <4>2, <4>3, RowStep
    <3> QED
      BY <2>2, <3>1, <3>3 DEF Sound, Proceeds, Inserts
  <2>3. CASE Allowed(x.op, x.pc, x.id, x.new) /\ row' = row
    <3> HIDE DEF x
    <3> QED
      BY <2>3 DEF Allowed, Exists, Inserts
  <2>4. ASSUME NEW i \in Ids, WritesAt(p, i), request[p].op # "remove"
        PROVE  StaysSound
    <3> DEFINE y == request[p]
    <3>1. /\ x.op = y.op /\ x.id = i /\ x.new = y.new
          /\ x.pc = IF y.op = "upsert" THEN "assert" ELSE "log"
      BY <2>4, WrittenRequests
    <3>2. Sound(y) /\ y.pc = "write" /\ i # None /\ (y.id = None \/ y.id = i)
      BY <2>4 DEF RequestsSound, WritesAt
    <3>3. CASE ~Deletes(y)
      <4>1. row'[i] = y.new /\ y.new \in RowSet
        BY <2>4, <3>3, WrittenRows
      <4> QED
        BY <3>1, <3>2, <4>1, RowIsNoMark DEF Sound
    <3>4. CASE Deletes(y)
      <4>1. row'[i] = IF Exists(i) THEN Deleted ELSE row[i]
        BY <2>4, <3>4, WrittenRows DEF Cascade
      <4>2. row[i] # Unused
        BY <3>2, <3>4 DEF Sound, Inserts, Deletes
      <4>3. row'[i] = Deleted
        BY <4>1, <4>2 DEF Exists
      <4> QED
        BY <3>1, <3>2, <4>3, RowIsNoMark DEF Sound
    <3> QED
      BY <3>3, <3>4
  <2> QED
    BY <2>1, <2>2, <2>3, <2>4, RequestStep
<1> QED
  BY <1>1, <1>2 DEF RequestsSound

LEMMA ReadingsStep ==
  ASSUME TableTypes, RequestsSound, ReadingsUpToDate, [Next]_vars
  PROVE  ReadingsUpToDate'
<1> USE AuthoringAssumption
<1> SUFFICES ASSUME NEW p \in Requests, request'[p].pc \in {"check", "write"},
                    ~request'[p].overtaken, request'[p].op # "remove"
             PROVE  UpToDate(request[p])'
  BY DEF ReadingsUpToDate, UpToDate
<1>1. ASSUME row' = row, request'[p] = request[p]
      PROVE  UpToDate(request[p])'
  <2>1. UpToDate(request[p])
    BY DEF ReadingsUpToDate
  <2> QED
    BY <1>1, <2>1 DEF UpToDate, Exists, AllowsDesignerFields, Is, Duplicate, Others, Alike,
                      SameRow, Fields
<1>2. ASSUME Begins(p)
      PROVE  UpToDate(request[p])'
  <2>1. PICK g \in BOOLEAN : \E op, pc, i, new :
          Allowed(op, pc, i, new) /\ BeginIn(p, g, op, pc, i, new)
    BY <1>2 DEF Begins
  <2>2. /\ Allowed(request'[p].op, request'[p].pc, request'[p].id, request'[p].new)
        /\ request'[p].id # None => request'[p].read = row[request'[p].id]
        /\ row' = row
    BY <2>1, BeginRequest
  <2> QED
    BY <2>2 DEF UpToDate, Allowed, Exists, AllowsDesignerFields, Is
<1>3. ASSUME NEW q \in Requests, Begins(q), p # q
      PROVE  row' = row /\ request'[p] = request[p]
  <2>1. PICK g \in BOOLEAN : \E op, pc, i, new :
          Allowed(op, pc, i, new) /\ BeginIn(q, g, op, pc, i, new)
    BY <1>3 DEF Begins
  <2> QED
    BY <1>3, <2>1, BeginRequest DEF TableTypes
<1>4. ASSUME Check(p)
      PROVE  UpToDate(request[p])'
  <2> DEFINE x == request[p]
  <2>1. /\ x.pc = "check" /\ Passes(x) /\ row' = row
        /\ request'[p] = [x EXCEPT !.pc = "write"]
    BY <1>4 DEF Check, TableTypes
  <2>2. x \in RequestSet /\ UpToDate(x) /\ Sound(x)
    BY DEF TableTypes, ReadingsUpToDate, RequestsSound
  <2> DEFINE y == request'[p]
  <2>3. /\ y.pc = "write" /\ y.op = x.op /\ y.id = x.id /\ y.new = x.new /\ y.read = x.read
        /\ y.overtaken = x.overtaken
    BY <2>1, <2>2 DEF RequestSet
  <2>4. ~x.overtaken
    BY <2>3
  <2>5. x.op # "delete" /\ x.new.kind = "rule" => ~Duplicate(x) \/ SameRow(x)
    BY <2>1 DEF Passes
  <2>7. x.op = "update" /\ x.new.kind = "object" /\ x.new.mode = "system_table" =>
          x.read.mode = "system_table" \/ Fields(x.id) = {}
    BY <2>1 DEF Passes
  <2> HIDE DEF x
  <2>8. /\ x.id # None => Exists(x.id) /\ row[x.id] = x.read
        /\ (x.op # "delete" /\ x.new.kind = "field") => AllowsDesignerFields(x.new.parent)
    BY <2>1, <2>2, <2>4 DEF UpToDate
  <2> HIDE DEF y
  <2>9. SUFFICES
          /\ y.id # None => row[y.id] \notin {Unused, Deleted} /\ row[y.id] = y.read
          /\ (y.op # "delete" /\ y.new.kind = "field") => AllowsDesignerFields(y.new.parent)
          /\ y.op # "delete" /\ y.new.kind = "rule" => ~Duplicate(y) \/ SameRow(y)
          /\ y.op = "update" /\ y.new.kind = "object" /\ y.new.mode = "system_table" =>
               y.read.mode = "system_table" \/ Fields(y.id) = {}
    BY <2>1 DEF y, UpToDate, Exists, AllowsDesignerFields, Is, Duplicate, Others, Alike,
                SameRow, Fields
  <2> QED
    BY <2>3, <2>5, <2>7, <2>8 DEF Duplicate, SameRow, Exists
<1>5. ASSUME NEW q \in Requests, Check(q), p # q
      PROVE  row' = row /\ request'[p] = request[p]
  BY <1>5 DEF Check, TableTypes
<1>6. ASSUME NEW q \in Requests, Ends(q)
      PROVE  row' = row /\ request'[p] = request[p]
  BY <1>6, QuietIsSound DEF Ends, TableTypes
<1>7. ASSUME NEW q \in Requests, Write(q)
      PROVE  FALSE
  BY <1>7, WriteWritesAt, WrittenRequests
<1>8. ~Crash
  BY QuietIsSound DEF Crash
<1>9. ASSUME NEW q \in Requests, Asserts(q)
      PROVE  row' = row /\ request'[p] = request[p]
  <2>1. CASE p = q
    <3>1. request[p] \in RequestSet
      BY DEF TableTypes
    <3> QED
      BY <1>9, <2>1, <3>1 DEF Asserts, AssertHolds, AssertFails, TableTypes, RequestSet
  <2>2. CASE p # q
    BY <1>9, <2>2 DEF Asserts, AssertHolds, AssertFails, TableTypes
  <2> QED
    BY <2>1, <2>2
<1> QED
  BY <1>1, <1>2, <1>3, <1>4, <1>5, <1>6, <1>7, <1>8, <1>9, Steps

(* A step that writes no row leaves the tables as they are. *)
LEMMA TablesChange ==
  ASSUME TableTypes, [Next]_vars
  PROVE  \/ row' = row /\ raced' = raced
         \/ \E q \in Requests, i \in Ids : WritesAt(q, i)
<1>1. ASSUME NEW q \in Requests, Begins(q)
      PROVE  row' = row /\ raced' = raced
  BY <1>1 DEF Begins, BeginIn, Free
<1> QED
  BY <1>1, Steps, WriteWritesAt DEF Crash, Check, Asserts, AssertHolds, AssertFails, Ends

(* A deletion takes with it all that is below: the fields of an object and     *)
(* their rules, its views and their panels.  Only a set has more levels below, *)
(* and no request deletes one.                                                 *)
LEMMA OrphansStep ==
  ASSUME TablesInv, [Next]_vars
  PROVE  NoOrphans'
<1> USE AuthoringAssumption
<1>1. CASE row' = row
  BY <1>1 DEF TablesInv, NoOrphans, Exists, Rooted, Is
<1>2. ASSUME NEW q \in Requests, NEW i \in Ids, WritesAt(q, i),
             NEW j \in Ids, row'[j] \notin {Unused, Deleted}
      PROVE  IF Parent[row'[j].kind] = None THEN row'[j].parent = None
             ELSE /\ row'[j].parent \in Ids /\ row'[row'[j].parent] \notin {Unused, Deleted}
                  /\ row'[row'[j].parent].kind = Parent[row'[j].kind]
  <2> DEFINE new == request[q].new
  <2>1. /\ new \in RowSet /\ row'[j] \in RowSet
        /\ Exists(i) => row[i].kind = new.kind
        /\ Sound(request[q])
    BY <1>2, WrittenRows DEF TablesInv, RequestsSound
  <2>2. CASE ~Deletes(request[q])
    <3>1. row'[i] = new /\ \A k \in Ids \ {i} : row'[k] = row[k]
      BY <1>2, <2>2, WrittenRows DEF TablesInv
    <3>2. Rooted(row'[j])
      <4>1. CASE j = i
        BY <1>2, <2>2, <3>1, <4>1 DEF WritesAt, Refused
      <4>2. CASE j # i
        BY <1>2, <3>1, <4>2 DEF TablesInv, NoOrphans, Exists
      <4> QED
        BY <4>1, <4>2
    <3>3. CASE Parent[row'[j].kind] = None
      BY <3>2, <3>3 DEF Rooted
    <3>4. CASE Parent[row'[j].kind] # None
      <4> DEFINE p == row'[j].parent
      <4>1. p \in Ids /\ Exists(p) /\ row[p].kind = Parent[row'[j].kind]
        BY <3>2, <3>4 DEF Rooted, Is
      <4>2. CASE p = i
        BY <2>1, <3>1, <3>4, <4>1, <4>2, RowIsNoMark
      <4>3. CASE p # i
        BY <3>1, <3>4, <4>1, <4>3 DEF Exists
      <4> QED
        BY <4>2, <4>3
    <3> QED
      BY <3>3, <3>4
  <2>3. CASE Deletes(request[q])
    <3>1. \A k \in Ids : row'[k] = IF k \in Cascade(i) /\ Exists(i) THEN Deleted ELSE row[k]
      BY <1>2, <2>3, WrittenRows DEF TablesInv
    <3>2. /\ row'[j] = row[j] /\ Exists(j) /\ Rooted(row[j])
          /\ ~(j \in Cascade(i) /\ Exists(i))
      BY <1>2, <3>1 DEF TablesInv, NoOrphans, Exists
    <3>3. CASE Parent[row[j].kind] = None
      BY <3>2, <3>3 DEF Rooted
    <3>4. CASE Parent[row[j].kind] # None
      <4> DEFINE p == row[j].parent
      <4>1. p \in Ids /\ Exists(p) /\ row[p].kind = Parent[row[j].kind]
        BY <3>2, <3>4 DEF Rooted, Is
      <4>2. ASSUME p \in Cascade(i), Exists(i)
            PROVE  FALSE
        <5>1. p \notin {i} \cup Below({i})
          BY <3>2, <4>2 DEF Cascade, Below
        <5>2. PICK g \in {i} \cup Below({i}) : row[p].parent = g
          BY <4>2, <5>1 DEF Cascade, Below
        <5>3. g \in Below({i})
          BY <4>1, <5>1, <5>2 DEF Below
        <5>4. g \in Ids /\ Exists(g) /\ row[g].parent = i
          BY <5>3 DEF Below
        <5>5. /\ Rooted(row[p]) /\ Rooted(row[g])
              /\ row[p] \in RowSet /\ row[g] \in RowSet /\ row[i] \in RowSet /\ row[j] \in RowSet
          BY <3>2, <4>1, <4>2, <5>4, ExistsIsRow DEF TablesInv, NoOrphans
        <5>6. row[g].kind = Parent[row[p].kind] /\ row[i].kind = Parent[row[g].kind]
          BY <1>2, <5>2, <5>4, <5>5 DEF Rooted, Is
        <5>7. row[i].kind = "set"
          BY <4>1, <5>5, <5>6, ParentKinds DEF RowSet
        <5> QED
          BY <1>2, <2>1, <2>3, <4>2, <5>7 DEF Sound, WritesAt, Deletes
      <4>3. row'[p] = row[p]
        BY <3>1, <4>1, <4>2
      <4> QED
        BY <3>2, <3>4, <4>1, <4>3 DEF Exists
    <3> QED
      BY <3>2, <3>3, <3>4
  <2> QED
    BY <2>2, <2>3
<1> QED
  BY <1>1, <1>2, TablesChange DEF TablesInv, NoOrphans, Exists, Rooted, Is

(* The database refuses a key that is taken; where it has no unique key the    *)
(* reading of the request still holds, or the row is one of the raced.         *)
LEMMA KeysStep ==
  ASSUME TablesInv, [Next]_vars
  PROVE  KeysUnique'
<1> USE AuthoringAssumption
<1> DEFINE Excused(r, i, j, S) ==
      (r.kind = "rule" /\ {i, j} \cap S # {}) \/ (r.kind = "set" /\ r.global)
<1>1. \A i, j \in Ids :
        i # j /\ Exists(i) /\ Exists(j) /\ Alike(row[i], row[j]) => Excused(row[i], i, j, raced)
  BY DEF TablesInv, KeysUnique
<1>2. CASE row' = row /\ raced' = raced
  BY <1>2 DEF TablesInv, KeysUnique, Exists, Alike
<1>3. ASSUME NEW q \in Requests, NEW i \in Ids, WritesAt(q, i),
             NEW j \in Ids, NEW k \in Ids, j # k,
             row'[j] \notin {Unused, Deleted}, row'[k] \notin {Unused, Deleted},
             Alike(row'[j], row'[k])
      PROVE  Excused(row'[j], j, k, raced')
  <2> DEFINE r == request[q]
  <2>1. raced \subseteq raced' /\ (r.overtaken => i \in raced')
    BY <1>3 DEF WritesAt
  <2>2. ASSUME row'[j] = row[j], row'[k] = row[k]
        PROVE  Excused(row'[j], j, k, raced')
    BY <1>1, <1>3, <2>1, <2>2 DEF Exists
  <2>3. CASE Deletes(r)
    BY <1>3, <2>2, <2>3, WrittenRows DEF TablesInv
  <2>4. CASE ~Deletes(r)
    <3>1. row'[i] = r.new /\ \A l \in Ids \ {i} : row'[l] = row[l]
      BY <1>3, <2>4, WrittenRows DEF TablesInv
    <3>2. r.id \in {i, None} /\ (r.id = None => row[i] = Unused)
      BY <1>3 DEF WritesAt
    <3>3. ASSUME NEW l \in Ids, l # i, Exists(l), Alike(row[l], r.new)
          PROVE  (r.new.kind = "rule" /\ {i, l} \cap raced' # {})
                   \/ (r.new.kind = "set" /\ r.new.global)
      <4>1. l \in Others(r.id, r.new)
        BY <3>2, <3>3 DEF Others
      <4>2. ~HasUniqueKey(r.new)
        BY <1>3, <2>4, <4>1 DEF WritesAt, Refused, Clashes
      <4>3. CASE r.new.kind = "rule" /\ ~r.overtaken
        <5>1. UpToDate(r) /\ r.pc = "write"
          BY <1>3 DEF TablesInv, ReadingsUpToDate, WritesAt
        <5>2. SameRow(r)
          BY <2>4, <4>1, <4>3, <5>1 DEF UpToDate, Duplicate, Deletes
        <5>3. r.id = i /\ Exists(i) /\ Alike(row[i], r.new)
          BY <3>2, <5>2 DEF SameRow
        <5>4. Alike(row[i], row[l])
          BY <3>3, <5>3 DEF Alike
        <5>5. {i, l} \cap raced # {}
          BY <1>1, <3>3, <4>3, <5>3, <5>4 DEF Alike
        <5> QED
          BY <2>1, <4>3, <5>5
      <4>4. CASE r.new.kind = "rule" /\ r.overtaken
        BY <2>1, <4>4
      <4> QED
        BY <4>2, <4>3, <4>4 DEF HasUniqueKey
    <3>4. CASE j = i
      <4>1. Exists(k) /\ Alike(row[k], r.new) /\ row'[j] = r.new
        BY <1>3, <3>1, <3>4 DEF Exists, Alike
      <4> QED
        BY <1>3, <3>3, <3>4, <4>1
    <3>5. CASE k = i
      <4>1. Exists(j) /\ Alike(row[j], r.new) /\ row'[j] = row[j]
        BY <1>3, <3>1, <3>5 DEF Exists, Alike
      <4> QED
        BY <1>3, <3>3, <3>5, <4>1 DEF Alike
    <3> QED
      BY <2>2, <3>1, <3>4, <3>5
  <2> QED
    BY <2>3, <2>4
<1> QED
  BY <1>2, <1>3, TablesChange DEF TablesInv, KeysUnique, Exists, Alike

(* A field, and a binding, is written on a reading that still holds, or the     *)
(* row is one of the raced.                                                     *)
LEMMA SystemTableStep ==
  ASSUME TablesInv, [Next]_vars
  PROVE  SystemTableHasNoFields'
<1> USE AuthoringAssumption
<1>1. CASE row' = row /\ raced' = raced
  BY <1>1 DEF TablesInv, SystemTableHasNoFields, Is, Exists, Fields
<1>2. ASSUME NEW q \in Requests, NEW i \in Ids, WritesAt(q, i),
             NEW o \in Ids, NEW f \in Ids,
             row'[o] \notin {Unused, Deleted}, row'[o].kind = "object",
             row'[o].mode = "system_table",
             row'[f] \notin {Unused, Deleted}, row'[f].kind = "field", row'[f].parent = o
      PROVE  {o, f} \cap raced' # {}
  <2> DEFINE r == request[q]
  <2>1. raced \subseteq raced' /\ (r.overtaken => i \in raced') /\ r.pc = "write"
    BY <1>2 DEF WritesAt
  <2>2. ASSUME row'[o] = row[o], row'[f] = row[f]
        PROVE  {o, f} \cap raced' # {}
    BY <1>2, <2>1, <2>2 DEF TablesInv, SystemTableHasNoFields, Is, Exists, Fields
  <2>3. CASE Deletes(r)
    BY <1>2, <2>2, <2>3, WrittenRows DEF TablesInv
  <2>4. CASE ~Deletes(r)
    <3>1. row'[i] = r.new /\ \A l \in Ids \ {i} : row'[l] = row[l]
      BY <1>2, <2>4, WrittenRows DEF TablesInv
    <3>2. /\ r.id \in {i, None} /\ (r.id = None => row[i] = Unused)
          /\ (r.id = None <=> Inserts(r)) /\ (~Inserts(r) => r.op = "update")
      BY <1>2, <2>1, <2>4 DEF WritesAt, TablesInv, RequestsSound, Sound, TableTypes, RequestSet,
                              Inserts, Deletes
    <3>3. Exists(i) => row[i].kind = r.new.kind
      BY <1>2, WrittenRows DEF TablesInv
    <3>4. UpToDate(r)
      BY DEF TablesInv, ReadingsUpToDate
    <3>5. CASE r.overtaken /\ i \in {o, f}
      BY <2>1, <3>5
    <3>6. CASE ~r.overtaken /\ i = o
      <4>1. f # o /\ row'[f] = row[f]
        BY <1>2, <3>1, <3>6
      <4>0. r.id # None
        <5>1. Exists(f) /\ row[f].kind = "field" /\ row[f].parent = o
          BY <1>2, <4>1 DEF Exists
        <5>2. Parent["field"] # None
          BY DEF Parent, Kinds
        <5>3. Exists(o)
          BY <5>1, <5>2 DEF TablesInv, NoOrphans, Rooted, Is
        <5> QED
          BY <3>2, <3>6, <5>3 DEF Exists
      <4>2. r.id = i /\ Exists(i) /\ row[i] = r.read /\ r.op = "update"
        BY <1>2, <2>1, <3>1, <3>2, <3>4, <3>6, <4>0 DEF UpToDate, Deletes
      <4>3. r.read.mode = "system_table" \/ Fields(o) = {}
        BY <1>2, <2>1, <2>4, <3>1, <3>4, <3>6, <4>2 DEF UpToDate, Deletes
      <4>4. f \in Fields(o)
        BY <1>2, <4>1 DEF Fields, Is, Exists
      <4>5. Is(o, "object") /\ row[o].mode = "system_table"
        BY <1>2, <3>1, <3>3, <3>6, <4>2, <4>3, <4>4 DEF Is
      <4> QED
        BY <2>1, <4>4, <4>5 DEF TablesInv, SystemTableHasNoFields
    <3>7. CASE ~r.overtaken /\ i = f
      <4>1. o # f /\ row'[o] = row[o]
        BY <1>2, <3>1, <3>7
      <4>2. AllowsDesignerFields(o)
        BY <1>2, <2>1, <2>4, <3>1, <3>4, <3>7 DEF UpToDate, Deletes
      <4> QED
        BY <1>2, <4>1, <4>2 DEF AllowsDesignerFields
    <3>8. CASE i \notin {o, f}
      BY <2>2, <3>1, <3>8
    <3> QED
      BY <3>5, <3>6, <3>7, <3>8
  <2> QED
    BY <2>3, <2>4
<1> QED
  BY <1>1, <1>2, TablesChange DEF TablesInv, SystemTableHasNoFields, Is, Exists, Fields

LEMMA InitTables == Init => TablesInv
<1> SUFFICES ASSUME Init PROVE TablesInv
  OBVIOUS
<1>1. TableTypes
  BY QuietIsSound, AuthoringAssumption DEF Init, TableTypes
<1>2. \A q \in Requests : request[q].pc = "idle"
  BY QuietIsSound DEF Init
<1> QED
  BY <1>1, <1>2 DEF Init, TablesInv, RequestsSound, Sound, SameKind, ReadingsUpToDate, UpToDate

LEMMA TablesStep == TablesInv /\ [Next]_vars => TablesInv'
<1> SUFFICES ASSUME TablesInv, [Next]_vars PROVE TablesInv'
  OBVIOUS
<1>1. TableTypes' /\ RequestsSound' /\ ReadingsUpToDate'
  BY TypesStep, SoundStep, ReadingsStep DEF TablesInv
<1> QED
  BY <1>1, OrphansStep, KeysStep, SystemTableStep DEF TablesInv

LEMMA TablesHold == Spec => []TablesInv
<1> QED
  BY InitTables, TablesStep, PTL DEF Spec

-----------------------------------------------------------------------------
(* The log.                                                                   *)

LogInv ==
  /\ log \subseteq Ids /\ revived \subseteq Ids /\ untold \subseteq Ids
  /\ ops \in 0 .. MaxOps /\ faults \in 0 .. MaxFaults
  /\ RowsAreLogged

LEMMA TellingHasRow ==
  ASSUME TablesInv, NEW q \in Requests, Telling(q)
  PROVE  request[q].id \in Ids /\ request[q].pc \in {"write", "assert", "log"}
<1>1. Sound(request[q]) /\ request[q] \in RequestSet
  BY DEF TablesInv, RequestsSound, TableTypes
<1> QED
  BY <1>1 DEF Sound, Telling, Inserts, RequestSet

LEMMA LogTypesStep ==
  ASSUME TablesInv, LogInv, [Next]_vars
  PROVE  /\ (log \subseteq Ids /\ revived \subseteq Ids /\ untold \subseteq Ids)'
         /\ (ops \in 0 .. MaxOps /\ faults \in 0 .. MaxFaults)'
<1> USE AuthoringAssumption DEF LogInv
<1>0. TableTypes
  BY DEF TablesInv
<1>1. CASE UNCHANGED vars
  BY <1>1 DEF vars
<1>2. CASE Crash
  BY <1>2, TellingHasRow DEF Crash
<1>3. ASSUME NEW q \in Requests, Author(q)
      PROVE  UNCHANGED <<log, revived, untold, faults>> /\ ops' = ops + 1 /\ ops < MaxOps
  BY <1>0, <1>3, AuthorBegins DEF Begins, BeginIn, Free
<1>4. ASSUME NEW q \in Requests,
             Check(q) \/ CheckRefuses(q) \/ AssertHolds(q) \/ AssertFails(q)
      PROVE  UNCHANGED <<log, revived, untold, ops, faults>>
  BY <1>4 DEF Check, CheckRefuses, AssertHolds, AssertFails
<1>5. ASSUME NEW q \in Requests, NEW i \in Ids, WritesAt(q, i)
      PROVE  UNCHANGED <<log, untold, ops, faults>> /\ revived' \subseteq Ids
  BY <1>5 DEF WritesAt
<1>6. ASSUME NEW q \in Requests, WriteRejected(q)
      PROVE  /\ UNCHANGED <<log, revived, ops>> /\ untold' \subseteq Ids
             /\ faults' \in 0 .. MaxFaults
  BY <1>6, TellingHasRow DEF WriteRejected, Telling
<1>7. ASSUME NEW q \in Requests, LogConfigChange(q)
      PROVE  UNCHANGED <<revived, untold, ops, faults>> /\ log' \subseteq Ids
  BY <1>7, TellingHasRow DEF LogConfigChange, Telling
<1>8. ASSUME NEW q \in Requests, LogRejected(q)
      PROVE  /\ UNCHANGED <<log, revived, ops>> /\ untold' \subseteq Ids
             /\ faults' \in 0 .. MaxFaults
  BY <1>8, TellingHasRow DEF LogRejected, Telling
<1>9. \A q \in Requests : Author(q) => ops' \in 0 .. MaxOps
  BY <1>3
<1> QED
  BY <1>0, <1>1, <1>2, <1>3, <1>4, <1>5, <1>6, <1>7, <1>8, <1>9, WriteWritesAt DEF Next, Serve

(* Who tells of a row goes on doing so, or leaves it to the log or the history. *)
LEMMA TellingStep ==
  ASSUME TablesInv, [Next]_vars, NEW q \in Requests, Telling(q)
  PROVE  \/ Telling(q)' /\ request'[q].id = request[q].id
         \/ request[q].id \in log' \cup untold'
         \/ row'[request[q].id] \in {Unused, Deleted}
<1>0. TableTypes /\ request[q] \in RequestSet /\ request[q].pc \in {"write", "assert", "log"}
  BY TellingHasRow DEF TablesInv, TableTypes
<1>1. ASSUME request'[q] = request[q]
      PROVE  Telling(q)' /\ request'[q].id = request[q].id
  BY <1>1 DEF Telling, Inserts
<1>2. CASE UNCHANGED vars
  BY <1>1, <1>2 DEF vars
<1>3. CASE Crash
  BY <1>3 DEF Crash
<1>4. ASSUME NEW p \in Requests, Author(p)
      PROVE  request'[q] = request[q]
  <2>1. PICK g \in BOOLEAN : \E op, pc, i, new :
          Allowed(op, pc, i, new) /\ BeginIn(p, g, op, pc, i, new)
    BY <1>0, <1>4, AuthorBegins DEF Begins
  <2>2. request[p].pc = "idle"
    BY <2>1 DEF BeginIn, Free
  <2>3. request' = [request EXCEPT ![p] = request'[p]]
    BY <1>0, <2>1, BeginRequest
  <2> QED
    BY <1>0, <2>2, <2>3 DEF TableTypes
<1>5. ASSUME NEW p \in Requests, Check(p) \/ CheckRefuses(p)
      PROVE  request'[q] = request[q]
  BY <1>0, <1>5 DEF Check, CheckRefuses, TableTypes
<1>6. ASSUME NEW p \in Requests, Asserts(p)
      PROVE  Telling(q)' /\ request'[q].id = request[q].id
  <2>1. CASE p # q
    <3>1. request'[q] = request[q]
      BY <1>0, <1>6, <2>1 DEF Asserts, AssertHolds, AssertFails, TableTypes
    <3> QED
      BY <1>1, <3>1
  <2>2. CASE p = q /\ AssertHolds(p)
    BY <1>0, <2>2 DEF AssertHolds, TableTypes, RequestSet, Telling, Inserts
  <2>3. CASE p = q /\ AssertFails(p)
    BY <1>0, <2>3 DEF AssertFails, TableTypes, RequestSet, Telling, Inserts
  <2> QED
    BY <1>6, <2>1, <2>2, <2>3 DEF Asserts
<1>7. ASSUME NEW p \in Requests, WriteRejected(p) \/ LogConfigChange(p) \/ LogRejected(p)
      PROVE  request'[q] = request[q] \/ request[q].id \in log' \cup untold'
  BY <1>0, <1>7 DEF WriteRejected, LogConfigChange, LogRejected, TableTypes, Telling
<1>8. ASSUME NEW p \in Requests, NEW i \in Ids, WritesAt(p, i)
      PROVE  \/ Telling(q)' /\ request'[q].id = request[q].id
             \/ row'[request[q].id] \in {Unused, Deleted}
  <2>1. CASE p # q
    BY <1>0, <1>8, <2>1, WrittenRequests DEF Telling, Inserts
  <2>2. CASE p = q
    <3>1. request[q].pc = "write" /\ request[q].op = "remove"
      BY <1>8, <2>2 DEF WritesAt, Telling
    <3>2. request[q].id = i
      BY <1>8, <2>2, TellingHasRow, AuthoringAssumption DEF WritesAt
    <3>3. row'[i] = IF Exists(i) THEN Deleted ELSE row[i]
      BY <1>8, <2>2, <3>1, WrittenRows DEF Deletes, Cascade, TablesInv
    <3> QED
      BY <3>2, <3>3 DEF Exists
  <2> QED
    BY <2>1, <2>2
<1> QED
  BY <1>0, <1>1, <1>2, <1>3, <1>4, <1>5, <1>6, <1>7, <1>8, WriteWritesAt DEF Next, Serve, Asserts

(* A row that is new is being told of; one that comes back is one of the       *)
(* revived.                                                                    *)
LEMMA NewRowStep ==
  ASSUME TablesInv, [Next]_vars, NEW j \in Ids, ~Exists(j), row'[j] \notin {Unused, Deleted}
  PROVE  j \in revived' \/ \E q \in Requests : Telling(q)' /\ request'[q].id = j
<1>0. TableTypes /\ RequestsSound
  BY DEF TablesInv
<1>1. row' # row
  BY DEF Exists
<1>2. PICK q \in Requests, i \in Ids : WritesAt(q, i)
  BY <1>0, <1>1, TablesChange
<1>3. ~Deletes(request[q]) /\ i = j
  BY <1>0, <1>2, WrittenRows DEF Exists
<1>4. CASE row[j] = Deleted
  BY <1>2, <1>3, <1>4 DEF WritesAt
<1>5. CASE row[j] = Unused
  <2>1. request[q].pc = "write" /\ Sound(request[q]) /\ (request[q].id = None \/ request[q].id = j)
    BY <1>0, <1>2, <1>3 DEF WritesAt, RequestsSound
  <2>2. request[q].id = None /\ Inserts(request[q]) /\ request[q].op # "remove"
    BY <1>5, <2>1 DEF Sound, Inserts
  <2>3. /\ request'[q].op = request[q].op /\ request'[q].id = j
        /\ request'[q].pc \in {"assert", "log"}
    BY <1>0, <1>2, <1>3, <2>2, WrittenRequests
  <2> QED
    BY <2>2, <2>3 DEF Telling, Inserts
<1> QED
  BY <1>4, <1>5 DEF Exists

LEMMA LogStep ==
  ASSUME TablesInv, LogInv, [Next]_vars
  PROVE  LogInv'
<1>1. ASSUME NEW j \in Ids, row'[j] \notin {Unused, Deleted}
      PROVE  \/ j \in log' \cup revived' \cup untold'
             \/ \E q \in Requests : Telling(q)' /\ request'[q].id = j
  <2>1. CASE ~Exists(j)
    BY <1>1, <2>1, NewRowStep
  <2>2. CASE j \in log \cup revived \cup untold
    <3>1. ASSUME NEW q \in Requests, Author(q)
          PROVE  UNCHANGED <<log, revived, untold>>
      BY <3>1, AuthorBegins DEF Begins, BeginIn, TablesInv
    <3>2. log \subseteq log' /\ revived \subseteq revived' /\ untold \subseteq untold'
      BY <3>1 DEF Next, Serve, vars, Crash, Check, CheckRefuses, AssertHolds, AssertFails,
                  Write, WriteRejected, LogConfigChange, LogRejected
    <3> QED
      BY <2>2, <3>2
  <2>3. ASSUME NEW q \in Requests, Telling(q), request[q].id = j
        PROVE  \/ j \in log' \cup untold'
               \/ Telling(q)' /\ request'[q].id = j
    BY <1>1, <2>3, TellingStep
  <2> QED
    BY <2>1, <2>2, <2>3 DEF LogInv, RowsAreLogged
<1>2. RowsAreLogged'
  BY <1>1 DEF RowsAreLogged, Exists
<1> QED
  BY <1>2, LogTypesStep DEF LogInv

LEMMA LogHolds == Spec => []LogInv
<1>1. Init => LogInv
  BY AuthoringAssumption DEF Init, LogInv, RowsAreLogged
<1>2. TablesInv /\ LogInv /\ [Next]_vars => LogInv'
  BY LogStep
<1> QED
  BY <1>1, <1>2, TablesHold, PTL DEF Spec

-----------------------------------------------------------------------------
(* The theorems. *)

(* No operation writes anything but rows and requests of their types. *)
THEOREM TypeCorrect == Spec => []TypeOK
<1>1. TablesInv /\ LogInv => TypeOK
  BY DEF TypeOK, TablesInv, TableTypes, LogInv
<1> QED
  BY <1>1, TablesHold, LogHolds, PTL

(* No row is below a parent that is gone: an insertion below it is refused,   *)
(* a deletion takes all levels below with it.                                 *)
THEOREM NoRowIsOrphaned == Spec => []NoOrphans
<1>1. TablesInv => NoOrphans
  BY DEF TablesInv
<1> QED
  BY <1>1, TablesHold, PTL

(* Keys are unique, but among rules written in a race and global sets. *)
THEOREM KeysAreUnique == Spec => []KeysUnique
<1>1. TablesInv => KeysUnique
  BY DEF TablesInv
<1> QED
  BY <1>1, TablesHold, PTL

(* An object bound to a system table gets fields of its own by a race only. *)
THEOREM SystemTablesHaveNoFields == Spec => []SystemTableHasNoFields
<1>1. TablesInv => SystemTableHasNoFields
  BY DEF TablesInv
<1> QED
  BY <1>1, TablesHold, PTL

(* Every row has its creation in the log, or its creator is still at it or     *)
(* ended in a failure, or a save that had read it brought back what was gone.  *)
THEOREM EveryRowIsLogged == Spec => []RowsAreLogged
<1>1. LogInv => RowsAreLogged
  BY DEF LogInv
<1> QED
  BY <1>1, LogHolds, PTL
=============================================================================
