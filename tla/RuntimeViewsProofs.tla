-------------------------- MODULE RuntimeViewsProofs --------------------------
(***************************************************************************)
(* Proofs about RuntimeViews for any tenants, types, rows, requests,       *)
(* readers, contents and times.  The rows come first: requests for one row *)
(* agree on its scope, and the index keeps two of a scope and type from    *)
(* being active.  Then the caches: how old an entry can be, and that       *)
(* whatever a clean scope has cached, or is about to, is still true.       *)
(***************************************************************************)
EXTENDS RuntimeViews, TLAPS

LiveSet == [scope : Scopes, type : Types, active : BOOLEAN]

RowTypes ==
  /\ view \in [Views -> RowSet]
  /\ request \in [Requests -> RequestSet]

(* A request holds a row as it was read or made; it names an id in use, and   *)
(* the row there, if it is not gone, has the scope the request knows.         *)
Sound(x) ==
  x.pc # "idle" =>
    /\ x.row \in LiveSet
    /\ x.target # None => /\ view[x.target] # Unused
                          /\ Exists(x.target) => view[x.target].scope = x.row.scope

SameScope(x, y) ==
  (x.pc # "idle" /\ y.pc # "idle" /\ x.target = y.target /\ x.target # None) =>
    x.row.scope = y.row.scope

RequestsSound ==
  /\ \A q \in Requests : Sound(request[q])
  /\ \A p, q \in Requests : SameScope(request[p], request[q])

RowsInv ==
  /\ RowTypes
  /\ RequestsSound
  /\ OneActivePerScope

LEMMA Marks ==
  /\ Unused \notin LiveSet /\ Deleted \notin LiveSet /\ Unused # Deleted
  /\ RowSet = LiveSet \cup {Unused, Deleted}
  /\ ~Unused.active /\ ~Deleted.active
<1>1. Unused.scope \notin Scopes /\ Deleted.scope \notin Scopes
  BY ViewsAssumption DEF Unused, Deleted
<1>2. Unused.type # Deleted.type /\ ~Unused.active /\ ~Deleted.active
  BY ViewsAssumption DEF Unused, Deleted
<1> HIDE DEF Unused, Deleted
<1> QED
  BY <1>1, <1>2 DEF LiveSet, RowSet

LEMMA ExistsIsLive ==
  ASSUME RowTypes, NEW v \in Views
  PROVE  Exists(v) <=> view[v] \in LiveSet
BY Marks DEF RowTypes, Exists

LEMMA QuietIsRequest == Quiet \in RequestSet /\ Quiet.pc = "idle"
<1>1. Unused \in RowSet
  BY Marks
<1> QED
  BY <1>1 DEF Quiet, RequestSet

LEMMA RowIsLive ==
  ASSUME NEW s \in Scopes, NEW p \in Types, NEW on \in BOOLEAN
  PROVE  Row(s, p, on) \in LiveSet /\ Row(s, p, on).scope = s
BY DEF Row, LiveSet

-----------------------------------------------------------------------------
(* What the steps of requests are made of. *)

(* A request begins: with an existing row, changed but for its scope, or with *)
(* a row to insert.                                                           *)
Begins(q) ==
  \E pc \in {"clear", "save", "create", "insert", "remove"}, v \in Views \cup {None},
     row \in LiveSet, s \in Scopes :
    /\ v # None => Exists(v) /\ view[v].scope = row.scope
    /\ request[q].pc = "idle"
    /\ Start(q, pc, v, row, s)

LEMMA BeginsSoundly ==
  ASSUME RowTypes, NEW q \in Requests, Begin(q)
  PROVE  Begins(q)
<1>1. ASSUME NEW v \in Views, Exists(v)
      PROVE  /\ view[v] \in LiveSet /\ view[v].scope \in Scopes
             /\ \A p \in Types, on \in BOOLEAN :
                  /\ [view[v] EXCEPT !.active = on] \in LiveSet
                  /\ [view[v] EXCEPT !.active = on].scope = view[v].scope
                  /\ [view[v] EXCEPT !.type = p, !.active = on] \in LiveSet
                  /\ [view[v] EXCEPT !.type = p, !.active = on].scope = view[v].scope
  BY <1>1, ExistsIsLive DEF LiveSet
<1>2. ASSUME NEW v \in Views, BeginActivate(q, v)
      PROVE  Begins(q)
  <2> DEFINE row == [view[v] EXCEPT !.active = TRUE]
  <2>1. /\ Exists(v) /\ request[q].pc = "idle" /\ row \in LiveSet /\ row.scope = view[v].scope
        /\ Start(q, "clear", v, row, view[v].scope) /\ view[v].scope \in Scopes
    BY <1>1, <1>2, ExistsIsLive DEF BeginActivate, Free, LiveSet
  <2> HIDE DEF row
  <2> QED
    BY <2>1 DEF Begins
<1>3. ASSUME NEW v \in Views, BeginDeactivate(q, v)
      PROVE  Begins(q)
  <2> DEFINE row == [view[v] EXCEPT !.active = FALSE]
  <2>1. /\ Exists(v) /\ request[q].pc = "idle" /\ row \in LiveSet /\ row.scope = view[v].scope
        /\ Start(q, "save", v, row, view[v].scope) /\ view[v].scope \in Scopes
    BY <1>1, <1>3, ExistsIsLive DEF BeginDeactivate, Free, LiveSet
  <2> HIDE DEF row
  <2> QED
    BY <2>1 DEF Begins
<1>4. ASSUME NEW v \in Views, BeginUpdate(q, v)
      PROVE  Begins(q)
  BY <1>1, <1>4 DEF BeginUpdate, Begins, Free
<1>5. ASSUME NEW v \in Views, BeginDelete(q, v)
      PROVE  Begins(q)
  BY <1>1, <1>5 DEF BeginDelete, Begins, Free
<1>6. ASSUME NEW p \in Types, BeginCreate(q, p)
      PROVE  Begins(q)
  BY <1>6, RowIsLive DEF BeginCreate, Begins, Free, Scopes
<1>7. ASSUME NEW s \in Scopes, NEW p \in Types, NEW on \in BOOLEAN, NEW v \in Views,
             BeginUpsert(q, s, p, on, v)
      PROVE  Begins(q)
  <2> DEFINE row == [view[v] EXCEPT !.type = p, !.active = on]
  <2>1. /\ Exists(v) /\ request[q].pc = "idle" /\ row \in LiveSet /\ row.scope = view[v].scope
        /\ Start(q, IF on THEN "clear" ELSE "save", v, row, s)
    BY <1>1, <1>7 DEF BeginUpsert, Free
  <2> HIDE DEF row
  <2>2. (IF on THEN "clear" ELSE "save") \in {"clear", "save", "create", "insert", "remove"}
    OBVIOUS
  <2> QED
    BY <2>1, <2>2 DEF Begins
<1>8. ASSUME NEW s \in Scopes, NEW p \in Types, NEW on \in BOOLEAN, BeginInsert(q, s, p, on)
      PROVE  Begins(q)
  <2>1. (IF on THEN "clear" ELSE "insert") \in {"clear", "save", "create", "insert", "remove"}
    OBVIOUS
  <2> QED
    BY <1>8, <2>1, RowIsLive DEF BeginInsert, Begins, Free
<1> QED
  BY <1>2, <1>3, <1>4, <1>5, <1>6, <1>7, <1>8 DEF Begin

(* Some rows of a scope become inactive. *)
Deactivates ==
  \E D \in SUBSET Views :
    /\ \A v \in D : Exists(v)
    /\ view' = [v \in Views |-> IF v \in D THEN [view[v] EXCEPT !.active = FALSE] ELSE view[v]]

LEMMA ActiveExist ==
  ASSUME RowTypes, NEW s, NEW p
  PROVE  Active(s, p) \in SUBSET Views /\ \A v \in Active(s, p) : Exists(v)
BY Marks DEF Active, InScope, Exists

(* The requests that are not served by a step stay as they are; the one that *)
(* is served begins, ends, goes on, or has its row inserted.                  *)
GoesOn(q) ==
  /\ request[q].pc # "idle"
  /\ \E pc \in {"save", "insert", "remove"} : request' = [request EXCEPT ![q].pc = pc]

Inserts(q, v) ==
  /\ request[q].pc \in {"create", "insert"} /\ view[v] = Unused
  /\ ~Clashes(None, request[q].row)
  /\ view' = [view EXCEPT ![v] = request[q].row]
  /\ \/ End(q)
     \/ request' = [request EXCEPT ![q] = [@ EXCEPT !.pc = "assert", !.target = v]]

Saves(q) ==
  /\ request[q].pc = "save" /\ ~Clashes(request[q].target, request[q].row)
  /\ view' = [view EXCEPT ![request[q].target] = request[q].row]
  /\ End(q)

Removes(q) ==
  /\ request[q].pc = "remove"
  /\ view' = [view EXCEPT ![request[q].target] = Deleted]
  /\ End(q)

RowStep ==
  \/ UNCHANGED <<view, request>>
  \/ UNCHANGED view /\ request' = [q \in Requests |-> Quiet]
  \/ UNCHANGED request /\ Deactivates
  \/ \E q \in Requests :
       \/ UNCHANGED view /\ (Begins(q) \/ End(q) \/ GoesOn(q))
       \/ Deactivates /\ GoesOn(q)
       \/ \E v \in Views : Inserts(q, v)
       \/ Saves(q) \/ Removes(q)

LEMMA RowSteps ==
  ASSUME RowTypes, [Next]_vars
  PROVE  RowStep
<1>1. CASE UNCHANGED vars
  BY <1>1 DEF vars, RowStep, db
<1>2. CASE Author
  <2>1. ASSUME NEW q \in Requests, Begins(q)
        PROVE  RowStep
    BY <2>1 DEF RowStep, Begins, Start, db
  <2>2. ASSUME NEW q \in Requests, ClearScope(q)
        PROVE  RowStep
    <3> DEFINE D == Active(request[q].scope, request[q].row.type) \ {request[q].target}
    <3>1. D \in SUBSET Views /\ \A v \in D : Exists(v)
      BY ActiveExist
    <3>2. view' = [v \in Views |-> IF v \in D THEN [view[v] EXCEPT !.active = FALSE] ELSE view[v]]
      BY <2>2 DEF ClearScope
    <3>3. GoesOn(q)
      BY <2>2 DEF ClearScope, Step, GoesOn
    <3> HIDE DEF D
    <3> QED
      BY <3>1, <3>2, <3>3 DEF RowStep, Deactivates
  <2>3. ASSUME NEW q \in Requests, Save(q) \/ Remove(q)
        PROVE  RowStep
    BY <2>3 DEF RowStep, Save, Remove, Saves, Removes
  <2>4. ASSUME NEW q \in Requests, Insert(q)
        PROVE  RowStep
    BY <2>4 DEF RowStep, Insert, Inserts, End
  <2>5. ASSUME NEW q \in Requests, SaveRejected(q) \/ AssertHolds(q) \/ AssertFails(q)
        PROVE  RowStep
    BY <2>5 DEF RowStep, SaveRejected, AssertHolds, AssertFails, db, Step, GoesOn
  <2>6. ASSUME NEW s \in Scopes, NEW p \in Types, DeactivateAll(s, p)
        PROVE  RowStep
    BY <2>6, ActiveExist DEF RowStep, DeactivateAll, Deactivates
  <2>7. ASSUME NEW x \in Schemas, EditSchema(x)
        PROVE  RowStep
    BY <2>7 DEF RowStep, EditSchema
  <2>8. ASSUME NEW S, NEW C, Invalidate(S, C)
        PROVE  RowStep
    BY <2>8 DEF RowStep, Invalidate, db
  <2>9. CASE Crash
    BY <2>9 DEF RowStep, Crash, db
  <2> QED
    BY <1>2, <2>1, <2>2, <2>3, <2>4, <2>5, <2>6, <2>7, <2>8, <2>9, BeginsSoundly DEF Author, Proceed
<1>3. CASE Tick \/ \E r \in Readers : \/ Read(r)
                                      \/ \E s \in Served : StartReading(r, s)
                                      \/ \E p \in Parts : QueryFails(r, p)
  BY <1>3 DEF RowStep, Tick, Read, StartReading, LookUpViews, QueryOwn, QueryGlobal, Store,
              QueryFails, StoreManifest, ReadingFails, db
<1> QED
  BY <1>1, <1>2, <1>3 DEF Next

-----------------------------------------------------------------------------
(* The rows. *)

LEMMA DeactivatedRows ==
  ASSUME RowTypes, Deactivates
  PROVE  /\ view' \in [Views -> RowSet]
         /\ \A v \in Views :
              /\ view'[v] = view[v]
                   \/ /\ Exists(v) /\ view'[v] \in LiveSet /\ ~view'[v].active
                      /\ view'[v].scope = view[v].scope /\ view'[v].type = view[v].type
<1>1. PICK D \in SUBSET Views :
        /\ \A v \in D : Exists(v)
        /\ view' = [v \in Views |-> IF v \in D THEN [view[v] EXCEPT !.active = FALSE] ELSE view[v]]
  BY DEF Deactivates
<1>2. ASSUME NEW v \in D
      PROVE  /\ view'[v] \in LiveSet /\ ~view'[v].active
             /\ view'[v].scope = view[v].scope /\ view'[v].type = view[v].type
  <2>1. view[v] \in LiveSet /\ view'[v] = [view[v] EXCEPT !.active = FALSE]
    BY <1>1, ExistsIsLive
  <2> QED
    BY <2>1 DEF LiveSet
<1>3. \A v \in Views : view'[v] \in RowSet
  BY <1>1, <1>2, Marks DEF RowTypes
<1> QED
  BY <1>1, <1>2, <1>3

LEMMA BegunRequest ==
  ASSUME RowTypes, NEW q \in Requests, Begins(q)
  PROVE  /\ request' = [request EXCEPT ![q] = request'[q]]
         /\ request'[q] \in RequestSet /\ request'[q].pc # "idle"
         /\ request'[q].row \in LiveSet
         /\ request'[q].target # None =>
              Exists(request'[q].target) /\ view[request'[q].target].scope = request'[q].row.scope
<1>1. PICK pc \in {"clear", "save", "create", "insert", "remove"}, v \in Views \cup {None},
           row \in LiveSet, s \in Scopes :
        /\ v # None => Exists(v) /\ view[v].scope = row.scope
        /\ Start(q, pc, v, row, s)
  BY Zenon DEF Begins
<1> DEFINE x == [pc |-> pc, target |-> v, row |-> row, scope |-> s]
<1>0. request' = [request EXCEPT ![q] = x]
  BY <1>1 DEF Start
<1>2. request'[q] = x /\ request' = [request EXCEPT ![q] = request'[q]]
  BY <1>0 DEF RowTypes
<1>3. x \in RequestSet
  BY <1>1, Marks DEF RequestSet
<1>4. x.pc = pc /\ x.target = v /\ x.row = row
  OBVIOUS
<1> HIDE DEF x
<1> QED
  BY <1>1, <1>2, <1>3, <1>4

LEMMA RowTypesStep ==
  ASSUME RowTypes, RequestsSound, [Next]_vars
  PROVE  RowTypes'
<1>1. ASSUME NEW q \in Requests, NEW x \in RequestSet
      PROVE  [request EXCEPT ![q] = x] \in [Requests -> RequestSet]
  BY DEF RowTypes
<1>2. ASSUME NEW q \in Requests, End(q)
      PROVE  request' \in [Requests -> RequestSet]
  BY <1>1, <1>2, QuietIsRequest DEF End
<1>3. ASSUME NEW q \in Requests, GoesOn(q)
      PROVE  request' \in [Requests -> RequestSet]
  <2>1. PICK pc \in {"save", "insert", "remove"} : request' = [request EXCEPT ![q].pc = pc]
    BY <1>3 DEF GoesOn
  <2> QED
    BY <2>1 DEF RowTypes, RequestSet
<1>4. ASSUME NEW q \in Requests, Begins(q)
      PROVE  request' \in [Requests -> RequestSet]
  BY <1>1, <1>4, BegunRequest
<1>5. ASSUME NEW q \in Requests, NEW v \in Views, Inserts(q, v)
      PROVE  RowTypes'
  <2>1. request[q].row \in RowSet
    BY DEF RowTypes, RequestSet
  <2>2. view' \in [Views -> RowSet]
    BY <1>5, <2>1 DEF Inserts, RowTypes
  <2>3. request' \in [Requests -> RequestSet]
    <3>1. [request[q] EXCEPT !.pc = "assert", !.target = v] \in RequestSet
      BY DEF RowTypes, RequestSet
    <3> QED
      BY <1>1, <1>2, <1>5, <3>1 DEF Inserts
  <2> QED
    BY <2>2, <2>3 DEF RowTypes
<1>6. ASSUME NEW q \in Requests, Saves(q) \/ Removes(q)
      PROVE  RowTypes'
  <2>1. request[q].row \in RowSet /\ Deleted \in RowSet
    BY Marks DEF RowTypes, RequestSet
  <2>2. view' \in [Views -> RowSet]
    BY <1>6, <2>1 DEF Saves, Removes, RowTypes
  <2> QED
    BY <1>2, <1>6, <2>2 DEF RowTypes, Saves, Removes
<1>7. request' = [q \in Requests |-> Quiet] => request' \in [Requests -> RequestSet]
  BY QuietIsRequest
<1> QED
  BY <1>2, <1>3, <1>4, <1>5, <1>6, <1>7, RowSteps, DeactivatedRows DEF RowStep, RowTypes

(* A row in use stays in use, and keeps its scope while it is there.  *)
LEMMA ScopeKept ==
  ASSUME RowTypes, RequestsSound, [Next]_vars, NEW v \in Views, view[v] # Unused
  PROVE  /\ view'[v] # Unused
         /\ (Exists(v) /\ view'[v] # Deleted) => view'[v].scope = view[v].scope
<1>1. CASE Deactivates
  BY <1>1, DeactivatedRows, Marks
<1>2. ASSUME NEW q \in Requests, NEW w \in Views, Inserts(q, w)
      PROVE  view'[v] = view[v]
  BY <1>2 DEF Inserts, RowTypes
<1>3. ASSUME NEW q \in Requests, Saves(q)
      PROVE  \/ view'[v] = view[v]
             \/ view'[v] # Unused /\ (Exists(v) => view'[v].scope = view[v].scope)
  <2>1. CASE request[q].target = v
    <3>1. view'[v] = request[q].row
      BY <1>3, <2>1 DEF Saves, RowTypes
    <3>2. Sound(request[q]) /\ v # None
      BY ViewsAssumption DEF RequestsSound
    <3> QED
      BY <1>3, <2>1, <3>1, <3>2, Marks DEF Sound, Saves
  <2>2. CASE request[q].target # v
    BY <1>3, <2>2 DEF Saves, RowTypes
  <2> QED
    BY <2>1, <2>2
<1>4. ASSUME NEW q \in Requests, Removes(q)
      PROVE  view'[v] \in {view[v], Deleted}
  BY <1>4 DEF Removes, RowTypes
<1> QED
  BY <1>1, <1>2, <1>3, <1>4, RowSteps, Marks DEF RowStep

LEMMA SoundStep ==
  ASSUME RowTypes, RequestsSound, [Next]_vars
  PROVE  RequestsSound'
<1> USE ViewsAssumption
(* What a request knows stays true while it keeps its row. *)
<1>1. ASSUME NEW p \in Requests, request[p].pc # "idle",
             request'[p].target = request[p].target, request'[p].row = request[p].row
      PROVE  Sound(request[p])'
  <2>1. Sound(request[p]) /\ request[p].target \in Views \cup {None}
    BY DEF RequestsSound, RowTypes, RequestSet
  <2>2. ASSUME request[p].target # None
        PROVE  /\ view'[request[p].target] # Unused
               /\ view'[request[p].target] # Deleted =>
                    view'[request[p].target].scope = request[p].row.scope
    <3> DEFINE v == request[p].target
    <3>1. v \in Views /\ view[v] # Unused /\ (Exists(v) => view[v].scope = request[p].row.scope)
      BY <1>1, <2>1, <2>2 DEF Sound
    <3>2. CASE Exists(v)
      BY <3>1, <3>2, ScopeKept
    <3>3. CASE ~Exists(v) /\ view'[v] # Deleted
      <4>1. view[v] = Deleted
        BY <3>1, <3>3 DEF Exists
      <4>2. PICK q \in Requests : Saves(q)
        <5>1. view'[v] # view[v]
          BY <3>3, <4>1
        <5>2. ~Deactivates
          BY <3>1, <3>3, <5>1, DeactivatedRows
        <5>3. ASSUME NEW q \in Requests, NEW w \in Views, Inserts(q, w)
              PROVE  FALSE
          BY <3>1, <5>1, <5>3 DEF Inserts, RowTypes
        <5>4. ASSUME NEW q \in Requests, Removes(q)
              PROVE  FALSE
          BY <3>1, <3>3, <5>1, <5>4 DEF Removes, RowTypes
        <5> QED
          BY <5>1, <5>2, <5>3, <5>4, RowSteps DEF RowStep
      <4>3. request[q].target = v /\ view'[v] = request[q].row /\ request[q].pc # "idle"
        BY <3>1, <3>3, <4>1, <4>2 DEF Saves, RowTypes
      <4>4. Sound(request[q]) /\ SameScope(request[q], request[p])
        BY DEF RequestsSound
      <4> QED
        BY <1>1, <2>2, <4>3, <4>4, Marks DEF Sound, SameScope
    <3>4. view'[v] # Unused
      BY <3>1, ScopeKept
    <3> QED
      BY <3>2, <3>3, <3>4
  <2>3. request[p].row \in LiveSet
    BY <1>1, <2>1 DEF Sound
  <2> QED
    BY <1>1, <2>2, <2>3 DEF Sound, Exists
<1>2. ASSUME NEW p \in Requests, NEW q \in Requests, request[p].pc # "idle",
             request'[p].target = request[p].target, request'[p].row = request[p].row,
             request[q].pc # "idle",
             request'[q].target = request[q].target, request'[q].row = request[q].row
      PROVE  SameScope(request[p], request[q])'
  BY <1>2 DEF SameScope, RequestsSound
(* The request that is served, and the others. *)
<1> DEFINE Keeps(p) == /\ request[p].pc # "idle"
                       /\ request'[p].target = request[p].target
                       /\ request'[p].row = request[p].row
           Rests(p) == request'[p].pc = "idle"
<1>3. ASSUME \A p \in Requests : Keeps(p) \/ Rests(p)
      PROVE  RequestsSound'
  <2>1. \A p \in Requests : Rests(p) => Sound(request[p])'
    BY DEF Sound
  <2>2. \A p, q \in Requests : Rests(p) \/ Rests(q) => SameScope(request[p], request[q])'
    BY DEF SameScope
  <2> QED
    BY <1>1, <1>2, <1>3, <2>1, <2>2 DEF RequestsSound
<1>4. ASSUME NEW q \in Requests,
             \A p \in Requests \ {q} : Keeps(p) \/ Rests(p),
             Sound(request[q])',
             \A p \in Requests \ {q} :
               Keeps(p) => SameScope(request[p], request[q])' /\ SameScope(request[q], request[p])'
      PROVE  RequestsSound'
  <2>1. \A p \in Requests : Rests(p) => Sound(request[p])'
    BY DEF Sound
  <2>2. \A p, r \in Requests : Rests(p) \/ Rests(r) => SameScope(request[p], request[r])'
    BY DEF SameScope
  <2>3. SameScope(request[q], request[q])'
    BY DEF SameScope
  <2> QED
    BY <1>1, <1>2, <1>4, <2>1, <2>2, <2>3 DEF RequestsSound
<1>5. ASSUME request' = request
      PROVE  RequestsSound'
  BY <1>3, <1>5
<1>6. ASSUME NEW q \in Requests, End(q) \/ GoesOn(q)
      PROVE  RequestsSound'
  <2>1. \A p \in Requests \ {q} : request'[p] = request[p]
    BY <1>6 DEF End, GoesOn, RowTypes
  <2>2. Keeps(q) \/ Rests(q)
    BY <1>6, QuietIsRequest DEF End, GoesOn, RowTypes, RequestSet
  <2> QED
    BY <1>3, <2>1, <2>2
<1>7. ASSUME NEW q \in Requests, Begins(q), view' = view
      PROVE  RequestsSound'
  <2> DEFINE x == request'[q]
  <2>1. /\ \A p \in Requests \ {q} : request'[p] = request[p]
        /\ x.row \in LiveSet
        /\ x.target # None => Exists(x.target) /\ view[x.target].scope = x.row.scope
    BY <1>7, BegunRequest DEF RowTypes
  <2>2. Sound(request[q])'
    BY <1>7, <2>1 DEF Sound, Exists
  <2>3. ASSUME NEW p \in Requests \ {q}, request[p].pc # "idle", request'[p] = request[p],
               x.target # None, x.target = request[p].target
        PROVE  x.row.scope = request[p].row.scope
    BY <2>1, <2>3 DEF RequestsSound, Sound
  <2>4. \A p \in Requests \ {q} :
          Keeps(p) => SameScope(request[p], request[q])' /\ SameScope(request[q], request[p])'
    BY <2>1, <2>3 DEF SameScope
  <2> QED
    BY <1>4, <2>1, <2>2, <2>4
<1>8. ASSUME NEW q \in Requests, NEW v \in Views, Inserts(q, v)
      PROVE  RequestsSound'
  <2> DEFINE x == request'[q]
  <2>1. /\ \A p \in Requests \ {q} : request'[p] = request[p]
        /\ x.pc = "idle" \/ (x.row = request[q].row /\ x.target = v)
        /\ view'[v] = request[q].row
    <3>1. view'[v] = request[q].row /\ request[q] \in RequestSet
      BY <1>8 DEF Inserts, RowTypes
    <3>2. CASE End(q)
      BY <3>1, <3>2, QuietIsRequest DEF End, RowTypes
    <3>3. CASE request' = [request EXCEPT ![q] = [@ EXCEPT !.pc = "assert", !.target = v]]
      <4>1. /\ x = [request[q] EXCEPT !.pc = "assert", !.target = v]
            /\ \A p \in Requests \ {q} : request'[p] = request[p]
        BY <3>3 DEF RowTypes
      <4> HIDE DEF x
      <4> QED
        BY <3>1, <4>1 DEF RequestSet
    <3> QED
      BY <1>8, <3>2, <3>3 DEF Inserts
  <2>2. request[q].row \in LiveSet
    BY <1>8 DEF Inserts, RequestsSound, Sound
  <2>3. Sound(request[q])'
    BY <2>1, <2>2, Marks DEF Sound, Exists
  <2>4. ASSUME NEW p \in Requests \ {q}, request[p].pc # "idle"
        PROVE  request[p].target # v
    BY <1>8, <2>4 DEF Inserts, RequestsSound, Sound
  <2>5. \A p \in Requests \ {q} :
          Keeps(p) => SameScope(request[p], request[q])' /\ SameScope(request[q], request[p])'
    BY <2>1, <2>4 DEF SameScope
  <2> QED
    BY <1>4, <2>1, <2>3, <2>5
<1>9. ASSUME request' = [q \in Requests |-> Quiet]
      PROVE  RequestsSound'
  BY <1>3, <1>9, QuietIsRequest
<1> QED
  BY <1>5, <1>6, <1>7, <1>8, <1>9, RowSteps DEF RowStep, Saves, Removes

(* A row becomes active only past the index; other rows become inactive. *)
LEMMA OneActiveStep ==
  ASSUME RowsInv, [Next]_vars
  PROVE  OneActivePerScope'
<1> USE DEF Active, InScope
<1>0. RowTypes /\ RequestsSound
  BY DEF RowsInv
<1> DEFINE Same(a, b) == a.scope = b.scope /\ a.type = b.type /\ a.active /\ b.active
<1>1. SUFFICES ASSUME NEW v \in Views, NEW w \in Views, v # w, Same(view'[v], view'[w]),
                      view'[v].scope \in Scopes, view'[v].type \in Types
               PROVE  FALSE
  BY DEF OneActivePerScope
<1>2. ASSUME NEW x \in Views, NEW y \in Views, x # y, Same(view[x], view[y]),
             view[x].scope \in Scopes, view[x].type \in Types
      PROVE  FALSE
  BY <1>2 DEF RowsInv, OneActivePerScope
<1>3. CASE view' = view
  BY <1>1, <1>2, <1>3
<1>4. CASE Deactivates
  BY <1>0, <1>1, <1>2, <1>4, DeactivatedRows
<1>5. ASSUME NEW i \in Views, NEW row, NEW t, ~Clashes(t, row), t \in {i, None},
             view' = [view EXCEPT ![i] = row]
      PROVE  FALSE
  <2>1. ASSUME NEW x \in Views, x # i, Same(row, view[x])
        PROVE  FALSE
    BY <1>5, <2>1, ViewsAssumption DEF Clashes
  <2>2. view'[i] = row /\ \A x \in Views \ {i} : view'[x] = view[x]
    BY <1>0, <1>5 DEF RowTypes
  <2> QED
    BY <1>1, <1>2, <2>1, <2>2
<1>6. ASSUME NEW q \in Requests, NEW i \in Views, Inserts(q, i)
      PROVE  FALSE
  BY <1>5, <1>6 DEF Inserts
<1>7. ASSUME NEW q \in Requests, Saves(q)
      PROVE  FALSE
  <2>1. CASE request[q].target \in Views
    BY <1>5, <1>7, <2>1 DEF Saves
  <2>2. CASE request[q].target \notin Views
    BY <1>0, <1>3, <1>7, <2>2 DEF Saves, RowTypes
  <2> QED
    BY <2>1, <2>2
<1>8. ASSUME NEW q \in Requests, Removes(q)
      PROVE  FALSE
  <2>1. \A x \in Views : view'[x] \in {view[x], Deleted}
    BY <1>0, <1>8 DEF Removes, RowTypes
  <2> QED
    BY <1>1, <1>2, <2>1, Marks
<1> QED
  BY <1>0, <1>3, <1>4, <1>6, <1>7, <1>8, RowSteps DEF RowStep

LEMMA RowsHold == Spec => []RowsInv
<1>1. Init => RowsInv
  <2> SUFFICES ASSUME Init PROVE RowsInv
    OBVIOUS
  <2>1. RowTypes
    BY QuietIsRequest, ViewsAssumption DEF Init, RowTypes
  <2>2. RequestsSound
    BY QuietIsRequest DEF Init, RequestsSound, Sound, SameScope
  <2> QED
    BY <2>1, <2>2 DEF Init, RowsInv
<1>2. RowsInv /\ [Next]_vars => RowsInv'
  BY RowTypesStep, SoundStep, OneActiveStep DEF RowsInv
<1> QED
  BY <1>1, <1>2, PTL DEF Spec

(* With at most one active row there is no choice to be made of the newest. *)
LEMMA NewestOfOne ==
  ASSUME NEW S \in SUBSET Views, \A v, w \in S : v = w
  PROVE  /\ Newest(S) \in S \cup {None}
         /\ Newest(S) = None <=> S = {}
<1>1. CASE S = {}
  BY <1>1 DEF Newest
<1>2. CASE S # {}
  <2>1. PICK v \in S : S = {v}
    BY <1>2
  <2>0. v \in Views /\ v # None
    BY <2>1, ViewsAssumption
  <2>2. v \in Int
    BY <2>0, ViewsAssumption
  <2>3. Newest(S) = CHOOSE x \in {v} : \A w \in {v} : w <= x
    BY <1>2, <2>1 DEF Newest
  <2>4. Newest(S) = v
    BY <2>2, <2>3
  <2> QED
    BY <2>0, <2>1, <2>4
<1> QED
  BY <1>1, <1>2

LEMMA TruthIsView ==
  ASSUME RowsInv, NEW s \in Scopes, NEW p \in Types
  PROVE  /\ Newest(Active(s, p)) \in Active(s, p) \cup {None}
         /\ Newest(Active(s, p)) = None <=> Active(s, p) = {}
         /\ Active(s, p) \subseteq Views
BY NewestOfOne DEF RowsInv, OneActivePerScope, Active, InScope

(* The unique index holds whatever requests overlap: no scope and type has two  *)
(* active views, for any number of rows, requests and tenants.                  *)
THEOREM OneActiveView == Spec => []OneActivePerScope
<1>1. RowsInv => OneActivePerScope
  BY DEF RowsInv
<1> QED
  BY <1>1, RowsHold, PTL

-----------------------------------------------------------------------------
(* Ages.  A reading takes at most Slow ticks.  What it queries is as old as it *)
(* is; what it takes from an entry is older by the life the entry had spent    *)
(* and the reading that had filled it.                                         *)

ReadingSet  == [scope : Served \cup {None}, took : 0 .. Slow, part : [Parts -> PartSet]]
ManifestSet == [ttl : 0 .. TTL, value : Manifests, age : 0 .. MaxAge]

SanePart(s, took, p, x) ==
  /\ x \in PartSet
  /\ s = None => x.pc = "todo"
  /\ x.pc = "todo" => x.value = None
  /\ p = "schema" => x.value \in Schemas /\ x.pc # "own"
  /\ x.pc # "done" => x.age <= took
  /\ x.pc = "done" => x.age <= took + Slow + TTL - 1

SaneEntry(p, e) ==
  /\ e \in EntrySet
  /\ p = "schema" => e.value \in Schemas
  /\ e.ttl > 0 => e.age <= Slow + TTL - e.ttl

SaneManifest(m) ==
  /\ m \in ManifestSet
  /\ m.ttl > 0 => m.age <= 2 * Slow + 2 * TTL - 1 - m.ttl

Counters == schema \in Schemas /\ ops \in 0 .. MaxOps /\ clean \subseteq Served
ReadingsSane ==
  /\ reading \in [Readers -> ReadingSet]
  /\ \A r \in Readers, p \in Parts :
       SanePart(reading[r].scope, reading[r].took, p, reading[r].part[p])
CachesSane ==
  /\ cache \in [Served -> [Parts -> EntrySet]]
  /\ \A s \in Served, p \in Parts : SaneEntry(p, cache[s][p])
ManifestsSane ==
  /\ manifest \in [Served -> ManifestSet]
  /\ \A s \in Served : SaneManifest(manifest[s])

AgesInv == RowsInv /\ Counters /\ ReadingsSane /\ CachesSane /\ ManifestsSane

LEMMA Times == /\ TTL \in Nat \ {0} /\ Slow \in Nat /\ MaxAge \in Nat
               /\ MaxAge = 2 * TTL + 2 * Slow
               /\ None \in Schemas /\ None \in Values /\ Schemas \subseteq Values
               /\ Views \subseteq Values /\ Types \subseteq Parts /\ "schema" \in Parts
BY ViewsAssumption DEF MaxAge, Schemas, Values, Parts

LEMMA Empties ==
  /\ \A p \in Parts : SaneEntry(p, NoEntry)
  /\ SaneManifest(NoManifest)
  /\ NoReading \in ReadingSet
  /\ \A p \in Parts, took \in 0 .. Slow : \A s : SanePart(s, took, p, NoPart)
<1>1. NoEntry \in EntrySet /\ NoPart \in PartSet
  BY Times DEF NoEntry, EntrySet, NoPart, PartSet
<1>2. NoManifest \in ManifestSet
  BY Times DEF NoManifest, ManifestSet, Manifests
<1>3. NoReading \in ReadingSet
  BY <1>1, Times DEF NoReading, ReadingSet
<1>4. \A p \in Parts : SaneEntry(p, NoEntry)
  BY <1>1, Times DEF SaneEntry, NoEntry
<1>5. \A p \in Parts, took \in 0 .. Slow : \A s : SanePart(s, took, p, NoPart)
  BY <1>1, Times DEF SanePart, NoPart
<1> QED
  BY <1>2, <1>3, <1>4, <1>5 DEF SaneManifest, NoManifest

(* What the rows give a query is a value. *)
LEMMA QueriesTyped ==
  ASSUME AgesInv
  PROVE  /\ \A s \in Scopes, p \in Types : Newest(Active(s, p)) \in Values
         /\ \A s \in Scopes, p \in Parts : Truth(s, p) \in Values
         /\ \A s \in Scopes : Truth(s, "schema") \in Schemas
<1>1. \A s \in Scopes, p \in Types : Newest(Active(s, p)) \in Values
  BY TruthIsView, Times DEF AgesInv
<1>2. \A s \in Scopes : Truth(s, "schema") \in Schemas
  BY DEF Truth, AgesInv, Counters
<1>3. Global \in Scopes /\ \A p \in Parts : p \in Types \/ p = "schema"
  BY DEF Scopes, Parts
<1> QED
  BY <1>1, <1>2, <1>3, Times DEF Truth

(* A step that changes one part of a reading that is under way. *)
LEMMA PartKept ==
  ASSUME ReadingsSane, NEW r \in Readers, NEW p \in Parts, NEW x,
         SetPart(r, p, x), SanePart(reading[r].scope, reading[r].took, p, x)
  PROVE  ReadingsSane'
<1>1. x \in PartSet
  BY DEF SanePart
<1> DEFINE new == [reading[r] EXCEPT !.part = [reading[r].part EXCEPT ![p] = x]]
<1>2. /\ reading' = [reading EXCEPT ![r] = new]
      /\ new \in ReadingSet /\ new.scope = reading[r].scope /\ new.took = reading[r].took
      /\ new.part = [reading[r].part EXCEPT ![p] = x]
  BY <1>1 DEF SetPart, ReadingsSane, ReadingSet
<1>3. reading[r].part \in [Parts -> PartSet]
  BY DEF ReadingsSane, ReadingSet
<1> HIDE DEF new
<1>4. \A q \in Parts : SanePart(new.scope, new.took, q, new.part[q])
  BY <1>2, <1>3 DEF ReadingsSane
<1> QED
  BY <1>2, <1>4 DEF ReadingsSane

(* A step that puts a reading in place of one. *)
LEMMA ReadingKept ==
  ASSUME ReadingsSane, NEW r \in Readers, NEW new \in ReadingSet,
         reading' = [reading EXCEPT ![r] = new],
         \A q \in Parts : SanePart(new.scope, new.took, q, new.part[q])
  PROVE  ReadingsSane'
BY DEF ReadingsSane

LEMMA PartSane ==
  ASSUME AgesInv, NEW r \in Readers, NEW p \in Parts
  PROVE  /\ reading[r] \in ReadingSet
         /\ Part(r, p) \in PartSet
         /\ SanePart(reading[r].scope, reading[r].took, p, Part(r, p))
         /\ Part(r, p).pc # "todo" => reading[r].scope \in Served
         /\ reading[r].took \in 0 .. Slow
BY DEF AgesInv, ReadingsSane, ReadingSet, SanePart, Part

LEMMA LookedUpSane ==
  ASSUME AgesInv, NEW s \in Served, NEW p \in Parts, NEW took \in 0 .. Slow
  PROVE  SanePart(s, took, p, LookedUp(s, p))
<1> DEFINE e == cache[s][p]
<1>1. e \in EntrySet /\ SaneEntry(p, e)
  BY DEF AgesInv, CachesSane
<1>2. s # None
  BY ViewsAssumption
<1>3. CASE Fresh(e)
  <2>1. LookedUp(s, p) = [pc |-> "done", value |-> e.value, age |-> e.age]
    BY <1>3 DEF LookedUp
  <2>2. e.age \in 0 .. MaxAge /\ e.value \in Values /\ e.ttl \in 1 .. TTL
    BY <1>1, <1>3, Times DEF EntrySet, Fresh
  <2>3. e.age <= Slow + TTL - e.ttl /\ (p = "schema" => e.value \in Schemas)
    BY <1>1, <2>2, Times DEF SaneEntry
  <2> HIDE DEF e
  <2>4. e.age <= took + Slow + TTL - 1
    BY <2>2, <2>3, Times
  <2> QED
    BY <1>2, <2>1, <2>2, <2>3, <2>4 DEF SanePart, PartSet
<1>4. CASE ~Fresh(e)
  <2>1. PICK pc \in {"own", "global"} :
          /\ LookedUp(s, p) = [pc |-> pc, value |-> None, age |-> 0]
          /\ p = "schema" => pc # "own"
    BY <1>4 DEF LookedUp, NoPart
  <2> QED
    BY <1>2, <2>1, Times DEF SanePart, PartSet
<1> QED
  BY <1>3, <1>4

LEMMA ReadKeeps ==
  ASSUME AgesInv, NEW r \in Readers,
         \/ Read(r)
         \/ \E s \in Served : StartReading(r, s)
         \/ \E p \in Parts : QueryFails(r, p),
         RowsInv'
  PROVE  AgesInv'
<1>0. ReadingsSane
  BY DEF AgesInv
<1>1. ASSUME NEW s \in Served, StartReading(r, s)
      PROVE  AgesInv'
  <2> DEFINE new == [scope |-> s, took |-> 0,
                     part |-> [p \in Parts |-> IF p = "schema" THEN LookedUp(s, p) ELSE NoPart]]
  <2>1. \A p \in Parts : SanePart(s, 0, p, new.part[p])
    BY LookedUpSane, Empties, Times
  <2>2. \A p \in Parts : new.part[p] \in PartSet
    BY <2>1 DEF SanePart
  <2>3. new \in ReadingSet
    BY <2>2, Times DEF ReadingSet
  <2>4. reading' = [reading EXCEPT ![r] = new]
    BY <1>1 DEF StartReading
  <2>5. new.scope = s /\ new.took = 0
    OBVIOUS
  <2> HIDE DEF new
  <2>6. ReadingsSane'
    BY <1>0, <2>1, <2>3, <2>4, <2>5, ReadingKept
  <2> QED
    BY <1>1, <2>6 DEF StartReading, db, AgesInv, Counters, CachesSane, ManifestsSane
<1>2. ASSUME LookUpViews(r)
      PROVE  AgesInv'
  <2> DEFINE s == reading[r].scope
             part == [p \in Parts |-> IF p = "schema" THEN reading[r].part[p] ELSE LookedUp(s, p)]
             new == [reading[r] EXCEPT !.part = part]
  <2>1. s \in Served /\ reading[r].took \in 0 .. Slow /\ reading[r] \in ReadingSet
    BY <1>2, PartSane, Times DEF LookUpViews
  <2>2. \A p \in Parts : SanePart(s, reading[r].took, p, part[p])
    BY <2>1, LookedUpSane, PartSane DEF Part
  <2>3. \A p \in Parts : part[p] \in PartSet
    BY <2>2 DEF SanePart
  <2>4. reading' = [reading EXCEPT ![r] = new]
    BY <1>2 DEF LookUpViews, AgesInv, ReadingsSane
  <2>5. new \in ReadingSet /\ new.scope = s /\ new.took = reading[r].took /\ new.part = part
    BY <2>1, <2>3 DEF ReadingSet
  <2> HIDE DEF new, part
  <2>6. ReadingsSane'
    BY <1>0, <2>2, <2>4, <2>5, ReadingKept
  <2> QED
    BY <1>2, <2>6 DEF LookUpViews, db, AgesInv, Counters, CachesSane, ManifestsSane
<1>3. ASSUME NEW p \in Parts, QueryOwn(r, p)
      PROVE  AgesInv'
  <2> DEFINE own == Active(reading[r].scope, p)
             x == Part(r, p)
             pc == IF own = {} THEN "global" ELSE "store"
             y == [x EXCEPT !.pc = pc, !.value = Newest(own)]
  <2>1. /\ x.pc = "own" /\ SanePart(reading[r].scope, reading[r].took, p, x) /\ x \in PartSet
        /\ reading[r].scope \in Scopes /\ reading[r].took \in 0 .. Slow
    BY <1>3, PartSane, ViewsAssumption DEF QueryOwn
  <2>2. p # "schema" /\ p \in Types
    BY <2>1 DEF SanePart, Parts
  <2>3. Newest(own) \in Values
    BY <2>1, <2>2, QueriesTyped
  <2>4. SetPart(r, p, y)
    BY <1>3 DEF QueryOwn
  <2> HIDE DEF own, x
  <2>5. pc \in {"global", "store"}
    OBVIOUS
  <2> HIDE DEF pc
  <2>6. SanePart(reading[r].scope, reading[r].took, p, y)
    BY <2>1, <2>2, <2>3, <2>5 DEF SanePart, PartSet
  <2> HIDE DEF y
  <2>7. ReadingsSane'
    BY <1>0, <2>4, <2>6, PartKept
  <2> QED
    BY <1>3, <2>7 DEF QueryOwn, db, AgesInv, Counters, CachesSane, ManifestsSane
<1>4. ASSUME NEW p \in Parts, QueryGlobal(r, p)
      PROVE  AgesInv'
  <2> DEFINE x == Part(r, p)
             y == [x EXCEPT !.pc = "store", !.value = Truth(Global, p)]
  <2>1. /\ x.pc = "global" /\ SanePart(reading[r].scope, reading[r].took, p, x) /\ x \in PartSet
        /\ reading[r].took \in 0 .. Slow
    BY <1>4, PartSane DEF QueryGlobal
  <2>2. Truth(Global, p) \in Values /\ (p = "schema" => Truth(Global, p) \in Schemas)
    BY QueriesTyped DEF Scopes
  <2>3. SetPart(r, p, y)
    BY <1>4 DEF QueryGlobal
  <2> HIDE DEF x
  <2>4. SanePart(reading[r].scope, reading[r].took, p, y)
    BY <2>1, <2>2 DEF SanePart, PartSet
  <2> HIDE DEF y
  <2>5. ReadingsSane'
    BY <1>0, <2>3, <2>4, PartKept
  <2> QED
    BY <1>4, <2>5 DEF QueryGlobal, db, AgesInv, Counters, CachesSane, ManifestsSane
<1>5. ASSUME NEW p \in Parts, Store(r, p)
      PROVE  AgesInv'
  <2> DEFINE x == Part(r, p)
             y == [x EXCEPT !.pc = "done"]
             s == reading[r].scope
             e == [ttl |-> TTL, value |-> x.value, age |-> x.age]
  <2>1. /\ x.pc = "store" /\ SanePart(s, reading[r].took, p, x) /\ x \in PartSet
        /\ reading[r].took \in 0 .. Slow /\ s \in Served
    BY <1>5, PartSane DEF Store
  <2>2. SetPart(r, p, y) /\ cache' = [cache EXCEPT ![s] = [cache[s] EXCEPT ![p] = e]]
    BY <1>5 DEF Store, Entry
  <2> HIDE DEF x, s
  <2>3. SanePart(s, reading[r].took, p, y)
    <3>1. /\ x.age \in Nat /\ x.age <= reading[r].took
          /\ s # None /\ (p = "schema" => x.value \in Schemas)
      BY <2>1, Times, ViewsAssumption DEF SanePart, PartSet
    <3>2. y \in PartSet /\ y.pc = "done" /\ y.age = x.age /\ y.value = x.value
      BY <2>1 DEF PartSet
    <3> HIDE DEF y
    <3> QED
      BY <2>1, <3>1, <3>2, Times DEF SanePart
  <2>4. SaneEntry(p, e) /\ e \in EntrySet
    BY <2>1, Times DEF SaneEntry, EntrySet, SanePart, PartSet
  <2> HIDE DEF y, e
  <2>5. ReadingsSane'
    BY <1>0, <2>2, <2>3, PartKept DEF s
  <2>6. CachesSane'
    BY <2>1, <2>2, <2>4 DEF CachesSane, AgesInv
  <2> QED
    BY <1>5, <2>5, <2>6 DEF Store, db, AgesInv, Counters, ManifestsSane
<1>6. ASSUME NEW p \in Parts, QueryFails(r, p)
      PROVE  AgesInv'
  <2> DEFINE y == [pc |-> "failed", value |-> None, age |-> 0]
  <2>1. /\ Part(r, p).pc # "todo" /\ reading[r].scope \in Served
        /\ reading[r].took \in 0 .. Slow
    BY <1>6, PartSane DEF QueryFails
  <2>2. SetPart(r, p, y)
    BY <1>6 DEF QueryFails, NoPart
  <2>3. SanePart(reading[r].scope, reading[r].took, p, y)
    BY <2>1, Times, ViewsAssumption DEF SanePart, PartSet
  <2>4. ops' \in 0 .. MaxOps
    BY <1>6, ViewsAssumption DEF QueryFails, AgesInv, Counters
  <2> HIDE DEF y
  <2>5. ReadingsSane'
    BY <1>0, <2>2, <2>3, PartKept
  <2> QED
    BY <1>6, <2>4, <2>5 DEF QueryFails, db, AgesInv, Counters, CachesSane, ManifestsSane
<1>7. ASSUME reading' = [reading EXCEPT ![r] = NoReading]
      PROVE  ReadingsSane'
  <2>1. \A q \in Parts : SanePart(NoReading.scope, NoReading.took, q, NoReading.part[q])
    BY Empties, Times DEF NoReading
  <2> QED
    BY <1>0, <1>7, <2>1, Empties, ReadingKept
<1>8. ASSUME ReadingFails(r)
      PROVE  AgesInv'
  BY <1>7, <1>8 DEF ReadingFails, db, AgesInv, Counters, CachesSane, ManifestsSane
<1>9. ASSUME StoreManifest(r)
      PROVE  AgesInv'
  <2>1. PICK a \in 0 .. MaxAge :
          /\ OldestIs(r, a)
          /\ manifest' = [manifest EXCEPT ![reading[r].scope] =
                            Entry([p \in Parts |-> Part(r, p).value], a)]
    BY <1>9 DEF StoreManifest
  <2>2. reading[r].scope \in Served
    BY <1>9, PartSane, Times DEF StoreManifest, Ended, Busy, ReadingSet
  <2>3. a <= 2 * Slow + TTL - 1
    <3>1. PICK p \in Parts : a = Part(r, p).age
      BY <2>1 DEF OldestIs
    <3> QED
      BY <3>1, PartSane, Times DEF SanePart, PartSet
  <2> DEFINE content == [p \in Parts |-> Part(r, p).value]
  <2>4. content \in Manifests
    BY PartSane, Times DEF Manifests, SanePart, PartSet
  <2> HIDE DEF content
  <2>5. SaneManifest(Entry(content, a)) /\ Entry(content, a) \in ManifestSet
    BY <2>3, <2>4, Times DEF SaneManifest, ManifestSet, Entry
  <2>6. ManifestsSane'
    BY <2>1, <2>2, <2>5 DEF ManifestsSane, AgesInv, content
  <2> QED
    BY <1>7, <1>9, <2>6 DEF StoreManifest, db, AgesInv, Counters, CachesSane
<1> QED
  BY <1>1, <1>2, <1>3, <1>4, <1>5, <1>6, <1>8, <1>9 DEF Read

(* What a step of a request does outside the rows and the caches. *)
LEMMA RequestStepsLight ==
  ASSUME AgesInv, NEW q \in Requests, Begin(q) \/ Proceed(q)
  PROVE  /\ UNCHANGED <<mem, schema>>
         /\ ops' = ops \/ (ops < MaxOps /\ ops' = ops + 1)
         /\ (clean' = clean /\ UNCHANGED view) \/ Dirtied
<1> USE DEF Free, Start, db, mem
<1>1. ASSUME Begin(q)
      PROVE  /\ UNCHANGED <<mem, db, clean>> /\ ops < MaxOps /\ ops' = ops + 1
  BY <1>1 DEF Begin, BeginActivate, BeginDeactivate, BeginUpdate, BeginDelete, BeginCreate,
              BeginUpsert, BeginInsert
<1>2. ASSUME ClearScope(q) \/ Save(q) \/ Insert(q) \/ Remove(q)
      PROVE  UNCHANGED <<mem, schema, ops>> /\ Dirtied
  BY <1>2 DEF ClearScope, Save, Insert, Remove
<1>3. ASSUME SaveRejected(q) \/ AssertHolds(q) \/ AssertFails(q)
      PROVE  UNCHANGED <<mem, db, ops, clean>>
  BY <1>3 DEF SaveRejected, AssertHolds, AssertFails
<1> QED
  BY <1>1, <1>2, <1>3 DEF Proceed

LEMMA AuthorKeepsAges ==
  ASSUME AgesInv, Author, RowsInv'
  PROVE  AgesInv'
<1>0. ops < MaxOps => ops + 1 \in 0 .. MaxOps
  BY ViewsAssumption DEF AgesInv, Counters
<1>1. ASSUME UNCHANGED mem, ops' = ops \/ (ops < MaxOps /\ ops' = ops + 1),
             clean' = clean \/ Dirtied, schema' \in Schemas
      PROVE  AgesInv'
  <2>1. Counters'
    BY <1>0, <1>1 DEF AgesInv, Counters, Dirtied
  <2> QED
    BY <1>1, <2>1 DEF mem, AgesInv, ReadingsSane, CachesSane, ManifestsSane
<1>2. ASSUME NEW q \in Requests, Begin(q) \/ Proceed(q)
      PROVE  AgesInv'
  <2>1. schema \in Schemas
    BY DEF AgesInv, Counters
  <2> QED
    BY <1>1, <1>2, <2>1, RequestStepsLight
<1>3. ASSUME NEW s \in Scopes, NEW p \in Types, DeactivateAll(s, p)
      PROVE  AgesInv'
  BY <1>1, <1>3 DEF DeactivateAll, AgesInv, Counters
<1>4. ASSUME NEW x \in Schemas, EditSchema(x)
      PROVE  AgesInv'
  BY <1>1, <1>4 DEF EditSchema
<1>5. ASSUME NEW S \in {Scopes} \cup {{s} : s \in Scopes}, NEW C \in SUBSET Caches,
             Invalidate(S, C)
      PROVE  AgesInv'
  <2>1. CachesSane'
    <3>1. \A s \in Served, p \in Parts : cache'[s][p] \in {cache[s][p], NoEntry}
      BY <1>5 DEF Invalidate, Clear
    <3>2. cache' \in [Served -> [Parts -> EntrySet]]
      BY <1>5, Empties DEF Invalidate, Clear, AgesInv, CachesSane, SaneEntry
    <3> QED
      BY <3>1, <3>2, Empties DEF AgesInv, CachesSane
  <2>2. ManifestsSane'
    BY <1>5, Empties DEF Invalidate, Clear, AgesInv, ManifestsSane, SaneManifest
  <2>3. Counters'
    BY <1>0, <1>5 DEF Invalidate, AgesInv, Counters, db
  <2> QED
    BY <1>5, <2>1, <2>2, <2>3 DEF Invalidate, AgesInv, ReadingsSane
<1>6. ASSUME Crash
      PROVE  AgesInv'
  <2>1. CachesSane'
    BY <1>6, Empties DEF Crash, CachesSane, SaneEntry
  <2>2. ManifestsSane'
    BY <1>6, Empties DEF Crash, ManifestsSane, SaneManifest
  <2>3. Counters'
    BY <1>0, <1>6 DEF Crash, AgesInv, Counters, db
  <2>4. ReadingsSane'
    BY <1>6, Empties, Times DEF Crash, ReadingsSane, NoReading
  <2> QED
    BY <2>1, <2>2, <2>3, <2>4 DEF AgesInv
<1> QED
  BY <1>2, <1>3, <1>4, <1>5, <1>6 DEF Author

(* Everything cached is a tick older, and a tick nearer its end. *)
LEMMA EntryAges ==
  ASSUME NEW p \in Parts, NEW e, SaneEntry(p, e)
  PROVE  SaneEntry(p, Aged(e, NoEntry))
<1>1. CASE e.ttl > 1
  <2> DEFINE new == [e EXCEPT !.ttl = @ - 1, !.age = Older(@)]
  <2>1. Aged(e, NoEntry) = new
    BY <1>1 DEF Aged
  <2>2. /\ e \in EntrySet
        /\ e.ttl \in 2 .. TTL /\ e.age \in 0 .. MaxAge /\ e.value \in Values
    BY <1>1, Times DEF EntrySet, SaneEntry
  <2>3. Older(e.age) \in 0 .. MaxAge /\ Older(e.age) <= e.age + 1
    BY <2>2, Times DEF Older
  <2>4. new.ttl = e.ttl - 1 /\ new.value = e.value /\ new.age = Older(e.age)
    BY <2>2 DEF EntrySet
  <2>5. new \in EntrySet
    <3>1. e.ttl - 1 \in 0 .. TTL
      BY <2>2, Times
    <3> QED
      BY <2>2, <2>3, <3>1 DEF EntrySet
  <2> HIDE DEF new
  <2>6. e.age <= Slow + TTL - e.ttl /\ (p = "schema" => e.value \in Schemas)
    BY <2>2, Times DEF SaneEntry
  <2>7. new.age <= Slow + TTL - new.ttl /\ new.value = e.value
    BY <2>2, <2>3, <2>4, <2>6, Times
  <2> QED
    BY <2>1, <2>5, <2>6, <2>7 DEF SaneEntry
<1>2. CASE ~(e.ttl > 1)
  BY <1>2, Empties DEF Aged
<1> QED
  BY <1>1, <1>2

LEMMA ManifestAges ==
  ASSUME NEW m, SaneManifest(m)
  PROVE  SaneManifest(Aged(m, NoManifest))
<1>1. CASE m.ttl > 1
  <2> DEFINE new == [m EXCEPT !.ttl = @ - 1, !.age = Older(@)]
  <2>1. Aged(m, NoManifest) = new
    BY <1>1 DEF Aged
  <2>2. /\ m \in ManifestSet
        /\ m.ttl \in 2 .. TTL /\ m.age \in 0 .. MaxAge /\ m.value \in Manifests
    BY <1>1, Times DEF ManifestSet, SaneManifest
  <2>3. Older(m.age) \in 0 .. MaxAge /\ Older(m.age) <= m.age + 1
    BY <2>2, Times DEF Older
  <2>4. new.ttl = m.ttl - 1 /\ new.value = m.value /\ new.age = Older(m.age)
    BY <2>2 DEF ManifestSet
  <2>5. new \in ManifestSet
    <3>1. m.ttl - 1 \in 0 .. TTL
      BY <2>2, Times
    <3> QED
      BY <2>2, <2>3, <3>1 DEF ManifestSet
  <2> HIDE DEF new
  <2>6. m.age <= 2 * Slow + 2 * TTL - 1 - m.ttl
    BY <2>2, Times DEF SaneManifest
  <2>7. new.age <= 2 * Slow + 2 * TTL - 1 - new.ttl
    BY <2>2, <2>3, <2>4, <2>6, Times
  <2> QED
    BY <2>1, <2>5, <2>7 DEF SaneManifest
<1>2. CASE ~(m.ttl > 1)
  BY <1>2, Empties DEF Aged
<1> QED
  BY <1>1, <1>2

LEMMA PartAges ==
  ASSUME NEW s, NEW took \in 0 .. Slow, took < Slow, NEW p \in Parts, NEW x,
         SanePart(s, took, p, x)
  PROVE  SanePart(s, took + 1, p, LaterPart(x))
<1>0. /\ x \in PartSet /\ x.age \in 0 .. MaxAge
      /\ (p = "schema" => x.value \in Schemas /\ x.pc # "own")
  BY Times DEF SanePart, PartSet
<1>1. CASE x.pc = "todo"
  BY <1>0, <1>1, Times DEF SanePart, LaterPart
<1>2. CASE x.pc # "todo"
  <2> DEFINE y == [x EXCEPT !.age = Older(@)]
  <2>1. Older(x.age) \in 0 .. MaxAge /\ Older(x.age) <= x.age + 1
    BY <1>0, Times DEF Older
  <2>2. y \in PartSet /\ y.pc = x.pc /\ y.value = x.value /\ y.age = Older(x.age)
    BY <1>0, <2>1 DEF PartSet
  <2>3. LaterPart(x) = y
    BY <1>2 DEF LaterPart
  <2>4. s # None
    BY <1>2 DEF SanePart
  <2> HIDE DEF y
  <2>5. CASE x.pc = "done"
    <3>1. y.age <= took + 1 + Slow + TTL - 1
      BY <1>0, <2>1, <2>2, <2>5, Times DEF SanePart
    <3> QED
      BY <1>0, <2>2, <2>3, <2>4, <2>5, <3>1 DEF SanePart
  <2>6. CASE x.pc # "done"
    <3>1. y.age <= took + 1
      BY <1>0, <2>1, <2>2, <2>6, Times DEF SanePart
    <3> QED
      BY <1>0, <2>2, <2>3, <2>4, <2>6, <3>1 DEF SanePart
  <2> QED
    BY <2>5, <2>6
<1> QED
  BY <1>1, <1>2

LEMMA ReadingAges ==
  ASSUME NEW x \in ReadingSet, x.scope # None => x.took < Slow,
         \A p \in Parts : SanePart(x.scope, x.took, p, x.part[p])
  PROVE  /\ Later(x) \in ReadingSet
         /\ \A p \in Parts : SanePart(Later(x).scope, Later(x).took, p, Later(x).part[p])
<1>1. CASE x.scope = None
  BY <1>1 DEF Later
<1>2. CASE x.scope # None
  <2> DEFINE part == [p \in Parts |-> LaterPart(x.part[p])]
             y == [x EXCEPT !.took = @ + 1, !.part = part]
  <2>1. x.took \in 0 .. Slow /\ x.took < Slow /\ x.took + 1 \in 0 .. Slow
    BY <1>2, Times DEF ReadingSet
  <2>2. \A p \in Parts : SanePart(x.scope, x.took + 1, p, part[p])
    BY <2>1, PartAges
  <2>3. part \in [Parts -> PartSet]
    BY <2>2 DEF SanePart
  <2>4. Later(x) = y
    BY <1>2 DEF Later, ReadingSet
  <2> HIDE DEF part
  <2>5. y \in ReadingSet /\ y.scope = x.scope /\ y.took = x.took + 1 /\ y.part = part
    BY <2>1, <2>3 DEF ReadingSet
  <2> HIDE DEF y
  <2> QED
    BY <2>2, <2>4, <2>5
<1> QED
  BY <1>1, <1>2

LEMMA TickKeepsAges ==
  ASSUME AgesInv, Tick, RowsInv'
  PROVE  AgesInv'
<1>1. Counters'
  BY DEF Tick, AgesInv, Counters, db
<1>2. CachesSane'
  BY EntryAges DEF Tick, AgesInv, CachesSane, SaneEntry
<1>3. ManifestsSane'
  BY ManifestAges DEF Tick, AgesInv, ManifestsSane, SaneManifest
<1>4. ReadingsSane'
  BY ReadingAges DEF Tick, Busy, AgesInv, ReadingsSane
<1> QED
  BY <1>1, <1>2, <1>3, <1>4 DEF AgesInv

LEMMA AgesHold == Spec => []AgesInv
<1>1. Init /\ RowsInv => AgesInv
  <2> SUFFICES ASSUME Init, RowsInv PROVE AgesInv
    OBVIOUS
  <2>1. CachesSane
    BY Empties DEF Init, CachesSane, SaneEntry
  <2>2. ManifestsSane
    BY Empties DEF Init, ManifestsSane, SaneManifest
  <2>3. Counters
    BY ViewsAssumption DEF Init, Counters
  <2>4. ReadingsSane
    BY Empties, Times DEF Init, ReadingsSane, NoReading
  <2> QED
    BY <2>1, <2>2, <2>3, <2>4 DEF AgesInv
<1>2. RowsInv' /\ AgesInv /\ [Next]_vars => AgesInv'
  <2>1. RowsInv' /\ AgesInv /\ UNCHANGED vars => AgesInv'
    BY DEF vars, AgesInv, Counters, CachesSane, ManifestsSane, ReadingsSane
  <2> QED
    BY <2>1, AuthorKeepsAges, TickKeepsAges, ReadKeeps DEF Next
<1> QED
  BY <1>1, <1>2, RowsHold, PTL DEF Spec

(* Type correctness, for every value of the constants. *)
THEOREM TypeCorrect == Spec => []TypeOK
<1>1. AgesInv => TypeOK
  BY DEF AgesInv, RowsInv, RowTypes, Counters, ReadingsSane, CachesSane, ManifestsSane,
         ReadingSet, ManifestSet, TypeOK
<1> QED
  BY <1>1, AgesHold, PTL

(* A manifest served is never older than two lives of an entry and two readings, *)
(* for any time to live, any duration of a reading and any number of readers.    *)
THEOREM ServedWithinTwoLives == Spec => []StalenessBounded
<1>1. AgesInv => StalenessBounded
  <2> SUFFICES ASSUME AgesInv, NEW s \in Served, Fresh(manifest[s])
               PROVE  manifest[s].age <= 2 * (TTL + Slow - 1)
    BY DEF StalenessBounded
  <2>1. /\ manifest[s].ttl \in 0 .. TTL /\ manifest[s].ttl > 0 /\ manifest[s].age \in 0 .. MaxAge
        /\ manifest[s].age <= 2 * Slow + 2 * TTL - 1 - manifest[s].ttl
    BY DEF AgesInv, ManifestsSane, SaneManifest, ManifestSet, Fresh
  <2> QED
    BY <2>1, Times
<1> QED
  BY <1>1, AgesHold, PTL

-----------------------------------------------------------------------------
(* Truth.  In a clean scope, what is cached, and what a reading has found, is *)
(* what a query would find now; a reading on its way to the global view has   *)
(* found that the scope has none, and no write has given it one since.        *)

EntryTrue(s, p, e) ==
  Fresh(e) => (p # "schema" => schema # None) /\ e.value = Truths(s)[p]
PartTrue(s, p, x) ==
  /\ (p # "schema" /\ x.pc # "todo") => schema # None
  /\ x.pc \in {"store", "done"} => x.value = Truths(s)[p]
  /\ (p # "schema" /\ x.pc = "global") => s = Global \/ Active(s, p) = {}

CleanScope(s) ==
  /\ \A p \in Parts : EntryTrue(s, p, cache[s][p])
  /\ \A r \in Readers, p \in Parts :
       reading[r].scope = s => PartTrue(s, p, reading[r].part[p])
  /\ Fresh(manifest[s]) => manifest[s].value = Truths(s)

CleanInv == AgesInv /\ \A s \in clean : CleanScope(s)

LEMMA TruthsParts ==
  ASSUME NEW s, NEW p \in Parts
  PROVE  /\ Truths(s)["schema"] = schema
         /\ schema # None => Truths(s)[p] = Truth(s, p)
         /\ schema = None => Truths(s)[p] = None
BY Times DEF Truths, Truth

(* A write that leaves what a query finds for a tenant as it was does not slip  *)
(* a view of the tenant's own in front of the global one it fell back to: rows  *)
(* do not move between scopes.                                                  *)
LEMMA NoTakeover ==
  ASSUME RowsInv, RowsInv', [Next]_vars, NEW s \in Scopes, NEW p \in Types, s # Global,
         schema # None, Truths(s)' = Truths(s), Active(s, p) = {}
  PROVE  Active(s, p)' = {}
<1> SUFFICES ASSUME Active(s, p)' # {} PROVE FALSE
  OBVIOUS
<1>0. p \in Parts /\ Global \in Scopes /\ p # "schema"
  BY ViewsAssumption DEF Parts, Scopes
<1>1. schema' = schema /\ Truths(s)'[p] = Truths(s)[p]
  <2>1. Truths(s)["schema"] = schema /\ Truths(s)'["schema"] = schema'
    BY Times DEF Truths, Truth
  <2> QED
    BY <2>1
<1>2. Truths(s)[p] = Newest(Active(Global, p))
  BY <1>0 DEF Truths, Truth
<1>3. Truths(s)'[p] = Newest(Active(s, p)')
  BY <1>0, <1>1 DEF Truths, Truth
<1>4. Newest(Active(s, p)') \in Active(s, p)' /\ Active(s, p)' \subseteq Views
  <2> DEFINE S == Active(s, p)'
  <2>1. S \in SUBSET Views
    BY DEF Active, InScope
  <2>2. \A v, w \in S : v = w
    BY DEF RowsInv, OneActivePerScope
  <2>3. S # {}
    OBVIOUS
  <2> HIDE DEF S
  <2>4. Newest(S) \in S
    BY <2>1, <2>2, <2>3, NewestOfOne
  <2> QED
    BY <2>1, <2>4 DEF S
<1>5. Newest(Active(Global, p)) \in Active(Global, p) \cup {None}
  BY <1>0, TruthIsView
<1> DEFINE w == Newest(Active(s, p)')
<1>6. w \in Views /\ w \in Active(s, p)' /\ w \in Active(Global, p)
  BY <1>1, <1>2, <1>3, <1>4, <1>5, ViewsAssumption
<1> HIDE DEF w
<1>7. view[w].scope = Global /\ view'[w].scope = s /\ view[w].active /\ view'[w].active
  BY <1>6 DEF Active, InScope
<1>8. Exists(w) /\ view'[w] # Deleted /\ view[w] # Unused
  BY <1>7, Marks DEF Exists
<1> QED
  BY <1>6, <1>7, <1>8, ScopeKept DEF RowsInv

(* Writes. *)
LEMMA CleanThroughWrites ==
  ASSUME CleanInv, RowsInv', [Next]_vars, UNCHANGED mem, NEW s \in clean, Truths(s)' = Truths(s)
  PROVE  CleanScope(s)'
<1>0. s \in Scopes /\ CleanScope(s) /\ RowsInv
  BY ViewsAssumption DEF CleanInv, AgesInv, Counters
<1>1. schema' = schema
  <2>1. Truths(s)["schema"] = schema /\ Truths(s)'["schema"] = schema'
    BY Times DEF Truths, Truth
  <2> QED
    BY <2>1
<1>2. ASSUME NEW p \in Parts, EntryTrue(s, p, cache[s][p])
      PROVE  EntryTrue(s, p, cache[s][p])'
  BY <1>1, <1>2 DEF EntryTrue, Fresh, mem
<1>3. ASSUME NEW r \in Readers, NEW p \in Parts, PartTrue(s, p, reading[r].part[p])
      PROVE  PartTrue(s, p, reading[r].part[p])'
  <2> DEFINE x == reading[r].part[p]
  <2>1. x' = x
    BY DEF mem
  <2>2. (p # "schema" /\ x.pc = "global") => s = Global \/ Active(s, p)' = {}
    BY <1>0, <1>3, NoTakeover DEF PartTrue, Parts
  <2> QED
    BY <1>1, <1>3, <2>1, <2>2 DEF PartTrue
<1>4. (Fresh(manifest[s]) => manifest[s].value = Truths(s))'
  BY <1>0 DEF CleanScope, Fresh, mem
<1> QED
  BY <1>0, <1>2, <1>3, <1>4 DEF CleanScope, mem

(* Steps that leave the rows and the schema alone leave the truth alone. *)
LEMMA TruthStays ==
  ASSUME UNCHANGED db
  PROVE  /\ schema' = schema
         /\ \A s : Truths(s)' = Truths(s)
         /\ \A s, p : Active(s, p)' = Active(s, p)
BY DEF db, Truths, Truth, Active, InScope

LEMMA PartStaysTrue ==
  ASSUME UNCHANGED db, NEW s, NEW p \in Parts, NEW x, PartTrue(s, p, x),
         NEW y, y.pc = x.pc, y.value = x.value
  PROVE  /\ schema' = schema /\ Truths(s)' = Truths(s) /\ Active(s, p)' = Active(s, p)
         /\ PartTrue(s, p, y)
BY TruthStays DEF PartTrue

LEMMA LookedUpTrue ==
  ASSUME NEW s \in clean, CleanScope(s), NEW p \in Parts, p # "schema" => schema # None
  PROVE  PartTrue(s, p, LookedUp(s, p))
<1>1. EntryTrue(s, p, cache[s][p])
  BY DEF CleanScope
<1>2. CASE Fresh(cache[s][p])
  <2>1. LookedUp(s, p).pc = "done" /\ LookedUp(s, p).value = cache[s][p].value
    BY <1>2 DEF LookedUp
  <2> QED
    BY <1>1, <1>2, <2>1 DEF EntryTrue, PartTrue
<1>3. CASE ~Fresh(cache[s][p])
  <2>1. /\ LookedUp(s, p).pc \in {"own", "global"}
        /\ (LookedUp(s, p).pc = "global" => p = "schema" \/ s = Global)
    BY <1>3 DEF LookedUp, NoPart
  <2> QED
    BY <2>1 DEF PartTrue
<1> QED
  BY <1>2, <1>3

(* A step of one reading: its parts stay true, or become so. *)
LEMMA CleanThroughReading ==
  ASSUME CleanInv, AgesInv', UNCHANGED db, NEW s \in clean, NEW r \in Readers,
         NEW new, reading' = [reading EXCEPT ![r] = new],
         new.scope = s => \A p \in Parts : PartTrue(s, p, new.part[p]),
         \A p \in Parts : EntryTrue(s, p, cache'[s][p]),
         manifest'[s] = manifest[s] \/ manifest'[s].value = Truths(s)
  PROVE  CleanScope(s)'
<1>1. /\ schema' = schema /\ Truths(s)' = Truths(s)
      /\ \A p : Active(s, p)' = Active(s, p)
  BY TruthStays
<1>2. CleanScope(s) /\ reading \in [Readers -> ReadingSet]
  BY DEF CleanInv, AgesInv, ReadingsSane
<1>3. \A p \in Parts : EntryTrue(s, p, cache[s][p])'
  BY <1>1 DEF EntryTrue, Fresh
<1>4. ASSUME NEW q \in Readers, NEW p \in Parts, reading'[q].scope = s
      PROVE  PartTrue(s, p, reading[q].part[p])'
  <2>1. PartTrue(s, p, reading'[q].part[p])
    BY <1>2, <1>4 DEF CleanScope
  <2> QED
    BY <1>1, <2>1 DEF PartTrue
<1>5. (Fresh(manifest[s]) => manifest[s].value = Truths(s))'
  BY <1>1, <1>2 DEF CleanScope, Fresh
<1> QED
  BY <1>3, <1>4, <1>5 DEF CleanScope

(* A step that puts x in place of a part of a reading. *)
LEMMA CleanThroughPart ==
  ASSUME CleanInv, AgesInv', UNCHANGED db, NEW s \in clean, NEW r \in Readers, NEW p \in Parts,
         NEW x, SetPart(r, p, x), reading[r].scope = s => PartTrue(s, p, x),
         \A q \in Parts : EntryTrue(s, q, cache'[s][q]),
         manifest'[s] = manifest[s]
  PROVE  CleanScope(s)'
<1> DEFINE new == [reading[r] EXCEPT !.part = [reading[r].part EXCEPT ![p] = x]]
<1>1. /\ reading[r] \in ReadingSet /\ reading[r].part \in [Parts -> PartSet]
      /\ CleanScope(s)
  BY DEF CleanInv, AgesInv, ReadingsSane, ReadingSet
<1>2. /\ reading' = [reading EXCEPT ![r] = new] /\ new.scope = reading[r].scope
      /\ new.part = [reading[r].part EXCEPT ![p] = x]
  BY <1>1 DEF SetPart, ReadingSet
<1> HIDE DEF new
<1>3. new.scope = s => \A q \in Parts : PartTrue(s, q, new.part[q])
  BY <1>1, <1>2 DEF CleanScope
<1> QED
  BY <1>2, <1>3, CleanThroughReading

LEMMA CleanThroughReads ==
  ASSUME CleanInv, AgesInv', NEW r \in Readers,
         \/ Read(r)
         \/ \E s \in Served : StartReading(r, s)
         \/ \E p \in Parts : QueryFails(r, p),
         NEW s \in clean
  PROVE  CleanScope(s)'
<1>0. /\ CleanScope(s) /\ s \in Served /\ AgesInv /\ s # None
      /\ \A p \in Parts : EntryTrue(s, p, cache[s][p])
      /\ cache \in [Served -> [Parts -> EntrySet]] /\ manifest \in [Served -> ManifestSet]
  BY ViewsAssumption DEF CleanInv, AgesInv, Counters, CachesSane, ManifestsSane, CleanScope
<1>1. ASSUME NEW c \in Served, StartReading(r, c)
      PROVE  CleanScope(s)'
  <2> DEFINE new == [scope |-> c, took |-> 0,
                     part |-> [p \in Parts |-> IF p = "schema" THEN LookedUp(c, p) ELSE NoPart]]
  <2>1. c = s => \A p \in Parts : PartTrue(s, p, new.part[p])
    BY <1>0, LookedUpTrue DEF PartTrue, NoPart
  <2>2. reading' = [reading EXCEPT ![r] = new] /\ new.scope = c
    BY <1>1 DEF StartReading
  <2> HIDE DEF new
  <2>3. UNCHANGED <<db, cache, manifest>>
    BY <1>1 DEF StartReading
  <2> QED
    BY <1>0, <2>1, <2>2, <2>3, CleanThroughReading
<1>2. ASSUME LookUpViews(r)
      PROVE  CleanScope(s)'
  <2> DEFINE part == [p \in Parts |-> IF p = "schema" THEN reading[r].part[p]
                                       ELSE LookedUp(reading[r].scope, p)]
             new == [reading[r] EXCEPT !.part = part]
  <2>1. reading[r] \in ReadingSet
    BY <1>0 DEF AgesInv, ReadingsSane
  <2>2. ASSUME reading[r].scope = s, NEW p \in Parts
        PROVE  PartTrue(s, p, part[p])
    <3>1. PartTrue(s, "schema", Part(r, "schema"))
      BY <1>0, <2>2, Times DEF CleanScope, Part
    <3>2. schema # None
      BY <1>2, <3>1, TruthsParts, Times DEF LookUpViews, PartTrue
    <3>3. PartTrue(s, p, LookedUp(s, p))
      BY <1>0, <3>2, LookedUpTrue
    <3> QED
      BY <2>2, <3>1, <3>3 DEF Part
  <2>3. reading' = [reading EXCEPT ![r] = new]
    BY <1>2 DEF LookUpViews, CleanInv, AgesInv, ReadingsSane
  <2>4. new.scope = reading[r].scope /\ new.part = part
    BY <2>1 DEF ReadingSet
  <2> HIDE DEF new, part
  <2>5. UNCHANGED <<db, cache, manifest>>
    BY <1>2 DEF LookUpViews
  <2> QED
    BY <1>0, <2>2, <2>3, <2>4, <2>5, CleanThroughReading
<1>3. ASSUME NEW p \in Parts, QueryOwn(r, p)
      PROVE  CleanScope(s)'
  <2> DEFINE own == Active(reading[r].scope, p)
             pc == IF own = {} THEN "global" ELSE "store"
             y == [Part(r, p) EXCEPT !.pc = pc, !.value = Newest(own)]
  <2>1. /\ Part(r, p).pc = "own" /\ p # "schema" /\ Part(r, p) \in PartSet
    BY <1>0, <1>3, PartSane DEF QueryOwn, SanePart
  <2>2. y.pc = pc /\ y.value = Newest(own)
    BY <2>1 DEF PartSet
  <2>3. SetPart(r, p, y) /\ UNCHANGED <<db, cache, manifest>>
    BY <1>3 DEF QueryOwn
  <2> HIDE DEF y
  <2>4. ASSUME reading[r].scope = s
        PROVE  PartTrue(s, p, y)
    <3>1. schema # None
      BY <1>0, <2>1, <2>4 DEF CleanScope, PartTrue, Part
    <3>2. own # {} => Truths(s)[p] = Newest(own)
      BY <2>1, <2>4, <3>1, TruthsParts DEF Truth
    <3> QED
      BY <2>2, <2>4, <3>1, <3>2 DEF PartTrue
  <2> QED
    BY <1>0, <2>3, <2>4, CleanThroughPart
<1>4. ASSUME NEW p \in Parts, QueryGlobal(r, p)
      PROVE  CleanScope(s)'
  <2> DEFINE y == [Part(r, p) EXCEPT !.pc = "store", !.value = Truth(Global, p)]
  <2>1. /\ Part(r, p).pc = "global" /\ Part(r, p) \in PartSet
    BY <1>0, <1>4, PartSane DEF QueryGlobal
  <2>2. y.pc = "store" /\ y.value = Truth(Global, p)
    BY <2>1 DEF PartSet
  <2>3. SetPart(r, p, y) /\ UNCHANGED <<db, cache, manifest>>
    BY <1>4 DEF QueryGlobal
  <2> HIDE DEF y
  <2>4. ASSUME reading[r].scope = s
        PROVE  PartTrue(s, p, y)
    <3>1. PartTrue(s, p, Part(r, p))
      BY <1>0, <2>4 DEF CleanScope, Part
    <3>2. CASE p = "schema"
      BY <2>2, <3>2, TruthsParts DEF PartTrue, Truth
    <3>3. CASE p # "schema"
      <4>1. schema # None /\ (s = Global \/ Active(s, p) = {})
        BY <2>1, <3>1, <3>3 DEF PartTrue
      <4>2. Truths(s)[p] = Truth(Global, p)
        BY <3>3, <4>1, TruthsParts DEF Truth
      <4> QED
        BY <2>2, <4>1, <4>2 DEF PartTrue
    <3> QED
      BY <3>2, <3>3
  <2> QED
    BY <1>0, <2>3, <2>4, CleanThroughPart
<1>5. ASSUME NEW p \in Parts, Store(r, p)
      PROVE  CleanScope(s)'
  <2> DEFINE x == Part(r, p)
             y == [x EXCEPT !.pc = "done"]
  <2>1. x.pc = "store" /\ x \in PartSet /\ reading[r].scope \in Served
    BY <1>0, <1>5, PartSane DEF Store
  <2>2. y.pc = "done" /\ y.value = x.value
    BY <2>1 DEF PartSet
  <2>3. /\ SetPart(r, p, y) /\ UNCHANGED <<db, manifest>>
        /\ cache' = [cache EXCEPT ![reading[r].scope][p] = Entry(x.value, x.age)]
    BY <1>5 DEF Store
  <2> HIDE DEF y
  <2>4. reading[r].scope = s => PartTrue(s, p, x)
    BY <1>0 DEF CleanScope, Part
  <2>5. reading[r].scope = s => PartTrue(s, p, y)
    BY <2>1, <2>2, <2>4 DEF PartTrue
  <2> HIDE DEF x
  <2>6. ASSUME NEW q \in Parts
        PROVE  EntryTrue(s, q, cache'[s][q])
    <3>1. CASE reading[r].scope = s /\ q = p
      <4>1. cache'[s][q] = Entry(x.value, x.age)
        BY <1>0, <2>3, <3>1
      <4>2. cache'[s][q].value = x.value
        BY <4>1 DEF Entry
      <4> QED
        BY <2>1, <2>4, <3>1, <4>2 DEF EntryTrue, PartTrue
    <3>2. CASE ~(reading[r].scope = s /\ q = p)
      <4>1. cache'[s][q] = cache[s][q]
        BY <1>0, <2>3, <3>2
      <4> QED
        BY <1>0, <4>1
    <3> QED
      BY <3>1, <3>2
  <2> QED
    BY <2>3, <2>5, <2>6, CleanThroughPart
<1>6. ASSUME NEW p \in Parts, QueryFails(r, p)
      PROVE  CleanScope(s)'
  <2> DEFINE y == [NoPart EXCEPT !.pc = "failed"]
  <2>1. y.pc = "failed"
    BY DEF NoPart
  <2>2. SetPart(r, p, y) /\ UNCHANGED <<db, cache, manifest>> /\ Part(r, p).pc # "todo"
    BY <1>6 DEF QueryFails
  <2> HIDE DEF y
  <2>3. reading[r].scope = s => PartTrue(s, p, y)
    BY <1>0, <2>1, <2>2 DEF CleanScope, PartTrue, Part
  <2> QED
    BY <1>0, <2>2, <2>3, CleanThroughPart
<1>7. NoReading.scope # s
  BY <1>0 DEF NoReading
<1>8. ASSUME ReadingFails(r)
      PROVE  CleanScope(s)'
  <2>1. reading' = [reading EXCEPT ![r] = NoReading] /\ UNCHANGED <<db, cache, manifest>>
    BY <1>8 DEF ReadingFails
  <2> QED
    BY <1>0, <1>7, <2>1, CleanThroughReading
<1>9. ASSUME StoreManifest(r)
      PROVE  CleanScope(s)'
  <2> DEFINE content == [p \in Parts |-> Part(r, p).value]
  <2>1. PICK a \in 0 .. MaxAge :
          manifest' = [manifest EXCEPT ![reading[r].scope] = Entry(content, a)]
    BY <1>9 DEF StoreManifest
  <2>2. /\ reading' = [reading EXCEPT ![r] = NoReading] /\ UNCHANGED <<db, cache>>
        /\ Ended(r) /\ \A p \in Parts : Part(r, p).pc # "failed"
    BY <1>9 DEF StoreManifest
  <2>3. ASSUME reading[r].scope = s
        PROVE  content = Truths(s)
    <3>1. \A p \in Parts : PartTrue(s, p, Part(r, p))
      BY <1>0, <2>3 DEF CleanScope, Part
    <3>2. \A p \in Parts : Part(r, p).pc = "todo" => Part(r, p).value = None
      BY <1>0, PartSane DEF SanePart
    <3>3. CASE \A p \in Parts : Part(r, p).pc = "done"
      <4>1. \A p \in Parts : Part(r, p).value = Truths(s)[p]
        BY <3>1, <3>3 DEF PartTrue
      <4> QED
        BY <4>1 DEF Truths
    <3>4. CASE Part(r, "schema").pc = "done" /\ Part(r, "schema").value = None
      <4>1. schema = None
        BY <3>1, <3>4, TruthsParts, Times DEF PartTrue
      <4>2. \A p \in Parts : Part(r, p).value = None
        BY <3>1, <3>2, <3>4, <4>1 DEF PartTrue
      <4> QED
        BY <4>1, <4>2 DEF Truths
    <3> QED
      BY <2>2, <3>3, <3>4, Times DEF Ended
  <2> HIDE DEF content
  <2>4. manifest'[s] = manifest[s] \/ manifest'[s].value = Truths(s)
    BY <1>0, <2>1, <2>3 DEF Entry
  <2>5. \A p \in Parts : EntryTrue(s, p, cache'[s][p])
    BY <1>0, <2>2
  <2> QED
    BY <1>7, <2>2, <2>4, <2>5, CleanThroughReading
<1> QED
  BY <1>1, <1>2, <1>3, <1>4, <1>5, <1>6, <1>8, <1>9 DEF Read

LEMMA CleanThroughTick ==
  ASSUME CleanInv, Tick, NEW s \in clean
  PROVE  CleanScope(s)'
<1>0. /\ CleanScope(s) /\ s \in Served /\ UNCHANGED db
      /\ \A r \in Readers : reading[r] \in ReadingSet
      /\ \A p \in Parts : cache[s][p] \in EntrySet
      /\ manifest[s] \in ManifestSet
  BY DEF CleanInv, AgesInv, Counters, CachesSane, ManifestsSane, ReadingsSane, Tick
<1>1. schema' = schema /\ Truths(s)' = Truths(s) /\ \A p : Active(s, p)' = Active(s, p)
  BY <1>0, TruthStays
<1>2. ASSUME NEW p \in Parts
      PROVE  EntryTrue(s, p, cache[s][p])'
  <2> DEFINE e == cache[s][p]
  <2>1. e \in EntrySet /\ EntryTrue(s, p, e) /\ cache'[s][p] = Aged(e, NoEntry)
    BY <1>0 DEF CleanScope, Tick
  <2> HIDE DEF e
  <2>2. Fresh(Aged(e, NoEntry)) => e.ttl > 1 /\ Aged(e, NoEntry).value = e.value
    BY <2>1 DEF Fresh, Aged, NoEntry, EntrySet
  <2>3. e.ttl > 1 => Fresh(e)
    BY <2>1, Times DEF Fresh, EntrySet
  <2> QED
    BY <1>1, <2>1, <2>2, <2>3 DEF EntryTrue, Fresh
<1>3. ASSUME NEW r \in Readers, NEW p \in Parts, reading'[r].scope = s
      PROVE  PartTrue(s, p, reading[r].part[p])'
  <2>1. reading'[r] = Later(reading[r])
    BY DEF Tick
  <2>2. /\ reading[r].scope = s
        /\ \/ reading'[r] = reading[r]
           \/ reading'[r].part[p] = LaterPart(reading[r].part[p])
    BY <1>0, <1>3, <2>1 DEF Later, ReadingSet
  <2>3. reading[r].part[p] \in PartSet
    BY <1>0 DEF ReadingSet
  <2>4. /\ reading'[r].part[p].pc = reading[r].part[p].pc
        /\ reading'[r].part[p].value = reading[r].part[p].value
    BY <2>2, <2>3 DEF LaterPart, PartSet
  <2> QED
    BY <1>0, <1>1, <2>2, <2>4 DEF CleanScope, PartTrue
<1>4. (Fresh(manifest[s]) => manifest[s].value = Truths(s))'
  <2> DEFINE m == manifest[s]
  <2>1. m \in ManifestSet /\ manifest'[s] = Aged(m, NoManifest)
    BY <1>0 DEF Tick
  <2>0. Fresh(m) => m.value = Truths(s)
    BY <1>0 DEF CleanScope
  <2> HIDE DEF m
  <2>2. Fresh(Aged(m, NoManifest)) => m.ttl > 1 /\ Aged(m, NoManifest).value = m.value
    BY <2>1 DEF Fresh, Aged, NoManifest, ManifestSet
  <2>3. m.ttl > 1 => Fresh(m)
    BY <2>1, Times DEF Fresh, ManifestSet
  <2> QED
    BY <1>1, <2>0, <2>1, <2>2, <2>3 DEF Fresh
<1> QED
  BY <1>2, <1>3, <1>4 DEF CleanScope

LEMMA CleanThroughClearing ==
  ASSUME CleanInv, NEW S, NEW C \in SUBSET Caches, Invalidate(S, C) \/ Crash, NEW s \in clean'
  PROVE  CleanScope(s)'
<1>0. /\ clean' \subseteq Served /\ s \in Served /\ UNCHANGED db
      /\ s \in clean => CleanScope(s)
  BY DEF Invalidate, Crash, CleanInv, AgesInv, Counters
<1>1. schema' = schema /\ Truths(s)' = Truths(s) /\ \A p : Active(s, p)' = Active(s, p)
  BY <1>0, TruthStays
<1>2. ~Fresh(NoEntry) /\ ~Fresh(NoManifest) /\ NoReading.scope = None /\ s # None
  BY <1>0, ViewsAssumption DEF Fresh, NoEntry, NoManifest, NoReading
<1>3. CASE /\ \A p \in Parts : cache'[s][p] = NoEntry
           /\ manifest'[s] = NoManifest
           /\ \A r \in Readers : reading'[r].scope # s
  BY <1>2, <1>3 DEF CleanScope, EntryTrue, Fresh
<1>4. CASE /\ s \in clean /\ reading' = reading
           /\ \A p \in Parts : cache'[s][p] \in {cache[s][p], NoEntry}
           /\ manifest'[s] \in {manifest[s], NoManifest}
  <2>1. \A p \in Parts : EntryTrue(s, p, cache[s][p])'
    BY <1>0, <1>1, <1>2, <1>4 DEF CleanScope, EntryTrue, Fresh
  <2>2. \A r \in Readers, p \in Parts :
          reading'[r].scope = s => PartTrue(s, p, reading[r].part[p])'
    BY <1>0, <1>1, <1>4 DEF CleanScope, PartTrue
  <2> QED
    BY <1>0, <1>1, <1>2, <1>4, <2>1, <2>2 DEF CleanScope, Fresh
<1>6. CASE Crash
  BY <1>0, <1>2, <1>3, <1>6 DEF Crash
<1>7. CASE Invalidate(S, C)
  <2>1. reading' = reading
    BY <1>7 DEF Invalidate
  <2>2. CASE s \in clean
    BY <1>0, <1>4, <1>7, <2>1, <2>2 DEF Invalidate, Clear
  <2>3. CASE s \notin clean
    <3>1. C = Caches /\ s \in S /\ \A r \in Readers : reading[r].scope # s
      BY <1>7, <2>3 DEF Invalidate
    <3>2. (\A p \in Parts : ClearsPart(p, C)) /\ "manifest" \in C
      BY <3>1 DEF Caches, ClearsPart
    <3> QED
      BY <1>0, <1>3, <1>7, <2>1, <3>1, <3>2 DEF Invalidate, Clear
  <2> QED
    BY <2>2, <2>3
<1> QED
  BY <1>6, <1>7

LEMMA CleanHolds == Spec => []CleanInv
<1>1. Init /\ AgesInv => CleanInv
  <2> SUFFICES ASSUME Init, AgesInv, NEW s \in Served
               PROVE  CleanScope(s)
    BY DEF CleanInv, Init
  <2>1. ~Fresh(NoEntry) /\ ~Fresh(NoManifest) /\ NoReading.scope # s
    BY ViewsAssumption DEF Fresh, NoEntry, NoManifest, NoReading
  <2> QED
    BY <2>1 DEF Init, CleanScope, EntryTrue
<1>2. CleanInv /\ AgesInv' /\ [Next]_vars => CleanInv'
  <2> SUFFICES ASSUME CleanInv, AgesInv', [Next]_vars, NEW s \in clean'
               PROVE  CleanScope(s)'
    BY DEF CleanInv
  <2>0. RowsInv'
    BY DEF AgesInv
  <2>1. ASSUME UNCHANGED mem, (clean' = clean /\ UNCHANGED db) \/ Dirtied
        PROVE  CleanScope(s)'
    <3>1. s \in clean /\ Truths(s)' = Truths(s)
      BY <2>1, TruthStays DEF Dirtied
    <3> QED
      BY <2>0, <2>1, <3>1, CleanThroughWrites
  <2>2. CASE UNCHANGED vars
    BY <2>1, <2>2 DEF vars, mem, db
  <2>3. CASE Author
    <3>1. ASSUME NEW q \in Requests, Begin(q) \/ Proceed(q)
          PROVE  CleanScope(s)'
      <4>1. UNCHANGED <<mem, schema>> /\ ((clean' = clean /\ UNCHANGED view) \/ Dirtied)
        BY <3>1, RequestStepsLight DEF CleanInv
      <4> QED
        BY <2>1, <4>1 DEF db
    <3>2. ASSUME NEW c \in Scopes, NEW p \in Types, DeactivateAll(c, p)
          PROVE  CleanScope(s)'
      BY <2>1, <3>2 DEF DeactivateAll
    <3>3. ASSUME NEW x \in Schemas, EditSchema(x)
          PROVE  CleanScope(s)'
      BY <2>1, <3>3 DEF EditSchema
    <3> QED
      BY <2>3, <3>1, <3>2, <3>3, CleanThroughClearing DEF Author
  <2>4. CASE Tick
    BY <2>4, CleanThroughTick DEF Tick
  <2>5. ASSUME NEW r \in Readers,
               \/ Read(r)
               \/ \E c \in Served : StartReading(r, c)
               \/ \E p \in Parts : QueryFails(r, p)
        PROVE  CleanScope(s)'
    <3>1. clean' = clean
      BY <2>5 DEF Read, StartReading, QueryFails, LookUpViews, StoreManifest, ReadingFails,
                  QueryOwn, QueryGlobal, Store
    <3> QED
      BY <2>5, <3>1, CleanThroughReads
  <2> QED
    BY <2>2, <2>3, <2>4, <2>5 DEF Next
<1> QED
  BY <1>1, <1>2, AgesHold, PTL DEF Spec

(* After a clearing of all three caches that met no reading in flight, a         *)
(* manifest shows the database until the database changes, whatever partial      *)
(* clearings come before or after it, for any number of readers and authors, and *)
(* any lengths of lives and readings.                                            *)
THEOREM ClearedMeansTrue == Spec => []ClearingIsEffective
<1>1. CleanInv => ClearingIsEffective
  BY DEF CleanInv, CleanScope, ClearingIsEffective
<1> QED
  BY <1>1, CleanHolds, PTL
=============================================================================
