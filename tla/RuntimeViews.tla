---------------------------- MODULE RuntimeViews ----------------------------
(***************************************************************************)
(* The views of one config object and the manifest its runners read.  A    *)
(* view row belongs to a scope (a tenant, or the global one tenants fall   *)
(* back to) and a type; at most one of a scope and type is to be active.   *)
(* Authoring requests change rows in several statements, none of them in a *)
(* transaction.  Readers go through three caches with one time to live     *)
(* (schema, active view, manifest); no write touches them, and the request *)
(* that clears them runs between the awaits of a reading.                  *)
(***************************************************************************)
EXTENDS Integers, FiniteSets

CONSTANTS
  Views,     \* ids of rows, in the order AUTO_INCREMENT gives them
  Tenants, Global,
  Types,     \* list, detail, form
  Requests,  \* authoring requests in flight at a time
  Readers,   \* getRuntimeManifest calls in flight at a time
  Served,    \* bound: scopes manifests are asked for
  Versions,  \* contents of the published schema
  Tables,    \* bound: contents config_object_views begins with
  None,      \* null
  TTL,       \* runtimeCacheTtlMs, in ticks
  Slow,      \* bound: ticks a reading may take
  MaxOps     \* bound: requests, schema edits, invalidations and faults

Scopes == Tenants \cup {Global}
Parts  == Types \cup {"schema"}
Caches == {"schema", "view", "manifest"}

VARIABLES
  view,      \* config_object_views
  schema,    \* what the published schema query returns
  request,   \* authoring requests
  reading,   \* manifests being composed
  cache,     \* schemaCache and activeViewCache
  manifest,  \* runtimeManifestCache
  ops,
  clean      \* history: scopes cleared with no reading in flight, unchanged since

vars == <<view, schema, request, reading, cache, manifest, ops, clean>>
db   == <<view, schema>>
mem  == <<reading, cache, manifest>>

Schemas == Versions \cup {None}
Unused  == [scope |-> None, type |-> None, active |-> FALSE]
Deleted == [scope |-> None, type |-> "deleted", active |-> FALSE]
RowSet  == [scope : Scopes, type : Types, active : BOOLEAN] \cup {Unused, Deleted}
Row(s, p, on) == [scope |-> s, type |-> p, active |-> on]

ASSUME ViewsAssumption ==
  /\ Views \subseteq Nat /\ IsFiniteSet(Views)
  /\ Global \notin Tenants /\ "schema" \notin Types /\ None # "deleted"
  /\ None \notin Views /\ None \notin Versions /\ None \notin Scopes /\ None \notin Types
  /\ Served \subseteq Scopes /\ Tables \subseteq [Views -> RowSet]
  /\ TTL \in Nat \ {0} /\ Slow \in Nat /\ MaxOps \in Nat

Exists(v)    == view[v] \notin {Unused, Deleted}
InScope(s, p)  == {v \in Views : view[v].scope = s /\ view[v].type = p}
Active(s, p) == {v \in InScope(s, p) : view[v].active}
(* order: { configObjectViewId: 'DESC' } *)
Newest(S)    == IF S = {} THEN None ELSE CHOOSE v \in S : \A w \in S : w <= v

(* What a query would find now: the tenant's view, or else the global one. *)
Truth(s, p) ==
  IF p = "schema" THEN schema
  ELSE IF Active(s, p) # {} THEN Newest(Active(s, p)) ELSE Newest(Active(Global, p))
Truths(s) == [p \in Parts |-> IF schema = None THEN None ELSE Truth(s, p)]

-----------------------------------------------------------------------------
(* Requests.  row is the entity as the request will save it: what findOne   *)
(* returned, with the request's own changes.                                 *)

Quiet      == [pc |-> "idle", target |-> None, row |-> Unused, scope |-> None]
RequestSet == [pc : {"idle", "clear", "save", "create", "insert", "assert", "remove"},
               target : Views \cup {None}, row : RowSet, scope : Scopes \cup {None}]

Free(q)  == request[q].pc = "idle" /\ ops < MaxOps
Start(q, pc, v, row, s) ==
  /\ request' = [request EXCEPT ![q] = [pc |-> pc, target |-> v, row |-> row, scope |-> s]]
  /\ ops' = ops + 1
  /\ UNCHANGED <<db, mem, clean>>
Step(q, pc) == request' = [request EXCEPT ![q].pc = pc]
End(q)      == request' = [request EXCEPT ![q] = Quiet]

(* History: a scope in which a query finds something else is not clean. *)
Dirtied == clean' = {s \in clean : Truths(s)' = Truths(s)}

(* Mutant: the unique index is missing. *)
NeverClashes(v, row) == FALSE

(* uq_config_object_views_active_scope *)
Clashes(v, row) == row.active /\ Active(row.scope, row.type) \ {v} # {}

(* activateScopedConfigView: the target must be of the requested scope. *)
BeginActivate(q, v) ==
  /\ Free(q) /\ Exists(v)
  /\ Start(q, "clear", v, [view[v] EXCEPT !.active = TRUE], view[v].scope)

(* deactivateScopedConfigView with an id *)
BeginDeactivate(q, v) ==
  /\ Free(q) /\ Exists(v)
  /\ Start(q, "save", v, [view[v] EXCEPT !.active = FALSE], view[v].scope)

(* ... and without: one statement. *)
DeactivateAll(s, p) ==
  /\ ops < MaxOps /\ Active(s, p) # {}
  /\ view' = [v \in Views |-> IF v \in Active(s, p) THEN [view[v] EXCEPT !.active = FALSE]
                              ELSE view[v]]
  /\ ops' = ops + 1
  /\ UNCHANGED <<schema, request, mem>>
  /\ Dirtied

(* updateConfigView changes names and labels, and saves the whole entity. *)
BeginUpdate(q, v) ==
  Free(q) /\ Exists(v) /\ Start(q, "save", v, view[v], view[v].scope)

BeginDelete(q, v) ==
  Free(q) /\ Exists(v) /\ Start(q, "remove", v, view[v], view[v].scope)

(* createConfigView leaves tenant_id and is_active to their defaults. *)
BeginCreate(q, p) ==
  Free(q) /\ Start(q, "create", None, Row(Global, p, TRUE), Global)

(* upsertScopedConfigView of an existing row: the newest of the scope, or the  *)
(* one an id names, whatever its tenant and type.  The row keeps its tenant;   *)
(* what is cleared is the scope of the request.                                *)
BeginUpsert(q, s, p, on, v) ==
  /\ Free(q) /\ Exists(v)
  /\ Start(q, IF on THEN "clear" ELSE "save", v,
           [view[v] EXCEPT !.type = p, !.active = on], s)

(* ... of a row that is not found. *)
BeginInsert(q, s, p, on) ==
  /\ Free(q)
  /\ Start(q, IF on THEN "clear" ELSE "insert", None, Row(s, p, on), s)

(* deactivateViewsInScope *)
ClearScope(q) ==
  LET r == request[q]
      others == Active(r.scope, r.row.type) \ {r.target}
  IN /\ r.pc = "clear"
     /\ view' = [v \in Views |-> IF v \in others THEN [view[v] EXCEPT !.active = FALSE]
                                 ELSE view[v]]
     /\ Step(q, IF r.target = None THEN "insert" ELSE "save")
     /\ UNCHANGED <<schema, mem, ops>>
     /\ Dirtied

(* save(entity): every column that differs from the row is written; a row that *)
(* is gone is inserted again.                                                  *)
Save(q) ==
  LET r == request[q]
  IN /\ r.pc = "save" /\ ~Clashes(r.target, r.row)
     /\ view' = [view EXCEPT ![r.target] = r.row]
     /\ End(q)
     /\ UNCHANGED <<schema, mem, ops>>
     /\ Dirtied

(* save of an entity without an id *)
Insert(q) ==
  LET r == request[q]
      free == {v \in Views : view[v] = Unused}
  IN /\ r.pc \in {"create", "insert"} /\ ~Clashes(None, r.row)
     /\ \E new \in free :
          /\ \A v \in free : new <= v
          /\ view' = [view EXCEPT ![new] = r.row]
          /\ request' = [request EXCEPT ![q] =
               IF r.pc = "create" THEN Quiet ELSE [r EXCEPT !.pc = "assert", !.target = new]]
     /\ UNCHANGED <<schema, mem, ops>>
     /\ Dirtied

(* ER_DUP_ENTRY: the request ends, what it has cleared stays cleared. *)
SaveRejected(q) ==
  LET r == request[q]
  IN /\ r.pc \in {"save", "create", "insert"} /\ Clashes(r.target, r.row)
     /\ End(q)
     /\ UNCHANGED <<db, mem, ops, clean>>

(* A view that upsert has inserted is validated then, and removed if it fails.  *)
AssertHolds(q) ==
  /\ request[q].pc = "assert"
  /\ End(q)
  /\ UNCHANGED <<db, mem, ops, clean>>

AssertFails(q) ==
  /\ request[q].pc = "assert"
  /\ Step(q, "remove")
  /\ UNCHANGED <<db, mem, ops, clean>>

Remove(q) ==
  /\ request[q].pc = "remove"
  /\ view' = [view EXCEPT ![request[q].target] = Deleted]
  /\ End(q)
  /\ UNCHANGED <<schema, mem, ops>>
  /\ Dirtied

(* Fields, or what is published, change: see ConfigAuthoring. *)
EditSchema(x) ==
  /\ ops < MaxOps /\ x # schema
  /\ schema' = x
  /\ ops' = ops + 1
  /\ UNCHANGED <<view, request, mem>>
  /\ Dirtied

-----------------------------------------------------------------------------
(* Readings.  An entry has its time to live (0: no entry), its value, and,   *)
(* as history, the ticks since the first query its value comes from.         *)

MaxAge   == 2 * (TTL + Slow)
Values   == Views \cup Schemas
Manifests == {m \in [Parts -> Values] : m["schema"] \in Schemas}
NoEntry  == [ttl |-> 0, value |-> None, age |-> 0]
NoManifest == [ttl |-> 0, value |-> [p \in Parts |-> None], age |-> 0]
EntrySet == [ttl : 0 .. TTL, value : Values, age : 0 .. MaxAge]

NoPart   == [pc |-> "todo", value |-> None, age |-> 0]
PartSet  == [pc : {"todo", "own", "global", "store", "done", "failed"},
             value : Values, age : 0 .. MaxAge]
NoReading == [scope |-> None, took |-> 0, part |-> [p \in Parts |-> NoPart]]

Fresh(e)   == e.ttl > 0
(* Mutant: an entry lives as long as one cached behind another may. *)
EntryForTwoLives(v, a) == [ttl |-> 2 * TTL, value |-> v, age |-> a]
Entry(v, a) == [ttl |-> TTL, value |-> v, age |-> a]
Busy(r)    == reading[r].scope # None
Part(r, p) == reading[r].part[p]
SetPart(r, p, x) == reading' = [reading EXCEPT ![r].part[p] = x]

(* What a reading makes of its parts when it looks into the cache: a fresh    *)
(* entry is taken, else there is a query to make.                             *)
LookedUp(s, p) ==
  LET e == cache[s][p]
  IN IF Fresh(e) THEN [pc |-> "done", value |-> e.value, age |-> e.age]
     ELSE [NoPart EXCEPT !.pc = IF p = "schema" \/ s = Global THEN "global" ELSE "own"]

(* getRuntimeManifest, up to its first await; a fresh manifest is returned. *)
StartReading(r, s) ==
  /\ ~Busy(r) /\ ~Fresh(manifest[s])
  /\ reading' = [reading EXCEPT ![r] =
       [scope |-> s, took |-> 0,
        part |-> [p \in Parts |-> IF p = "schema" THEN LookedUp(s, p) ELSE NoPart]]]
  /\ UNCHANGED <<db, request, cache, manifest, ops, clean>>

(* Promise.all of getActiveScopedConfigView *)
LookUpViews(r) ==
  /\ Part(r, "schema").pc = "done" /\ Part(r, "schema").value # None
  /\ \A p \in Types : Part(r, p).pc = "todo"
  /\ reading' = [reading EXCEPT ![r].part = [p \in Parts |->
       IF p = "schema" THEN @[p] ELSE LookedUp(reading[r].scope, p)]]
  /\ UNCHANGED <<db, request, cache, manifest, ops, clean>>

(* The tenant's own active view, if there is one *)
QueryOwn(r, p) ==
  LET own == Active(reading[r].scope, p)
  IN /\ Part(r, p).pc = "own"
     /\ SetPart(r, p, [Part(r, p) EXCEPT !.pc = IF own = {} THEN "global" ELSE "store",
                                         !.value = Newest(own)])
     /\ UNCHANGED <<db, request, cache, manifest, ops, clean>>

(* The global one; the schema query ends here too. *)
QueryGlobal(r, p) ==
  /\ Part(r, p).pc = "global"
  /\ SetPart(r, p, [Part(r, p) EXCEPT !.pc = "store", !.value = Truth(Global, p)])
  /\ UNCHANGED <<db, request, cache, manifest, ops, clean>>

Store(r, p) ==
  /\ Part(r, p).pc = "store"
  /\ cache' = [cache EXCEPT ![reading[r].scope][p] = Entry(Part(r, p).value, Part(r, p).age)]
  /\ SetPart(r, p, [Part(r, p) EXCEPT !.pc = "done"])
  /\ UNCHANGED <<db, request, manifest, ops, clean>>

(* A query rejects: the caller has its error, the other parts go on. *)
QueryFails(r, p) ==
  /\ Part(r, p).pc \in {"own", "global"} /\ ops < MaxOps
  /\ SetPart(r, p, [NoPart EXCEPT !.pc = "failed"])
  /\ ops' = ops + 1
  /\ UNCHANGED <<db, request, cache, manifest, clean>>

Ended(r) ==
  LET schemaPart == Part(r, "schema")
  IN /\ Busy(r)
     /\ \/ schemaPart.pc = "failed"
        \/ schemaPart.pc = "done" /\ schemaPart.value = None
        \/ \A p \in Parts : Part(r, p).pc \in {"done", "failed"}

OldestIs(r, a) ==
  (\E p \in Parts : a = Part(r, p).age) /\ \A p \in Parts : Part(r, p).age <= a

(* The manifest, or the one that says the schema is missing, is cached in turn. *)
StoreManifest(r) ==
  /\ Ended(r) /\ \A p \in Parts : Part(r, p).pc # "failed"
  /\ \E a \in 0 .. MaxAge :
       /\ OldestIs(r, a)
       /\ manifest' = [manifest EXCEPT ![reading[r].scope] =
            Entry([p \in Parts |-> Part(r, p).value], a)]
  /\ reading' = [reading EXCEPT ![r] = NoReading]
  /\ UNCHANGED <<db, request, cache, ops, clean>>

ReadingFails(r) ==
  /\ Ended(r) /\ \E p \in Parts : Part(r, p).pc = "failed"
  /\ reading' = [reading EXCEPT ![r] = NoReading]
  /\ UNCHANGED <<db, request, cache, manifest, ops, clean>>

-----------------------------------------------------------------------------

Older(a)    == IF a < MaxAge THEN a + 1 ELSE a
(* Mutant: a cached value does not expire. *)
NeverExpires(e, no) == IF e.ttl > 1 THEN [e EXCEPT !.ttl = @ - 1, !.age = Older(@)] ELSE e
Aged(e, no) == IF e.ttl > 1 THEN [e EXCEPT !.ttl = @ - 1, !.age = Older(@)] ELSE no

LaterPart(x) == IF x.pc = "todo" THEN x ELSE [x EXCEPT !.age = Older(@)]
Later(x)     == IF x.scope = None THEN x
                ELSE [x EXCEPT !.took = @ + 1, !.part = [p \in Parts |-> LaterPart(@[p])]]

(* Time passes, at most Slow ticks while a reading is in flight. *)
Tick ==
  /\ \A r \in Readers : Busy(r) => reading[r].took < Slow
  /\ cache'    = [s \in Served |-> [p \in Parts |-> Aged(cache[s][p], NoEntry)]]
  /\ manifest' = [s \in Served |-> Aged(manifest[s], NoManifest)]
  /\ reading'  = [r \in Readers |-> Later(reading[r])]
  /\ UNCHANGED <<db, request, ops, clean>>

(* Mutant: the view cache is left alone. *)
ClearsSchemas(p, C) == p = "schema" /\ "schema" \in C

(* What is cleared is C: of the caches the request includes, those whose keys   *)
(* contain its entity key.  The schema is cached under the canonical object     *)
(* type, views and manifests under the name readers give, so an alias leaves    *)
(* the schema, and the canonical name may leave the rest.                       *)
ClearsPart(p, C) == IF p = "schema" THEN "schema" \in C ELSE "view" \in C

Clear(S, C) ==
  /\ cache' = [s \in Served |-> [p \in Parts |->
       IF s \in S /\ ClearsPart(p, C) THEN NoEntry ELSE cache[s][p]]]
  /\ manifest' = [s \in Served |->
       IF s \in S /\ "manifest" \in C THEN NoManifest ELSE manifest[s]]

(* invalidateRuntimeCaches of a tenant, of the keys 'global::', or of all.      *)
(* History: only a clearing of all three caches promises anything.              *)
Invalidate(S, C) ==
  /\ ops < MaxOps
  /\ Clear(S, C)
  /\ ops' = ops + 1
  /\ clean' = IF C = Caches
              THEN clean \cup {s \in S \cap Served : \A r \in Readers : reading[r].scope # s}
              ELSE clean
  /\ UNCHANGED <<db, request, reading>>

(* The process restarts: requests end where they are, the caches are empty. *)
Crash ==
  /\ ops < MaxOps
  /\ request'  = [q \in Requests |-> Quiet]
  /\ reading'  = [r \in Readers |-> NoReading]
  /\ cache'    = [s \in Served |-> [p \in Parts |-> NoEntry]]
  /\ manifest' = [s \in Served |-> NoManifest]
  /\ clean' = Served
  /\ ops' = ops + 1
  /\ UNCHANGED db

-----------------------------------------------------------------------------

(* However requests overlap, with each other and with the stale entities they   *)
(* save, no scope and type ever has two active views (the index sees to it when *)
(* deactivateViewsInScope has come too early).                                  *)
OneActivePerScope ==
  \A s \in Scopes, p \in Types : \A v, w \in Active(s, p) : v = w

Init ==
  /\ view \in Tables /\ OneActivePerScope
  /\ schema \in Schemas
  /\ request = [q \in Requests |-> Quiet]
  /\ reading = [r \in Readers |-> NoReading]
  /\ cache = [s \in Served |-> [p \in Parts |-> NoEntry]]
  /\ manifest = [s \in Served |-> NoManifest]
  /\ ops = 0
  /\ clean = Served

Begin(q) ==
  \/ \E v \in Views : \/ BeginActivate(q, v) \/ BeginDeactivate(q, v)
                      \/ BeginUpdate(q, v) \/ BeginDelete(q, v)
  \/ \E p \in Types : BeginCreate(q, p)
  \/ \E s \in Scopes, p \in Types, on \in BOOLEAN :
       \/ \E v \in Views : BeginUpsert(q, s, p, on, v)
       \/ BeginInsert(q, s, p, on)

Proceed(q) == \/ ClearScope(q) \/ Save(q) \/ Insert(q) \/ SaveRejected(q)
              \/ AssertHolds(q) \/ AssertFails(q) \/ Remove(q)

Author ==
  \/ \E q \in Requests : Begin(q) \/ Proceed(q)
  \/ \E s \in Scopes, p \in Types : DeactivateAll(s, p)
  \/ \E x \in Schemas : EditSchema(x)
  \/ \E S \in {Scopes} \cup {{s} : s \in Scopes}, C \in SUBSET Caches : Invalidate(S, C)
  \/ Crash

Read(r) ==
  \/ LookUpViews(r) \/ StoreManifest(r) \/ ReadingFails(r)
  \/ \E p \in Parts : QueryOwn(r, p) \/ QueryGlobal(r, p) \/ Store(r, p)

Next ==
  \/ Author \/ Tick
  \/ \E r \in Readers :
       \/ Read(r)
       \/ \E s \in Served : StartReading(r, s)
       \/ \E p \in Parts : QueryFails(r, p)

(* Time passes, and a reading that has begun goes on.  Nothing makes a request  *)
(* go on, nor a caller read.                                                    *)
Fairness == WF_vars(Tick) /\ \A r \in Readers : WF_vars(Read(r))

Spec     == Init /\ [][Next]_vars
FairSpec == Spec /\ Fairness

-----------------------------------------------------------------------------

(* The variables stay within their types. *)
TypeOK ==
  /\ view \in [Views -> RowSet] /\ schema \in Schemas
  /\ request \in [Requests -> RequestSet]
  /\ reading \in [Readers -> [scope : Served \cup {None}, took : 0 .. Slow,
                              part : [Parts -> PartSet]]]
  /\ cache \in [Served -> [Parts -> EntrySet]]
  /\ \A s \in Served : /\ manifest[s].ttl \in 0 .. TTL /\ manifest[s].age \in 0 .. MaxAge
                       /\ manifest[s].value \in Manifests
  /\ ops \in 0 .. MaxOps /\ clean \subseteq Served

(* What is served was queried no longer ago than two lives of an entry and two   *)
(* readings: a manifest is stored for one more life from views that were cached  *)
(* for nearly one.  (invalidateRuntimeCaches reports one life, ttlMs.)           *)
StalenessBounded ==
  \A s \in Served : Fresh(manifest[s]) => manifest[s].age <= 2 * (TTL + Slow - 1)

(* After a clearing of all three caches that met no reading in flight, a         *)
(* manifest shows the database until the database changes: no entry has outlived *)
(* the clearing.  (A reading in flight may put back what it read before, and a   *)
(* clearing that does not include a cache, or whose entity key is an alias the   *)
(* schema is not cached under, leaves older entries: both are excepted.)         *)
ClearingIsEffective ==
  \A s \in clean : Fresh(manifest[s]) => manifest[s].value = Truths(s)

(* Once nobody writes, what is served agrees with the database for good, however *)
(* many stale or torn readings were cached on the way.                           *)
EventuallyFresh ==
  <>[](\A s \in Served : Fresh(manifest[s]) => manifest[s].value = Truths(s))

=============================================================================
