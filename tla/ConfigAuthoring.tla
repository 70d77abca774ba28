--------------------------- MODULE ConfigAuthoring ---------------------------
(***************************************************************************)
(* The authoring of configuration: template sets, the objects in them, and *)
(* what hangs below an object.  Every operation of ConfigObjectsService    *)
(* and ConfigLifecycleService is three or four statements of their own: it *)
(* reads (findOne of the row and of its parents), checks (uniqueness, or   *)
(* what else depends on other rows), writes the entity it has read, and    *)
(* inserts the row of config_audit_logs that tells of the change.          *)
(* Other requests run between any two of them; what the database itself    *)
(* refuses are duplicate keys and missing parents.                         *)
(***************************************************************************)
EXTENDS Integers, FiniteSets

CONSTANTS
  Ids,        \* ids of rows, in the order they are given
  Keys,       \* object types, field keys, state keys, view keys, ...
  Requests,   \* requests in flight at a time
  None,       \* null
  Tables,     \* bound: contents the tables begin with
  MaxOps,     \* bound: requests
  MaxFaults   \* bound: rejected statements and crashes

Kinds == {"set", "object", "field", "rule", "lifecycle", "transition", "mapping",
          "view", "panel", "relationship", "instance"}
Modes == {"sor_bound", "standalone", "system_table"}

(* The foreign key of each table, ON DELETE CASCADE *)
Parent == [k \in Kinds |->
  CASE k = "object" -> "set"
    [] k \in {"field", "lifecycle", "transition", "mapping", "view", "instance"} -> "object"
    [] k = "rule"  -> "field"
    [] k = "panel" -> "view"
    [] OTHER -> None]

(* A relationship names its ends by object type, and has no foreign key: its    *)
(* key stands for both ends; an instance has no key.  mode and published are of *)
(* objects and sets; global: a set whose tenant_id is NULL.                     *)
RowSet  == [kind : Kinds, parent : Ids \cup {None}, key : Keys \cup {None},
            mode : Modes, published : BOOLEAN, global : BOOLEAN]
Unused  == [kind |-> "unused"]
Deleted == [kind |-> "deleted"]
NewRow(k, p, key) ==
  [kind |-> k, parent |-> p, key |-> key, mode |-> "sor_bound", published |-> TRUE,
   global |-> FALSE]

ASSUME AuthoringAssumption ==
  /\ Ids = 1 .. Cardinality(Ids) /\ None \notin Ids /\ None \notin Kinds
  /\ IsFiniteSet(Requests)
  /\ Tables \subseteq [Ids -> RowSet \cup {Unused}]
  /\ MaxOps \in Nat /\ MaxFaults \in Nat

VARIABLES
  row,      \* the eleven tables
  request,  \* requests in flight
  log,      \* config_audit_logs: the rows whose creation it tells of
  ops, faults,
  raced,    \* history: rows written on a reading that another write had overtaken
  revived,  \* history: rows that a save inserted again, after their deletion
  untold    \* history: rows whose creator ended in a failure after the insertion

vars == <<row, request, log, ops, faults, raced, revived, untold>>

Exists(i)   == row[i] \notin {Unused, Deleted}
Is(i, k)    == i \in Ids /\ Exists(i) /\ row[i].kind = k
Alike(r, s) ==
  /\ r.kind = s.kind /\ r.parent = s.parent /\ r.global = s.global
  /\ r.key = s.key /\ r.key # None
Others(i, r) == {j \in Ids \ {i} : Exists(j) /\ Alike(row[j], r)}
Fields(o)   == {f \in Ids : Is(f, "field") /\ row[f].parent = o}

(* CREATE TABLE: config_object_field_rules has no unique key, and that of the *)
(* sets is (tenant_id, key): NULL never equals NULL.                          *)
HasUniqueKey(r) == ~(r.kind = "rule" \/ (r.kind = "set" /\ r.global))
Clashes(i, r) == HasUniqueKey(r) /\ Others(i, r) # {}
Rooted(r) ==
  IF Parent[r.kind] = None THEN r.parent = None ELSE Is(r.parent, Parent[r.kind])

-----------------------------------------------------------------------------
(* A request: the operation, the row it is about (None: to be inserted), the *)
(* entity it will write, the entity as it was read, whether it comes from    *)
(* the global scope, and, as history, whether another write has come between.*)
(* upsert: a view is inserted and then validated; remove: it has failed.     *)

Quiet == [pc |-> "idle", op |-> "none", id |-> None, new |-> Unused, read |-> Unused,
          global |-> FALSE, overtaken |-> FALSE]
RequestSet ==
  [pc : {"idle", "check", "write", "assert", "log"},
   op : {"none", "create", "upsert", "update", "delete", "remove"},
   id : Ids \cup {None}, new : RowSet \cup {Unused}, read : RowSet \cup {Unused},
   global : BOOLEAN, overtaken : BOOLEAN]

Inserts(r) == r.op \in {"create", "upsert"}
Deletes(r) == r.op \in {"delete", "remove"}

Free(q) == request[q].pc = "idle" /\ ops < MaxOps

BeginIn(q, g, op, pc, i, new) ==
  /\ Free(q)
  /\ request' = [request EXCEPT ![q] =
       [pc |-> pc, op |-> op, id |-> i, new |-> new,
        read |-> IF i = None THEN Unused ELSE row[i], global |-> g, overtaken |-> FALSE]]
  /\ ops' = ops + 1
  /\ UNCHANGED <<row, log, faults, raced, revived, untold>>
Begin(q, op, pc, i, new) == \E g \in BOOLEAN : BeginIn(q, g, op, pc, i, new)

(* Whether the template set is of the tenant of the request is checked too: a   *)
(* request that fails there leaves no trace.                                    *)
Insert(q, pc, k, p, key) == Begin(q, "create", pc, None, NewRow(k, p, key))
Update(q, pc, i, new)    == Exists(i) /\ Begin(q, "update", pc, i, new)
Delete(q, k, i)          == Is(i, k) /\ Begin(q, "delete", "write", i, row[i])

AllowsDesignerFields(o) == Is(o, "object") /\ row[o].mode # "system_table"

(* The first published set, and a published object of the type in it *)
EndpointPublished(key) ==
  LET sets == {s \in Ids : Is(s, "set") /\ row[s].published}
  IN \E s \in sets, o \in Ids :
       /\ \A t \in sets : s <= t
       /\ Is(o, "object") /\ row[o].parent = s /\ row[o].key = key /\ row[o].published

CreateTemplateSet(q, key) ==
  \E g \in BOOLEAN :
    BeginIn(q, g, "create", "write", None, [NewRow("set", None, key) EXCEPT !.global = g])
UpdateTemplateSet(q, i, on) ==
  Is(i, "set") /\ Update(q, "write", i, [row[i] EXCEPT !.published = on])

CreateConfigObject(q, s, key, mode, on) ==
  Is(s, "set") /\ Begin(q, "create", "check", None,
    [NewRow("object", s, key) EXCEPT !.mode = mode, !.published = on])
UpdateConfigObject(q, i, key, mode, on) ==
  Is(i, "object") /\ Update(q, "check", i, [row[i] EXCEPT !.key = key, !.mode = mode,
                                                          !.published = on])
DeleteConfigObject(q, i) == Delete(q, "object", i)

(* Mutant: the binding of the object is not looked at. *)
CreateAnyField(q, o, key) == Is(o, "object") /\ Insert(q, "check", "field", o, key)
CreateConfigField(q, o, key) ==
  AllowsDesignerFields(o) /\ Insert(q, "check", "field", o, key)
UpdateConfigField(q, i) ==
  Is(i, "field") /\ AllowsDesignerFields(row[i].parent) /\ Update(q, "write", i, row[i])
DeleteConfigField(q, i) == Delete(q, "field", i)

CreateConfigFieldRule(q, f, key) ==
  /\ Is(f, "field") /\ AllowsDesignerFields(row[f].parent)
  /\ Insert(q, "check", "rule", f, key)
UpdateConfigFieldRule(q, i, key) ==
  /\ Is(i, "rule") /\ AllowsDesignerFields(row[row[i].parent].parent)
  /\ Update(q, "check", i, [row[i] EXCEPT !.key = key])
DeleteConfigFieldRule(q, i) == Delete(q, "rule", i)

CreateConfigStatusMapping(q, o, key) ==
  Is(o, "object") /\ Insert(q, "check", "mapping", o, key)
UpdateConfigStatusMapping(q, i, key) ==
  Is(i, "mapping") /\ Update(q, "check", i, [row[i] EXCEPT !.key = key])
DeleteConfigStatusMapping(q, i) == Delete(q, "mapping", i)

(* A published object of a published set *)
Authorable(o) == Is(o, "object") /\ row[o].published /\ row[row[o].parent].published

CreateLifecycle(q, o, key) == Authorable(o) /\ Insert(q, "check", "lifecycle", o, key)
UpdateLifecycle(q, i) == Is(i, "lifecycle") /\ Update(q, "write", i, row[i])
DeleteLifecycle(q, i) == Delete(q, "lifecycle", i)

CreateLifecycleTransition(q, o, key) ==
  Authorable(o) /\ Insert(q, "check", "transition", o, key)
UpdateLifecycleTransition(q, i) == Is(i, "transition") /\ Update(q, "write", i, row[i])
DeleteLifecycleTransition(q, i) == Delete(q, "transition", i)

CreateConfigView(q, o, key) ==
  Is(o, "object") /\ row[o].published /\ Insert(q, "check", "view", o, key)
UpdateConfigView(q, i) == Is(i, "view") /\ Update(q, "write", i, row[i])
DeleteConfigView(q, i) == Delete(q, "view", i)

(* Of the scoped views only what is kept here: rows and keys.  Their tenants,    *)
(* their types and the statements that only set is_active, of which no log row   *)
(* tells (deactivateViewsInScope, deactivateScopedConfigView without an id),     *)
(* are in RuntimeViews.                                                          *)
UpsertScopedConfigView(q, i, key) ==
  Is(i, "view") /\ Update(q, "write", i, [row[i] EXCEPT !.key = key])
InsertScopedConfigView(q, o, key) ==
  Is(o, "object") /\ Begin(q, "upsert", "write", None, NewRow("view", o, key))
(* activateScopedConfigView, and deactivateScopedConfigView of an id *)
SwitchScopedConfigView(q, i) == Is(i, "view") /\ Update(q, "write", i, row[i])

CreateConfigViewPanel(q, v, key) == Is(v, "view") /\ Insert(q, "check", "panel", v, key)
UpdateConfigViewPanel(q, i) == Is(i, "panel") /\ Update(q, "write", i, row[i])
DeleteConfigViewPanel(q, i) == Delete(q, "panel", i)

(* Instances of a standalone object are a tenant's, never of the global scope. *)
Standalone(o) == Is(o, "object") /\ row[o].mode = "standalone"

CreateCustomObjectInstance(q, o) ==
  /\ Standalone(o)
  /\ BeginIn(q, FALSE, "create", "write", None, NewRow("instance", o, None))
UpdateCustomObjectInstance(q, i) ==
  /\ Is(i, "instance") /\ Standalone(row[i].parent)
  /\ BeginIn(q, FALSE, "update", "write", i, row[i])
DeleteCustomObjectInstance(q, i) ==
  /\ Is(i, "instance") /\ Standalone(row[i].parent)
  /\ BeginIn(q, FALSE, "delete", "write", i, row[i])

CreateConfigRelationship(q, key) == Insert(q, "check", "relationship", None, key)
UpdateConfigRelationship(q, i) ==
  Is(i, "relationship") /\ EndpointPublished(row[i].key) /\ Update(q, "write", i, row[i])
DeleteConfigRelationship(q, i) ==
  Is(i, "relationship") /\ EndpointPublished(row[i].key) /\ Delete(q, "relationship", i)

-----------------------------------------------------------------------------
(* The check before the write.  Two rules may be alike already; findOne then *)
(* finds either.                                                             *)

SameRow(r) == r.id # None /\ Exists(r.id) /\ Alike(row[r.id], r.new)
Duplicate(r) == Others(r.id, r.new) # {}

(* Mutant: duplicates are all that is checked, and not those of rules. *)
PassesWithoutRules(r) ==
  r.new.kind \in {"rule", "mapping", "relationship"} \/ ~Duplicate(r)

Passes(r) ==
  LET k == r.new.kind
  IN CASE k = "mapping" ->
            \/ r.op = "update" /\ r.new.key = r.read.key
            \/ \E l \in Ids : /\ Is(l, "lifecycle") /\ row[l].key = r.new.key
                              /\ row[l].parent = r.new.parent
       [] k = "relationship" -> ~Duplicate(r) /\ EndpointPublished(r.new.key)
       [] k = "rule" -> ~Duplicate(r) \/ SameRow(r)
       [] k = "object" /\ r.op = "update" ->
            /\ r.new.mode = "system_table" /\ r.read.mode # "system_table"
                 => Fields(r.id) = {}
            /\ r.new.key # r.read.key => ~Duplicate(r)
       [] OTHER -> ~Duplicate(r)

Check(q) ==
  /\ request[q].pc = "check" /\ Passes(request[q])
  /\ request' = [request EXCEPT ![q].pc = "write"]
  /\ UNCHANGED <<row, log, ops, faults, raced, revived, untold>>

(* ... the state of a lifecycle that exists is returned, all else is an error. *)
CheckRefuses(q) ==
  /\ request[q].pc = "check"
  /\ \/ ~Passes(request[q])
     \/ request[q].new.kind = "rule" /\ Duplicate(request[q])
  /\ request' = [request EXCEPT ![q] = Quiet]
  /\ UNCHANGED <<row, log, ops, faults, raced, revived, untold>>

(* Mutant: a view that fails its validation stays. *)
AssertFailsOnly(q) ==
  /\ request[q].pc = "assert"
  /\ request' = [request EXCEPT ![q] = Quiet]
  /\ UNCHANGED <<row, log, ops, faults, raced, revived, untold>>

(* What an upsert has inserted is validated, and removed if that fails. *)
AssertFails(q) ==
  /\ request[q].pc = "assert"
  /\ request' = [request EXCEPT ![q].pc = "write", ![q].op = "remove"]
  /\ UNCHANGED <<row, log, ops, faults, raced, revived, untold>>

AssertHolds(q) ==
  /\ request[q].pc = "assert"
  /\ request' = [request EXCEPT ![q].pc = "log"]
  /\ UNCHANGED <<row, log, ops, faults, raced, revived, untold>>

Below(S) == {j \in Ids : Exists(j) /\ row[j].parent \in S}
(* Mutant: the deletion of an object stops at its own children. *)
CascadeOnce(i) == {i} \cup Below({i})
(* ON DELETE CASCADE: an object, its fields and views, their rules and panels *)
Cascade(i) == LET children == {i} \cup Below({i}) IN children \cup Below(children)

(* save(entity) writes the whole entity, and inserts it again if it is gone;  *)
(* remove(entity) of a row that is gone deletes nothing.                      *)
Written(r, i) ==
  IF Deletes(r)
  THEN [j \in Ids |-> IF j \in Cascade(i) /\ Exists(i) THEN Deleted ELSE row[j]]
  ELSE [row EXCEPT ![i] = r.new]

Refused(r) == ~Deletes(r) /\ (Clashes(r.id, r.new) \/ ~Rooted(r.new))

(* Nothing tells of a view that was removed. *)
After(r, i) ==
  IF r.op = "remove" THEN Quiet
  ELSE [r EXCEPT !.pc = IF r.op = "upsert" THEN "assert" ELSE "log", !.id = i]

Write(q) ==
  LET r == request[q]
      free == {i \in Ids : row[i] = Unused}
      target == IF r.id # None THEN {r.id} ELSE {i \in free : \A j \in free : i <= j}
  IN /\ r.pc = "write" /\ ~Refused(r)
     /\ \E i \in target :
          /\ row' = Written(r, i)
          /\ raced' = IF r.overtaken THEN raced \cup {i} ELSE raced
          /\ revived' = IF ~Deletes(r) /\ row[i] = Deleted THEN revived \cup {i} ELSE revived
          /\ request' = [p \in Requests |->
               IF p = q THEN After(r, i)
               ELSE [request[p] EXCEPT !.overtaken = @ \/ request[p].pc \in {"check", "write"}]]
     /\ UNCHANGED <<log, ops, faults, untold>>

(* ER_DUP_ENTRY, ER_NO_REFERENCED_ROW, or any other failure of the statement *)
WriteRejected(q) ==
  LET r == request[q]
  IN /\ r.pc = "write"
     /\ Refused(r) \/ faults < MaxFaults
     /\ faults' = IF Refused(r) THEN faults ELSE faults + 1
     /\ request' = [request EXCEPT ![q] = Quiet]
     /\ untold' = IF r.op = "remove" THEN untold \cup {r.id} ELSE untold
     /\ UNCHANGED <<row, log, ops, raced, revived>>

(* The lifecycle service logs the global scope as tenant 0, the other as NULL. *)
(* A foreign key refuses tenant 0 where AddSystemTenant has inserted the       *)
(* system tenant under another id: 0 makes AUTO_INCREMENT give the next one,   *)
(* unless the server runs with NO_AUTO_VALUE_ON_ZERO.                          *)
MayBeRefused(r) == r.global /\ r.new.kind \in {"lifecycle", "transition"}

(* Mutant: a change is logged before it is made. *)
LogBeforehand(q) ==
  /\ request[q].pc \in {"write", "log"}
  /\ log' = IF Inserts(request[q]) THEN log \cup {request[q].id} ELSE log
  /\ request' = [request EXCEPT ![q] = Quiet]
  /\ UNCHANGED <<row, ops, faults, raced, revived, untold>>

LogConfigChange(q) ==
  /\ request[q].pc = "log"
  /\ log' = IF Inserts(request[q]) THEN log \cup {request[q].id} ELSE log
  /\ request' = [request EXCEPT ![q] = Quiet]
  /\ UNCHANGED <<row, ops, faults, raced, revived, untold>>

(* Requests that have inserted a row, and not yet logged it *)
Telling(q) ==
  \/ request[q].pc \in {"assert", "log"} /\ Inserts(request[q])
  \/ request[q].pc = "write" /\ request[q].op = "remove"

(* The caller is told of a failure; the change stays. *)
LogRejected(q) ==
  LET r == request[q]
  IN /\ r.pc = "log"
     /\ MayBeRefused(r) \/ faults < MaxFaults
     /\ faults' = IF MayBeRefused(r) THEN faults ELSE faults + 1
     /\ untold' = IF Inserts(r) THEN untold \cup {r.id} ELSE untold
     /\ request' = [request EXCEPT ![q] = Quiet]
     /\ UNCHANGED <<row, log, ops, raced, revived>>

Crash ==
  /\ faults < MaxFaults
  /\ faults' = faults + 1
  /\ untold' = untold \cup {request[q].id : q \in {p \in Requests : Telling(p)}}
  /\ request' = [q \in Requests |-> Quiet]
  /\ UNCHANGED <<row, log, ops, raced, revived>>

-----------------------------------------------------------------------------
(* What the tables hold. *)

(* No row is left below a parent that is gone, although a request may insert a *)
(* child, or save a row again, after the parent was deleted.                   *)
NoOrphans == \A i \in Ids : Exists(i) => Rooted(row[i])

(* No two rows have the same key below the same parent: the rules of a field,  *)
(* whose table has no unique key, only if one of them was written on a reading *)
(* that another request had overtaken, and the sets of the global scope, which *)
(* nothing compares.                                                           *)
KeysUnique ==
  \A i, j \in Ids :
    (i # j /\ Exists(i) /\ Exists(j) /\ Alike(row[i], row[j])) =>
      \/ row[i].kind = "rule" /\ {i, j} \cap raced # {}
      \/ row[i].kind = "set" /\ row[i].global

(* An object bound to a system table has no fields of its own ("Cannot set     *)
(* binding_mode to system_table while config_object_fields exist"), unless a   *)
(* field or the mode was written on a reading that had been overtaken.         *)
SystemTableHasNoFields ==
  \A o \in Ids :
    Is(o, "object") /\ row[o].mode = "system_table" =>
      \A f \in Fields(o) : {o, f} \cap raced # {}

-----------------------------------------------------------------------------

(* What the tables hold in the beginning has come about by itself. *)
Init ==
  /\ row \in Tables /\ raced = {}
  /\ NoOrphans /\ KeysUnique /\ SystemTableHasNoFields
  /\ request = [q \in Requests |-> Quiet]
  /\ log = {i \in Ids : Exists(i)}
  /\ ops = 0 /\ faults = 0 /\ revived = {} /\ untold = {}

Author(q) ==
  \/ \E key \in Keys : CreateTemplateSet(q, key) \/ CreateConfigRelationship(q, key)
  \/ \E i \in Ids, key \in Keys :
       \/ CreateConfigField(q, i, key)
       \/ CreateConfigFieldRule(q, i, key) \/ UpdateConfigFieldRule(q, i, key)
       \/ CreateConfigStatusMapping(q, i, key) \/ UpdateConfigStatusMapping(q, i, key)
       \/ CreateLifecycle(q, i, key) \/ CreateLifecycleTransition(q, i, key)
       \/ CreateConfigView(q, i, key) \/ CreateConfigViewPanel(q, i, key)
       \/ UpsertScopedConfigView(q, i, key) \/ InsertScopedConfigView(q, i, key)
       \/ \E mode \in Modes, on \in BOOLEAN :
            CreateConfigObject(q, i, key, mode, on) \/ UpdateConfigObject(q, i, key, mode, on)
  \/ \E i \in Ids, on \in BOOLEAN : UpdateTemplateSet(q, i, on)
  \/ \E i \in Ids :
       \/ UpdateConfigField(q, i) \/ UpdateLifecycle(q, i)
       \/ UpdateLifecycleTransition(q, i) \/ UpdateConfigView(q, i)
       \/ UpdateConfigViewPanel(q, i) \/ UpdateConfigRelationship(q, i)
       \/ SwitchScopedConfigView(q, i)
       \/ DeleteConfigObject(q, i) \/ DeleteConfigField(q, i)
       \/ DeleteConfigFieldRule(q, i) \/ DeleteConfigStatusMapping(q, i)
       \/ DeleteLifecycle(q, i) \/ DeleteLifecycleTransition(q, i)
       \/ DeleteConfigView(q, i) \/ DeleteConfigViewPanel(q, i)
       \/ DeleteConfigRelationship(q, i) \/ CreateCustomObjectInstance(q, i)
       \/ UpdateCustomObjectInstance(q, i) \/ DeleteCustomObjectInstance(q, i)

Serve(q) ==
  \/ Check(q) \/ CheckRefuses(q) \/ Write(q) \/ WriteRejected(q)
  \/ AssertHolds(q) \/ AssertFails(q) \/ LogConfigChange(q) \/ LogRejected(q)

(* (BeginIn asks Free too; here it saves TLC the operations of a busy request.) *)
Next == Crash \/ \E q \in Requests : (Free(q) /\ Author(q)) \/ Serve(q)

Spec == Init /\ [][Next]_vars

-----------------------------------------------------------------------------

(* The variables stay within their types. *)
TypeOK ==
  /\ row \in [Ids -> RowSet \cup {Unused, Deleted}]
  /\ request \in [Requests -> RequestSet]
  /\ ops \in 0 .. MaxOps /\ faults \in 0 .. MaxFaults
  /\ log \subseteq Ids /\ raced \subseteq Ids /\ revived \subseteq Ids /\ untold \subseteq Ids

(* The log tells of the creation of every row there is, but while its creator is *)
(* still at it, or if its creator ended in a failure after the insertion.  A     *)
(* view that fails its validation is removed without a word; only the save of a  *)
(* request that had read it in between brings it back.                           *)
RowsAreLogged ==
  \A i \in Ids : Exists(i) =>
    i \in log \cup revived \cup untold \/ \E q \in Requests : Telling(q) /\ request[q].id = i

=============================================================================
