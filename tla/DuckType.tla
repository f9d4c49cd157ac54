------------------------------ MODULE DuckType ------------------------------
(***************************************************************************)
(* SchemaManager.DuckType (src/k8s/schema_manager.go): the scalars of a    *)
(* rendered object, or of a patch, are converted to the types that the     *)
(* schema of its kind has for their fields.  For every scalar the schema   *)
(* is walked from its root along the scalar's path.                        *)
(*                                                                         *)
(* A schema is a graph: nodes with properties, additional properties,      *)
(* items and references to definitions, which may be cyclic.  A path is    *)
(* the sequence of the keys and indexes that lead to a scalar.             *)
(***************************************************************************)
EXTENDS TypedField, Sequences, FiniteSets

CONSTANTS
  Nodes,      \* the schemas that occur in schemas
  Schema,     \* what is in them
  Parts,      \* keys and indexes
  Indexes,    \* the indexes among them
  Paths,      \* the places of scalars
  Place,      \* Place[r][p][j]: the schema for the first j parts of p in r
  Escape,     \* what a key is looked up as: its dots become underscores
  Kinds,      \* groups, versions and kinds
  Named,      \* the name the API server gives the definition of a kind
  Guessed,    \* the name getDefinitionName makes up for it
  Published,  \* the definitions of the API server, by name
  Crd,        \* the schema of the first version of a CRD that fits a kind
  Objects,    \* rendered objects: scalars by path, without what is empty
  None,
  Broken      \* a reference that leads nowhere

Node == [types: SUBSET TypeNames, format: Formats,
         anyOf: [types: SUBSET TypeNames, format: Formats],
         props: [Parts \ Indexes -> Nodes \cup {None}],
         addl: Nodes \cup {None}, items: Nodes \cup {None},
         ref: Nodes \cup {None, Broken}]

\* A reference has nothing but its target, and the target is no reference.
ASSUME SchemaAssumption ==
  /\ None \notin Nodes \cup Kinds /\ Broken \notin Nodes \cup {None}
  /\ Schema \in [Nodes -> Node]
  /\ \A n \in Nodes : Sound(Schema[n]) /\ Sound(Schema[n].anyOf)
  /\ \A n \in Nodes : Schema[n].ref # None =>
       /\ Schema[n].types = {}
       /\ (Schema[n].ref \in Nodes => Schema[Schema[n].ref].ref = None)

\* The names that are published are those of definitions, and a name that is
\* made up for a kind is no other kind's.
ASSUME KindsAssumption ==
  /\ DOMAIN Published \subseteq {Named[k] : k \in Kinds}
  /\ \A d \in DOMAIN Published : Published[d] \in Nodes /\ Schema[Published[d]].ref = None
  /\ Crd \in [Kinds -> Nodes \cup {None}]
  /\ \A k \in Kinds : Crd[k] # None => Schema[Crd[k]].ref = None
  /\ \A k \in Kinds : Guessed[k] \in DOMAIN Published => Guessed[k] = Named[k]

ASSUME PathsAssumption ==
  /\ Indexes \subseteq Parts /\ Paths \subseteq Seq(Parts) \ {<<>>}
  /\ Escape \in [Parts -> Parts]
  /\ \A x \in Parts : Escape[x] \in Indexes <=> x \in Indexes
  /\ \A o \in Objects :
       /\ DOMAIN o \subseteq Paths /\ IsFiniteSet(DOMAIN o)
       /\ \A p \in DOMAIN o : o[p] \in Scalar

-----------------------------------------------------------------------------
(* What describes a place, by the meaning of schemas.                      *)

\* The schema that n stands for.
Target(n) == IF n \in Nodes /\ Schema[n].ref # None THEN Schema[n].ref ELSE n

\* What n says of the part x of an object or array.
Described(n, x) ==
  LET s == Schema[Target(n)]
      kept == IF "object" \in s.types THEN s.addl ELSE None
  IN IF Target(n) \notin Nodes THEN None
     ELSE IF x \in Indexes THEN IF "array" \in s.types THEN s.items ELSE None
     ELSE IF s.props[x] # None THEN s.props[x] ELSE kept

Roots == {Published[d] : d \in DOMAIN Published} \cup ({Crd[k] : k \in Kinds} \ {None})

ASSUME PlaceAssumption ==
  \A r \in Roots, p \in Paths :
    /\ Place[r][p][0] = r
    /\ \A j \in 1..Len(p) : Place[r][p][j] = Described(Place[r][p][j - 1], p[j])

-----------------------------------------------------------------------------

VARIABLES
  pc,       \* what DuckType is doing
  kind,     \* its arguments: a kind
  given,    \* and an object, as it was
  object,   \* and as the caller has it
  root,     \* the schema of the kind
  todo,     \* the scalars to be converted
  new,      \* the new object
  look,     \* where findTypeForKey is: what for, at which node and part
  field,    \* what it has found
  outcome   \* how DuckType ended

args == <<kind, given>>
vars == <<pc, kind, given, object, root, todo, new, look, field, outcome>>

NoObject == [p \in {} |-> Null]
NoLook == [at |-> <<>>, node |-> None, k |-> 0]

Init ==
  /\ pc = "idle" /\ kind = None /\ given = NoObject /\ object = NoObject
  /\ root = None /\ todo = {} /\ new = NoObject
  /\ look = NoLook /\ field = NoType /\ outcome = "none"

\* The next object is rendered, or the next patch.
Call(k, o) ==
  /\ pc = "idle"
  /\ pc' = "schema" /\ kind' = k /\ given' = o /\ object' = o
  /\ root' = None /\ todo' = DOMAIN o /\ new' = NoObject
  /\ look' = NoLook /\ field' = NoType /\ outcome' = "none"

\* An error: the callers log it and go on with the object as it is.
Fail ==
  /\ pc' = "returned" /\ outcome' = "failed"
  /\ UNCHANGED <<args, object, root, todo, new>>

\* The operator dies, and another one is started.
Panic ==
  /\ pc' = "returned" /\ outcome' = "panicked"
  /\ UNCHANGED <<args, object, root, todo, new, look, field>>

\* The caller goes on, with the error logged, or the operator starts again.
Return ==
  /\ pc = "returned"
  /\ pc' = "idle" /\ kind' = None /\ given' = NoObject /\ object' = NoObject
  /\ root' = None /\ todo' = {} /\ new' = NoObject
  /\ look' = NoLook /\ field' = NoType /\ outcome' = "none"

HasProperties(n) == \E x \in Parts \ Indexes : Schema[n].props[x] # None

\* FindSchemaForKind, for what the API server publishes, and not empty.
IsPublished ==
  Guessed[kind] \in DOMAIN Published /\ HasProperties(Published[Guessed[kind]])
FindSchemaForKind ==
  /\ pc = "schema" /\ IsPublished
  /\ root' = Published[Guessed[kind]] /\ pc' = "visit"
  /\ UNCHANGED <<args, object, todo, new, look, field, outcome>>

\* Otherwise the CRDs are listed, which may fail.
FindSchemaForCrd ==
  /\ pc = "schema" /\ ~IsPublished
  /\ \/ /\ Crd[kind] # None
        /\ root' = Crd[kind] /\ pc' = "visit"
        /\ UNCHANGED <<args, object, todo, new, look, field, outcome>>
     \/ Fail /\ UNCHANGED <<look, field>>

-----------------------------------------------------------------------------
(* duckType.                                                               *)

\* The keys of a map come in any order.  (So do the elements of an array here.)
Visit(p) ==
  /\ pc = "visit" /\ p \in todo
  /\ look' = [at |-> p, node |-> root, k |-> 0]
  /\ field' = NoType
  /\ IF given[p].kind \in {"null", "time"}
       THEN pc' = "convert" ELSE pc' = "walk"
  /\ UNCHANGED <<args, object, root, todo, new, outcome>>

\* A scalar's new value, or an error that ends it all.  (First without those
\* that are null, for a mutant.)
AssignDropsNull ==
  /\ pc = "convert"
  /\ LET p == look.at
         v == Convert(given[p], field)
     IN \/ /\ v # Error
           /\ new' = IF v = Null THEN new
                     ELSE [q \in DOMAIN new \cup {p} |-> IF q = p THEN v ELSE new[q]]
           /\ todo' = todo \ {p}
           /\ pc' = "visit"
           /\ UNCHANGED <<args, object, root, look, field, outcome>>
        \/ v = Error /\ Fail /\ UNCHANGED <<look, field>>
Assign ==
  /\ pc = "convert"
  /\ LET p == look.at
         v == Convert(given[p], field)
     IN \/ /\ v # Error
           /\ new' = [q \in DOMAIN new \cup {p} |-> IF q = p THEN v ELSE new[q]]
           /\ todo' = todo \ {p}
           /\ pc' = "visit"
           /\ UNCHANGED <<args, object, root, look, field, outcome>>
        \/ v = Error /\ Fail /\ UNCHANGED <<look, field>>

\* DuckType is done.
Finish ==
  /\ pc = "visit" /\ todo = {}
  /\ object' = new /\ outcome' = "done" /\ pc' = "returned"
  /\ UNCHANGED <<args, root, todo, new, look, field>>

-----------------------------------------------------------------------------
(* findTypeForKey: one call is one step.                                   *)

\* FindTypeForKeyFromSchema: the type, or that of the alternatives.
FieldOf(n) ==
  LET s == Schema[n]
      own == s.types # {} \/ s.format # ""
  IN [known |-> TRUE,
      types |-> IF own THEN s.types ELSE s.anyOf.types,
      format |-> IF own THEN s.format ELSE s.anyOf.format]

\* The walk ends with a type, or without: then the value stays as it is.
Found(f) ==
  /\ pc' = "convert" /\ field' = f /\ UNCHANGED look

\* resolvePointer, where there is one.
Resolved(n) == IF Schema[n].ref = None THEN n ELSE Schema[n].ref

\* The last part has been looked up.
FoundAt(n) ==
  IF Resolved(n) = Broken THEN Found(NoType) ELSE Found(FieldOf(Resolved(n)))

\* On to the part j, in n or what it refers to.  (First without getting any
\* further, and without the reference, for mutants.)
GoNowhere(n, j) ==
  IF Resolved(n) = Broken
    THEN Found(NoType)
    ELSE /\ look' = [look EXCEPT !.node = Resolved(n)]
         /\ UNCHANGED <<pc, field>>
GoPast(n, j) ==
  /\ look' = [look EXCEPT !.node = n, !.k = j]
  /\ UNCHANGED <<pc, field>>
GoOn(n, j) ==
  IF Resolved(n) = Broken
    THEN Found(NoType)
    ELSE /\ look' = [look EXCEPT !.node = Resolved(n), !.k = j]
         /\ UNCHANGED <<pc, field>>

\* The part that is looked up is a key of an object, or is taken for one.
Property(n, x) ==
  LET s == Schema[n]
      own == IF x \in Indexes THEN None ELSE s.props[x]
  IN IF own # None THEN own
     ELSE IF "object" \in s.types THEN s.addl ELSE None

\* No property of that name: free, or an error.
NotThere == Found(NoType)

\* The next part is an index, or taken for one, and is dropped.  The type of
\* an array's last element is that of its items, reference or not.
Element(n, j) ==
  CASE Schema[n].items = None ->
         Panic
    [] Schema[n].items # None /\ j = Len(look.at) ->
         Found(FieldOf(Schema[n].items)) /\ UNCHANGED outcome
    [] Schema[n].items # None /\ j # Len(look.at) ->
         GoOn(Schema[n].items, j) /\ UNCHANGED outcome

Walk ==
  /\ pc = "walk"
  /\ LET j == look.k + 1
         child == Property(look.node, Escape[look.at[j]])
         array == child # None /\ "array" \in Schema[child].types
     IN \/ child = None /\ NotThere /\ UNCHANGED outcome
        \/ child # None /\ j = Len(look.at) /\ FoundAt(child) /\ UNCHANGED outcome
        \/ array /\ j # Len(look.at) /\ Element(child, j + 1)
        \/ child # None /\ ~array /\ j # Len(look.at) /\ GoOn(child, j) /\ UNCHANGED outcome
  /\ UNCHANGED <<args, object, root, todo, new>>

-----------------------------------------------------------------------------

Work == \/ FindSchemaForKind \/ FindSchemaForCrd \/ (\E p \in todo : Visit(p)) \/ Walk
        \/ Assign \/ Finish \/ Return

Next == (\E k \in Kinds, o \in Objects : Call(k, o)) \/ Work

\* DuckType is a function that runs.
Spec == Init /\ [][Next]_vars /\ WF_vars(Work)

-----------------------------------------------------------------------------
(* Properties.                                                             *)

\* The variables have their types.
TypeOK ==
  /\ pc \in {"idle", "schema", "visit", "walk", "convert", "returned"}
  /\ kind \in Kinds \cup {None} /\ given \in Objects \cup {NoObject}
  /\ outcome \in {"none", "done", "failed", "panicked"}
  /\ (pc # "idle" => kind \in Kinds) /\ (outcome = "none" <=> pc # "returned")
  /\ root \in Roots \cup {None} /\ (pc \in {"visit", "walk", "convert"} => root # None)
  /\ todo \subseteq DOMAIN given /\ DOMAIN new = DOMAIN given \ todo
  /\ \A p \in DOMAIN new : new[p] \in Value
  /\ DOMAIN object = DOMAIN given
  /\ field \in Field
  /\ look \in [at: Paths \cup {<<>>}, node: Nodes \cup {None}, k: Nat]
  /\ (pc \in {"walk", "convert"} => look.at \in todo)
  /\ (pc = "walk" => look.node \in Nodes /\ look.k < Len(look.at))

\* The path fits its schema, and the walk can follow it: arrays are not nested
\* and not behind a reference, an element that is a scalar is no reference,
\* and there is no dot in a key.
Plain(r, p) ==
  LET at == Place[r][p]
  IN \A j \in 1..Len(p) :
       /\ Escape[p[j]] = p[j] /\ at[j] \in Nodes /\ Target(at[j]) \in Nodes
       /\ (p[j] \in Indexes <=> "array" \in Schema[Target(at[j - 1])].types)
       /\ (p[j] \in Indexes =>
             /\ j > 1 /\ p[j - 1] \notin Indexes
             /\ Schema[at[j - 1]].ref = None
             /\ (j = Len(p) => Schema[at[j]].ref = None))

OwnField(r, p) == FieldOf(Target(Place[r][p][Len(p)]))

\* Where the code converts to a wider type than the field's: Atoi for an
\* int32, and no sign for an int64.
Wider(f, g) ==
  \/ f.format = "int32" /\ g.kind = "string"
  \/ f.format = "int64" /\ g.kind = "uint"

\* When DuckType is done, every scalar on a plain path is what the schema says
\* of its place, or null: findTypeForKey has found the node that describes it,
\* through properties, items, references and back, and the conversion kept to
\* the type.
WellTyped ==
  outcome = "done" => \A p \in DOMAIN object :
    (Plain(root, p) /\ object[p].kind # "null")
      => (Admits(OwnField(root, p), object[p]) \/ Wider(OwnField(root, p), given[p]))

\* What a scalar denotes outlives its conversion: a whole number, however it
\* is spelled, is still that number, but for one that a boolean field takes for
\* its truth, and for a string in a double field, which is the nearest float64
\* beyond 2^53; so is a string with decimals that no float64 has.  Other
\* decimals in strings stay, and NaN stays NaN; a number that was read as a
\* float may be cut to an int64 (the transform functions).
NumbersKept ==
  outcome = "done" => \A p \in DOMAIN object :
    LET v == object[p]
        g == given[p]
        float == v.kind = "float" /\ v.form = "number" /\ Near(v.n, g.n)
    IN /\ (g.form \in Spellings /\ (g.kind = "float" => g.n \in Signed(Half64)))
            => (v.kind = "bool" \/ (v.form \in Spellings /\ v.n = g.n) \/ float)
       /\ (g.kind = "string" /\ g.form \in {"fraction", "special"})
            => (v.form = g.form /\ v.n = g.n)
       /\ (g.kind = "string" /\ g.form = "nearly")
            => ((v.form = "nearly" /\ v.n = g.n) \/ float)

\* An object is converted as a whole or stays as it was: one scalar that cannot
\* be converted stops all.  On a plain path that is never one the field had
\* room for; a kind is given up only when it is published under another name
\* than the guessed one, or not at all; and the operator only dies of an array
\* without items.
FailsForCause ==
  /\ outcome # "done" => object = given
  /\ (outcome = "failed" /\ root = None)
       => \A d \in DOMAIN Published :
            d = Named[kind] => (Guessed[kind] # d \/ ~HasProperties(Published[d]))
  /\ (outcome = "failed" /\ root # None /\ Plain(root, look.at))
       => ~HasRoom(OwnField(root, look.at), given[look.at])
  /\ outcome = "panicked"
       => \E n \in Nodes : "array" \in Schema[n].types /\ Schema[n].items = None

Phase == [schema |-> 1, visit |-> 2, walk |-> 3, convert |-> 4, returned |-> 5, idle |-> 6]

\* What makes a call end, and how: whatever the schemas refer to, each step
\* leaves fewer scalars to convert, or comes further with the one at hand, one
\* part of its path at a time; it has one schema for all of them, and what was
\* converted is not converted again (duckType, findTypeForKey).
CallGetsOn ==
  [][pc # "idle" =>
       /\ \/ Cardinality(todo') < Cardinality(todo)
          \/ todo' = todo /\ Phase[pc'] > Phase[pc]
          \/ /\ todo' = todo /\ pc = "walk" /\ pc' = "walk" /\ look'.at = look.at
             /\ look.k < look'.k /\ look'.k < Len(look.at)
       /\ pc # "returned" =>
            /\ UNCHANGED args /\ (pc # "schema" => UNCHANGED root)
            /\ \A p \in DOMAIN new : new'[p] = new[p]]_vars

\* DuckType ends for every object, also where the schema refers to itself.
Ends == []<>(pc = "idle")
=============================================================================
