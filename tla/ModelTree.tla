------------------------------- MODULE ModelTree -------------------------------
(***************************************************************************)
(* Stage 0 of the equivalence workflow (stage0_scaffolding.py): the trees  *)
(* of modules of a reference model and of its port, compressed so that     *)
(* repeated layers are one node, expanded again to the flat list of paths  *)
(* that later stages look modules up in, and the mapping of components.    *)
(*                                                                         *)
(* A module is [name, type, children]; a name is its rank in the order of  *)
(* strings, and a path the sequence of names that the code joins with      *)
(* dots.  Siblings have different names.                                   *)
(***************************************************************************)
EXTENDS Naturals, SequencesExt, FiniteSets

CONSTANTS
  SourceModels,  \* model hierarchies of references
  TargetModels   \* and of ports

VARIABLES
  source, target,  \* the two hierarchies
  saved,           \* per side, the artifacts on disk: compressed tree, flat paths
  mapping          \* of leaves, as <<reference path, port path>>

treeVars == <<source, target, saved, mapping>>

\* The hash of a compressed node.  A compressed child has `names` and no
\* `name`, so of the children only types and hashes count.
\* Mutant: a layer is told by its class.
ShapeOfType(node) == <<node.type>>
RECURSIVE Shape(_)
Shape(node) == <<node.type>> \o [i \in DOMAIN node.children |-> Shape(node.children[i])]

\* Children of one hash become the first of them, under all their names.
Deduplicated(kids) ==
  LET Alike(i) == SelectSeq(kids, LAMBDA k : Shape(k) = Shape(kids[i]))
      firsts == SelectSeq([i \in DOMAIN kids |-> i],
                          LAMBDA i : \A j \in 1..i - 1 : Shape(kids[j]) # Shape(kids[i]))
  IN [n \in DOMAIN firsts |->
        LET alike == Alike(firsts[n])
        IN [kids[firsts[n]] EXCEPT !.names = [k \in DOMAIN alike |-> alike[k].names[1]]]]

\* compress_module_tree
RECURSIVE Compressed(_)
Compressed(node) ==
  [type |-> node.type, names |-> <<node.name>>,
   children |-> Deduplicated([i \in DOMAIN node.children |-> Compressed(node.children[i])])]

\* expand_flat_paths
RECURSIVE FlatPaths(_, _)
FlatPaths(node, prefixes) ==
  LET here == FlattenSeq([p \in DOMAIN prefixes |->
                            [n \in DOMAIN node.names |-> Append(prefixes[p], node.names[n])]])
  IN here \o FlattenSeq([c \in DOMAIN node.children |-> FlatPaths(node.children[c], here)])

-----------------------------------------------------------------------------
(* The component mapping. *)

\* named_modules, where there is nothing below.
RECURSIVE Leaves(_, _)
Leaves(node, prefix) ==
  LET path == Append(prefix, node.name)
  IN IF node.children = <<>> THEN {[path |-> path, type |-> node.type]}
     ELSE UNION {Leaves(node.children[i], path) : i \in DOMAIN node.children}

\* Joined by dots, which sort before every letter of a name.
Precedes(p, q) ==
  \/ IsStrictPrefix(p, q)
  \/ \E i \in DOMAIN p \cap DOMAIN q : p[i] < q[i] /\ \A j \in 1..i - 1 : p[j] = q[j]

Paths(leaves, type) == {l.path : l \in {l \in leaves : l.type = type}}

\* build_leaf_mapping_by_type: the leaves of a type, in the order of their
\* paths, if there are as many on both sides.
LeafMapping(ref, port) ==
  UNION {LET theirs == Paths(port, type)
             Place(p, all) == Cardinality({q \in all : Precedes(q, p)})
         IN IF Cardinality(Paths(ref, type)) # Cardinality(theirs) THEN {}
            ELSE {<<p, q>> \in Paths(ref, type) \X theirs : Place(p, Paths(ref, type)) = Place(q, theirs)} :
         type \in {l.type : l \in ref}}

\* expand_entry: variables stand for names, and every use of one in both
\* paths takes the same value; `values` gives each variable its list.
\* A segment is [var] or [name].
Uses(paths) == {s.var : s \in {s \in UNION {ToSet(p) : p \in paths} : "var" \in DOMAIN s}}
ExpandEntry(entry, values) ==
  LET Put(path, combo) ==
        [i \in DOMAIN path |-> IF "var" \in DOMAIN path[i] THEN combo[path[i].var] ELSE path[i].name]
      used == Uses({entry[1], entry[2]})
      combos == {c \in [used -> UNION {ToSet(values[v]) : v \in used}] : \A v \in used : c[v] \in ToSet(values[v])}
  IN {<<Put(entry[1], c), Put(entry[2], c)>> : c \in combos}

-----------------------------------------------------------------------------
(* run_stage0.py, then whoever asks for a first mapping. *)

Artifacts(model) ==
  [compressed |-> Compressed(model), paths |-> FlatPaths(Compressed(model), <<<<>>>>)]

TreeInit ==
  /\ source \in SourceModels /\ target \in TargetModels \cup {source}
  /\ saved = <<>> /\ mapping = {}

SaveSource ==
  /\ saved = <<>> /\ saved' = <<Artifacts(source)>>
  /\ UNCHANGED <<source, target, mapping>>

SaveTarget ==
  /\ Len(saved) = 1 /\ saved' = Append(saved, Artifacts(target))
  /\ UNCHANGED <<source, target, mapping>>

MapLeaves ==
  /\ Len(saved) = 2 /\ mapping = {}
  /\ mapping' = LeafMapping(Leaves(source, <<>>), Leaves(target, <<>>))
  /\ UNCHANGED <<source, target, saved>>

TreeNext == SaveSource \/ SaveTarget \/ MapLeaves

-----------------------------------------------------------------------------
(* Properties. *)

\* What is below a module, and how it looks once repetitions are left out.
RECURSIVE Below(_)
Below(node) ==
  UNION {{<<node.children[i].name>>} \cup {<<node.children[i].name>> \o p : p \in Below(node.children[i])} :
           i \in DOMAIN node.children}
RECURSIVE Looks(_)
Looks(node) ==
  LET all == [i \in DOMAIN node.children |-> Looks(node.children[i])]
  IN <<node.type>> \o SelectSeq([i \in DOMAIN all |-> IF all[i] \in {all[j] : j \in 1..i - 1} THEN <<>> ELSE all[i]],
                                LAMBDA l : l # <<>>)

\* No sibling is taken for another one that has other modules below it.
RECURSIVE Faithful(_)
Faithful(node) ==
  /\ \A i, j \in DOMAIN node.children :
       Looks(node.children[i]) = Looks(node.children[j]) => Below(node.children[i]) = Below(node.children[j])
  /\ \A i \in DOMAIN node.children : Faithful(node.children[i])

\* A compressed tree loses nothing: expanded, it names every module of the
\* model once, exactly if no two siblings that look alike after their own
\* repetitions are left out have different modules below them.
TreesAreKept ==
  \A side \in DOMAIN saved :
    LET model == <<source, target>>[side]
        real == {<<model.name>>} \cup {<<model.name>> \o p : p \in Below(model)}
    IN (ToSet(saved[side].paths) = real /\ Len(saved[side].paths) = Cardinality(real)) <=> Faithful(model)

\* An entry per leaf of a compressed tree, with a variable wherever a node has
\* several names: what STAGE0.md asks the mapping to be written with.
RECURSIVE Templates(_, _)
Templates(node, prefix) ==
  LET path == Append(prefix, IF Len(node.names) > 1 THEN [var |-> <<Len(prefix), node.names>>] ELSE [name |-> node.names[1]])
  IN IF node.children = <<>> THEN {path}
     ELSE UNION {Templates(node.children[i], path) : i \in DOMAIN node.children}

\* "Simple type-based matching (works for identical architectures)"
\* (stage0_scaffolding.py): a model's leaves correspond to themselves, and no
\* leaf of any port to two; entries with variables written off a faithful tree
\* expand to the same correspondence.
LeavesCorrespond ==
  mapping # {} =>
    /\ \A x, y \in mapping : x[1] = y[1] <=> x[2] = y[2]
    /\ source = target =>
         /\ mapping = {<<l.path, l.path>> : l \in Leaves(source, <<>>)}
         /\ Faithful(source) =>
              mapping = UNION {ExpandEntry(<<t, t>>, [v \in Uses({t}) |-> v[2]]) :
                                 t \in Templates(saved[1].compressed, <<>>)}

\* What the later stages look modules up in is the model.
ScaffoldIsExact == TreesAreKept /\ LeavesCorrespond
=============================================================================
