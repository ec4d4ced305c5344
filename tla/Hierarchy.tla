----------------------------- MODULE Hierarchy ------------------------------
(***************************************************************************)
(* script/slang_hier.py: the instance hierarchy of an elaborated design,   *)
(* as a listing (one line per instance, or siblings of the same module     *)
(* collapsed) and as a graph of modules.                                   *)
(*                                                                         *)
(* A body is a module elaborated with given parameters; its members are    *)
(* instances, generate blocks and arrays of those.  Elaboration makes the  *)
(* body of an instance a function of its module and its parameters, and no *)
(* body contains itself.  Arrays of instances, which this design has none  *)
(* of, the reading of the JSON and the drawing of the lines are left out.  *)
(***************************************************************************)
EXTENDS Integers, SequencesExt, FiniteSetsExt, TLC

CONSTANTS
  Designs,   \* [tops, body: name -> [module, params, is_module, members]]
  Roots,     \* what --root may name; ANY for none
  ANY

VARIABLES
  ast, root, instances, params, interfaces,   \* the input and the options
  shown,                                      \* "no", "listed", "no root"
  lines, total,                               \* the listing
  nodes, edges                                \* the graph

inputs == <<ast, root, instances, params, interfaces>>
hvars == <<inputs, shown, lines, total, nodes, edges>>

Instance(name, body) == [kind |-> "Instance", name |-> name, body |-> body]
Block(name, members) == [kind |-> "GenerateBlock", name |-> name, members |-> members]
Array(name, blocks) == [kind |-> "GenerateBlockArray", name |-> name, members |-> blocks]

\* The instances below a sequence of members, with the labels of the generate
\* blocks they are in; the blocks of an array are told apart by their index.
RECURSIVE descend(_, _)

descend(members, scope) ==
  FlattenSeq([i \in DOMAIN members |->
    LET m == members[i]
    IN  CASE m.kind = "Instance" -> << [name |-> Append(scope, m.name), body |-> m.body] >>
          [] m.kind = "GenerateBlock" -> descend(m.members, Append(scope, m.name))
          [] m.kind = "GenerateBlockArray" ->
               FlattenSeq([j \in DOMAIN m.members |->
                 descend(m.members[j], scope \o <<m.name, ToString(j - 1)>>)])])

child_instances(b) == descend(ast.body[b].members, << >>)

\* The first of a sequence of found bodies, as a sequence of at most one.
First(found) == SubSeq(found, 1, IF found = << >> THEN 0 ELSE 1)

\* The first body of module m strictly below b, in the order of the source: a
\* child, then what is below it, then the next child.
RECURSIVE search(_, _)

search(b, m) ==
  LET kids == child_instances(b)
  IN  First(FlattenSeq([i \in DOMAIN kids |->
              IF ast.body[kids[i].body].module = m THEN <<kids[i].body>>
                                                   ELSE search(kids[i].body, m)]))

find_root ==
  IF root = ANY THEN First(ast.tops)
  ELSE First(FlattenSeq([i \in DOMAIN ast.tops |->
               IF ast.body[ast.tops[i]].module = root THEN <<ast.tops[i]>>
                                                      ELSE search(ast.tops[i], root)]))

\* Interfaces are dropped, with what is below them, unless asked for.
visible(kids) ==
  SelectSeq(kids, LAMBDA k : interfaces \/ ast.body[k.body].is_module)

Kids(b) == visible(child_instances(b))

-----------------------------------------------------------------------------
(* render.                                                                  *)

label_of(b) == <<ast.body[b].module, IF params THEN ast.body[b].params ELSE "">>

\* Fault: the parameters are shown and do not tell groups apart.
KeyModule(b) == ast.body[b].module

Key(b) == label_of(b)

\* Per group of siblings, in the order of their first: that one, and how many.
Groups(kids) ==
  LET firsts == SelectSeq([i \in DOMAIN kids |-> i],
                  LAMBDA i : \A j \in 1 .. i - 1 : Key(kids[j].body) # Key(kids[i].body))
  IN  [g \in DOMAIN firsts |->
         [name |-> << >>, body |-> kids[firsts[g]].body,
          count |-> Cardinality({j \in DOMAIN kids :
                      Key(kids[j].body) = Key(kids[firsts[g]].body)})]]

Items(b) ==
  IF instances
    THEN [i \in DOMAIN Kids(b) |->
            [name |-> Kids(b)[i].name, body |-> Kids(b)[i].body, count |-> 1]]
    ELSE Groups(Kids(b))

\* The lines for an item at a depth and for all below it: a line is an instance, or
\* the module of a group and its size.
RECURSIVE walk(_, _)
walk(item, depth) ==
  << [depth |-> depth, name |-> item.name, label |-> label_of(item.body),
      count |-> item.count] >>
    \o FlattenSeq([i \in DOMAIN Items(item.body) |->
                     walk(Items(item.body)[i], depth + 1)])

\* walk adds up what it lists below each line; the root is not in it.
Total(ls) == FoldLeft(LAMBDA n, l : n + l.count, 0, Tail(ls))

-----------------------------------------------------------------------------
(* render_dot.                                                              *)

\* Fault: an edge is recorded when its module is first seen.
EdgeWhenNew(g, e, n) ==
  IF e[2] \in ToSet(g.nodes) THEN g ELSE [g EXCEPT !.edges = (e :> n) @@ @]

AddEdge(g, e, n) ==
  [g EXCEPT !.edges =
     (e :> n + IF e \in DOMAIN g.edges THEN g.edges[e] ELSE 0) @@ @]

\* The graph g, extended by the module of b and by what its kids reach: a module
\* is expanded once, in the first body in which it is met.
RECURSIVE visit(_, _)
visit(g, b) ==
  LET modules == [i \in DOMAIN Kids(b) |-> ast.body[Kids(b)[i].body].module]
      count(c) == Cardinality({i \in DOMAIN modules : modules[i] = c})
      firsts == SelectSeq([i \in DOMAIN modules |-> i],
                          LAMBDA i : \A j \in 1 .. i - 1 : modules[j] # modules[i])
      Child(h, i) ==
        LET with == AddEdge(h, <<ast.body[b].module, modules[i]>>, count(modules[i]))
        IN  IF modules[i] \in ToSet(h.nodes) THEN with ELSE visit(with, Kids(b)[i].body)
  IN  FoldLeft(Child, [g EXCEPT !.nodes = Append(@, ast.body[b].module)], firsts)

-----------------------------------------------------------------------------
HierarchyInit ==
  /\ ast \in Designs /\ root \in Roots
  /\ instances \in BOOLEAN /\ params \in BOOLEAN /\ interfaces \in BOOLEAN
  /\ shown = "no"
  /\ lines = << >> /\ total = 0 /\ nodes = << >> /\ edges = << >>

NotFound ==
  /\ shown = "no" /\ find_root = << >>
  /\ shown' = "no root"
  /\ UNCHANGED <<inputs, lines, total, nodes, edges>>

Show ==
  /\ shown = "no" /\ find_root # << >>
  /\ shown' = "listed"
  /\ lines' = walk([name |-> << >>, body |-> find_root[1], count |-> 1], 0)
  /\ total' = Total(lines')
  /\ UNCHANGED <<inputs, nodes, edges>>

\* --dot.
ShowDot ==
  /\ shown = "no" /\ find_root # << >>
  /\ shown' = "drawn"
  /\ LET g == visit([nodes |-> << >>, edges |-> << >>], find_root[1])
     IN  nodes' = g.nodes /\ edges' = g.edges
  /\ UNCHANGED <<inputs, lines, total>>

HierarchyNext == NotFound \/ Show \/ ShowDot

HierarchySpec == HierarchyInit /\ [][HierarchyNext]_hvars

-----------------------------------------------------------------------------
\* The instances below a body, as the positions of the kids on the way to them.
RECURSIVE Paths(_)
Paths(b) ==
  {<< >>} \cup UNION {{<<i>> \o p : p \in Paths(Kids(b)[i].body)} : i \in DOMAIN Kids(b)}

BodyAt(path) == FoldLeft(LAMBDA b, i : Kids(b)[i].body, find_root[1], path)

\* How many instances line k stands for: its own count times those of the lines it
\* is nested in.
Weight(k) ==
  LET line(d) == CHOOSE j \in 1 .. k :
                   lines[j].depth = d /\ \A i \in j + 1 .. k : lines[i].depth > d
  IN  FoldFunction(LAMBDA m, n : m * n, 1, [d \in 0 .. lines[k].depth |-> lines[line(d)].count])

\* Collapsing siblings loses no instance when the parameters tell them apart:
\* multiplied out, the listing has as many instances of each kind as the design;
\* --instances has them all, and its total is their number.
NothingLost ==
  shown = "listed" /\ (instances \/ params) =>
    /\ \A label \in {label_of(b) : b \in DOMAIN ast.body} :
         FoldFunction(LAMBDA m, n : m + n, 0, [k \in {n \in DOMAIN lines : lines[n].label = label} |-> Weight(k)])
           = Cardinality({p \in Paths(find_root[1]) : label_of(BodyAt(p)) = label})
    /\ instances => total = Cardinality(Paths(find_root[1])) - 1

Modules(b) == [i \in DOMAIN Kids(b) |-> ast.body[Kids(b)[i].body].module]
Times(b, m) == Cardinality({i \in DOMAIN Modules(b) : Modules(b)[i] = m})

\* Every body of a module instantiates the same modules, as often.
OneBodyPerModule ==
  \A b, c \in DOMAIN ast.body : ast.body[b].module = ast.body[c].module =>
    \A m \in ToSet(Modules(b)) \cup ToSet(Modules(c)) : Times(b, m) = Times(c, m)

\* The graph has every module below the root once and an edge for every "parent
\* instantiates child", from each of the parents of a shared module, with its
\* number (slang_hier.py:166-167, 190), when the bodies of a module agree: a module
\* is expanded in one of them only.
GraphComplete ==
  shown = "drawn" /\ OneBodyPerModule =>
    LET bodies == {BodyAt(p) : p \in Paths(find_root[1])}
    IN  /\ IsInjective(nodes)
        /\ ToSet(nodes) = {ast.body[b].module : b \in bodies}
        /\ DOMAIN edges = UNION {{<<ast.body[b].module, m>> : m \in ToSet(Modules(b))} :
                                   b \in bodies}
        /\ \A b \in bodies : \A m \in ToSet(Modules(b)) :
             edges[<<ast.body[b].module, m>>] = Times(b, m)

=============================================================================
