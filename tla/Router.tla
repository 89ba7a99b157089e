-------------------------------- MODULE Router --------------------------------
(***************************************************************************)
(* Router: the table of routes that the handlers of get(), post() ... are  *)
(* put in, and the handler that a request is given to.                     *)
(*                                                                         *)
(* A path is a sequence of tokens, "/" and segments.  A route whose path   *)
(* has no ":" segment is in a hash map, the others are in a tree whose     *)
(* nodes are named by the labels on the way to them; nodes are listed in   *)
(* the order they were made, which is the order children are visited in.   *)
(* A handler is the number of the route that it came with.                 *)
(***************************************************************************)
EXTENDS Integers, Sequences, FiniteSets, SequencesExt

CONSTANTS
  Methods,    \* GET, POST, ... : the methods routes can have
  Params,     \* segments with a leading ":" and a valid name
  BadParams,  \* segments with a leading ":" and an invalid name
  RoutePaths, \* paths routes are added with
  MaxRoutes   \* bound: routes

\* A path begins with "/", and between two segments there is one.
IsPath(p) ==
  /\ p \in Seq(Range(p)) /\ p # <<>> /\ p[1] = "/"
  /\ \A i \in 1..Len(p) - 1 : p[i] = "/" \/ p[i + 1] = "/"

\* What the paths of routes are made of.
Tokens == UNION {Range(p) : p \in RoutePaths}

ASSUME RoutePathsAssumption == \A p \in RoutePaths : IsPath(p)

VARIABLES
  routes,   \* history: the routes, in the order they were added
  statics,  \* staticRoutes_: path, method and handler
  nodes,    \* the nodes of the tree below root_, as paths of labels
  leaves    \* handlers of the nodes: node, method and handler

routerVars == <<routes, statics, nodes, leaves>>

\* normalizePath(): of "/" after "/" nothing is kept, a last one goes.
NormalizePath(path) ==
  LET out[i \in 0..Len(path)] ==
        IF i = 0 THEN <<>>
        ELSE IF path[i] = "/" /\ i > 1 /\ path[i - 1] = "/" THEN out[i - 1]
        ELSE Append(out[i - 1], path[i])
      norm == out[Len(path)]
  IN IF Len(norm) > 1 /\ Last(norm) = "/" THEN Front(norm) ELSE norm

SplitPath(path) ==
  LET segs[i \in 0..Len(path)] ==
        IF i = 0 THEN <<>> ELSE IF path[i] = "/" THEN segs[i - 1] ELSE Append(segs[i - 1], path[i])
  IN segs[Len(path)]

\* The label of a segment: a parameter with an invalid name is taken literally.
Label(seg) == [seg |-> seg, param |-> seg \in Params]
Labels(segs) == [i \in DOMAIN segs |-> Label(segs[i])]

RouterInit == routes = <<>> /\ statics = {} /\ nodes = <<>> /\ leaves = {}

\* findOrCreate() for every node on the way.
Created(labels) ==
  LET made[i \in 0..Len(labels)] ==
        IF i = 0 THEN nodes
        ELSE LET before == made[i - 1]
                 node == SubSeq(labels, 1, i)
             IN IF node \in Range(before) THEN before ELSE Append(before, node)
  IN made[Len(labels)]

\* Mutant: the handler that was there first stays.
WithFirst(table, key, m, h) ==
  IF \E e \in table : e.key = key /\ e.m = m THEN table ELSE table \cup {[key |-> key, m |-> m, h |-> h]}

\* A new handler of the same path and method replaces the old one.
With(table, key, m, h) == {e \in table : ~(e.key = key /\ e.m = m)} \cup {[key |-> key, m |-> m, h |-> h]}

\* Some segment begins with ":".
HasParam(segs) == \E i \in DOMAIN segs : segs[i] \in Params \cup BadParams

AddRoute(m, path) ==
  LET norm == NormalizePath(path)
      segs == SplitPath(norm)
      h == Len(routes) + 1
  IN /\ Len(routes) < MaxRoutes
     /\ routes' = Append(routes, [m |-> m, segs |-> segs])
     /\ IF ~HasParam(segs) /\ segs # <<>>
        THEN statics' = With(statics, norm, m, h) /\ UNCHANGED <<nodes, leaves>>
        ELSE /\ nodes' = Created(Labels(segs))
             /\ leaves' = With(leaves, Labels(segs), m, h)
             /\ UNCHANGED statics

\* handlerFor(); 0 if there is none.
HandlerFor(table, key, m) ==
  LET hs == {e.h : e \in {e \in table : e.key = key /\ e.m = m}} IN IF hs = {} THEN 0 ELSE CHOOSE h \in hs : TRUE

\* The loops over the children of a node, one for the segment itself and one
\* for the parameters: the nodes twice, with those that are passed over.
Turns == 1..2 * Len(nodes)
Child(i) == nodes[IF i <= Len(nodes) THEN i ELSE i - Len(nodes)]
IsBelow(node, child) == Len(child) = Len(node) + 1 /\ SubSeq(child, 1, Len(node)) = node

\* Mutant: parameters are not tried where the segment itself is a child.
VisitsFirst(node, seg, i) ==
  LET is(j) == IsBelow(node, nodes[j]) /\ ~Last(nodes[j]).param /\ Last(nodes[j]).seg = seg
  IN IF i <= Len(nodes) THEN is(i)
     ELSE IsBelow(node, Child(i)) /\ Last(Child(i)).param /\ ~ \E j \in DOMAIN nodes : is(j)

Visits(node, seg, i) ==
  /\ IsBelow(node, Child(i))
  /\ IF i <= Len(nodes) THEN ~Last(Child(i)).param /\ Last(Child(i)).seg = seg ELSE Last(Child(i)).param

\* params[name] = seg; params.erase(name)
Bound(params, name, seg) == {b \in params : b[1] # name} \cup {<<name, seg>>}
Erased(params, name) == {b \in params : b[1] # name}

\* One child: below is what matchNode() returns one segment further down.
Tried(below, child, seg, params) ==
  IF ~Last(child).param THEN below[child][params]
  ELSE LET got == below[child][Bound(params, Last(child).seg, seg)]
       IN IF got.ok THEN got ELSE [ok |-> FALSE, params |-> Erased(got.params, Last(child).seg)]

\* All children until one matches.
Loop(below, node, seg, params) ==
  LET acc[i \in 0..2 * Len(nodes)] ==
        IF i = 0 THEN [ok |-> FALSE, params |-> params]
        ELSE LET before == acc[i - 1]
             IN IF before.ok \/ ~Visits(node, seg, i) THEN before ELSE Tried(below, Child(i), seg, before.params)
  IN acc[2 * Len(nodes)]

\* matchNode() from each node, with k segments left: a search of the whole
\* tree below; params is what it leaves behind.
Nodes == Range(nodes) \cup {<<>>}
Bindings(segs) == SUBSET (Params \X Range(segs))
MatchNode(segs, m) ==
  LET match[k \in 0..Len(segs)] ==
        IF k = 0
        THEN [node \in Nodes |-> [params \in Bindings(segs) |-> [ok |-> HandlerFor(leaves, node, m) # 0, params |-> params]]]
        ELSE [node \in Nodes |-> [params \in Bindings(segs) |-> Loop(match[k - 1], node, segs[Len(segs) - k + 1], params)]]
  IN match[Len(segs)]

\* The walk that looks for the matched node, and for a 405, takes the first
\* child that fits and never goes back.
Walk(segs) ==
  LET at[i \in 0..Len(segs)] ==
        IF i = 0 THEN [node |-> <<>>, found |-> TRUE]
        ELSE LET before == at[i - 1]
                 fits == {j \in Turns : Visits(before.node, segs[i], j)}
             IN IF before.found /\ fits # {} THEN [node |-> Child(Min(fits)), found |-> TRUE]
                ELSE [node |-> before.node, found |-> FALSE]
  IN at[Len(segs)]

\* methodToMask() is 0 for every other method.
HasMask(m) == m \in Methods

OnRequest(m, path) ==
  LET norm == NormalizePath(path)
      segs == SplitPath(norm)
      static == {e \in statics : e.key = norm}
      match == MatchNode(segs, m)[<<>>][{}]
      walk == Walk(segs)
      answer(kind, h, params) == [kind |-> kind, h |-> h, params |-> params]
  IN CASE ~HasMask(m) -> answer("405", 0, {})
       [] HasMask(m) /\ static # {} ->
            LET h == HandlerFor(static, norm, m) IN IF h # 0 THEN answer("call", h, {}) ELSE answer("405", 0, {})
       [] HasMask(m) /\ static = {} /\ match.ok ->
            LET h == HandlerFor(leaves, walk.node, m)
            IN IF h # 0 THEN answer("call", h, match.params) ELSE answer("silent", 0, {})
       [] OTHER ->
            IF walk.found /\ \E e \in leaves : e.key = walk.node THEN answer("405", 0, {}) ELSE answer("404", 0, {})
============================================================================
