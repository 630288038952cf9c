------------------------------- MODULE RbTree -------------------------------
(***************************************************************************)
(* The red-black trees of kern/libs/rb_tree.c: nodes with pointers, the    *)
(* sentinel nil below all leaves and the sentinel root above the tree.     *)
(* l and r are the two sides, in the order in which a macro takes them.    *)
(***************************************************************************)
EXTENDS Integers, SequencesExt

CONSTANTS
  Node, nil, root,
  Key            \* the data of the nodes, by which they are compared

RbTreeAssumption == nil # root /\ {nil, root} \cap Node = {} /\ Key \in [Node -> Int]

All == Node \cup {nil, root}

VARIABLES
  t,             \* left, right, parent, red and data of the nodes; whether the assertions held
  members        \* the nodes that the caller has put into the tree

vars == <<t, members>>

rb_tree_create ==
  [left |-> [n \in All |-> nil], right |-> [n \in All |-> nil], parent |-> [n \in All |-> nil],
   red |-> [n \in All |-> FALSE], data |-> Key, holds |-> TRUE]

Init == t = rb_tree_create /\ members = {}

-----------------------------------------------------------------------------
Side(tree, x)  == IF x = tree.left[tree.parent[x]] THEN "left" ELSE "right"
Across(l)      == IF l = "left" THEN "right" ELSE "left"
Paint(tree, x, c) == [tree EXCEPT !.red[x] = c]

(* FUNC_ROTATE: the child y of x on the side r takes its place.            *)
Rotate(tree, x, l, r) ==
  LET y == tree[r][x]
      b == tree[l][y]
      p == tree.parent[x]
      handed == IF b # nil THEN [tree EXCEPT !.parent[b] = x] ELSE tree
  IN  [handed EXCEPT ![r][x] = b, !.parent[y] = p, !.parent[x] = y, ![l][y] = x,
                     ![IF x = tree[l][p] THEN l ELSE r][p] = y,
                     !.holds = @ /\ x \notin {root, nil} /\ y # nil /\ ~tree.red[nil]]

(* rb_insert_binary: where the search for the place of z ends ...          *)
RECURSIVE Leaf(_, _, _)
Leaf(tree, y, z) ==
  LET x == IF y = root \/ tree.data[y] > tree.data[z] THEN tree.left[y] ELSE tree.right[y]
  IN  IF x = nil THEN y ELSE Leaf(tree, x, z)

(* ... and the tree with z there.                                          *)
rb_insert_binary(tree, z) ==
  LET y == Leaf(tree, root, z)
  IN  [tree EXCEPT !.left[z] = nil, !.right[z] = nil, !.parent[z] = y,
                   ![IF y = root \/ tree.data[y] > tree.data[z] THEN "left" ELSE "right"][y] = z]

(* RB_INSERT_SUB with a black uncle.                                       *)
InsertTurn(tree, x, l, r) ==
  LET p    == tree.parent[x]
      bent == x = tree[r][p]
      u    == IF bent THEN Rotate(tree, p, l, r) ELSE tree
      q    == u.parent[IF bent THEN p ELSE x]
      g    == u.parent[q]
  IN  Rotate(Paint(Paint(u, q, FALSE), g, TRUE), g, r, l)

(* The loop of rb_insert; after a turn the parent is black and it ends.    *)
RECURSIVE InsertLoop(_, _)
InsertLoop(tree, x) ==
  LET p == tree.parent[x]
      g == tree.parent[p]
      l == Side(tree, p)
      y == tree[Across(l)][g]
  IN  IF ~tree.red[p] THEN tree
      ELSE IF tree.red[y] THEN InsertLoop(Paint(Paint(Paint(tree, p, FALSE), y, FALSE), g, TRUE), g)
      ELSE InsertTurn(tree, x, l, Across(l))

rb_insert(tree, z) ==
  LET done == InsertLoop(Paint(rb_insert_binary(tree, z), z, TRUE), z)
      top  == Paint(done, done.left[root], FALSE)
  IN  [top EXCEPT !.holds = @ /\ ~top.red[nil] /\ ~top.red[root]]

-----------------------------------------------------------------------------
RECURSIVE Down(_, _, _), Above(_, _, _)
Down(tree, y, l) == IF tree[l][y] = nil THEN y ELSE Down(tree, tree[l][y], l)
(* The first ancestor y of x in whose subtree on side r it does not lie;   *)
(* root has all of the tree on its left side and must not be passed.       *)
Above(tree, x, r) ==
  LET y == tree.parent[x]
  IN  IF y = root THEN nil ELSE IF x = tree[r][y] THEN Above(tree, y, r) ELSE y

(* rb_tree_successor, and rb_tree_predecessor with the sides exchanged.    *)
Neighbour(tree, x, l, r) == IF tree[r][x] # nil THEN Down(tree, tree[r][x], l) ELSE Above(tree, x, r)
rb_node_next(tree, x) == Neighbour(tree, x, "left", "right")
rb_node_prev(tree, x) == Neighbour(tree, x, "right", "left")

RECURSIVE Search(_, _, _)
Search(tree, x, key) ==
  IF x = nil \/ tree.data[x] = key THEN x ELSE Search(tree, IF tree.data[x] > key THEN tree.left[x] ELSE tree.right[x], key)
rb_search(tree, key) == Search(tree, tree.left[root], key)

(* RB_DELETE_FIXUP_SUB: a red sibling of x is turned up first; ...         *)
BlackSibling(tree, x, l, r) ==
  LET p == tree.parent[x]
      w == tree[r][p]
  IN  IF tree.red[w] THEN Rotate(Paint(Paint(tree, w, FALSE), p, TRUE), p, l, r) ELSE tree

(* ... when it has a red child, that pays for the missing black node.      *)
Borrow(tree, x, l, r) ==
  LET w == tree[r][tree.parent[x]]
      u == IF tree.red[tree[r][w]] THEN tree
           ELSE Rotate(Paint(Paint(tree, tree[l][w], FALSE), w, TRUE), w, r, l)
      p == u.parent[x]
      v == u[r][p]
  IN  Rotate(Paint(Paint(Paint(u, v, u.red[p]), p, FALSE), u[r][v], FALSE), p, l, r)

(* The loop; top is the root of the tree at its beginning.                 *)
RECURSIVE DeleteLoop(_, _, _)
DeleteLoop(tree, x, top) ==
  IF x = top \/ tree.red[x] THEN Paint(tree, x, FALSE)
  ELSE LET l == Side(tree, x)
           r == Across(l)
           s == BlackSibling(tree, x, l, r)
           w == s[r][s.parent[x]]
       IN  IF ~s.red[s.left[w]] /\ ~s.red[s.right[w]]
           THEN DeleteLoop(Paint(s, w, TRUE), s.parent[x], top)
           ELSE Paint(Borrow(s, x, l, r), top, FALSE)

rb_delete_fixup(tree, x) == DeleteLoop(tree, x, tree.left[root])

(* A slip: the node that moves keeps its own colour.                       *)
TakePlace_OwnColour(tree, y, z) ==
  LET a == [tree EXCEPT ![Side(tree, z)][tree.parent[z]] = y]
      b == [a EXCEPT !.parent[a.left[z]] = y, !.parent[a.right[z]] = y]
  IN  [b EXCEPT !.left[y] = b.left[z], !.right[y] = b.right[z], !.parent[y] = b.parent[z]]
(* y, which has been taken out, becomes what z was.                        *)
TakePlace(tree, y, z) ==
  LET a == [tree EXCEPT ![Side(tree, z)][tree.parent[z]] = y]
      b == [a EXCEPT !.parent[a.left[z]] = y, !.parent[a.right[z]] = y]
  IN  [b EXCEPT !.left[y] = b.left[z], !.right[y] = b.right[z], !.parent[y] = b.parent[z], !.red[y] = b.red[z]]

rb_delete(tree, z) ==
  LET y == IF nil \in {tree.left[z], tree.right[z]} THEN z ELSE rb_node_next(tree, z)
      x == IF tree.left[y] # nil THEN tree.left[y] ELSE tree.right[y]
      out == [tree EXCEPT !.parent[x] = tree.parent[y], ![Side(tree, y)][tree.parent[y]] = x,
                          !.holds = @ /\ y \notin {root, nil}]
      moved == IF y # z THEN TakePlace(out, y, z) ELSE out
  IN  IF tree.red[y] THEN moved ELSE rb_delete_fixup(moved, x)

(* The black nodes on every way down from x; -1 when an assertion fails.   *)
RECURSIVE check_tree(_, _)
check_tree(tree, x) ==
  LET l  == tree.left[x]
      r  == tree.right[x]
      hl == check_tree(tree, l)
      hr == check_tree(tree, r)
      Astray(k) == k # nil /\ (tree.parent[k] # x \/ (tree.red[x] /\ tree.red[k]))
  IN  IF x = nil THEN IF tree.red[nil] THEN -1 ELSE 1
      ELSE IF \/ hl = -1 \/ hl # hr \/ Astray(l) \/ Astray(r)
              \/ l # nil /\ tree.data[x] < tree.data[l]
              \/ r # nil /\ tree.data[x] > tree.data[r] THEN -1
      ELSE IF tree.red[x] THEN hl ELSE hl + 1

(* check_rb_tree for the nodes "all" in the order into which they were     *)
(* shuffled: put in, searched, taken out by data; the first max of them    *)
(* with equal data, in and out; all of them in again.                      *)
Asserts(tree, a) == [tree EXCEPT !.holds = @ /\ a]
Checked(tree) == Asserts(tree, check_tree(tree, tree.left[root]) # -1)
FillTree(tree, all) == FoldLeft(LAMBDA u, z : Checked(rb_insert(u, z)), tree, all)
EmptyTree(tree, keys) ==
  LET Take(u, key) == LET n == rb_search(u, key)
                      IN  IF n = nil THEN Asserts(u, FALSE) ELSE Checked(rb_delete(u, n))
  IN  FoldLeft(Take, tree, keys)
Emptied(tree) == Asserts(tree, ~tree.red[nil] /\ tree.left[root] = nil)
check_rb_tree(all, max) ==
  LET grown == FillTree(Emptied(rb_tree_create), all)
      found == Asserts(grown, \A z \in ToSet(all) : rb_search(grown, Key[z]) = z)
      bare  == Emptied(EmptyTree(found, SetToSortSeq({Key[z] : z \in ToSet(all)}, <)))
      few   == SubSeq(all, 1, max)
      equal == FillTree([bare EXCEPT !.data = [z \in Node |-> IF z \in ToSet(few) THEN max ELSE Key[z]]], few)
      again == Emptied(EmptyTree(equal, [i \in 1 .. max |-> max]))
  IN  FillTree(again, all)

Insert(z) ==
  /\ z \notin members
  /\ t' = rb_insert(t, z)
  /\ members' = members \cup {z}

(* The memory of a node that is out of the tree is its owner's; rb_insert  *)
(* writes all of it before it reads any.                                   *)
Forget(tree, z) ==
  [tree EXCEPT !.left[z] = nil, !.right[z] = nil, !.parent[z] = nil, !.red[z] = FALSE]

Delete(z) ==
  /\ z \in members
  /\ t' = Forget(rb_delete(t, z), z)
  /\ members' = members \ {z}

Next == \E z \in Node : Insert(z) \/ Delete(z)

Spec == Init /\ [][Next]_vars

-----------------------------------------------------------------------------
RECURSIVE InOrder(_)
InOrder(x) == IF x = nil THEN << >> ELSE InOrder(t.left[x]) \o <<x>> \o InOrder(t.right[x])

(* check_rb_tree finds nothing, whatever the order of the nodes: those with *)
(* data of their own, and all numbers max.                                 *)
SelfTestPasses ==
  \A all \in SetToSeqs({z \in Node : \A y \in Node \ {z} : Key[y] # Key[z]}) :
    \A max \in DOMAIN all : check_rb_tree(all, max).holds

(* What check_tree asserts, and more: the tree has the nodes put into it,  *)
(* in the order of their data, walks in both directions visit all of them, *)
(* the search finds whoever is there, no assertion fails, the sentinels    *)
(* stay black, and the self-test passes.                                   *)
RbExact ==
  /\ t.holds /\ (members = {} => SelfTestPasses)
  /\ check_tree(t, t.left[root]) # -1
  /\ ~t.red[nil] /\ ~t.red[root] /\ ~t.red[t.left[root]] /\ t.right[root] = nil
  /\ t.left[root] = nil \/ t.parent[t.left[root]] = root
  /\ \E nodes \in {InOrder(t.left[root])} :
       /\ ToSet(nodes) = members /\ Len(nodes) = Cardinality(members)
       /\ \A i \in 1 .. Len(nodes) - 1 : Key[nodes[i]] <= Key[nodes[i + 1]]
       /\ \A i \in DOMAIN nodes :
            /\ rb_node_next(t, nodes[i]) = IF i = Len(nodes) THEN nil ELSE nodes[i + 1]
            /\ rb_node_prev(t, nodes[i]) = IF i = 1 THEN nil ELSE nodes[i - 1]
  /\ \A n \in Node : \E f \in {rb_search(t, Key[n])} :
       IF \E m \in members : Key[m] = Key[n] THEN f \in members /\ Key[f] = Key[n] ELSE f = nil
=============================================================================
