------------------------------- MODULE RBTree -------------------------------
(* The red-black tree of lib/rbtree.c.  A step is an insertion or a deletion *)
(* up to its fix-up loop, or one round of that loop.  The code writes every  *)
(* operation on a side twice, mirrored; here the side is a parameter.        *)
(*                                                                           *)
(* Nil is the one sentinel node __rb_null.  Deletion writes its parent, and  *)
(* the value stays until the next deletion.                                  *)
(*                                                                           *)
(* A call asks only whether rb->compare is negative, which here says that    *)
(* the first key is less.  rb_cmp, used by the test that is compiled out,    *)
(* returns 0 or 1: to the tree all its keys are equal, a constant Key.       *)
EXTENDS Integers, FiniteSets, SequencesExt

CONSTANTS
    Nodes,      \* the nodes callers own
    Nil,        \* rb_nullptr
    Key         \* what rb->compare tells apart: a number for each node

ASSUME RBAssumption == Nil \notin Nodes /\ Key \in [Nodes -> Int]

VARIABLES
    tree,       \* root, and the fields of every node
    at,         \* the loop the running call is in, "idle" outside a call
    nd          \* the local variable nd of that loop

vars == <<tree, at, nd>>

Sides == {"left", "right"}
Other(s) == IF s = "left" THEN "right" ELSE "left"

\* No node is in the tree, each as rb_init_node leaves it.  The parent of the
\* sentinel is NULL at first, which nothing reads either.
Init ==
    /\ tree = [root |-> Nil,
               child |-> [n \in Nodes |-> [s \in Sides |-> Nil]],
               parent |-> [n \in Nodes \cup {Nil} |-> Nil],
               color |-> [n \in Nodes \cup {Nil} |-> IF n = Nil THEN "BLACK" ELSE "RED"]]
    /\ at = "idle" /\ nd = Nil

-----------------------------------------------------------------------------
(* The helpers, as functions from a tree to a tree.                          *)

\* rb_set_color.  It keeps one bit of c; callers pass no more than a color.
Paint(t, n, c) == [t EXCEPT !.color[n] = c]

\* The side of its parent that n is on, as `n == rb_parent(n)->left` tells it.
SideOf(t, n) == IF n = t.child[t.parent[n]]["left"] THEN "left" ELSE "right"

\* y takes x's place below x's parent; only the pointer down is set.
Replace(t, x, y) ==
    IF t.parent[x] = Nil THEN [t EXCEPT !.root = y]
    ELSE [t EXCEPT !.child[t.parent[x]][SideOf(t, x)] = y]

\* The pointer up is set even when y is the sentinel.
rb_transplant(t, x, y) == [Replace(t, x, y) EXCEPT !.parent[y] = t.parent[x]]

\* Mutated rotate: the subtree that changes sides keeps its old parent.
rotate_parent(t, x, s) ==
    LET y == t.child[x][Other(s)]
    IN [Replace(t, x, y) EXCEPT
          !.child[x][Other(s)] = t.child[y][s], !.child[y][s] = x,
          !.parent[y] = t.parent[x], !.parent[x] = y]

\* rb_left_rotate and rb_right_rotate: x goes down on side s.
rotate(t, x, s) ==
    LET y == t.child[x][Other(s)]
        b == t.child[y][s]
        up == [t.parent EXCEPT ![y] = t.parent[x], ![x] = y]
    IN [Replace(t, x, y) EXCEPT
          !.child[x][Other(s)] = b, !.child[y][s] = x,
          !.parent = IF b = Nil THEN up ELSE [up EXCEPT ![b] = x]]

\* rb_left_most and rb_right_most below n.
Most(t, n, s) ==
    LET go[m \in Nodes] == IF t.child[m][s] = Nil THEN m ELSE go[t.child[m][s]]
    IN go[n]

\* Mutated Neighbour: the way up ends at the first parent.
Neighbour_once(t, n, s) ==
    IF t.child[n][s] # Nil THEN Most(t, t.child[n][s], Other(s)) ELSE t.parent[n]

\* rb_next for s = "right", rb_prev for s = "left".
Neighbour(t, n, s) ==
    LET up[m \in Nodes] ==
          LET p == t.parent[m] IN IF p # Nil /\ m = t.child[p][s] THEN up[p] ELSE p
    IN IF t.child[n][s] # Nil THEN Most(t, t.child[n][s], Other(s)) ELSE up[n]

\* rb_first for s = "left", rb_last for s = "right".
Extreme(t, s) == IF t.root = Nil THEN Nil ELSE Most(t, t.root, s)

\* The elements in order.
Walk(t) ==
    LET below[n \in Nodes \cup {Nil}] ==
          IF n = Nil THEN <<>>
          ELSE below[t.child[n]["left"]] \o <<n>> \o below[t.child[n]["right"]]
    IN below[t.root]

Members == ToSet(Walk(tree))

\* The conditions of the two loops.
Looping ==
    CASE at = "insert" -> tree.color[tree.parent[nd]] = "RED"
      [] at = "delete" -> nd # tree.root /\ tree.color[nd] = "BLACK"
      [] OTHER -> FALSE

-----------------------------------------------------------------------------
(* rb_insert.                                                                *)

\* Mutated Way: equal keys go left.
Way_left(n, p) == IF Key[n] <= Key[p] THEN "left" ELSE "right"

\* The way down from p when n is inserted.
Way(n, p) == IF Key[n] < Key[p] THEN "left" ELSE "right"

\* The node n is linked under: the last one on the way down.
Place(t, n) ==
    LET down[p \in Nodes] ==
          LET q == t.child[p][Way(n, p)] IN IF q = Nil THEN p ELSE down[q]
    IN IF t.root = Nil THEN Nil ELSE down[t.root]

\* Mutated Leaf: the two arguments of rb_set_parent_color are exchanged, so
\* that RB_RED, which is 0, is the link.
Leaf_swapped(t, n, pre) ==
    [t EXCEPT !.parent[n] = 0, !.color[n] = "RED", !.child[n] = [s \in Sides |-> Nil]]

\* n is a red leaf below pre; only the pointers of n are set.
Leaf(t, n, pre) ==
    [t EXCEPT !.parent[n] = pre, !.color[n] = "RED", !.child[n] = [s \in Sides |-> Nil]]

rb_insert(n) ==
    /\ at = "idle" /\ n \notin Members
    /\ LET pre == Place(tree, n)
           t == IF pre = Nil THEN [tree EXCEPT !.root = n]
                ELSE [tree EXCEPT !.child[pre][Way(n, pre)] = n]
       IN tree' = Leaf(t, n, pre)
    /\ at' = "insert" /\ nd' = n

\* Mutated Lift: the uncle keeps its color.
Lift_uncle(t, p, uncle, g) == Paint(Paint(t, p, "BLACK"), g, "RED")

\* A red uncle: the two reds go up one level.
Lift(t, p, uncle, g) ==
    Paint(Paint(Paint(t, p, "BLACK"), uncle, "BLACK"), g, "RED")

rb_insert_fixup ==
    LET p == tree.parent[nd]
    IN /\ at = "insert" /\ Looping
       /\ LET g == tree.parent[p]
              s == SideOf(tree, p)
              uncle == tree.child[g][Other(s)]
              inner == nd = tree.child[p][Other(s)]
              t == IF inner THEN rotate(tree, p, s) ELSE tree
              m == IF inner THEN p ELSE nd
              q == t.parent[m]
              gg == t.parent[q]
          IN IF tree.color[uncle] = "RED"
             THEN tree' = Lift(tree, p, uncle, g) /\ nd' = g
             ELSE /\ tree' = rotate(Paint(Paint(t, q, "BLACK"), gg, "RED"), gg, Other(s))
                  /\ nd' = m
       /\ UNCHANGED at

InsertReturns ==
    /\ at = "insert" /\ ~Looping
    /\ tree' = Paint(tree, tree.root, "BLACK")
    /\ at' = "idle" /\ nd' = Nil

-----------------------------------------------------------------------------
(* rb_delete.                                                                *)

\* n has two children; y, the next node, takes its place and its color.
Splice(t, n, y) ==
    LET x == t.child[y]["right"]
        r == t.child[n]["right"]
        l == t.child[n]["left"]
        t1 == IF t.parent[y] = n THEN [t EXCEPT !.parent[x] = y]
              ELSE [rb_transplant(t, y, x) EXCEPT !.child[y]["right"] = r, !.parent[r] = y]
    IN [rb_transplant(t1, n, y) EXCEPT
          !.child[y]["left"] = l, !.parent[l] = y, !.color[y] = t.color[n]]

\* A black node y was taken out of its place: the paths there are one short.
Unpaired(t, n, y) == t.color[y] = "BLACK"

\* What a caller does with a node it is to insert again.  Nothing reads the
\* fields of a node that is in no tree, so it is done at once.
rb_init_node(t, n) == Leaf(t, n, Nil)

rb_delete(n) ==
    /\ at = "idle" /\ n \in Members
    /\ LET l == tree.child[n]["left"]
           r == tree.child[n]["right"]
           two == l # Nil /\ r # Nil
           y == IF two THEN Most(tree, r, "left") ELSE n
           x == CASE two -> tree.child[y]["right"] [] l = Nil -> r [] OTHER -> l
       IN /\ tree' = rb_init_node(IF two THEN Splice(tree, n, y)
                                  ELSE rb_transplant(tree, n, x), n)
          /\ IF Unpaired(tree, n, y) THEN at' = "delete" /\ nd' = x
             ELSE UNCHANGED <<at, nd>>

\* Mutated Demote: the parent is not painted.
Demote_black(t, p, bro, s) == rotate(Paint(t, bro, "BLACK"), p, s)

\* A red brother goes up, nd gets a black one below a parent that is now red.
Demote(t, p, bro, s) == rotate(Paint(Paint(t, bro, "BLACK"), p, "RED"), p, s)

\* Both nephews are black.
Balanced(t, b) == \A s \in Sides : t.color[t.child[b][s]] = "BLACK"



\* The last rotation: the brother takes the parent's place and color.
Finish(t, p, bro, s) ==
    rotate(Paint(Paint(Paint(t, bro, t.color[p]), p, "BLACK"), t.child[bro][Other(s)], "BLACK"),
           p, s)

rb_delete_fixup ==
    /\ at = "delete" /\ Looping
    /\ LET p == tree.parent[nd]
           s == SideOf(tree, nd)
           o == Other(s)
           b0 == tree.child[p][o]
           t == IF tree.color[b0] = "RED" THEN Demote(tree, p, b0, s) ELSE tree
           bro == t.child[p][o]
           turn == t.color[t.child[bro][o]] = "BLACK"
           t2 == IF turn
                 THEN rotate(Paint(Paint(t, t.child[bro][s], "BLACK"), bro, "RED"), bro, o)
                 ELSE t
           t3 == Finish(t2, p, t2.child[p][o], s)
       IN IF Balanced(t, bro)
          THEN tree' = Paint(t, bro, "RED") /\ nd' = p
          ELSE tree' = t3 /\ nd' = t3.root
    /\ UNCHANGED at

DeleteReturns ==
    /\ at = "delete" /\ ~Looping
    /\ tree' = Paint(tree, nd, "BLACK")
    /\ at' = "idle" /\ nd' = Nil

-----------------------------------------------------------------------------
Next ==
    \/ \E n \in Nodes : rb_insert(n) \/ rb_delete(n)
    \/ rb_insert_fixup \/ InsertReturns
    \/ rb_delete_fixup \/ DeleteReturns

Spec == Init /\ [][Next]_vars

-----------------------------------------------------------------------------
\* The types of the variables: a link leads to a node or to the sentinel.
TypeOK ==
    /\ tree \in [root : Nodes \cup {Nil},
                 child : [Nodes -> [Sides -> Nodes \cup {Nil}]],
                 parent : [Nodes \cup {Nil} -> Nodes \cup {Nil}],
                 color : [Nodes \cup {Nil} -> {"RED", "BLACK"}]]
    /\ at \in {"idle", "insert", "delete"} /\ nd \in Nodes \cup {Nil}

\* Pointers down and up agree in every state, also in the middle of a fix-up,
\* so that the loops, which go up by parent and down by child, stay in the
\* tree; and the sentinel is never red, whatever was painted.
LinksExact ==
    /\ tree.color[Nil] = "BLACK"
    /\ tree.root # Nil => tree.parent[tree.root] = Nil
    /\ IsInjective(Walk(tree))
    /\ \A n \in Members, s \in Sides :
         tree.child[n][s] # Nil => tree.parent[tree.child[n][s]] = n

\* The position whose paths still lack a black node while a deletion is fixed.
Short(n, s) ==
    at = "delete" /\ nd = tree.child[n][s] /\ tree.parent[nd] = n /\ SideOf(tree, nd) = s

\* The numbers of black nodes on the paths down from a node.
Blacks ==
    LET b[n \in Nodes \cup {Nil}] ==
          IF n = Nil THEN {1}
          ELSE UNION {{k + (IF tree.color[n] = "BLACK" THEN 1 ELSE 0)
                         + (IF Short(n, s) THEN 1 ELSE 0) : k \in b[tree.child[n][s]]}
                      : s \in Sides}
    IN b[tree.root]

\* The red-black rules, with the one exception each loop is there to repair:
\* in rb_insert_fixup nd may be red under a red parent or be a red root, in
\* rb_delete_fixup the paths through nd lack one black node and nd, which is
\* about to be painted black, may be red over a red child.  Between calls there
\* is no exception, so no path is more than twice as long as another.
RedBlack ==
    /\ Cardinality(Blacks) = 1
    /\ \A n \in Members : tree.color[n] = "RED" =>
         \/ n = nd
         \/ n # tree.root /\ tree.color[tree.parent[n]] = "BLACK"
         \/ at = "delete" /\ tree.parent[n] = nd

\* Between calls, rb_first with rb_next and rb_last with rb_prev each visit
\* every node once, in the order of the keys.
IteratesInOrder ==
    at = "idle" =>
      LET w == Walk(tree)
          k == Len(w)
          Item(i) == IF i \in 1 .. k THEN w[i] ELSE Nil
      IN /\ Extreme(tree, "left") = Item(1) /\ Extreme(tree, "right") = Item(k)
         /\ \A i \in 1 .. k : /\ Neighbour(tree, w[i], "right") = Item(i + 1)
                              /\ Neighbour(tree, w[i], "left") = Item(i - 1)

\* The tree is an ordered list: each call inserts or removes its node in one
\* step, after the nodes with the same key, and the rounds of the fix-up are
\* not seen at all.
List == INSTANCE OrderedList WITH Elements <- Nodes, KeyOf <- Key, items <- Walk(tree)

ImplementsList == List!Spec

\* The number of nodes above n; the sentinel counts from its parent.
Depth(n) ==
    LET d[m \in Members \cup {n}] == IF m = tree.root THEN 0 ELSE 1 + d[tree.parent[m]]
    IN d[n]

\* A round of a fix-up brings nd nearer to the root or is the last one, so a
\* call makes no more rounds than the tree is high.
FixupAdvances ==
    [][at # "idle" /\ at' = at => Depth(nd)' < Depth(nd) \/ ~Looping']_vars
=============================================================================
