---------------------------- MODULE RBTreeProofs ----------------------------
(* The red-black tree for every set of nodes and every key: links, colours  *)
(* and the order of the elements survive every round of both fix-up loops.  *)
EXTENDS RBTree, FiniteSetTheorems, SequenceTheorems, WellFoundedInduction, TLAPS

\* A node or the sentinel.
Links == Nodes \cup {Nil}

Trees == [root : Links, child : [Nodes -> [Sides -> Links]],
          parent : [Links -> Links], color : [Links -> {"RED", "BLACK"}]]

-----------------------------------------------------------------------------
(* The helpers, field by field.                                             *)

\* The two sides.
LEMMA TwoSides ==
    /\ Sides = {"left", "right"}
    /\ \A s \in Sides : Other(s) \in Sides /\ Other(s) # s /\ Other(Other(s)) = s
    /\ \A s, r \in Sides : r = s \/ r = Other(s)
    /\ Other("left") = "right" /\ Other("right") = "left"
BY DEF Sides, Other

\* Painting changes one color.
Painted(P, t, n, c) ==
    /\ P \in Trees /\ P.root = t.root /\ P.child = t.child /\ P.parent = t.parent
    /\ \A m \in Links : P.color[m] = IF m = n THEN c ELSE t.color[m]

LEMMA PaintIs ==
    ASSUME NEW t \in Trees, NEW n \in Links, NEW c \in {"RED", "BLACK"}
    PROVE  Painted(Paint(t, n, c), t, n, c)
BY DEF Paint, Painted, Trees

\* Replacing changes the root or one pointer down.
Replaced(T, t, x, y) ==
    /\ T \in Trees /\ T.parent = t.parent /\ T.color = t.color
    /\ T.root = IF t.parent[x] = Nil THEN y ELSE t.root
    /\ \A m \in Nodes, r \in Sides :
         T.child[m][r] = IF t.parent[x] # Nil /\ t.parent[x] = m /\ r = SideOf(t, x) THEN y
                         ELSE t.child[m][r]

LEMMA ReplaceIs ==
    ASSUME NEW t \in Trees, NEW x \in Links, NEW y \in Links
    PROVE  Replaced(Replace(t, x, y), t, x, y)
<1>1. t.parent[x] \in Links /\ SideOf(t, x) \in Sides
  BY DEF Trees, SideOf, Sides
<1>2. CASE t.parent[x] = Nil
  BY <1>2 DEF Replace, Trees, Replaced
<1>3. CASE t.parent[x] # Nil
  <2> DEFINE p == t.parent[x]
             z == SideOf(t, x)
             T == [t EXCEPT !.child[p][z] = y]
  <2>1. p \in Nodes /\ z \in Sides
    BY <1>1, <1>3 DEF Links
  <2>2. Replace(t, x, y) = T
    BY <1>3 DEF Replace
  <2> HIDE DEF p, z
  <2>3. T \in Trees /\ T.parent = t.parent /\ T.color = t.color /\ T.root = t.root
        /\ T.child = [t.child EXCEPT ![p][z] = y]
    BY ZenonT(40), <2>1 DEF Trees
  <2>4. \A m \in Nodes, r \in Sides :
          T.child[m][r] = IF m = p /\ r = z THEN y ELSE t.child[m][r]
    BY <2>1, <2>3 DEF Trees
  <2> HIDE DEF T
  <2> QED  BY <1>3, <2>2, <2>3, <2>4 DEF p, z, Replaced
<1> QED  BY <1>2, <1>3

\* A rotation changes three links down and the links up that belong to them.
Rotated(T, t, x, s, y, b, p) ==
    /\ T \in Trees /\ T.color = t.color
    /\ T.root = IF p = Nil THEN y ELSE t.root
    /\ \A m \in Nodes, r \in Sides :
         T.child[m][r] = IF m = y /\ r = s THEN x
                         ELSE IF m = x /\ r = Other(s) THEN b
                         ELSE IF p # Nil /\ m = p /\ r = SideOf(t, x) THEN y
                         ELSE t.child[m][r]
    /\ \A m \in Links :
         T.parent[m] = IF b # Nil /\ m = b THEN x ELSE IF m = x THEN y
                       ELSE IF m = y THEN p ELSE t.parent[m]

LEMMA RotateIs ==
    ASSUME NEW t \in Trees, NEW x \in Nodes, NEW s \in Sides,
           NEW y \in Nodes, t.child[x][Other(s)] = y,
           NEW b \in Links, t.child[y][s] = b, NEW p \in Links, t.parent[x] = p
    PROVE  Rotated(rotate(t, x, s), t, x, s, y, b, p)
<1> DEFINE o == Other(s)
           R == Replace(t, x, y)
           up == [t.parent EXCEPT ![y] = p, ![x] = y]
           v == IF b = Nil THEN up ELSE [up EXCEPT ![b] = x]
           T == [R EXCEPT !.child[x][o] = b, !.child[y][s] = x, !.parent = v]
<1>1. rotate(t, x, s) = T
  BY DEF rotate
<1>2. o \in Sides /\ x \in Links /\ y \in Links /\ o # s
  BY TwoSides DEF Links
<1> HIDE DEF R, v, o
<1>3. Replaced(R, t, x, y)
  BY <1>2, ReplaceIs DEF R
<1>4. v \in [Links -> Links]
      /\ \A m \in Links : v[m] = IF b # Nil /\ m = b THEN x ELSE IF m = x THEN y
                                 ELSE IF m = y THEN p ELSE t.parent[m]
  <2>1. t.parent \in [Links -> Links]
    BY DEF Trees
  <2>2. up \in [Links -> Links] /\ \A m \in Links : up[m] = IF m = x THEN y
                                 ELSE IF m = y THEN p ELSE t.parent[m]
    BY <1>2, <2>1
  <2> HIDE DEF up
  <2> QED  BY <1>2, <2>2 DEF v
<1>5. T \in Trees /\ T.color = R.color /\ T.root = R.root /\ T.parent = v
  BY ZenonT(40), <1>2, <1>3, <1>4 DEF Trees, Replaced
<1>6. T.child = [[R.child EXCEPT ![x][o] = b] EXCEPT ![y][s] = x]
  BY <1>2, <1>3 DEF Trees, Replaced
<1>7. \A m \in Nodes, r \in Sides :
        T.child[m][r] = IF m = y /\ r = s THEN x ELSE IF m = x /\ r = o THEN b
                        ELSE R.child[m][r]
  <2>1. R.child \in [Nodes -> [Sides -> Links]]
    BY <1>3 DEF Trees, Replaced
  <2> DEFINE C == [R.child EXCEPT ![x][o] = b]
  <2>2. C \in [Nodes -> [Sides -> Links]] /\ \A m \in Nodes, r \in Sides :
          C[m][r] = IF m = x /\ r = o THEN b ELSE R.child[m][r]
    BY <1>2, <2>1
  <2>4. T.child = [C EXCEPT ![y][s] = x]
    BY <1>6 DEF C
  <2> HIDE DEF C
  <2>3. \A m \in Nodes, r \in Sides :
          [C EXCEPT ![y][s] = x][m][r] = IF m = y /\ r = s THEN x ELSE C[m][r]
    BY <1>2, <2>2
  <2> HIDE DEF T
  <2> QED  BY <2>2, <2>3, <2>4
<1> HIDE DEF T
<1>8. /\ T \in Trees /\ T.color = t.color /\ T.root = IF p = Nil THEN y ELSE t.root
      /\ \A m \in Links : T.parent[m] = IF b # Nil /\ m = b THEN x ELSE IF m = x THEN y
                                 ELSE IF m = y THEN p ELSE t.parent[m]
  BY <1>3, <1>4, <1>5 DEF Replaced
<1>9. \A m \in Nodes, r \in Sides :
         T.child[m][r] = IF m = y /\ r = s THEN x ELSE IF m = x /\ r = o THEN b
                         ELSE IF p # Nil /\ m = p /\ r = SideOf(t, x) THEN y
                         ELSE t.child[m][r]
  BY <1>3, <1>7 DEF Replaced
<1> QED  BY <1>1, <1>8, <1>9 DEF o, Rotated

-----------------------------------------------------------------------------
(* The shape of a tree.  M are its nodes, pos numbers them in order, and     *)
(* every position below m lies between bd[m]["left"] and bd[m]["right"],     *)
(* which are the positions of nodes above m, or 0 and L + 1.                 *)

Dir(s) == IF s = "left" THEN -1 ELSE 1

\* A pointer down.
Linked(t, M, pos, bd, m, s) ==
    LET c == t.child[m][s]
    IN IF c = Nil THEN bd[m][s] = pos[m] + Dir(s)
       ELSE /\ c \in M /\ t.parent[c] = m
            /\ bd[c][s] = bd[m][s] /\ bd[c][Other(s)] = pos[m]

\* A pointer up.
Hung(t, M, m) == t.parent[m] \in M /\ \E s \in Sides : t.child[t.parent[m]][s] = m

Laid(t, M, L, pos, bd) ==
    /\ t \in Trees /\ M \subseteq Nodes /\ L \in Nat
    /\ pos \in [M -> 1 .. L]
    /\ \A i \in 1 .. L : \E m \in M : pos[m] = i
    /\ \A m, n \in M : pos[m] = pos[n] => m = n
    /\ bd \in [M -> [Sides -> 0 .. L + 1]]
    /\ \A m \in M : bd[m]["left"] < pos[m] /\ pos[m] < bd[m]["right"]
    /\ \A m \in M, s \in Sides : Linked(t, M, pos, bd, m, s)
    /\ t.root = Nil => M = {}
    /\ t.root # Nil => /\ t.root \in M /\ t.parent[t.root] = Nil
                       /\ bd[t.root]["left"] = 0 /\ bd[t.root]["right"] = L + 1
    /\ \A m \in M \ {t.root} : Hung(t, M, m)
    /\ \A n \in Nodes \ M : t.parent[n] = Nil /\ \A s \in Sides : t.child[n][s] = Nil

LEMMA DirIs ==
    ASSUME NEW s \in Sides
    PROVE  Dir(s) \in Int /\ Dir(Other(s)) = 0 - Dir(s)
BY DEF Dir, Other, Sides

\* Positions and bounds are numbers.
LEMMA Numbers ==
    ASSUME NEW t, NEW M, NEW L, NEW pos, NEW bd, Laid(t, M, L, pos, bd), NEW m \in M
    PROVE  /\ m \in Nodes /\ m # Nil /\ m \in Links /\ L \in Nat
           /\ pos[m] \in Int /\ 1 <= pos[m] /\ pos[m] <= L
           /\ \A s \in Sides : bd[m][s] \in Int /\ 0 <= bd[m][s] /\ bd[m][s] <= L + 1
           /\ bd[m]["left"] < pos[m] /\ pos[m] < bd[m]["right"]
<1>1. pos \in [M -> 1 .. L] /\ bd \in [M -> [Sides -> 0 .. L + 1]] /\ L \in Nat
  BY DEF Laid
<1>2. bd[m]["left"] < pos[m] /\ pos[m] < bd[m]["right"] /\ m \in Nodes
  BY DEF Laid
<1>3. pos[m] \in 1 .. L /\ \A s \in Sides : bd[m][s] \in 0 .. L + 1
  BY <1>1
<1> QED  BY <1>1, <1>2, <1>3, RBAssumption DEF Links

\* What the pointers of a node down lead to.
LEMMA NoChild ==
    ASSUME NEW t, NEW M, NEW L, NEW pos, NEW bd, Laid(t, M, L, pos, bd),
           NEW m \in M, NEW s \in Sides, t.child[m][s] = Nil
    PROVE  bd[m][s] = pos[m] + Dir(s)
BY DEF Laid, Linked

LEMMA ChildOf ==
    ASSUME NEW t, NEW M, NEW L, NEW pos, NEW bd, Laid(t, M, L, pos, bd),
           NEW m \in M, NEW s \in Sides, NEW c, t.child[m][s] = c, c # Nil
    PROVE  /\ c \in M /\ c # m /\ c # t.root /\ c \in Nodes /\ t.parent[c] = m
           /\ bd[c][s] = bd[m][s] /\ bd[c][Other(s)] = pos[m]
           /\ \A r \in Sides : t.child[c][r] # m
           /\ t.child[m][Other(s)] # c
<1>1. c \in M /\ t.parent[c] = m /\ bd[c][s] = bd[m][s] /\ bd[c][Other(s)] = pos[m]
  BY DEF Laid, Linked
<1>2. m \in Nodes /\ m # Nil /\ c \in Nodes
  BY <1>1, RBAssumption DEF Laid
<1>3. /\ pos[m] \in Int /\ pos[c] \in Int /\ \A r \in Sides : bd[m][r] \in Int /\ bd[c][r] \in Int
      /\ bd[m]["left"] < pos[m] /\ pos[m] < bd[m]["right"]
      /\ bd[c]["left"] < pos[c] /\ pos[c] < bd[c]["right"]
  BY <1>1, Numbers
<1>4. c # m
  BY <1>1, <1>3 DEF Other, Sides
<1>5. c # t.root
  BY <1>1, <1>2 DEF Laid
<1>6. ASSUME NEW r \in Sides, t.child[c][r] = m PROVE FALSE
  <2>1. bd[m][r] = bd[c][r] /\ bd[m][Other(r)] = pos[c]
    BY <1>1, <1>2, <1>6 DEF Laid, Linked
  <2> QED  BY <1>1, <1>3, <2>1 DEF Other, Sides
<1>7. t.child[m][Other(s)] # c
  <2> SUFFICES ASSUME t.child[m][Other(s)] = c PROVE FALSE
    OBVIOUS
  <2>1. bd[c][Other(s)] = bd[m][Other(s)]
    BY <1>1, TwoSides DEF Laid, Linked
  <2> QED  BY <1>1, <1>3, <2>1 DEF Other, Sides
<1> QED  BY <1>1, <1>2, <1>4, <1>5, <1>6, <1>7

\* What the pointer of a node up leads to.
LEMMA ParentOf ==
    ASSUME NEW t, NEW M, NEW L, NEW pos, NEW bd, Laid(t, M, L, pos, bd),
           NEW m \in M, NEW p, t.parent[m] = p, NEW z, SideOf(t, m) = z
    PROVE  /\ m = t.root => p = Nil
           /\ m # t.root => /\ p \in M /\ p \in Nodes /\ p # Nil /\ p # m
                            /\ z \in Sides /\ t.child[p][z] = m
<1>1. m # Nil /\ m \in Nodes
  BY RBAssumption DEF Laid
<1>2. CASE m = t.root
  BY <1>1, <1>2 DEF Laid
<1>3. CASE m # t.root
  <2>1. p \in M /\ p \in Nodes /\ p # Nil
    BY <1>3, RBAssumption DEF Laid, Hung
  <2>2. z \in Sides /\ t.child[p][z] = m
    BY <1>3 DEF Laid, Hung, SideOf, Sides
  <2>3. p # m
    BY <1>1, <2>1, <2>2, ChildOf
  <2> QED  BY <1>3, <2>1, <2>2, <2>3
<1> QED  BY <1>2, <1>3

LEMMA AboveOf ==
    ASSUME NEW t, NEW M, NEW L, NEW pos, NEW bd, Laid(t, M, L, pos, bd),
           NEW m \in M, NEW p, t.parent[m] = p
    PROVE  /\ p = Nil => m = t.root
           /\ p # Nil => m # t.root
           /\ m = t.root => p = Nil
           /\ m # t.root => p \in M /\ p \in Nodes /\ p # Nil /\ p # m
<1>1. PICK z : SideOf(t, m) = z
  OBVIOUS
<1> QED  BY <1>1, ParentOf

\* A node is linked below one node and on one side.
LEMMA OnePlace ==
    ASSUME NEW t, NEW M, NEW L, NEW pos, NEW bd, Laid(t, M, L, pos, bd),
           NEW m \in M, NEW s \in Sides, NEW n \in M, NEW r \in Sides,
           t.child[m][s] = t.child[n][r], t.child[m][s] # Nil
    PROVE  n = m /\ r = s
<1> DEFINE c == t.child[m][s]
<1>1. t.parent[c] = m /\ t.child[m][Other(s)] # c
  BY ChildOf
<1>2. t.parent[c] = n
  BY ChildOf
<1> QED  BY <1>1, <1>2, TwoSides

\* Where the parts of a rotation are: x above y above b, and p above x.
LEMMA RotateParts ==
    ASSUME NEW t, NEW M, NEW L, NEW pos, NEW bd, Laid(t, M, L, pos, bd),
           NEW x \in M, NEW s \in Sides, NEW y, t.child[x][Other(s)] = y, y # Nil,
           NEW b, t.child[y][s] = b, NEW p, t.parent[x] = p, NEW z, SideOf(t, x) = z
    PROVE  /\ x \in Nodes /\ y \in M /\ y \in Nodes /\ b \in Links /\ p \in Links
           /\ t.parent[y] = x /\ x # y /\ p # x /\ p # y /\ b # x /\ b # y
           /\ b # Nil => b \in M /\ t.parent[b] = y
           /\ p # Nil => x # t.root /\ p \in M /\ z \in Sides /\ t.child[p][z] = x
           /\ p = Nil => x = t.root
<1>1. x \in Nodes /\ x # Nil /\ Other(s) \in Sides /\ t \in Trees
  BY RBAssumption, TwoSides DEF Laid
<1>2. /\ y \in M /\ y \in Nodes /\ y # x /\ t.parent[y] = x /\ y # t.root
      /\ \A r \in Sides : t.child[y][r] # x
  BY <1>1, ChildOf
<1>3. b \in Links /\ p \in Links
  BY <1>1, <1>2 DEF Trees, Links
<1>4. b # Nil => b \in M /\ b # y /\ t.parent[b] = y
  BY <1>2, ChildOf
<1>5. x = t.root => p = Nil
  BY <1>1, ParentOf
<1>6. x # t.root => p \in M /\ p # Nil /\ p # x /\ z \in Sides /\ t.child[p][z] = x
  BY <1>1, ParentOf
<1>7. p # y
  BY <1>2, <1>5, <1>6, RBAssumption
<1>8. b # x
  BY <1>1, <1>2
<1>9. b # y
  BY <1>2, <1>4, RBAssumption
<1> QED  BY <1>1, <1>2, <1>3, <1>4, <1>5, <1>6, <1>7, <1>8, <1>9

\* A rotation keeps the order of the nodes; only two bounds move.
LEMMA RotateLaid ==
    ASSUME NEW t, NEW M, NEW L, NEW pos, NEW bd, Laid(t, M, L, pos, bd),
           NEW x \in M, NEW s \in Sides, NEW y, t.child[x][Other(s)] = y, y # Nil,
           NEW b, t.child[y][s] = b, NEW p, t.parent[x] = p,
           NEW T, Rotated(T, t, x, s, y, b, p)
    PROVE  \E e : Laid(T, M, L, pos, e)
<1> DEFINE o == Other(s)
           z == SideOf(t, x)
           e == [m \in M |-> [r \in Sides |->
                   IF m = y /\ r = s THEN bd[x][s]
                   ELSE IF m = x /\ r = o THEN pos[y] ELSE bd[m][r]]]
<1>0. Laid(t, M, L, pos, bd) /\ t.child[x][o] = y /\ t.child[y][s] = b /\ y # Nil
  OBVIOUS
<1>1. /\ o \in Sides /\ o # s /\ Other(o) = s /\ s \in Sides
      /\ \A r \in Sides : r = s \/ r = o
  BY TwoSides
<1>2. /\ x \in Nodes /\ y \in M /\ y \in Nodes /\ b \in Links /\ p \in Links
      /\ t.parent[y] = x /\ x # y /\ p # x /\ p # y /\ b # x /\ b # y
      /\ b # Nil => b \in M /\ t.parent[b] = y
      /\ p # Nil => x # t.root /\ p \in M /\ z \in Sides /\ t.child[p][z] = x
      /\ p = Nil => x = t.root
  BY SMTT(30), RotateParts
<1>3. /\ y \in M /\ bd[y][o] = bd[x][o] /\ bd[y][s] = pos[x]
      /\ b = Nil => bd[y][s] = pos[y] + Dir(s)
      /\ b # Nil => bd[b][s] = bd[y][s] /\ bd[b][o] = pos[y]
      /\ p # Nil => bd[x][z] = bd[p][z] /\ bd[x][Other(z)] = pos[p]
  <2> HIDE DEF o, z
  <2>1. x # Nil /\ t.child[x][o] = y
    BY ONLY <1>0, <1>2, RBAssumption
  <2>2. bd[y][o] = bd[x][o] /\ bd[y][s] = pos[x]
    BY <1>1, <2>1, ChildOf
  <2>3. ASSUME b = Nil  PROVE bd[y][s] = pos[y] + Dir(s)
    <3>1. t.child[y][s] = Nil
      BY <2>3
    <3> QED  BY <1>2, <3>1, NoChild
  <2>4. b # Nil => bd[b][s] = bd[y][s] /\ bd[b][o] = pos[y]
    BY ONLY <1>0, <1>2, ChildOf DEF o
  <2>5. p # Nil => bd[x][z] = bd[p][z] /\ bd[x][Other(z)] = pos[p]
    BY ONLY <1>0, <1>2, <2>1, ChildOf
  <2> QED  BY ONLY <1>2, <2>2, <2>3, <2>4, <2>5
<1>4. \A m \in M, r \in Sides :
        e[m][r] = IF m = y /\ r = s THEN bd[x][s]
                  ELSE IF m = x /\ r = o THEN pos[y] ELSE bd[m][r]
  OBVIOUS
<1>5. e \in [M -> [Sides -> 0 .. L + 1]]
  <2>1. /\ bd \in [M -> [Sides -> 0 .. L + 1]] /\ pos \in [M -> 1 .. L] /\ L \in Nat
    BY DEF Laid
  <2>2. pos[y] \in 0 .. L + 1 /\ bd[x][s] \in 0 .. L + 1
    BY ONLY <1>2, <2>1
  <2> QED  BY <2>1, <2>2
<1> HIDE DEF e, o, z
<1>6. \A m \in M : e[m]["left"] < pos[m] /\ pos[m] < e[m]["right"]
  <2>1. /\ \A m \in M : pos[m] \in Int /\ \A r \in Sides : bd[m][r] \in Int
        /\ \A m \in M : bd[m]["left"] < pos[m] /\ pos[m] < bd[m]["right"]
    BY Numbers
  <2>2. /\ bd[x]["left"] < pos[x] /\ pos[x] < bd[x]["right"]
        /\ bd[y]["left"] < pos[y] /\ pos[y] < bd[y]["right"]
    BY ONLY <1>2, <2>1
  <2>3. CASE s = "left"
    <3>1. o = "right" /\ "left" \in Sides /\ "right" \in Sides
      BY <2>3, TwoSides DEF o
    <3>2. pos[x] < pos[y] /\ bd[x]["left"] < pos[y]
      BY ONLY <1>2, <1>3, <2>1, <2>2, <2>3, <3>1
    <3> QED  BY ONLY <1>2, <1>4, <2>1, <2>2, <2>3, <3>1, <3>2
  <2>4. CASE s = "right"
    <3>1. o = "left" /\ "left" \in Sides /\ "right" \in Sides
      BY <2>4, TwoSides DEF o
    <3>2. pos[y] < pos[x] /\ pos[y] < bd[x]["right"]
      BY ONLY <1>2, <1>3, <2>1, <2>2, <2>4, <3>1
    <3> QED  BY ONLY <1>2, <1>4, <2>1, <2>2, <2>4, <3>1, <3>2
  <2> QED  BY <1>1, <2>3, <2>4, TwoSides
<1>7. /\ T \in Trees
      /\ T.root = IF p = Nil THEN y ELSE t.root
      /\ \A m \in Nodes, r \in Sides :
           T.child[m][r] = IF m = y /\ r = s THEN x
                           ELSE IF m = x /\ r = o THEN b
                           ELSE IF p # Nil /\ m = p /\ r = z THEN y
                           ELSE t.child[m][r]
      /\ \A m \in Links :
           T.parent[m] = IF b # Nil /\ m = b THEN x ELSE IF m = x THEN y
                         ELSE IF m = y THEN p ELSE t.parent[m]
  BY DEF Rotated, o, z
<1>8. /\ M \subseteq Nodes /\ M \subseteq Links /\ Nil \notin M
      /\ \A m \in M, r \in Sides : Linked(t, M, pos, bd, m, r)
  BY RBAssumption DEF Laid, Links
<1>9. \A m \in M, r \in Sides : t.child[m][r] # Nil =>
        /\ t.child[m][r] = x => p # Nil /\ m = p /\ r = z
        /\ t.child[m][r] = y => m = x /\ r = o
        /\ t.child[m][r] = b => m = y /\ r = s
  <2>0. SUFFICES ASSUME NEW m \in M, NEW r \in Sides, t.child[m][r] # Nil
                 PROVE  /\ t.child[m][r] = x => p # Nil /\ m = p /\ r = z
                        /\ t.child[m][r] = y => m = x /\ r = o
                        /\ t.child[m][r] = b => m = y /\ r = s
    OBVIOUS
  <2>1. t.child[m][r] = y => m = x /\ r = o
    BY ONLY <1>0, <1>1, <2>0, OnePlace
  <2>2. t.child[m][r] = b => m = y /\ r = s
    BY ONLY <1>0, <1>2, <2>0, OnePlace
  <2>3. t.child[m][r] = x => p # Nil
    <3>1. t.parent[t.child[m][r]] = m /\ m # Nil
      BY ONLY <1>0, <1>8, <2>0, ChildOf
    <3> QED  BY <3>1
  <2>4. t.child[m][r] = x => m = p /\ r = z
    BY ONLY <1>0, <1>2, <2>0, <2>3, OnePlace
  <2> QED  BY ONLY <2>1, <2>2, <2>3, <2>4
<1>10. ASSUME NEW m \in M, NEW r \in Sides
       PROVE  Linked(T, M, pos, e, m, r)
  <2>1. CASE m = x /\ r = s
    <3>1. T.child[m][r] = t.child[x][s] /\ e[m][r] = bd[x][s]
      BY ONLY <1>1, <1>2, <1>4, <1>7, <2>1
    <3>2. ASSUME NEW c, t.child[x][s] = c, c # Nil
          PROVE  T.parent[c] = x /\ \A q \in Sides : e[c][q] = bd[c][q]
      <4>1. c \in M /\ t.parent[c] = x /\ c # x /\ c # y /\ c # b
        BY ONLY SMTT(30), <1>1, <1>2, <1>8, <1>9, <3>2 DEF Linked
      <4> QED  BY ONLY <1>4, <1>7, <1>8, <4>1
    <3> QED  BY ONLY <1>1, <1>8, <2>1, <3>1, <3>2 DEF Linked, o
  <2>2. CASE m = x /\ r = o
    <3>1. T.child[m][r] = b /\ e[m][r] = pos[y]
      BY ONLY <1>1, <1>2, <1>4, <1>7, <2>2
    <3>2. b = Nil => pos[y] = pos[x] + Dir(o)
      BY SMTT(30), <1>1, <1>2, <1>3, Numbers, DirIs DEF o
    <3>3. b # Nil => T.parent[b] = x /\ e[b][o] = pos[y] /\ e[b][s] = pos[x]
      BY ONLY <1>1, <1>2, <1>3, <1>4, <1>7
    <3> QED  BY ONLY <1>1, <1>2, <2>2, <3>1, <3>2, <3>3 DEF Linked
  <2>3. CASE m = y /\ r = s
    <3>1. T.child[m][r] = x /\ e[m][r] = bd[x][s] /\ e[x][s] = bd[x][s] /\ e[x][o] = pos[y]
      BY ONLY <1>1, <1>2, <1>4, <1>7, <2>3
    <3>2. T.parent[x] = y /\ x # Nil
      BY ONLY <1>2, <1>7, <1>8
    <3> QED  BY <2>3, <3>1, <3>2 DEF Linked, o
  <2>4. CASE p # Nil /\ m = p /\ r = z
    <3>1. T.child[m][r] = y /\ e[m][r] = bd[p][z] /\ y # Nil
      BY ONLY <1>2, <1>4, <1>7, <1>8, <2>4
    <3>2. T.parent[y] = p
      BY ONLY <1>2, <1>7, <1>8
    <3>3. e[y][s] = bd[x][s] /\ e[y][o] = bd[x][o] /\ Other(z) \in Sides
      BY ONLY <1>1, <1>2, <1>3, <1>4, <2>4, TwoSides
    <3>4. e[y][z] = bd[x][z] /\ e[y][Other(z)] = bd[x][Other(z)]
      BY ONLY <1>1, <1>2, <2>4, <3>3
    <3> QED  BY ONLY <1>2, <1>3, <2>4, <3>1, <3>2, <3>4 DEF Linked
  <2>5. CASE /\ ~ (m = x /\ r = s) /\ ~ (m = x /\ r = o) /\ ~ (m = y /\ r = s)
             /\ ~ (p # Nil /\ m = p /\ r = z)
    <3>1. T.child[m][r] = t.child[m][r] /\ e[m][r] = bd[m][r]
      BY ONLY <1>4, <1>7, <1>8, <2>5
    <3>2. ASSUME NEW c, t.child[m][r] = c, c # Nil
          PROVE  c \in M /\ T.parent[c] = m /\ \A q \in Sides : e[c][q] = bd[c][q]
      <4>1. c \in M /\ t.parent[c] = m /\ c # x /\ c # y /\ c # b
        BY ONLY <1>8, <1>9, <2>5, <3>2 DEF Linked
      <4> QED  BY ONLY <1>4, <1>7, <1>8, <4>1
    <3>3. Linked(t, M, pos, bd, m, r)
      BY <1>8
    <3> QED  BY <3>1, <3>2, <3>3, TwoSides DEF Linked
  <2> QED  BY <2>1, <2>2, <2>3, <2>4, <2>5
<1>11. T.root # Nil => /\ T.root \in M /\ T.parent[T.root] = Nil
                       /\ e[T.root]["left"] = 0 /\ e[T.root]["right"] = L + 1
  <2>1. CASE p = Nil
    <3>1. T.root = y /\ T.parent[y] = Nil
      BY ONLY <1>2, <1>7, <1>8, <2>1
    <3>2. bd[x]["left"] = 0 /\ bd[x]["right"] = L + 1
      BY ONLY <1>0, <1>2, <1>8, <2>1 DEF Laid
    <3>3. \A r \in Sides : e[y][r] = bd[x][r]
      BY ONLY <1>1, <1>2, <1>3, <1>4
    <3> QED  BY ONLY <1>2, <3>1, <3>2, <3>3, TwoSides
  <2>2. CASE p # Nil
    <3>1. T.root = t.root /\ t.root # x
      BY ONLY <1>2, <1>7, <2>2
    <3>2. t.root # Nil => /\ t.root \in M /\ t.parent[t.root] = Nil /\ t.root # y /\ t.root # b
                          /\ bd[t.root]["left"] = 0 /\ bd[t.root]["right"] = L + 1
      BY ONLY <1>0, <1>2, <1>8 DEF Laid
    <3>3. t.root # Nil => T.parent[t.root] = t.parent[t.root] /\ \A r \in Sides : e[t.root][r] = bd[t.root][r]
      BY ONLY SMTT(30), <1>4, <1>7, <1>8, <3>1, <3>2
    <3> QED  BY <3>1, <3>2, <3>3, TwoSides
  <2> QED  BY <2>1, <2>2
<1>12. T.root = Nil => M = {}
  BY ONLY <1>0, <1>2, <1>7, <1>8 DEF Laid
<1>13. \A m \in M \ {T.root} : Hung(T, M, m)
  <2>0. SUFFICES ASSUME NEW m \in M, m # T.root PROVE Hung(T, M, m)
    OBVIOUS
  <2>1. CASE m = x
    BY ONLY <1>1, <1>2, <1>7, <1>8, <2>1 DEF Hung
  <2>2. CASE m = y
    <3>1. p # Nil /\ y # Nil
      BY ONLY <1>0, <1>7, <2>0, <2>2
    <3>2. T.parent[y] = p /\ p \in M /\ z \in Sides /\ T.child[p][z] = y
      BY ONLY <1>2, <1>7, <1>8, <3>1
    <3> QED  BY <2>2, <3>2 DEF Hung
  <2>3. CASE m = b
    <3>1. T.parent[b] = x /\ T.child[x][o] = b
      BY ONLY <1>1, <1>2, <1>7, <1>8, <2>3
    <3> QED  BY ONLY SMTT(30), <1>1, <2>3, <3>1 DEF Hung
  <2>4. CASE m \notin {x, y, b}
    <3>1. T.parent[m] = t.parent[m]
      BY ONLY <1>7, <1>8, <2>4
    <3>2. m # t.root
      BY ONLY <1>2, <1>7, <2>0, <2>4
    <3>3. PICK q \in M : t.parent[m] = q /\ \E r \in Sides : t.child[q][r] = m
      <4>1. Hung(t, M, m)
        BY <3>2 DEF Laid
      <4> QED  BY <4>1 DEF Hung
    <3>5. PICK r \in Sides : t.child[q][r] = m
      BY <3>3
    <3>4. T.child[q][r] = m
      <4>1. m # Nil /\ q \in Nodes /\ m # x /\ m # y /\ m # b
        BY <1>8, <2>4
      <4>2. ~ (q = y /\ r = s) /\ ~ (q = x /\ r = o) /\ ~ (p # Nil /\ q = p /\ r = z)
        BY ONLY <1>0, <1>2, <3>5, <4>1
      <4> QED  BY ONLY <1>7, <3>5, <4>1, <4>2
    <3> QED  BY <3>1, <3>3, <3>4 DEF Hung
  <2> QED  BY <2>1, <2>2, <2>3, <2>4
<1>14. \A n \in Nodes \ M : T.parent[n] = Nil /\ \A r \in Sides : T.child[n][r] = Nil
  <2>1. \A n \in Nodes \ M : t.parent[n] = Nil /\ \A r \in Sides : t.child[n][r] = Nil
    BY DEF Laid
  <2> QED  BY ONLY <1>2, <1>7, <1>8, <2>1 DEF Links
<1>15. /\ L \in Nat /\ pos \in [M -> 1 .. L] /\ \A i \in 1 .. L : \E m \in M : pos[m] = i
       /\ \A m, n \in M : pos[m] = pos[n] => m = n
  BY DEF Laid
<1>16. Laid(T, M, L, pos, e)
  BY ONLY <1>5, <1>6, <1>7, <1>8, <1>10, <1>11, <1>12, <1>13, <1>14, <1>15 DEF Laid
<1> QED  BY <1>16

\* What is laid out does not depend on colors, nor on the parent of the sentinel.
LEMMA SameShape ==
    ASSUME NEW t, NEW M, NEW L, NEW pos, NEW bd, Laid(t, M, L, pos, bd),
           NEW T \in Trees, T.root = t.root,
           \A m \in Nodes, s \in Sides : T.child[m][s] = t.child[m][s],
           \A m \in Nodes : T.parent[m] = t.parent[m]
    PROVE  Laid(T, M, L, pos, bd)
<1>1. M \subseteq Nodes
  BY DEF Laid
<1>2. \A m \in M, s \in Sides : Linked(T, M, pos, bd, m, s)
  <2>1. \A m \in M, s \in Sides : Linked(t, M, pos, bd, m, s)
    BY DEF Laid
  <2> QED  BY <1>1, <2>1 DEF Linked
<1>3. \A m \in M \ {T.root} : Hung(T, M, m)
  <2>1. \A m \in M \ {t.root} : Hung(t, M, m)
    BY DEF Laid
  <2> QED  BY <1>1, <2>1 DEF Hung
<1> QED  BY <1>1, <1>2, <1>3 DEF Laid

-----------------------------------------------------------------------------
(* Arguments along the paths of a tree.                                     *)

\* A set of numbers has a least one.
LEMMA LeastOf ==
    ASSUME NEW S \in SUBSET Nat, S # {}
    PROVE  \E n \in S : \A k \in S : n <= k
<1>1. PICK n \in S : \A k \in S : <<k, n>> \notin OpToRel(<, Nat)
  BY ZenonT(40), WFMin, NatLessThanWellFounded
<1>2. ASSUME NEW k \in S, k < n  PROVE FALSE
  <2>1. <<k, n>> \in Nat \X Nat /\ <<k, n>>[1] = k /\ <<k, n>>[2] = n
    OBVIOUS
  <2>2. <<k, n>> \in OpToRel(<, Nat)
    BY <1>2, <2>1 DEF OpToRel
  <2> QED  BY ZenonT(40), <1>1, <2>2
<1> QED  BY <1>2

\* The room below a node.
Width(bd, m) == bd[m]["right"] - bd[m]["left"]

LEMMA Narrower ==
    ASSUME NEW t, NEW M, NEW L, NEW pos, NEW bd, Laid(t, M, L, pos, bd),
           NEW m \in M, NEW s \in Sides, NEW c, t.child[m][s] = c, c # Nil
    PROVE  /\ c \in M /\ Width(bd, c) < Width(bd, m)
           /\ Width(bd, c) \in Nat /\ Width(bd, m) \in Nat /\ Width(bd, m) <= L + 1
<1>1. c \in M /\ bd[c][s] = bd[m][s] /\ bd[c][Other(s)] = pos[m]
  BY ChildOf
<1>2. /\ pos[m] \in Int /\ \A r \in Sides : bd[m][r] \in Int /\ bd[c][r] \in Int
      /\ bd[m]["left"] < pos[m] /\ pos[m] < bd[m]["right"] /\ bd[c]["left"] < bd[c]["right"]
      /\ 0 <= bd[m]["left"] /\ bd[m]["right"] <= L + 1 /\ L \in Nat
  BY <1>1, Numbers, TwoSides
<1>3. s = "left" \/ s = "right"
  BY TwoSides
<1> QED  BY <1>1, <1>2, <1>3, TwoSides DEF Width

\* No set of nodes has a child of each of its members.
LEMMA NoDescent ==
    ASSUME NEW t, NEW M, NEW L, NEW pos, NEW bd, Laid(t, M, L, pos, bd),
           NEW S \in SUBSET M, \A m \in S : \E s \in Sides : t.child[m][s] \in S
    PROVE  S = {}
<1> SUFFICES ASSUME S # {} PROVE FALSE
  OBVIOUS
<1> DEFINE N == {Width(bd, m) : m \in S}
<1>1. ASSUME NEW m \in S
      PROVE  \E c \in S : Width(bd, c) < Width(bd, m) /\ Width(bd, m) \in Nat
  <2>1. PICK s \in Sides : t.child[m][s] \in S
    OBVIOUS
  <2>2. t.child[m][s] # Nil
    BY <2>1, Numbers
  <2> QED  BY <2>1, <2>2, Narrower
<1>2. N \in SUBSET Nat /\ N # {}
  BY <1>1
<1>3. PICK n \in N : \A k \in N : n <= k
  <2> HIDE DEF N
  <2> QED  BY <1>2, LeastOf
<1>4. PICK m \in S : n = Width(bd, m)
  BY <1>3
<1>5. PICK c \in S : Width(bd, c) < Width(bd, m) /\ Width(bd, m) \in Nat
  BY <1>1
<1>6. Width(bd, c) \in N /\ Width(bd, c) \in Nat
  BY <1>2
<1>7. n <= Width(bd, c)
  BY <1>3, <1>6
<1> HIDE DEF N
<1> QED  BY <1>4, <1>5, <1>6, <1>7

\* No set of nodes has the parent of each of its members.
LEMMA NoClimb ==
    ASSUME NEW t, NEW M, NEW L, NEW pos, NEW bd, Laid(t, M, L, pos, bd),
           NEW S \in SUBSET M, \A m \in S : m # t.root /\ t.parent[m] \in S
    PROVE  S = {}
<1> SUFFICES ASSUME S # {} PROVE FALSE
  OBVIOUS
<1> DEFINE N == {L + 1 - Width(bd, m) : m \in S}
<1>1. ASSUME NEW m \in S
      PROVE  \E p \in S : /\ Width(bd, m) < Width(bd, p)
                          /\ Width(bd, m) \in Nat /\ Width(bd, m) <= L + 1
                          /\ Width(bd, p) \in Nat /\ Width(bd, p) <= L + 1 /\ L \in Nat
  <2>1. PICK p \in S : t.parent[m] = p
    OBVIOUS
  <2>2. m # Nil /\ L \in Nat
    BY Numbers
  <2>3. p \in M /\ SideOf(t, m) \in Sides /\ t.child[p][SideOf(t, m)] = m
    BY <2>1, ParentOf
  <2>4. /\ Width(bd, m) < Width(bd, p) /\ Width(bd, m) \in Nat
        /\ Width(bd, p) \in Nat /\ Width(bd, p) <= L + 1
    BY <2>2, <2>3, Narrower
  <2> QED  BY <2>1, <2>2, <2>4
<1>2. N \in SUBSET Nat /\ N # {}
  BY <1>1
<1>3. PICK n \in N : \A k \in N : n <= k
  <2> HIDE DEF N
  <2> QED  BY <1>2, LeastOf
<1>4. PICK m \in S : n = L + 1 - Width(bd, m)
  BY <1>3
<1>5. PICK p \in S : /\ Width(bd, m) < Width(bd, p)
                     /\ Width(bd, m) \in Nat /\ Width(bd, p) \in Nat /\ L \in Nat
  BY <1>1
<1>6. L + 1 - Width(bd, p) \in N
  OBVIOUS
<1>7. n <= L + 1 - Width(bd, p)
  BY <1>3, <1>6
<1> HIDE DEF N
<1> QED  BY <1>4, <1>5, <1>7

\* A function that follows nx until it meets a member of stop.
Follows(f, D, stop, nx, v, st) == f = [m \in D |-> IF m \in stop THEN v[m] ELSE st[f[nx[m]]]]

\* There is one when every step of nx lowers a rank.
LEMMA FollowExists ==
    ASSUME NEW D, NEW stop, NEW nx, NEW V, NEW v, NEW st, NEW N \in Nat,
           NEW rank \in [D -> 0 .. N],
           \A m \in D \ stop : nx[m] \in D /\ rank[nx[m]] < rank[m],
           \A m \in D : v[m] \in V, \A u \in V : st[u] \in V
    PROVE  \E f \in [D -> V] : Follows(f, D, stop, nx, v, st)
<1> DEFINE Step(f, m) == IF m \in stop THEN v[m] ELSE st[f[nx[m]]]
           Up(f, n) == f \in [D -> V] /\ \A m \in D : rank[m] < n => f[m] = Step(f, m)
           B == {n \in Nat : ~ \E f : Up(f, n)}
<1>1. ASSUME NEW f \in [D -> V], NEW m \in D PROVE Step(f, m) \in V
  OBVIOUS
<1>2. B = {}
  <2> SUFFICES ASSUME B # {} PROVE FALSE
    OBVIOUS
  <2>1. PICK n \in B : \A k \in B : n <= k
    <3> HIDE DEF Up
    <3>1. B \in SUBSET Nat
      OBVIOUS
    <3> HIDE DEF B
    <3> QED  BY ZenonT(40), <3>1, LeastOf
  <2>2. n \in Nat
    OBVIOUS
  <2>3. n # 0
    <3>1. Up([m \in D |-> v[m]], 0)
      OBVIOUS
    <3> HIDE DEF Up
    <3> QED  BY <3>1
  <2>4. PICK f : Up(f, n - 1)
    <3>1. n - 1 \notin B /\ n - 1 \in Nat
      BY <2>1, <2>2, <2>3
    <3> HIDE DEF Up
    <3> QED  BY <3>1
  <2> DEFINE g == [m \in D |-> Step(f, m)]
  <2>5. f \in [D -> V] /\ \A m \in D : rank[m] < n - 1 => f[m] = Step(f, m)
    BY <2>4
  <2>6. g \in [D -> V]
    BY <1>1, <2>5
  <2>7. ASSUME NEW m \in D, rank[m] < n  PROVE g[m] = Step(g, m)
    <3>1. CASE m \in stop
      BY <3>1
    <3>2. CASE m \notin stop
      <4>1. nx[m] \in D /\ rank[nx[m]] < n - 1
        BY <2>2, <2>7, <3>2
      <4>2. f[nx[m]] = g[nx[m]]
        BY <2>5, <4>1
      <4> QED  BY ZenonT(40), <3>2, <4>2
    <3> QED  BY ZenonT(40), <3>1, <3>2
  <2>8. Up(g, n)
    BY ZenonT(40), <2>6, <2>7
  <2> HIDE DEF Up
  <2> QED  BY <2>8
<1>3. PICK f : Up(f, N + 1)
  <2>1. N + 1 \in Nat /\ N + 1 \notin B
    BY <1>2
  <2> HIDE DEF Up
  <2> QED  BY <2>1
<1>4. f \in [D -> V] /\ \A m \in D : f[m] = Step(f, m)
  BY <1>3
<1>5. f = [m \in D |-> Step(f, m)]
  BY <1>4
<1> QED  BY ZenonT(40), <1>4, <1>5 DEF Follows

-----------------------------------------------------------------------------
(* The elements in order.                                                   *)

\* A middle element with what is before it and behind it.
LEMMA JoinAt ==
    ASSUME NEW S, NEW w \in Seq(S), NEW l \in Int, NEW p \in Int, NEW r \in Int,
           0 <= l, l < p, p < r, r <= Len(w) + 1
    PROVE  SubSeq(w, l + 1, p - 1) \o <<w[p]>> \o SubSeq(w, p + 1, r - 1)
             = SubSeq(w, l + 1, r - 1)
<1>0. Len(w) \in Nat
  BY LenProperties
<1>1. /\ p \in 1 .. Len(w) /\ l + 1 \in 1 .. Len(w) + 1 /\ l + 1 \in 1 .. Len(w) /\ p \in l + 1 .. Len(w)
      /\ p \in (l + 1) - 1 .. Len(w) /\ r - 1 \in p .. Len(w)
  BY <1>0
<1>2. SubSeq(w, l + 1, p) = SubSeq(w, l + 1, p - 1) \o <<w[p]>>
  BY <1>1, SubSeqRecursiveSecond
<1>3. SubSeq(w, l + 1, p) \o SubSeq(w, p + 1, r - 1) = SubSeq(w, l + 1, r - 1)
  <2> DEFINE a == l + 1
             b == r - 1
  <2>1. a \in 1 .. Len(w) + 1 /\ p \in a - 1 .. Len(w) /\ b \in p .. Len(w)
    BY <1>1
  <2> HIDE DEF a, b
  <2>2. SubSeq(w, a, p) \o SubSeq(w, p + 1, b) = SubSeq(w, a, b)
    BY <2>1, ConcatAdjacentSubSeq
  <2> QED  BY <2>2 DEF a, b
<1> QED  BY <1>2, <1>3

\* The nodes by position.
Listed(M, L, pos) == [i \in 1 .. L |-> CHOOSE m \in M : pos[m] = i]

LEMMA ListedIs ==
    ASSUME NEW t, NEW M, NEW L, NEW pos, NEW bd, Laid(t, M, L, pos, bd),
           NEW w, w = Listed(M, L, pos)
    PROVE  /\ w \in Seq(Nodes) /\ Len(w) = L /\ L \in Nat
           /\ \A m \in M : pos[m] \in 1 .. L /\ w[pos[m]] = m
           /\ \A i \in 1 .. L : w[i] \in M /\ pos[w[i]] = i
           /\ ToSet(w) = M
<1>1. /\ M \subseteq Nodes /\ L \in Nat /\ pos \in [M -> 1 .. L]
      /\ \A i \in 1 .. L : \E m \in M : pos[m] = i
      /\ \A m, n \in M : pos[m] = pos[n] => m = n
  BY DEF Laid
<1>2. \A i \in 1 .. L : w[i] \in M /\ pos[w[i]] = i
  BY <1>1 DEF Listed
<1>3. DOMAIN w = 1 .. L /\ w = [i \in 1 .. L |-> w[i]]
  BY DEF Listed
<1>4. w \in [1 .. L -> Nodes]
  BY <1>1, <1>2, <1>3
<1>5. w \in Seq(Nodes) /\ Len(w) = L
  BY <1>1, <1>4, SeqDef
<1>6. \A m \in M : pos[m] \in 1 .. L /\ w[pos[m]] = m
  BY <1>1, <1>2
<1>7. ToSet(w) = M
  BY <1>2, <1>3, <1>6 DEF ToSet
<1> QED  BY <1>1, <1>2, <1>5, <1>6, <1>7

\* What Walk computes below a node.
Piece(t, M, w, bd, n) ==
    IF n = Nil THEN <<>>
    ELSE IF n \in M THEN SubSeq(w, bd[n]["left"] + 1, bd[n]["right"] - 1) ELSE <<n>>

Joined(t, M, w, bd) == \A n \in Nodes :
    Piece(t, M, w, bd, n) = Piece(t, M, w, bd, t.child[n]["left"]) \o <<n>>
                              \o Piece(t, M, w, bd, t.child[n]["right"])

LEMMA PieceJoins ==
    ASSUME NEW t, NEW M, NEW L, NEW pos, NEW bd, Laid(t, M, L, pos, bd),
           NEW w, w = Listed(M, L, pos)
    PROVE  Joined(t, M, w, bd)
<1> SUFFICES ASSUME NEW n \in Nodes
             PROVE  Piece(t, M, w, bd, n) = Piece(t, M, w, bd, t.child[n]["left"]) \o <<n>>
                                              \o Piece(t, M, w, bd, t.child[n]["right"])
  BY ZenonT(40) DEF Joined
<1>1. n # Nil /\ w \in Seq(Nodes) /\ Len(w) = L /\ L \in Nat
  BY RBAssumption, ListedIs
<1>2. CASE n \in M
  <2> DEFINE l == bd[n]["left"]
             p == pos[n]
             r == bd[n]["right"]
             a == t.child[n]["left"]
             b == t.child[n]["right"]
  <2>1. /\ p \in Int /\ l \in Int /\ r \in Int /\ 0 <= l /\ l < p /\ p < r /\ r <= L + 1
        /\ w[p] = n
    BY <1>2, ListedIs, Numbers, TwoSides
  <2>2. Piece(t, M, w, bd, a) = SubSeq(w, l + 1, p - 1)
    <3>1. CASE a = Nil
      <4>1. l = p - 1
        BY <1>2, <2>1, <3>1, NoChild, TwoSides DEF Dir
      <4>2. SubSeq(w, l + 1, p - 1) = <<>>
        BY <2>1, <4>1, SubSeqEmpty
      <4> QED  BY ZenonT(40), <3>1, <4>2 DEF Piece
    <3>2. CASE a # Nil
      <4>1. a \in M /\ bd[a]["left"] = l /\ bd[a]["right"] = p
        BY <1>2, <3>2, ChildOf, TwoSides
      <4> HIDE DEF a, l, p
      <4> QED  BY ZenonT(40), <3>2, <4>1 DEF Piece
    <3> QED  BY <3>1, <3>2
  <2>3. Piece(t, M, w, bd, b) = SubSeq(w, p + 1, r - 1)
    <3>1. CASE b = Nil
      <4>1. r = p + 1
        BY <1>2, <2>1, <3>1, NoChild, TwoSides DEF Dir
      <4>2. SubSeq(w, p + 1, r - 1) = <<>>
        BY <2>1, <4>1, SubSeqEmpty
      <4> QED  BY ZenonT(40), <3>1, <4>2 DEF Piece
    <3>2. CASE b # Nil
      <4>1. b \in M /\ bd[b]["left"] = p /\ bd[b]["right"] = r
        BY <1>2, <3>2, ChildOf, TwoSides
      <4> HIDE DEF b, r, p
      <4> QED  BY ZenonT(40), <3>2, <4>1 DEF Piece
    <3> QED  BY <3>1, <3>2
  <2>4. Piece(t, M, w, bd, n) = SubSeq(w, l + 1, r - 1)
    BY ZenonT(40), <1>1, <1>2 DEF Piece
  <2> HIDE DEF l, p, r, a, b
  <2>5. SubSeq(w, l + 1, p - 1) \o <<w[p]>> \o SubSeq(w, p + 1, r - 1) = SubSeq(w, l + 1, r - 1)
    BY <1>1, <2>1, JoinAt
  <2>6. Piece(t, M, w, bd, n) = Piece(t, M, w, bd, a) \o <<n>> \o Piece(t, M, w, bd, b)
    BY ZenonT(40), <2>1, <2>2, <2>3, <2>4, <2>5
  <2> QED  BY <2>6 DEF a, b
<1>3. CASE n \notin M
  <2>1. t.child[n]["left"] = Nil /\ t.child[n]["right"] = Nil
    BY <1>3, TwoSides DEF Laid
  <2>2. Piece(t, M, w, bd, n) = <<n>> /\ Piece(t, M, w, bd, Nil) = <<>>
    BY <1>1, <1>3 DEF Piece
  <2>3. <<>> \o <<n>> \o <<>> = <<n>>
    OBVIOUS
  <2> QED  BY <2>1, <2>2, <2>3
<1> QED  BY <1>2, <1>3

\* Walk lists the nodes by position.
LEMMA WalkIs ==
    ASSUME NEW t, NEW M, NEW L, NEW pos, NEW bd, Laid(t, M, L, pos, bd),
           NEW w, w = Listed(M, L, pos)
    PROVE  Walk(t) = w
<1> DEFINE F(f) == [n \in Nodes \cup {Nil} |->
                      IF n = Nil THEN <<>>
                      ELSE f[t.child[n]["left"]] \o <<n>> \o f[t.child[n]["right"]]]
           below == CHOOSE f : f = F(f)
           g == [n \in Nodes \cup {Nil} |-> Piece(t, M, w, bd, n)]
<1>1. Walk(t) = below[t.root]
  BY DEF Walk
<1>2. t \in Trees /\ \A n \in Nodes, s \in Sides : t.child[n][s] \in Nodes \cup {Nil}
  BY DEF Laid, Trees, Links
<1>10. Joined(t, M, w, bd)
  BY PieceJoins
<1>3. g = F(g)
  <2>1. ASSUME NEW n \in Nodes \cup {Nil}
        PROVE  g[n] = IF n = Nil THEN <<>>
                      ELSE g[t.child[n]["left"]] \o <<n>> \o g[t.child[n]["right"]]
    <3>1. CASE n = Nil
      BY <3>1 DEF Piece
    <3>2. CASE n # Nil
      <4>1. n \in Nodes /\ t.child[n]["left"] \in Nodes \cup {Nil}
            /\ t.child[n]["right"] \in Nodes \cup {Nil}
        BY <1>2, <3>2, TwoSides
      <4>2. Piece(t, M, w, bd, n) = Piece(t, M, w, bd, t.child[n]["left"]) \o <<n>>
                                     \o Piece(t, M, w, bd, t.child[n]["right"])
        BY ZenonT(40), <1>10, <4>1 DEF Joined
      <4> QED  BY ZenonT(40), <3>2, <4>1, <4>2
    <3> QED  BY ZenonT(40), <3>1, <3>2
  <2> QED  BY ZenonT(40), <2>1
<1>4. below = F(below)
  <2> HIDE DEF F, g
  <2> QED  BY <1>3
<1>5. below[Nil] = <<>> /\ \A n \in Nodes :
        below[n] = below[t.child[n]["left"]] \o <<n>> \o below[t.child[n]["right"]]
  <2>1. \A n \in Nodes \cup {Nil} : F(below)[n] =
          IF n = Nil THEN <<>>
          ELSE below[t.child[n]["left"]] \o <<n>> \o below[t.child[n]["right"]]
    <3> HIDE DEF below
    <3> QED  OBVIOUS
  <2> HIDE DEF F, below
  <2> QED  BY ZenonT(40), <1>4, <2>1, RBAssumption
<1> HIDE DEF below, F
<1> DEFINE S == {m \in M : below[m] # Piece(t, M, w, bd, m)}
<1>6. S = {}
  <2>1. ASSUME NEW m \in S, \A s \in Sides : t.child[m][s] \notin S  PROVE FALSE
    <3>1. m \in M /\ m \in Nodes /\ below[m] # Piece(t, M, w, bd, m)
      BY Numbers
    <3>2. ASSUME NEW s \in Sides
          PROVE  below[t.child[m][s]] = Piece(t, M, w, bd, t.child[m][s])
      <4>1. CASE t.child[m][s] = Nil
        BY ONLY <1>5, <4>1 DEF Piece
      <4>2. CASE t.child[m][s] # Nil
        <5>1. t.child[m][s] \in M
          BY <3>1, <4>2, ChildOf
        <5> QED  BY <2>1, <5>1
      <4> QED  BY <4>1, <4>2
    <3> HIDE DEF S
    <3>3. Piece(t, M, w, bd, m) = Piece(t, M, w, bd, t.child[m]["left"]) \o <<m>>
                                   \o Piece(t, M, w, bd, t.child[m]["right"])
      BY ZenonT(40), <1>10, <3>1 DEF Joined
    <3> QED  BY ZenonT(40), <1>5, <3>1, <3>2, <3>3, TwoSides
  <2>2. S \in SUBSET M
    OBVIOUS
  <2> HIDE DEF S
  <2> QED  BY <2>1, <2>2, NoDescent
<1>7. w \in Seq(Nodes) /\ Len(w) = L /\ L \in Nat
  BY ListedIs
<1>8. CASE t.root = Nil
  <2>1. M = {} /\ \A i \in 1 .. L : \E m \in M : pos[m] = i
    BY <1>8 DEF Laid
  <2>2. L = 0
    BY <1>7, <2>1
  <2>3. w = <<>>
    BY <1>7, <2>2
  <2> QED  BY <1>1, <1>5, <1>8, <2>3
<1>9. CASE t.root # Nil
  <2>1. t.root \in M /\ bd[t.root]["left"] = 0 /\ bd[t.root]["right"] = L + 1
    BY <1>9 DEF Laid
  <2>2. below[t.root] = SubSeq(w, 1, L)
    <3>1. below[t.root] = Piece(t, M, w, bd, t.root)
      BY <1>6, <2>1
    <3>2. Piece(t, M, w, bd, t.root) = SubSeq(w, bd[t.root]["left"] + 1, bd[t.root]["right"] - 1)
      BY ZenonT(40), <1>9, <2>1 DEF Piece
    <3>3. bd[t.root]["left"] + 1 = 1 /\ bd[t.root]["right"] - 1 = L
      BY <1>7, <2>1
    <3> QED  BY ZenonT(40), <3>1, <3>2, <3>3
  <2>3. SubSeq(w, 1, L) = w
    BY <1>7, SubSeqFull
  <2> QED  BY <1>1, <1>7, <2>2, <2>3
<1> QED  BY <1>8, <1>9

-----------------------------------------------------------------------------
(* The inductive invariant.                                                 *)

\* The positions in a tree, whatever bounds they are laid out with.
Form(t, M, L, pos) == \E bd : Laid(t, M, L, pos, bd)

Sorted(M, pos) == \A m, n \in M : pos[m] < pos[n] => Key[m] <= Key[n]

One(t, m) == IF t.color[m] = "BLACK" THEN 1 ELSE 0

\* h counts the black nodes on each path down; the paths through the child of
\* q on side z lack one.
Counted(t, M, h, q, z) ==
    /\ h \in [M \cup {Nil} -> Nat] /\ h[Nil] = 1 /\ \A m \in M : 1 <= h[m]
    /\ \A m \in M, r \in Sides :
         h[m] = h[t.child[m][r]] + One(t, m) + (IF m = q /\ r = z THEN 1 ELSE 0)

\* The red nodes that the loop over x has not to repair.
Reds(t, M, x, deleting) ==
    \A m \in M : t.color[m] = "RED" =>
      \/ m = x
      \/ m # t.root /\ t.color[t.parent[m]] = "BLACK"
      \/ deleting /\ x \in M /\ t.parent[m] = x

\* Where the loop is.
Running(t, M, a, x) ==
    /\ a = "idle" => x = Nil
    /\ a = "insert" => x \in M /\ t.color[x] = "RED"
    /\ a = "delete" => /\ x \in M \cup {Nil}
                       /\ \/ x = t.root /\ t.parent[x] = Nil
                          \/ /\ x # t.root /\ t.parent[x] \in M
                             /\ t.child[t.parent[x]][SideOf(t, x)] = x

ShortAt(t, a, x) == IF a = "delete" THEN t.parent[x] ELSE Nil

Colored(t, M, a, x) ==
    /\ t.color[Nil] = "BLACK"
    /\ Reds(t, M, x, a = "delete") /\ Running(t, M, a, x)
    /\ \E h : Counted(t, M, h, ShortAt(t, a, x), SideOf(t, x))

RBInv ==
    /\ at \in {"idle", "insert", "delete"} /\ nd \in Links
    /\ \E M, L, pos : Form(tree, M, L, pos) /\ Sorted(M, pos) /\ Colored(tree, M, at, nd)

-----------------------------------------------------------------------------
(* What the invariant says of the tree.                                     *)

\* The nodes of the invariant are the members.
LEMMA MembersAre ==
    ASSUME NEW M, NEW L, NEW pos, Form(tree, M, L, pos)
    PROVE  Walk(tree) = Listed(M, L, pos) /\ Members = M /\ M \subseteq Nodes /\ tree \in Trees
<1>1. PICK bd : Laid(tree, M, L, pos, bd)
  BY DEF Form
<1>2. PICK w : w = Listed(M, L, pos)
  OBVIOUS
<1>3. Walk(tree) = w
  BY <1>1, <1>2, WalkIs
<1>4. ToSet(w) = M
  BY <1>1, <1>2, ListedIs
<1> QED  BY <1>1, <1>2, <1>3, <1>4 DEF Members, Laid

LEMMA InvTypes == ASSUME RBInv PROVE TypeOK
<1>1. tree \in Trees
  BY MembersAre DEF RBInv
<1> QED  BY <1>1 DEF TypeOK, Trees, Links, RBInv

LEMMA InvLinks == ASSUME RBInv PROVE LinksExact
<1>1. PICK M, L, pos : Form(tree, M, L, pos) /\ tree.color[Nil] = "BLACK"
  BY DEF RBInv, Colored
<1>2. PICK bd : Laid(tree, M, L, pos, bd)
  BY <1>1 DEF Form
<1>3. PICK w : w = Listed(M, L, pos)
  OBVIOUS
<1>4. Walk(tree) = w /\ Members = M
  BY <1>1, <1>3, MembersAre
<1>5. IsInjective(w)
  <2>1. w \in Seq(Nodes) /\ Len(w) = L /\ \A i \in 1 .. L : pos[w[i]] = i
    BY <1>2, <1>3, ListedIs
  <2>2. DOMAIN w = 1 .. L
    BY <2>1, LenProperties
  <2> QED  BY <2>1, <2>2 DEF IsInjective
<1>6. tree.root # Nil => tree.parent[tree.root] = Nil
  BY <1>2 DEF Laid
<1>7. \A n \in M, s \in Sides :
        tree.child[n][s] # Nil => tree.parent[tree.child[n][s]] = n
  BY <1>2, ChildOf
<1> QED  BY <1>1, <1>4, <1>5, <1>6, <1>7 DEF LinksExact

\* The position that is short is the one the loop is at.
LEMMA ShortIs ==
    ASSUME NEW M, NEW L, NEW pos, NEW bd, Laid(tree, M, L, pos, bd), Running(tree, M, at, nd),
           NEW n \in Nodes, NEW s \in Sides
    PROVE  Short(n, s) <=> n = ShortAt(tree, at, nd) /\ SideOf(tree, nd) = s
<1>1. n # Nil
  BY RBAssumption
<1> QED  BY <1>1 DEF Short, ShortAt, Running

\* The numbers of one node from those of its children.
Paths(b, n) == UNION {{k + (IF tree.color[n] = "BLACK" THEN 1 ELSE 0)
                       + (IF Short(n, s) THEN 1 ELSE 0) : k \in b[tree.child[n][s]]}
                    : s \in Sides}

AllGive(b, n, v) ==
    \A s \in Sides : \E a \in Nat :
      /\ b[tree.child[n][s]] = {a}
      /\ v = a + (IF tree.color[n] = "BLACK" THEN 1 ELSE 0) + (IF Short(n, s) THEN 1 ELSE 0)

LEMMA OneNumber ==
    ASSUME NEW n, NEW b, NEW v, AllGive(b, n, v)
    PROVE  Paths(b, n) = {v}
<1> DEFINE P(s) == {k + (IF tree.color[n] = "BLACK" THEN 1 ELSE 0)
                       + (IF Short(n, s) THEN 1 ELSE 0) : k \in b[tree.child[n][s]]}
<1>1. \A s \in Sides : P(s) = {v}
  BY DEF AllGive
<1>2. Paths(b, n) = UNION {P(s) : s \in Sides}
  BY DEF Paths
<1> HIDE DEF P
<1> QED  BY <1>1, <1>2, TwoSides

\* The sets of the witness: one number for each node.
LEMMA BlacksIs ==
    ASSUME NEW M, NEW L, NEW pos, NEW bd, Laid(tree, M, L, pos, bd), Running(tree, M, at, nd),
           NEW h, Counted(tree, M, h, ShortAt(tree, at, nd), SideOf(tree, nd))
    PROVE  Blacks = {h[tree.root]}
<1> DEFINE F(b) == [n \in Nodes \cup {Nil} |-> IF n = Nil THEN {1} ELSE Paths(b, n)]
           b == CHOOSE b : b = F(b)
           g == [n \in Nodes \cup {Nil} |->
                   IF n = Nil THEN {1} ELSE IF n \in M THEN {h[n]}
                   ELSE {1 + (IF tree.color[n] = "BLACK" THEN 1 ELSE 0)}]
<1>1. Blacks = b[tree.root]
  BY DEF Blacks, Paths
<1>2. /\ tree \in Trees /\ M \subseteq Nodes /\ Nil \notin Nodes
      /\ \A n \in Nodes, s \in Sides : tree.child[n][s] \in Nodes \cup {Nil}
      /\ \A n \in Nodes \ M, s \in Sides : tree.child[n][s] = Nil
  BY RBAssumption DEF Laid, Trees, Links
<1>3. /\ h[Nil] = 1 /\ \A m \in M : h[m] \in Nat
      /\ \A m \in M, s \in Sides :
           h[m] = h[tree.child[m][s]] + (IF tree.color[m] = "BLACK" THEN 1 ELSE 0)
                    + (IF Short(m, s) THEN 1 ELSE 0)
  <2>1. \A m \in M, s \in Sides : Short(m, s) <=> m = ShortAt(tree, at, nd) /\ SideOf(tree, nd) = s
    BY <1>2, ShortIs
  <2> QED  BY <2>1 DEF Counted, One
<1>4. ASSUME NEW n \in Nodes, NEW k, \A s \in Sides : k[tree.child[n][s]] = g[tree.child[n][s]]
      PROVE  Paths(k, n) = g[n]
  <2>1. CASE n \in M
    <3>1. ASSUME NEW s \in Sides
          PROVE  \E a \in Nat :
             /\ k[tree.child[n][s]] = {a}
             /\ h[n] = a + (IF tree.color[n] = "BLACK" THEN 1 ELSE 0) + (IF Short(n, s) THEN 1 ELSE 0)
      <4>1. g[tree.child[n][s]] = {h[tree.child[n][s]]} /\ h[tree.child[n][s]] \in Nat
        <5>1. tree.child[n][s] \in M \cup {Nil}
          BY <2>1, ChildOf
        <5> QED  BY <1>2, <1>3, <5>1
      <4> QED  BY ZenonT(40), <1>3, <1>4, <2>1, <4>1
    <3>2. AllGive(k, n, h[n])
      BY <3>1 DEF AllGive
    <3>3. Paths(k, n) = {h[n]}
      BY <3>2, OneNumber
    <3> QED  BY <1>2, <2>1, <3>3
  <2>2. CASE n \notin M
    <3>1. ASSUME NEW s \in Sides  PROVE k[tree.child[n][s]] = {1} /\ ~ Short(n, s)
      <4>1. tree.child[n][s] = Nil
        BY <1>2, <2>2
      <4>2. ~ Short(n, s)
        BY <1>2, <2>2, <4>1 DEF Running, Short
      <4> QED  BY ZenonT(40), <1>4, <4>1, <4>2
    <3> DEFINE v == 1 + (IF tree.color[n] = "BLACK" THEN 1 ELSE 0)
    <3>2. AllGive(k, n, v)
      BY <3>1 DEF AllGive
    <3>3. g[n] = {v}
      BY <1>2, <2>2
    <3> HIDE DEF v
    <3>4. Paths(k, n) = {v}
      BY <3>2, OneNumber
    <3> QED  BY <3>3, <3>4
  <2> QED  BY <2>1, <2>2
<1>5. g = F(g)
  <2>1. ASSUME NEW n \in Nodes  PROVE Paths(g, n) = g[n]
    <3> HIDE DEF g
    <3> QED  BY <1>4
  <2>2. \A n \in Nodes \cup {Nil} : g[n] = IF n = Nil THEN {1} ELSE Paths(g, n)
    <3>1. g[Nil] = {1}
      OBVIOUS
    <3> HIDE DEF g
    <3> QED  BY ZenonT(40), <1>2, <2>1, <3>1
  <2>3. g = [n \in Nodes \cup {Nil} |-> g[n]]
    OBVIOUS
  <2> HIDE DEF g
  <2> QED  BY <2>2, <2>3
<1>6. b = F(b)
  <2> HIDE DEF F, g
  <2> QED  BY <1>5
<1>7. b[Nil] = {1} /\ \A n \in Nodes : b[n] = Paths(b, n)
  <2>1. \A n \in Nodes \cup {Nil} : F(b)[n] = IF n = Nil THEN {1} ELSE Paths(b, n)
    <3> HIDE DEF b
    <3> QED  OBVIOUS
  <2> HIDE DEF F, b
  <2> QED  BY <1>2, <1>6, <2>1
<1>8. g[Nil] = {1} /\ \A m \in M : g[m] = {h[m]} /\ m # Nil
  BY <1>2
<1> HIDE DEF F, b, g
<1> DEFINE S == {m \in M : b[m] # g[m]}
<1>9. S = {}
  <2>1. ASSUME NEW m \in S, \A s \in Sides : tree.child[m][s] \notin S  PROVE FALSE
    <3>1. m \in M /\ m \in Nodes /\ b[m] # g[m]
      BY <1>2
    <3>2. ASSUME NEW s \in Sides  PROVE b[tree.child[m][s]] = g[tree.child[m][s]]
      <4>1. CASE tree.child[m][s] = Nil
        BY ZenonT(40), <1>7, <1>8, <4>1
      <4>2. CASE tree.child[m][s] # Nil
        <5>1. tree.child[m][s] \in M
          BY <3>1, <4>2, ChildOf
        <5> QED  BY <2>1, <5>1
      <4> QED  BY <4>1, <4>2
    <3> HIDE DEF S
    <3> QED  BY <1>4, <1>7, <3>1, <3>2
  <2>2. S \in SUBSET M
    OBVIOUS
  <2> HIDE DEF S
  <2> QED  BY <2>1, <2>2, NoDescent
<1>10. tree.root \in M \cup {Nil}
  BY DEF Laid
<1> QED  BY <1>1, <1>3, <1>7, <1>8, <1>9, <1>10

LEMMA InvBlack == ASSUME RBInv PROVE RedBlack
<1>1. PICK M, L, pos : Form(tree, M, L, pos) /\ Colored(tree, M, at, nd)
  BY DEF RBInv
<1>2. PICK bd : Laid(tree, M, L, pos, bd)
  BY <1>1 DEF Form
<1>3. PICK h : Counted(tree, M, h, ShortAt(tree, at, nd), SideOf(tree, nd))
  BY <1>1 DEF Colored
<1>4. Blacks = {h[tree.root]}
  BY <1>1, <1>2, <1>3, BlacksIs DEF Colored
<1>5. Cardinality(Blacks) = 1
  BY ZenonT(40), <1>4, FS_Singleton
<1>6. Members = M
  BY <1>1, MembersAre
<1> QED  BY <1>1, <1>5, <1>6 DEF RedBlack, Colored, Reds

-----------------------------------------------------------------------------
(* Painting.                                                                *)

\* A tree with the pointers of t.
SamePointers(T, t) ==
    T \in Trees /\ T.root = t.root /\ T.child = t.child /\ T.parent = t.parent

LEMMA PointersLaid ==
    ASSUME NEW t, NEW M, NEW L, NEW pos, NEW bd, Laid(t, M, L, pos, bd),
           NEW T, SamePointers(T, t)
    PROVE  /\ Laid(T, M, L, pos, bd) /\ \A m : SideOf(T, m) = SideOf(t, m)
BY SameShape DEF SamePointers, SideOf

\* The count of one node, without conditions where no path is short.
LEMMA CountedAt ==
    ASSUME NEW t, NEW M, NEW L, NEW pos, NEW bd, Laid(t, M, L, pos, bd),
           NEW h, NEW q, NEW z, Counted(t, M, h, q, z), NEW m \in M, NEW r \in Sides,
           NEW c, t.child[m][r] = c
    PROVE  /\ c \in M \cup {Nil} /\ h[c] \in Nat /\ 1 <= h[c] /\ h[m] \in Nat /\ 1 <= h[m]
           /\ One(t, m) \in {0, 1} /\ h[Nil] = 1
           /\ ~ (m = q /\ r = z) => h[m] = h[c] + One(t, m)
           /\ m = q /\ r = z => h[m] = h[c] + One(t, m) + 1
<1>1. h \in [M \cup {Nil} -> Nat] /\ h[Nil] = 1 /\ \A n \in M : h[n] \in Nat /\ 1 <= h[n]
  BY DEF Counted
<1>2. c \in M \cup {Nil}
  BY ChildOf
<1>3. h[c] \in Nat /\ 1 <= h[c] /\ One(t, m) \in {0, 1}
  BY <1>1, <1>2 DEF One
<1>4. h[m] = h[c] + One(t, m) + (IF m = q /\ r = z THEN 1 ELSE 0)
  BY DEF Counted
<1> QED  BY <1>1, <1>2, <1>3, <1>4

\* Enough to show that a tree is counted.
LEMMA CountedBy ==
    ASSUME NEW t, NEW M, M \subseteq Nodes, NEW h \in [M \cup {Nil} -> Nat], h[Nil] = 1,
           \A m \in M : 1 <= h[m], NEW q, NEW z,
           \A m \in M, r \in Sides :
             /\ t.child[m][r] \in M \cup {Nil}
             /\ ~ (m = q /\ r = z) => h[m] = h[t.child[m][r]] + One(t, m)
             /\ m = q /\ r = z => h[m] = h[t.child[m][r]] + One(t, m) + 1
    PROVE  Counted(t, M, h, q, z)
<1>1. ASSUME NEW m \in M, NEW r \in Sides
      PROVE  h[m] = h[t.child[m][r]] + One(t, m) + (IF m = q /\ r = z THEN 1 ELSE 0)
  <2>1. h[t.child[m][r]] \in Nat /\ One(t, m) \in Nat
    BY DEF One
  <2> QED  BY <2>1
<1> QED  BY <1>1 DEF Counted

\* The root may be painted black.
LEMMA RootCounted ==
    ASSUME NEW t, NEW M, NEW L, NEW pos, NEW bd, Laid(t, M, L, pos, bd), t.root \in M,
           NEW T, SamePointers(T, t), T.color[t.root] = "BLACK",
           \A m \in M \ {t.root} : T.color[m] = t.color[m],
           NEW h, NEW z, Counted(t, M, h, Nil, z), NEW y
    PROVE  \E k : Counted(T, M, k, Nil, y)
<1> DEFINE k == [m \in M \cup {Nil} |-> IF m = t.root THEN h[m] + 1 - One(t, m) ELSE h[m]]
<1>1. M \subseteq Nodes /\ Nil \notin M
  BY RBAssumption DEF Laid
<1>2. h \in [M \cup {Nil} -> Nat] /\ h[Nil] = 1 /\ \A m \in M : 1 <= h[m]
  BY DEF Counted
<1>3. \A m \in M : One(t, m) \in {0, 1}
  BY DEF One
<1>4. /\ k \in [M \cup {Nil} -> Nat] /\ k[Nil] = 1 /\ \A m \in M : 1 <= k[m]
  BY <1>1, <1>2, <1>3
<1>5. ASSUME NEW m \in M, NEW r \in Sides
      PROVE  T.child[m][r] \in M \cup {Nil} /\ m # Nil /\ k[m] = k[T.child[m][r]] + One(T, m)
  <2>1. PICK c : T.child[m][r] = c /\ t.child[m][r] = c
    BY DEF SamePointers
  <2>2. c \in M \cup {Nil} /\ c # t.root
    BY <1>1, <2>1, ChildOf
  <2>3. PICK q : q = Nil
    OBVIOUS
  <2>4. m # q /\ Counted(t, M, h, q, z)
    BY <1>1, <2>3
  <2>5. h[c] \in Nat /\ h[m] \in Nat /\ h[m] = h[c] + One(t, m)
    BY <2>1, <2>4, CountedAt
  <2>6. k[c] = h[c]
    BY <2>2
  <2>7. CASE m = t.root
    <3>1. k[m] = h[m] + 1 - One(t, m) /\ One(T, m) = 1 /\ One(t, m) \in Int
      BY <2>7, <1>3 DEF One
    <3> HIDE DEF k
    <3> QED  BY <1>1, <2>1, <2>2, <2>5, <2>6, <3>1
  <2>8. CASE m # t.root
    <3>1. k[m] = h[m] /\ One(T, m) = One(t, m)
      BY <2>8 DEF One
    <3> HIDE DEF k
    <3> QED  BY <1>1, <2>1, <2>2, <2>5, <2>6, <3>1
  <2> QED  BY <2>7, <2>8
<1> HIDE DEF k
<1>6. Counted(T, M, k, Nil, y)
  BY ZenonT(40), <1>1, <1>4, <1>5, CountedBy
<1> QED  BY <1>6

\* What the links of a rotated tree lead to.
LEMMA RotatedChild ==
    ASSUME NEW t, NEW M, NEW L, NEW pos, NEW bd, Laid(t, M, L, pos, bd),
           NEW x \in M, NEW s \in Sides, NEW y, t.child[x][Other(s)] = y, y # Nil,
           NEW b, t.child[y][s] = b, NEW p, t.parent[x] = p,
           NEW U, SamePointers(U, t), NEW T, Rotated(T, U, x, s, y, b, p),
           NEW m \in M, NEW r \in Sides, NEW c, t.child[m][r] = c, NEW d, T.child[m][r] = d
    PROVE  /\ m = x /\ r = s => d = c /\ d # x /\ d # y
           /\ m = x /\ r = Other(s) => c = y /\ d = b
           /\ m = y /\ r = s => c = b /\ d = x
           /\ m = y /\ r = Other(s) => d = c /\ d # x /\ d # y
           /\ m # x /\ m # y => \/ c = x /\ d = y
                                \/ c # x /\ c # y /\ d = c
           /\ b # x /\ b # y /\ b \in M \cup {Nil} /\ y \in M /\ x # y
<1> DEFINE z == SideOf(t, x)
<1>0. Laid(t, M, L, pos, bd) /\ y # Nil
  OBVIOUS
<1>a. t.child[x][Other(s)] = y /\ t.child[y][s] = b /\ t.parent[x] = p /\ t.child[m][r] = c
  OBVIOUS
<1>1. /\ x \in Nodes /\ y \in M /\ y \in Nodes /\ b \in Links /\ p \in Links
      /\ t.parent[y] = x /\ x # y /\ p # x /\ p # y /\ b # x /\ b # y
      /\ b # Nil => b \in M /\ t.parent[b] = y
      /\ p # Nil => x # t.root /\ p \in M /\ z \in Sides /\ t.child[p][z] = x
      /\ p = Nil => x = t.root
  BY ONLY <1>0, <1>a, RotateParts
<1> HIDE DEF z
<1>2. /\ m \in Nodes /\ x # Nil /\ Other(s) \in Sides /\ Other(s) # s
      /\ r = s \/ r = Other(s)
  BY ONLY <1>0, <1>1, TwoSides, RBAssumption DEF Laid
<1>3. d = IF m = y /\ r = s THEN x
          ELSE IF m = x /\ r = Other(s) THEN b
          ELSE IF p # Nil /\ m = p /\ r = z THEN y
          ELSE c
  <2>1. SideOf(U, x) = z
    BY DEF SamePointers, SideOf, z
  <2> QED  BY <1>2, <2>1 DEF Rotated, SamePointers
<1>4. c = x => p # Nil /\ m = p /\ r = z
  <2>a. SUFFICES ASSUME c = x PROVE p # Nil /\ m = p /\ r = z
    OBVIOUS
  <2>0. t.child[m][r] = x
    BY ONLY <1>a, <2>a
  <2>1. t.parent[x] = m
    BY ONLY <1>0, <1>2, <2>0, ChildOf
  <2>2. p = m /\ m # Nil
    BY ONLY <1>a, <1>2, <2>1, RBAssumption
  <2>3. z \in Sides /\ t.child[m][z] = t.child[m][r] /\ t.child[m][z] # Nil
    BY ONLY <1>1, <1>2, <2>0, <2>2
  <2>4. z = r
    BY ONLY <1>0, <2>3, OnePlace
  <2> QED  BY ONLY <2>2, <2>4
<1>5. c = y => m = x /\ Other(s) = r
  <2>a. SUFFICES ASSUME c = y PROVE m = x /\ Other(s) = r
    OBVIOUS
  <2>1. t.child[m][r] = t.child[x][Other(s)] /\ t.child[m][r] # Nil
    BY ONLY <1>0, <1>a, <2>a
  <2> QED  BY ONLY <1>0, <1>2, <2>1, OnePlace
<1>6. p # Nil /\ m = p /\ r = z => c = x
  BY ONLY <1>a, <1>1
<1> QED  BY ONLY <1>a, <1>1, <1>2, <1>3, <1>4, <1>5, <1>6

\* A rotation of a red node above its parent, when the two exchange colors.
Exchanged(U, t, M, x, y) ==
    /\ SamePointers(U, t) /\ U.color[x] = t.color[y] /\ U.color[y] = t.color[x]
    /\ \A m \in M \ {x, y} : U.color[m] = t.color[m]

Recount(k, h, t, M, x, y) ==
    /\ k[y] = h[x] /\ k[x] = h[x] - One(t, x)
    /\ \A m \in (M \cup {Nil}) \ {x, y} : k[m] = h[m]

LEMMA SwapCounted ==
    ASSUME NEW t, NEW M, NEW L, NEW pos, NEW bd, Laid(t, M, L, pos, bd),
           NEW x \in M, NEW s \in Sides, NEW y, t.child[x][Other(s)] = y, y # Nil,
           NEW b, t.child[y][s] = b, NEW p, t.parent[x] = p, t.color[y] = "RED",
           NEW U, Exchanged(U, t, M, x, y), NEW T, Rotated(T, U, x, s, y, b, p),
           NEW h, NEW q, NEW z, Counted(t, M, h, q, z),
           ~ (q = x /\ Other(s) = z), ~ (q = y /\ z = s)
    PROVE  \E k : Counted(T, M, k, q, z) /\ Recount(k, h, t, M, x, y)
<1> DEFINE o == Other(s)
           k == [m \in M \cup {Nil} |-> IF m = y THEN h[x] ELSE IF m = x THEN h[x] - One(t, x) ELSE h[m]]
<1>0. /\ Laid(t, M, L, pos, bd) /\ y # Nil /\ SamePointers(U, t) /\ Rotated(T, U, x, s, y, b, p)
      /\ Counted(t, M, h, q, z) /\ ~ (q = x /\ z = o) /\ ~ (q = y /\ z = s)
  BY DEF Exchanged
<1>a. t.child[x][Other(s)] = y /\ t.child[y][s] = b /\ t.parent[x] = p
  OBVIOUS
<1>1. M \subseteq Nodes /\ Nil \notin M /\ o \in Sides /\ o # s /\ s \in Sides
      /\ \A r \in Sides : r = s \/ r = o
  BY ONLY <1>0, RBAssumption, TwoSides DEF Laid
<1>2. y \in M /\ x # y /\ b \in M \cup {Nil} /\ b # x /\ b # y
  <2>1. PICK c, d : t.child[x][s] = c /\ T.child[x][s] = d
    OBVIOUS
  <2> QED  BY ONLY <1>0, <1>a, <1>1, <2>1, RotatedChild
<1>3. h \in [M \cup {Nil} -> Nat] /\ h[Nil] = 1 /\ \A m \in M : h[m] \in Nat /\ 1 <= h[m]
  BY SMTT(30) DEF Counted
<1>4. /\ h[x] = h[y] + One(t, x) /\ h[y] = h[b] /\ h[b] \in Nat /\ h[x] \in Nat /\ 1 <= h[b]
      /\ One(t, x) \in {0, 1} /\ One(t, y) = 0 /\ One(T, x) = 0 /\ One(T, y) = One(t, x)
  <2>1. h[x] = h[y] + One(t, x) /\ One(t, x) \in {0, 1}
    BY <1>1, CountedAt
  <2>2. One(t, y) = 0 /\ One(T, x) = 0 /\ One(T, y) = One(t, x)
    BY DEF One, Rotated, Exchanged
  <2>3. h[y] = h[b] + One(t, y) /\ h[b] \in Nat /\ 1 <= h[b]
    BY ONLY <1>0, <1>a, <1>1, <1>2, CountedAt
  <2>4. h[y] = h[b]
    BY ONLY <2>2, <2>3
  <2>5. h[x] \in Nat
    BY <1>3
  <2> QED  BY ONLY <2>1, <2>2, <2>3, <2>4, <2>5
<1>5. k \in [M \cup {Nil} -> Nat] /\ k[Nil] = 1 /\ \A m \in M : 1 <= k[m]
  <2>1. h[x] - One(t, x) \in Nat /\ 1 <= h[x] - One(t, x) /\ 1 <= h[x]
    BY ONLY <1>4
  <2> QED  BY ONLY <1>1, <1>2, <1>3, <2>1
<1>6. k[y] = h[x] /\ k[x] = h[x] - One(t, x) /\ \A m \in (M \cup {Nil}) \ {x, y} : k[m] = h[m]
  BY ONLY <1>2
<1> HIDE DEF k, o
<1>7. ASSUME NEW m \in M, NEW r \in Sides
      PROVE  /\ T.child[m][r] \in M \cup {Nil}
             /\ ~ (m = q /\ r = z) => k[m] = k[T.child[m][r]] + One(T, m)
             /\ m = q /\ r = z => k[m] = k[T.child[m][r]] + One(T, m) + 1
  <2>1. PICK c : t.child[m][r] = c
    OBVIOUS
  <2>2. PICK d : T.child[m][r] = d
    OBVIOUS
  <2>3. /\ c \in M \cup {Nil} /\ h[c] \in Nat /\ h[m] \in Nat /\ One(t, m) \in {0, 1}
        /\ ~ (m = q /\ r = z) => h[m] = h[c] + One(t, m)
        /\ m = q /\ r = z => h[m] = h[c] + One(t, m) + 1
    BY <2>1, CountedAt
  <2>4. /\ m = x /\ r = s => d = c /\ d # x /\ d # y
        /\ m = x /\ r = o => c = y /\ d = b
        /\ m = y /\ r = s => c = b /\ d = x
        /\ m = y /\ r = o => d = c /\ d # x /\ d # y
        /\ m # x /\ m # y => \/ c = x /\ d = y
                             \/ c # x /\ c # y /\ d = c
    BY ONLY <1>0, <1>a, <2>1, <2>2, RotatedChild DEF o
  <2>5. m # x /\ m # y => One(T, m) = One(t, m)
    BY DEF One, Rotated, Exchanged
  <2>6. CASE m = x /\ r = s
    <3>1. d = c /\ k[d] = h[c] /\ k[m] = h[m] - One(t, m) /\ One(T, m) = 0
      BY ONLY SMTT(30), <1>4, <1>6, <2>3, <2>4, <2>6
    <3> QED  BY SMTT(30), <2>2, <2>3, <3>1
  <2>7. CASE m = x /\ r = o
    <3>0. k[x] = h[y] /\ k[b] = h[b]
      BY ONLY SMTT(30), <1>2, <1>4, <1>6, <2>3, <2>7
    <3>1. d = b /\ k[d] = h[b] /\ k[m] = h[y] /\ One(T, m) = 0 /\ ~ (m = q /\ r = z)
      BY ONLY <1>0, <1>4, <2>4, <2>7, <3>0
    <3> QED  BY ONLY SMTT(30), <1>2, <1>4, <2>2, <2>3, <3>1
  <2>8. CASE m = y /\ r = s
    <3>1. d = x /\ k[d] = h[x] - One(t, x) /\ k[m] = h[x] /\ One(T, m) = One(t, x) /\ ~ (m = q /\ r = z)
      BY ONLY <1>0, <1>2, <1>4, <1>6, <2>3, <2>4, <2>8
    <3> QED  BY ONLY SMTT(30), <1>2, <1>4, <2>2, <2>3, <3>1
  <2>9. CASE m = y /\ r = o
    <3>1. d = c /\ k[d] = h[c] /\ k[m] = h[m] + One(t, x) /\ One(T, m) = One(t, x) /\ One(t, m) = 0
      BY ONLY <1>2, <1>4, <1>6, <2>3, <2>4, <2>9
    <3> QED  BY ONLY SMTT(30), <1>4, <2>2, <2>3, <3>1
  <2>10. CASE m # x /\ m # y
    <3>1. d \in M \cup {Nil} /\ k[d] = h[c] /\ k[m] = h[m] /\ One(T, m) = One(t, m)
      BY ONLY <1>2, <1>6, <2>3, <2>4, <2>5, <2>10
    <3> QED  BY ONLY <2>2, <2>3, <2>10, <3>1
  <2> QED  BY ONLY <1>1, <2>6, <2>7, <2>8, <2>9, <2>10
<1>8. Counted(T, M, k, q, z)
  BY ZenonT(40), <1>1, <1>5, <1>7, CountedBy
<1> QED  BY <1>6, <1>8 DEF Recount

-----------------------------------------------------------------------------
(* A round of rb_insert_fixup.                                              *)

\* What Colored says in the loop of rb_insert_fixup.
LEMMA InsertColored ==
    ASSUME NEW t, NEW M, M \subseteq Nodes, NEW x
    PROVE  Colored(t, M, "insert", x) <=>
             /\ t.color[Nil] = "BLACK" /\ Reds(t, M, x, FALSE)
             /\ x \in M /\ t.color[x] = "RED" /\ \E h, z : Counted(t, M, h, Nil, z)
<1>1. ASSUME NEW h, NEW z, NEW y, Counted(t, M, h, Nil, z)  PROVE Counted(t, M, h, Nil, y)
  <2>1. \A m \in M : m # Nil
    BY RBAssumption
  <2> QED  BY <1>1, <2>1 DEF Counted
<1>2. ShortAt(t, "insert", x) = Nil
  BY DEF ShortAt
<1>3. Running(t, M, "insert", x) <=> x \in M /\ t.color[x] = "RED"
  BY DEF Running
<1>4. (\E h : Counted(t, M, h, Nil, SideOf(t, x))) <=> \E h, z : Counted(t, M, h, Nil, z)
  BY <1>1
<1> QED  BY ZenonT(40), <1>2, <1>3, <1>4 DEF Colored

\* nd and what is above it, when the loop goes on.
Uncles(t, M, x, p, g, s, u) ==
    /\ t.parent[x] = p /\ t.parent[p] = g /\ SideOf(t, p) = s /\ t.child[g][Other(s)] = u
    /\ t.color[p] = "RED" /\ t.color[g] = "BLACK"
    /\ x \in M /\ p \in M /\ g \in M /\ s \in Sides /\ t.child[g][s] = p
    /\ t.child[p][SideOf(t, x)] = x /\ SideOf(t, x) \in Sides
    /\ x # p /\ p # g /\ x # g /\ u # p /\ u # x /\ u # g /\ u \in M \cup {Nil}
    /\ u # Nil => t.parent[u] = g

LEMMA UnclesAre ==
    ASSUME NEW t, NEW M, NEW L, NEW pos, NEW bd, Laid(t, M, L, pos, bd),
           NEW x, Colored(t, M, "insert", x), NEW p, t.parent[x] = p, t.color[p] = "RED",
           NEW g, t.parent[p] = g, NEW s, SideOf(t, p) = s, NEW u, t.child[g][Other(s)] = u
    PROVE  Uncles(t, M, x, p, g, s, u)
<1>0. Laid(t, M, L, pos, bd) /\ Colored(t, M, "insert", x) /\ t.color[p] = "RED"
  OBVIOUS
<1>a. t.parent[x] = p /\ t.parent[p] = g /\ SideOf(t, p) = s /\ t.child[g][Other(s)] = u
  OBVIOUS
<1>1. M \subseteq Nodes /\ Nil \notin M
  BY ONLY <1>0, RBAssumption DEF Laid
<1>2. /\ t.color[Nil] = "BLACK" /\ Reds(t, M, x, FALSE)
      /\ x \in M /\ t.color[x] = "RED"
  BY ONLY ZenonT(40), <1>0, <1>1, InsertColored
<1>3. PICK z : SideOf(t, x) = z
  OBVIOUS
<1>4. x # t.root /\ p \in M /\ p # x /\ z \in Sides /\ t.child[p][z] = x
  <2>1. p # Nil
    BY ONLY <1>0, <1>2
  <2> QED  BY ONLY <1>0, <1>a, <1>2, <1>3, <2>1, ParentOf
<1>5. p # t.root /\ t.color[g] = "BLACK"
  BY ONLY <1>0, <1>a, <1>2, <1>4 DEF Reds
<1>6. g \in M /\ g # p /\ s \in Sides /\ t.child[g][s] = p
  BY ONLY <1>0, <1>a, <1>4, <1>5, ParentOf
<1>7. \A r \in Sides : t.child[p][r] # g
  BY ONLY <1>0, <1>1, <1>4, <1>6, ChildOf
<1>8. x # g
  BY ONLY <1>4, <1>7
<1>9. u \in M \cup {Nil} /\ u # g /\ u # p
  <2>1. Other(s) \in Sides
    BY ONLY <1>6, TwoSides
  <2>2. u # Nil => u \in M /\ u # g
    BY ONLY <1>0, <1>a, <1>6, <2>1, ChildOf
  <2>3. t.child[g][Other(s)] # p
    BY ONLY <1>0, <1>1, <1>4, <1>6, ChildOf
  <2> QED  BY ONLY <1>a, <1>1, <1>6, <2>2, <2>3
<1>11. u # Nil => t.parent[u] = g
  BY ONLY <1>0, <1>a, <1>6, ChildOf, TwoSides
<1>10. u # x
  BY ONLY <1>a, <1>1, <1>2, <1>4, <1>6, <1>8, <1>11
<1> QED  BY ONLY <1>0, <1>a, <1>2, <1>3, <1>4, <1>5, <1>6, <1>8, <1>9, <1>10, <1>11 DEF Uncles

\* The children of a node.
LEMMA Siblings ==
    ASSUME NEW t, NEW M, NEW L, NEW pos, NEW bd, Laid(t, M, L, pos, bd),
           NEW g \in M, NEW m \in M, t.parent[m] = g, NEW s \in Sides
    PROVE  t.child[g][s] = m \/ t.child[g][Other(s)] = m
<1>1. PICK z : SideOf(t, m) = z
  OBVIOUS
<1>2. g # Nil
  BY RBAssumption DEF Laid
<1>3. z \in Sides /\ t.child[g][z] = m
  BY <1>1, <1>2, ParentOf
<1> QED  BY <1>3, TwoSides

\* A red uncle: the two reds go up.
LEMMA LiftKeeps ==
    ASSUME NEW t, NEW M, NEW L, NEW pos, NEW bd, Laid(t, M, L, pos, bd),
           NEW x, Colored(t, M, "insert", x), NEW p, NEW g, NEW s, NEW u,
           Uncles(t, M, x, p, g, s, u), t.color[u] = "RED",
           NEW T, T = Lift(t, p, u, g)
    PROVE  Form(T, M, L, pos) /\ Colored(T, M, "insert", g)
<1>1. M \subseteq Nodes /\ Nil \notin M /\ t \in Trees /\ M \subseteq Links /\ Nil \in Links
  BY RBAssumption DEF Laid, Links
<1>2. PICK h, z : /\ t.color[Nil] = "BLACK" /\ Reds(t, M, x, FALSE)
                  /\ x \in M /\ t.color[x] = "RED" /\ Counted(t, M, h, Nil, z)
  BY ZenonT(40), <1>1, InsertColored
<1>3. /\ x \in M /\ p \in M /\ g \in M /\ s \in Sides /\ t.child[g][s] = p
      /\ t.color[p] = "RED" /\ t.color[g] = "BLACK" /\ t.parent[x] = p /\ t.parent[p] = g
      /\ x # p /\ p # g /\ x # g /\ u # p /\ u # x /\ u # g /\ t.child[g][Other(s)] = u
      /\ u \in M /\ t.parent[u] = g
  BY ZenonT(40), <1>2 DEF Uncles
<1>4. /\ SamePointers(T, t)
      /\ \A m \in Links : T.color[m] = IF m = g THEN "RED" ELSE IF m = u THEN "BLACK"
                                       ELSE IF m = p THEN "BLACK" ELSE t.color[m]
  <2>1. PICK A : A = Paint(t, p, "BLACK")
    OBVIOUS
  <2>2. PICK B : B = Paint(A, u, "BLACK")
    OBVIOUS
  <2>3. T = Paint(B, g, "RED")
    BY <2>1, <2>2 DEF Lift
  <2>4. p \in Links /\ u \in Links /\ g \in Links
    BY ZenonT(40), <1>1, <1>3
  <2>5. Painted(A, t, p, "BLACK")
    BY <1>1, <2>1, <2>4, PaintIs
  <2>6. A \in Trees
    BY <2>5 DEF Painted
  <2>7. Painted(B, A, u, "BLACK")
    BY <2>2, <2>4, <2>6, PaintIs
  <2>8. B \in Trees
    BY <2>7 DEF Painted
  <2>9. Painted(T, B, g, "RED")
    BY <2>3, <2>4, <2>8, PaintIs
  <2> QED  BY <2>5, <2>7, <2>9 DEF Painted, SamePointers
<1>5. Form(T, M, L, pos)
  BY <1>4, PointersLaid DEF Form
<1>6. T.color[Nil] = "BLACK" /\ T.color[g] = "RED"
  BY ZenonT(40), <1>1, <1>2, <1>3, <1>4
<1>7. Reds(T, M, g, FALSE)
  <2> SUFFICES ASSUME NEW m \in M, T.color[m] = "RED", m # g
               PROVE  m # T.root /\ T.color[T.parent[m]] = "BLACK"
    BY DEF Reds
  <2>1. m # u /\ m # p /\ t.color[m] = "RED"
    BY <1>1, <1>4
  <2>2. PICK n : t.parent[m] = n /\ T.parent[m] = n /\ T.root = t.root
    BY <1>4 DEF SamePointers
  <2>3. n # g
    <3> SUFFICES ASSUME n = g PROVE FALSE
      OBVIOUS
    <3>1. g \in M /\ s \in Sides /\ t.parent[m] = g
      BY ZenonT(40), <1>3, <2>2
    <3>2. t.child[g][s] = m \/ t.child[g][Other(s)] = m
      BY <3>1, Siblings
    <3> QED  BY ZenonT(40), <1>3, <2>1, <3>2
  <2>4. CASE m = x
    <3>1. p # Nil /\ t.parent[m] = p
      BY ZenonT(40), <1>1, <1>3, <2>4
    <3>2. m # t.root
      BY <3>1, AboveOf
    <3>3. n = p /\ T.color[p] = "BLACK"
      BY ZenonT(40), <1>1, <1>3, <1>4, <2>2, <2>4
    <3> QED  BY <2>2, <3>2, <3>3
  <2>5. CASE m # x
    <3>1. m # t.root /\ t.color[n] = "BLACK"
      BY ZenonT(40), <1>2, <2>1, <2>2, <2>5 DEF Reds
    <3>2. n \in M
      BY ZenonT(40), <2>2, <3>1, AboveOf
    <3> QED  BY <1>1, <1>4, <2>2, <2>3, <3>1, <3>2
  <2> QED  BY <2>4, <2>5
<1> DEFINE k == [m \in M \cup {Nil} |-> IF m \in {p, u} THEN h[m] + 1 ELSE h[m]]
<1>8. h \in [M \cup {Nil} -> Nat] /\ h[Nil] = 1 /\ \A m \in M : 1 <= h[m]
  BY <1>2 DEF Counted
<1>9. k \in [M \cup {Nil} -> Nat] /\ k[Nil] = 1 /\ \A m \in M : 1 <= k[m]
  <2>1. \A m \in M \cup {Nil} : h[m] \in Nat /\ 1 <= h[m]
    BY <1>8
  <2>2. \A m \in M \cup {Nil} : k[m] \in Nat /\ 1 <= k[m]
    BY <2>1
  <2>3. k = [m \in M \cup {Nil} |-> k[m]]
    OBVIOUS
  <2>4. k[Nil] = h[Nil]
    BY ZenonT(40), <1>1, <1>3
  <2> HIDE DEF k
  <2> QED  BY ZenonT(40), <1>8, <2>2, <2>3, <2>4
<1>10. k[p] = h[p] + 1 /\ k[u] = h[u] + 1 /\ \A m \in (M \cup {Nil}) \ {p, u} : k[m] = h[m]
  BY ZenonT(40), <1>3
<1> HIDE DEF k
<1>11. ASSUME NEW m \in M, NEW r \in Sides
       PROVE  T.child[m][r] \in M \cup {Nil} /\ m # Nil /\ k[m] = k[T.child[m][r]] + One(T, m)
  <2>1. PICK c : T.child[m][r] = c /\ t.child[m][r] = c
    BY <1>4 DEF SamePointers
  <2>2. PICK q : q = Nil
    OBVIOUS
  <2>3. Counted(t, M, h, q, z) /\ m # q
    BY <1>1, <1>2, <2>2
  <2>4. c \in M \cup {Nil} /\ h[c] \in Nat /\ h[m] \in Nat /\ h[m] = h[c] + One(t, m)
    BY <2>1, <2>3, CountedAt
  <2>5. CASE m = g
    <3>1. c = p \/ c = u
      BY ZenonT(40), <1>3, <2>1, <2>5, TwoSides
    <3>2. One(T, m) = 0 /\ One(t, m) = 1
      BY ZenonT(40), <1>3, <1>6, <2>5 DEF One
    <3>3. k[c] = h[c] + 1 /\ k[m] = h[m]
      BY ZenonT(40), <1>3, <1>10, <2>5, <3>1
    <3> QED  BY <1>1, <2>1, <2>4, <3>2, <3>3
  <2>6. CASE m = p \/ m = u
    <3>1. One(T, m) = 1 /\ One(t, m) = 0
      BY ZenonT(40), <1>1, <1>3, <1>4, <2>6 DEF One
    <3>2. c # p /\ c # u
      <4>1. c # Nil => t.parent[c] = m
        BY <2>1, ChildOf
      <4> QED  BY ZenonT(40), <1>1, <1>3, <2>6, <4>1
    <3>3. k[c] = h[c] /\ k[m] = h[m] + 1
      BY <1>10, <2>4, <2>6, <3>2
    <3> QED  BY <1>1, <2>1, <2>4, <3>1, <3>3
  <2>7. CASE m # g /\ m # p /\ m # u
    <3>1. One(T, m) = One(t, m)
      BY <1>1, <1>4, <2>7 DEF One
    <3>2. c # p /\ c # u
      <4>1. c # Nil => t.parent[c] = m
        BY <2>1, ChildOf
      <4> QED  BY ZenonT(40), <1>1, <1>3, <2>7, <4>1
    <3>3. k[c] = h[c] /\ k[m] = h[m]
      BY <1>10, <2>4, <2>7, <3>2
    <3> QED  BY <1>1, <2>1, <2>4, <3>1, <3>3
  <2> QED  BY <2>5, <2>6, <2>7
<1>12. Counted(T, M, k, Nil, z)
  BY ZenonT(40), <1>1, <1>9, <1>11, CountedBy
<1> QED  BY ZenonT(40), <1>1, <1>3, <1>5, <1>6, <1>7, <1>12, InsertColored

\* A rotation of a painted tree.
LEMMA RotateDone ==
    ASSUME NEW t, NEW M, NEW L, NEW pos, NEW bd, Laid(t, M, L, pos, bd),
           NEW x \in M, NEW s \in Sides, NEW y, t.child[x][Other(s)] = y, y # Nil,
           NEW b, t.child[y][s] = b, NEW p, t.parent[x] = p,
           NEW U, SamePointers(U, t), NEW T, T = rotate(U, x, s)
    PROVE  Rotated(T, U, x, s, y, b, p) /\ Form(T, M, L, pos)
<1>1. U \in Trees /\ Laid(U, M, L, pos, bd)
  BY PointersLaid DEF SamePointers
<1>2. y = U.child[x][Other(s)] /\ b = U.child[y][s] /\ p = U.parent[x]
  BY DEF SamePointers
<1>3. x \in Nodes /\ y \in Nodes /\ b \in Links /\ p \in Links
  <2>1. PICK z : SideOf(t, x) = z
    OBVIOUS
  <2> QED  BY <2>1, RotateParts
<1>4. Rotated(T, U, x, s, y, b, p)
  BY <1>1, <1>2, <1>3, RotateIs
<1>5. \E e : Laid(T, M, L, pos, e)
  BY <1>1, <1>2, <1>4, RotateLaid
<1> QED  BY <1>4, <1>5 DEF Form

\* nd is an inner grandchild: a rotation makes it an outer one.
LEMMA InnerKeeps ==
    ASSUME NEW t, NEW M, NEW L, NEW pos, NEW bd, Laid(t, M, L, pos, bd),
           NEW x, Colored(t, M, "insert", x), NEW p, NEW g, NEW s, NEW u,
           Uncles(t, M, x, p, g, s, u), t.color[u] # "RED", t.child[p][Other(s)] = x,
           NEW T, T = rotate(t, p, s)
    PROVE  /\ Form(T, M, L, pos) /\ Colored(T, M, "insert", p)
           /\ Uncles(T, M, p, x, g, s, u) /\ T.color[u] # "RED" /\ T.child[x][s] = p
<1>1. M \subseteq Nodes /\ Nil \notin M /\ t \in Trees /\ M \subseteq Links /\ Nil \in Links
  BY RBAssumption DEF Laid, Links
<1>2. PICK h, z : /\ t.color[Nil] = "BLACK" /\ Reds(t, M, x, FALSE)
                  /\ x \in M /\ t.color[x] = "RED" /\ Counted(t, M, h, Nil, z)
  BY ZenonT(40), <1>1, InsertColored
<1>3. /\ x \in M /\ p \in M /\ g \in M /\ s \in Sides /\ t.child[g][s] = p
      /\ t.color[p] = "RED" /\ t.color[g] = "BLACK" /\ t.parent[x] = p /\ t.parent[p] = g
      /\ x # p /\ p # g /\ x # g /\ u # p /\ u # x /\ u # g /\ t.child[g][Other(s)] = u
      /\ u \in M \cup {Nil}
  BY ZenonT(40) DEF Uncles
<1>4. PICK b : t.child[x][s] = b
  OBVIOUS
<1>5. x # Nil /\ g # Nil /\ Other(s) \in Sides /\ s # Other(s)
  BY ZenonT(40), <1>1, <1>3, TwoSides
<1>6. SamePointers(t, t)
  BY <1>1 DEF SamePointers
<1>7. Rotated(T, t, p, s, x, b, g) /\ Form(T, M, L, pos)
  BY ZenonT(40), <1>3, <1>4, <1>5, <1>6, RotateDone
<1>8. b \in M \cup {Nil} /\ b # x /\ b # p /\ (b # Nil => t.parent[b] = x)
  <2>1. PICK w : SideOf(t, p) = w
    OBVIOUS
  <2>2. /\ p \in M /\ s \in Sides /\ t.child[p][Other(s)] = x /\ x # Nil
        /\ t.child[x][s] = b /\ t.parent[p] = g
    BY ZenonT(40), <1>3, <1>4, <1>5
  <2>3. /\ b # p /\ b # x
        /\ b # Nil => b \in M /\ t.parent[b] = x
    BY <2>1, <2>2, RotateParts
  <2> QED  BY <2>3
<1>9. t.color[b] = "BLACK"
  <2>1. b \in Links
    BY <1>1, <1>8
  <2>2. b # Nil => t.color[b] # "RED"
    <3> SUFFICES ASSUME b # Nil, t.color[b] = "RED" PROVE FALSE
      OBVIOUS
    <3>1. b \in M /\ t.parent[b] = x /\ b # x /\ t.color[x] # "BLACK"
      BY <1>2, <1>8
    <3> QED  BY <1>2, <3>1 DEF Reds
  <2> QED  BY <1>1, <1>2, <2>1, <2>2 DEF Trees
<1>10. /\ T.color = t.color /\ T.root = t.root /\ T.parent[p] = x /\ T.parent[x] = g
       /\ T.child[x][s] = p /\ T.child[g][Other(s)] = u /\ T.child[g][s] = x
       /\ \A m \in M : m # p /\ m # x => m = b \/ T.parent[m] = t.parent[m]
  <2>1. SideOf(t, p) = s
    BY ZenonT(40) DEF Uncles
  <2>2. T.color = t.color /\ T.root = t.root
    BY <1>5, <1>7 DEF Rotated
  <2>3. /\ T.child[x][s] = p /\ T.child[g][s] = x /\ T.child[g][Other(s)] = t.child[g][Other(s)]
    <3>1. p \in Nodes /\ x \in Nodes /\ g \in Nodes
      BY ZenonT(40), <1>1, <1>3
    <3> QED  BY ZenonT(40), <1>3, <1>5, <1>7, <2>1, <3>1 DEF Rotated
  <2>4. \A m \in M : T.parent[m] = IF b # Nil /\ m = b THEN p ELSE IF m = p THEN x
                                   ELSE IF m = x THEN g ELSE t.parent[m]
    BY <1>1, <1>7 DEF Rotated
  <2> QED  BY ZenonT(40), <1>3, <1>8, <2>2, <2>3, <2>4
<1>11. Reds(T, M, p, FALSE)
  <2> SUFFICES ASSUME NEW m \in M, t.color[m] = "RED", m # p
               PROVE  m # T.root /\ t.color[T.parent[m]] = "BLACK"
    BY <1>10 DEF Reds
  <2>1. CASE m = x
    <3>1. x # t.root
      BY ZenonT(40), <1>1, <1>3, AboveOf
    <3> QED  BY ZenonT(40), <1>3, <1>10, <2>1, <3>1
  <2>2. CASE m # x
    <3>1. m # t.root /\ t.color[t.parent[m]] = "BLACK"
      BY <1>2, <2>2 DEF Reds
    <3> QED  BY <1>9, <1>10, <2>2, <3>1
  <2> QED  BY <2>1, <2>2
<1>12. \E k : Counted(T, M, k, Nil, z)
  <2>1. PICK q : q = Nil
    OBVIOUS
  <2>2. Counted(t, M, h, q, z) /\ q # p /\ q # x
    BY ZenonT(40), <1>1, <1>2, <1>3, <2>1
  <2>4. /\ p \in M /\ s \in Sides /\ t.child[p][Other(s)] = x /\ x # Nil
        /\ t.child[x][s] = b /\ t.parent[p] = g /\ t.color[x] = "RED"
        /\ ~ (q = p /\ Other(s) = z) /\ ~ (q = x /\ z = s)
    BY ZenonT(40), <1>2, <1>3, <1>4, <1>5, <2>2
  <2>5. Exchanged(t, t, M, p, x)
    BY ZenonT(40), <1>2, <1>3, <1>6 DEF Exchanged
  <2>3. \E k : Counted(T, M, k, q, z) /\ Recount(k, h, t, M, p, x)
    BY <1>7, <2>2, <2>4, <2>5, SwapCounted
  <2> QED  BY <2>1, <2>3
<1>13. Colored(T, M, "insert", p)
  <2>1. T.color[Nil] = "BLACK" /\ T.color[p] = "RED" /\ p \in M
    BY ZenonT(40), <1>2, <1>3, <1>10
  <2> QED  BY ZenonT(40), <1>1, <1>11, <1>12, <2>1, InsertColored
<1>14. Uncles(T, M, p, x, g, s, u)
  <2>1. PICK e : Laid(T, M, L, pos, e)
    BY <1>7 DEF Form
  <2>2. SideOf(T, x) = s
    BY ZenonT(40), <1>3, <1>10, TwoSides DEF SideOf
  <2> QED  BY <1>2, <1>10, <1>13, <2>1, <2>2, UnclesAre
<1> QED  BY <1>7, <1>10, <1>13, <1>14

\* Two nodes painted, and nothing else.
LEMMA PaintTwo ==
    ASSUME NEW t \in Trees, NEW x \in Links, NEW c \in {"RED", "BLACK"},
           NEW y \in Links, NEW d \in {"RED", "BLACK"},
           NEW U, U = Paint(Paint(t, x, c), y, d)
    PROVE  /\ SamePointers(U, t)
           /\ \A m \in Links : U.color[m] = IF m = y THEN d ELSE IF m = x THEN c ELSE t.color[m]
<1>1. PICK A : A = Paint(t, x, c)
  OBVIOUS
<1>2. Painted(A, t, x, c)
  BY <1>1, PaintIs
<1>3. A \in Trees
  BY <1>2 DEF Painted
<1>4. Painted(U, A, y, d)
  BY <1>1, <1>3, PaintIs
<1> QED  BY <1>2, <1>4 DEF Painted, SamePointers

\* nd is an outer grandchild: the last rotation.
LEMMA OuterKeeps ==
    ASSUME NEW t, NEW M, NEW L, NEW pos, NEW bd, Laid(t, M, L, pos, bd),
           NEW x, Colored(t, M, "insert", x), NEW p, NEW g, NEW s, NEW u,
           Uncles(t, M, x, p, g, s, u), t.color[u] # "RED", t.child[p][s] = x,
           NEW T, T = rotate(Paint(Paint(t, p, "BLACK"), g, "RED"), g, Other(s))
    PROVE  /\ Form(T, M, L, pos) /\ Colored(T, M, "insert", x)
           /\ T.parent[x] = p /\ T.color[p] = "BLACK"
<1>1. M \subseteq Nodes /\ Nil \notin M /\ t \in Trees /\ M \subseteq Links /\ Nil \in Links
  BY RBAssumption DEF Laid, Links
<1>2. PICK h, z : /\ t.color[Nil] = "BLACK" /\ Reds(t, M, x, FALSE)
                  /\ x \in M /\ t.color[x] = "RED" /\ Counted(t, M, h, Nil, z)
  BY ZenonT(40), <1>1, InsertColored
<1>3. /\ x \in M /\ p \in M /\ g \in M /\ s \in Sides /\ t.child[g][s] = p
      /\ t.color[p] = "RED" /\ t.color[g] = "BLACK" /\ t.parent[x] = p /\ t.parent[p] = g
      /\ x # p /\ p # g /\ x # g /\ u # p /\ u # x /\ u # g /\ t.child[g][Other(s)] = u
      /\ u \in M \cup {Nil}
  BY ZenonT(40) DEF Uncles
<1>4. PICK o : Other(s) = o
  OBVIOUS
<1>5. o \in Sides /\ s # o /\ Other(o) = s /\ x # Nil /\ p # Nil /\ g # Nil
  BY ZenonT(40), <1>1, <1>3, <1>4, TwoSides
<1>6. PICK b, q : t.child[p][o] = b /\ t.parent[g] = q
  OBVIOUS
<1>7. PICK U : U = Paint(Paint(t, p, "BLACK"), g, "RED")
  OBVIOUS
<1>8. /\ SamePointers(U, t)
      /\ \A m \in Links : U.color[m] = IF m = g THEN "RED" ELSE IF m = p THEN "BLACK" ELSE t.color[m]
  <2>1. p \in Links /\ g \in Links
    BY ZenonT(40), <1>1, <1>3
  <2> QED  BY <1>1, <1>7, <2>1, PaintTwo
<1>9. g \in M /\ o \in Sides /\ t.child[g][Other(o)] = p /\ p # Nil
      /\ t.child[p][o] = b /\ t.parent[g] = q /\ T = rotate(U, g, o)
  BY ZenonT(40), <1>3, <1>4, <1>5, <1>6, <1>7
<1>10. Rotated(T, U, g, o, p, b, q) /\ Form(T, M, L, pos)
  BY <1>8, <1>9, RotateDone
<1>11. /\ b # g /\ b # p /\ q # g /\ q # p
       /\ b # Nil => b \in M /\ t.parent[b] = p
       /\ q = Nil => g = t.root
  <2>1. PICK w : SideOf(t, g) = w
    OBVIOUS
  <2>2. /\ Laid(t, M, L, pos, bd) /\ g \in M /\ o \in Sides /\ t.child[g][Other(o)] = p
        /\ p # Nil /\ t.child[p][o] = b /\ t.parent[g] = q
    BY ZenonT(40), <1>9
  <2> QED  BY ONLY <2>1, <2>2, RotateParts
<1>12. b # Nil => t.color[b] # "RED"
  <2> SUFFICES ASSUME b # Nil, t.color[b] = "RED" PROVE FALSE
    OBVIOUS
  <2>1. b # x
    <3>1. x = t.child[p][s] /\ x # Nil /\ p \in M /\ s \in Sides
      BY ZenonT(40), <1>3, <1>5
    <3>2. t.child[p][Other(s)] # x
      BY <3>1, ChildOf
    <3> QED  BY <1>4, <1>6, <3>2
  <2>2. b \in M /\ t.parent[b] = p /\ t.color[p] # "BLACK"
    BY ZenonT(40), <1>3, <1>11
  <2> QED  BY <1>2, <2>1, <2>2 DEF Reds
<1>13. /\ T.color = U.color /\ T.root = IF q = Nil THEN p ELSE t.root
       /\ \A m \in M : T.parent[m] = IF b # Nil /\ m = b THEN g ELSE IF m = g THEN p
                                     ELSE IF m = p THEN q ELSE t.parent[m]
  BY <1>1, <1>8, <1>10 DEF Rotated, SamePointers
<1>14. T.color[Nil] = "BLACK" /\ T.color[x] = "RED" /\ T.parent[x] = p /\ T.color[p] = "BLACK"
  <2>1. /\ T.color[Nil] = t.color[Nil] /\ T.color[x] = t.color[x] /\ T.color[p] = "BLACK"
    <3>1. x \in Links /\ p \in Links /\ Nil \in Links
      BY ZenonT(40), <1>1, <1>3
    <3>2. Nil # g /\ Nil # p /\ x # g /\ x # p /\ g # p
      BY ZenonT(40), <1>3, <1>5
    <3> QED  BY <1>8, <1>13, <3>1, <3>2
  <2>2. x # b \/ b = Nil
    BY <1>2, <1>12
  <2> QED  BY ZenonT(40), <1>2, <1>3, <1>5, <1>13, <2>1, <2>2
<1>15. Reds(T, M, x, FALSE)
  <2> SUFFICES ASSUME NEW m \in M, T.color[m] = "RED", m # x
               PROVE  m # T.root /\ T.color[T.parent[m]] = "BLACK"
    BY DEF Reds
  <2>1. m \in Links /\ m # p
    BY <1>1, <1>14
  <2>2. CASE m = g
    <3>1. T.parent[g] = p
      BY ZenonT(40), <1>3, <1>11, <1>13
    <3>2. g # T.root
      <4>1. q = t.parent[g] /\ g \in M /\ p # g
        BY ZenonT(40), <1>3, <1>6
      <4>2. q # Nil => g # t.root
        BY <4>1, AboveOf
      <4> QED  BY <1>13, <4>1, <4>2
    <3> QED  BY <1>14, <2>2, <3>1, <3>2
  <2>3. CASE m # g
    <3>1. t.color[m] = "RED"
      BY <1>8, <1>13, <2>1, <2>3
    <3>2. m # t.root /\ t.color[t.parent[m]] = "BLACK"
      BY <1>2, <3>1 DEF Reds
    <3>3. m # b
      BY <1>1, <1>12, <3>1
    <3>4. T.parent[m] = t.parent[m] /\ m # T.root
      BY <1>13, <2>1, <2>3, <3>2, <3>3
    <3>5. t.parent[m] # g
      <4> SUFFICES ASSUME t.parent[m] = g PROVE FALSE
        OBVIOUS
      <4>1. g \in M /\ s \in Sides
        BY ZenonT(40), <1>3
      <4>2. t.child[g][s] = m \/ t.child[g][Other(s)] = m
        BY <4>1, Siblings
      <4> QED  BY ZenonT(40), <1>3, <2>1, <3>1, <4>2
    <3>6. t.parent[m] \in M
      BY <3>2, AboveOf
    <3>7. T.color[t.parent[m]] = t.color[t.parent[m]]
      <4>1. t.parent[m] \in Links /\ t.parent[m] # p
        BY ZenonT(40), <1>1, <1>3, <3>2, <3>6
      <4> QED  BY <1>8, <1>13, <3>5, <4>1
    <3> QED  BY <3>2, <3>4, <3>7
  <2> QED  BY <2>2, <2>3
<1>16. \E k : Counted(T, M, k, Nil, z)
  <2>1. PICK e : e = Nil
    OBVIOUS
  <2>2. Counted(t, M, h, e, z) /\ ~ (e = g /\ Other(o) = z) /\ ~ (e = p /\ z = o)
    BY <1>2, <1>5, <2>1
  <2>3. Exchanged(U, t, M, g, p)
    <3>1. g \in Links /\ p \in Links
      BY ZenonT(40), <1>1, <1>3
    <3> QED  BY ZenonT(40), <1>1, <1>3, <1>8, <3>1 DEF Exchanged
  <2>4. t.color[p] = "RED"
    BY ZenonT(40), <1>3
  <2>5. \E k : Counted(T, M, k, e, z) /\ Recount(k, h, t, M, g, p)
    BY ZenonT(40), <1>9, <1>10, <2>2, <2>3, <2>4, SwapCounted
  <2> QED  BY <2>1, <2>5
<1>17. Colored(T, M, "insert", x)
  BY ZenonT(40), <1>1, <1>3, <1>14, <1>15, <1>16, InsertColored
<1> QED  BY <1>10, <1>14, <1>17

\* A round goes up, or it is the last one.
InsertAdvances ==
    \/ SamePointers(tree', tree) /\ nd' = tree.parent[tree.parent[nd]]
    \/ tree'.color[tree'.parent[nd']] = "BLACK"

LEMMA InsertRound ==
    ASSUME NEW M, NEW L, NEW pos, Form(tree, M, L, pos), Colored(tree, M, at, nd),
           rb_insert_fixup
    PROVE  /\ Form(tree', M, L, pos) /\ Colored(tree', M, at', nd')
           /\ at = "insert" /\ at' = at /\ nd' \in M /\ nd \in M
           /\ InsertAdvances /\ tree.color[tree.parent[nd]] = "RED"
<1>1. PICK bd : Laid(tree, M, L, pos, bd)
  BY DEF Form
<1>2. PICK p : tree.parent[nd] = p
  OBVIOUS
<1>3. PICK g, s : tree.parent[p] = g /\ SideOf(tree, p) = s
  OBVIOUS
<1>4. PICK u : tree.child[g][Other(s)] = u
  OBVIOUS
<1>5. at = "insert" /\ tree.color[p] = "RED" /\ at' = "insert"
  BY ZenonT(40), <1>2 DEF rb_insert_fixup, Looping
<1>6. Colored(tree, M, "insert", nd)
  BY <1>5
<1>7. Uncles(tree, M, nd, p, g, s, u)
  BY <1>1, <1>2, <1>3, <1>4, <1>5, <1>6, UnclesAre
<1>8. nd \in M /\ p \in M /\ g \in M /\ p # g /\ s \in Sides /\ nd # p
      /\ (nd = tree.child[p][s] \/ nd = tree.child[p][Other(s)])
      /\ (nd = tree.child[p][s] => nd # tree.child[p][Other(s)])
  <2>1. /\ nd \in M /\ p \in M /\ g \in M /\ p # g /\ s \in Sides /\ nd # p
        /\ SideOf(tree, nd) \in Sides /\ tree.child[p][SideOf(tree, nd)] = nd
    BY ONLY ZenonT(40), <1>7 DEF Uncles
  <2>2. nd # Nil
    BY <1>1, <2>1, Numbers
  <2>3. nd = tree.child[p][s] => tree.child[p][Other(s)] # nd
    BY <1>1, <2>1, <2>2, ChildOf
  <2> QED  BY <2>1, <2>3, TwoSides
<1>9. CASE tree.color[u] = "RED"
  <2>1. tree' = Lift(tree, p, u, g) /\ nd' = g
    BY ZenonT(40), <1>2, <1>3, <1>4, <1>9 DEF rb_insert_fixup
  <2>2. Form(tree', M, L, pos) /\ Colored(tree', M, "insert", g)
    BY <1>1, <1>6, <1>7, <1>9, <2>1, LiftKeeps
  <2>3. SamePointers(tree', tree)
    <3>1. u \in Links /\ p \in Links /\ g \in Links /\ tree \in Trees
      <4>1. M \subseteq Links /\ tree \in Trees
        BY <1>1 DEF Laid, Links
      <4>2. u \in M \cup {Nil}
        BY ONLY ZenonT(40), <1>7 DEF Uncles
      <4> QED  BY <1>8, <4>1, <4>2 DEF Links
    <3>2. PICK A : A = Paint(Paint(tree, p, "BLACK"), u, "BLACK")
      OBVIOUS
    <3>3. SamePointers(A, tree)
      BY <3>1, <3>2, PaintTwo
    <3>4. A \in Trees /\ tree' = Paint(A, g, "RED")
      BY <2>1, <3>2, <3>3 DEF SamePointers, Lift
    <3>5. Painted(tree', A, g, "RED")
      BY <3>1, <3>4, PaintIs
    <3> QED  BY <3>3, <3>5 DEF Painted, SamePointers
  <2> QED  BY SMTT(30), <1>2, <1>3, <1>5, <1>8, <2>1, <2>2, <2>3 DEF InsertAdvances
<1>10. CASE tree.color[u] # "RED" /\ nd = tree.child[p][Other(s)]
  <2>1. PICK t : t = rotate(tree, p, s)
    OBVIOUS
  <2>2. /\ Form(t, M, L, pos) /\ Colored(t, M, "insert", p)
        /\ Uncles(t, M, p, nd, g, s, u) /\ t.color[u] # "RED" /\ t.child[nd][s] = p
    BY <1>1, <1>6, <1>7, <1>10, <2>1, InnerKeeps
  <2>3. t.parent[p] = nd /\ t.parent[nd] = g
    BY ONLY ZenonT(40), <2>2 DEF Uncles
  <2>4. tree' = rotate(Paint(Paint(t, nd, "BLACK"), g, "RED"), g, Other(s)) /\ nd' = p
    BY ZenonT(40), <1>2, <1>3, <1>4, <1>10, <2>1, <2>3 DEF rb_insert_fixup
  <2>5. PICK e : Laid(t, M, L, pos, e)
    BY <2>2 DEF Form
  <2>6. /\ Form(tree', M, L, pos) /\ Colored(tree', M, "insert", p)
        /\ tree'.parent[p] = nd /\ tree'.color[nd] = "BLACK"
    BY <2>2, <2>4, <2>5, OuterKeeps
  <2> QED  BY <1>2, <1>5, <1>8, <2>4, <2>6 DEF InsertAdvances
<1>11. CASE tree.color[u] # "RED" /\ nd = tree.child[p][s]
  <2>1. tree' = rotate(Paint(Paint(tree, p, "BLACK"), g, "RED"), g, Other(s)) /\ nd' = nd
    BY ZenonT(40), <1>2, <1>3, <1>4, <1>8, <1>11 DEF rb_insert_fixup
  <2>2. /\ Form(tree', M, L, pos) /\ Colored(tree', M, "insert", nd)
        /\ tree'.parent[nd] = p /\ tree'.color[p] = "BLACK"
    BY <1>1, <1>6, <1>7, <1>11, <2>1, OuterKeeps
  <2> QED  BY <1>2, <1>5, <1>8, <2>1, <2>2 DEF InsertAdvances
<1> QED  BY <1>8, <1>9, <1>10, <1>11

\* rb_insert returns: the root is painted black.
LEMMA InsertEnds ==
    ASSUME NEW M, NEW L, NEW pos, Form(tree, M, L, pos), Colored(tree, M, at, nd),
           InsertReturns
    PROVE  /\ Form(tree', M, L, pos) /\ Colored(tree', M, at', nd')
           /\ at' = "idle" /\ nd' = Nil
<1>1. PICK bd : Laid(tree, M, L, pos, bd)
  BY DEF Form
<1>2. /\ at = "insert" /\ tree.color[tree.parent[nd]] # "RED"
      /\ tree' = Paint(tree, tree.root, "BLACK") /\ at' = "idle" /\ nd' = Nil
  BY DEF InsertReturns, Looping
<1>3. M \subseteq Nodes /\ Nil \notin M /\ tree \in Trees /\ M \subseteq Links /\ Nil \in Links
  BY <1>1, RBAssumption DEF Laid, Links
<1>4. PICK h, z : /\ tree.color[Nil] = "BLACK" /\ Reds(tree, M, nd, FALSE)
                  /\ nd \in M /\ tree.color[nd] = "RED" /\ Counted(tree, M, h, Nil, z)
  BY ZenonT(40), <1>2, <1>3, InsertColored
<1>5. tree.root \in M
  BY <1>1, <1>4 DEF Laid
<1>6. Painted(tree', tree, tree.root, "BLACK")
  BY <1>2, <1>3, <1>5, PaintIs
<1>7. SamePointers(tree', tree) /\ \A m \in Links : tree'.color[m] =
        IF m = tree.root THEN "BLACK" ELSE tree.color[m]
  BY <1>6 DEF Painted, SamePointers
<1>8. Form(tree', M, L, pos)
  BY <1>1, <1>7, PointersLaid DEF Form
<1>9. tree'.color[Nil] = "BLACK"
  BY <1>3, <1>4, <1>7
<1>10. Reds(tree', M, Nil, FALSE)
  <2> SUFFICES ASSUME NEW m \in M, tree'.color[m] = "RED"
               PROVE  m # tree'.root /\ tree'.color[tree'.parent[m]] = "BLACK"
    BY DEF Reds
  <2>1. m # tree.root /\ tree.color[m] = "RED" /\ tree'.root = tree.root /\ tree'.parent = tree.parent
    BY <1>3, <1>7 DEF SamePointers
  <2>2. tree.parent[m] \in M
    BY <1>1, <2>1, AboveOf
  <2>3. tree.color[tree.parent[m]] = "BLACK"
    <3>1. CASE m = nd
      <4>1. tree.parent[m] \in Links
        BY <1>3, <2>2
      <4> QED  BY <1>2, <1>3, <3>1, <4>1 DEF Trees
    <3>2. CASE m # nd
      BY <1>4, <2>1, <3>2 DEF Reds
    <3> QED  BY <3>1, <3>2
  <2> QED  BY <1>3, <1>7, <2>1, <2>2, <2>3
<1>11. PICK y : SideOf(tree', Nil) = y
  OBVIOUS
<1>12. \E k : Counted(tree', M, k, Nil, y)
  <2>1. tree'.color[tree.root] = "BLACK" /\ \A m \in M \ {tree.root} : tree'.color[m] = tree.color[m]
    BY <1>3, <1>5, <1>7
  <2> QED  BY ZenonT(40), <1>1, <1>4, <1>5, <1>7, <2>1, RootCounted
<1>13. Colored(tree', M, "idle", Nil)
  <2>1. Running(tree', M, "idle", Nil) /\ ShortAt(tree', "idle", Nil) = Nil
    BY SMTT(30) DEF Running, ShortAt
  <2> QED  BY ZenonT(40), <1>9, <1>10, <1>11, <1>12, <2>1 DEF Colored
<1> QED  BY <1>2, <1>8, <1>13

-----------------------------------------------------------------------------
(* A round of rb_delete_fixup.                                              *)

\* No red node is below a red one, and the root is black.
Plain(t, M) ==
    \A m \in M : t.color[m] = "RED" => m # t.root /\ t.color[t.parent[m]] = "BLACK"

\* nd, its parent and its brother, when the loop goes on.
Brothers(t, M, h, x, p, s, w) ==
    /\ t.parent[x] = p /\ SideOf(t, x) = s /\ t.child[p][Other(s)] = w
    /\ p \in M /\ w \in M /\ s \in Sides /\ x \in M \cup {Nil}
    /\ t.child[p][s] = x /\ t.parent[w] = p /\ x # p /\ w # p /\ x # w /\ x # t.root
    /\ t.color[x] = "BLACK" /\ t.color[Nil] = "BLACK" /\ Plain(t, M)
    /\ Counted(t, M, h, p, s) /\ h[x] \in Nat /\ h[w] \in Nat /\ 1 <= h[x] /\ h[w] = h[x] + 1

LEMMA BrothersAre ==
    ASSUME NEW t, NEW M, NEW L, NEW pos, NEW bd, Laid(t, M, L, pos, bd),
           NEW x, Colored(t, M, "delete", x), x # t.root, t.color[x] = "BLACK",
           NEW p, t.parent[x] = p, NEW s, SideOf(t, x) = s, NEW w, t.child[p][Other(s)] = w
    PROVE  \E h : Brothers(t, M, h, x, p, s, w)
<1>1. M \subseteq Nodes /\ Nil \notin M
  BY RBAssumption DEF Laid
<1>2. /\ t.color[Nil] = "BLACK" /\ Reds(t, M, x, TRUE) /\ x \in M \cup {Nil}
      /\ p \in M /\ t.child[p][s] = x
  BY ZenonT(40) DEF Colored, Running
<1>3. PICK h : Counted(t, M, h, p, s)
  BY DEF Colored, ShortAt
<1>4. s \in Sides
  BY DEF SideOf, Sides
<1>5. Plain(t, M)
  <2> SUFFICES ASSUME NEW m \in M, t.color[m] = "RED"
               PROVE  m # t.root /\ t.color[t.parent[m]] = "BLACK"
    BY DEF Plain
  <2>1. CASE x \in M /\ t.parent[m] = x
    <3>1. m # t.root
      BY <1>1, <2>1, AboveOf
    <3> QED  BY <2>1, <3>1
  <2>2. CASE ~ (x \in M /\ t.parent[m] = x)
    BY <1>2, <2>2 DEF Reds
  <2> QED  BY <2>1, <2>2
<1>6. /\ h[x] \in Nat /\ 1 <= h[x] /\ h[p] = h[x] + One(t, p) + 1 /\ One(t, p) \in {0, 1}
      /\ h[Nil] = 1
  BY <1>2, <1>3, <1>4, CountedAt
<1>7. PICK o : Other(s) = o
  OBVIOUS
<1>8. o \in Sides /\ o # s
  BY <1>4, <1>7, TwoSides
<1>9. w \in M \cup {Nil} /\ h[w] \in Nat /\ h[p] = h[w] + One(t, p)
  BY <1>2, <1>3, <1>7, <1>8, CountedAt
<1>10. h[w] = h[x] + 1
  BY <1>6, <1>9
<1>11. w # Nil /\ w # x
  BY <1>6, <1>9, <1>10
<1>12. w \in M /\ t.parent[w] = p /\ w # p
  BY <1>2, <1>7, <1>8, <1>11, ChildOf
<1>13. x # p
  <2>1. x # Nil => x # p
    BY <1>2, <1>4, ChildOf
  <2> QED  BY <1>1, <1>2, <2>1
<1>14. t.parent[x] = p /\ SideOf(t, x) = s /\ t.child[p][Other(s)] = w
       /\ x # t.root /\ t.color[x] = "BLACK"
  OBVIOUS
<1> QED  BY ONLY <1>2, <1>3, <1>4, <1>5, <1>6, <1>9, <1>10, <1>11, <1>12, <1>13, <1>14 DEF Brothers

\* What is to be shown of a state of the loop.
LEMMA DeleteColored ==
    ASSUME NEW t, NEW M, t.color[Nil] = "BLACK", Plain(t, M), NEW x \in M \cup {Nil},
           NEW p \in M, t.parent[x] = p, NEW s, SideOf(t, x) = s, t.child[p][s] = x,
           x # t.root, NEW h, Counted(t, M, h, p, s)
    PROVE  Colored(t, M, "delete", x)
<1>1. Running(t, M, "delete", x) /\ ShortAt(t, "delete", x) = p
  BY DEF Running, ShortAt
<1>2. Reds(t, M, x, TRUE)
  BY DEF Reds, Plain
<1> QED  BY ZenonT(40), <1>1, <1>2 DEF Colored

\* A red node exchanges places and colors with its parent.
LEMMA SwapPlain ==
    ASSUME NEW t, NEW M, NEW L, NEW pos, NEW bd, Laid(t, M, L, pos, bd),
           t.color[Nil] = "BLACK", Plain(t, M),
           NEW x \in M, NEW s \in Sides, NEW y, t.child[x][Other(s)] = y, y # Nil,
           NEW b, t.child[y][s] = b, NEW p, t.parent[x] = p, t.color[y] = "RED",
           t.color[t.child[x][s]] # "RED",
           NEW U, Exchanged(U, t, M, x, y), U.color[Nil] = "BLACK",
           NEW T, Rotated(T, U, x, s, y, b, p)
    PROVE  /\ Plain(T, M) /\ T.color[Nil] = "BLACK" /\ T.color[x] = "RED" /\ T.color[y] = "BLACK"
           /\ t.color[b] = "BLACK" /\ t.color[x] = "BLACK"
           /\ \A m \in M \ {x, y} : T.color[m] = t.color[m]
<1>0. /\ Laid(t, M, L, pos, bd) /\ y # Nil /\ t.color[Nil] = "BLACK" /\ Plain(t, M)
      /\ t.color[y] = "RED" /\ t.color[t.child[x][s]] # "RED"
  OBVIOUS
<1>a. t.child[x][Other(s)] = y /\ t.child[y][s] = b /\ t.parent[x] = p
  OBVIOUS
<1>b. Exchanged(U, t, M, x, y) /\ U.color[Nil] = "BLACK" /\ Rotated(T, U, x, s, y, b, p)
  OBVIOUS
<1>1. M \subseteq Nodes /\ Nil \notin M /\ t \in Trees /\ M \subseteq Links /\ Nil \in Links
  BY ONLY <1>0, RBAssumption DEF Laid, Links
<1>2. y \in M /\ t.parent[y] = x /\ y # x
  BY ONLY <1>0, <1>a, <1>1, ChildOf, TwoSides
<1>3. t.color[x] = "BLACK"
  BY ONLY <1>0, <1>2 DEF Plain
<1>4. /\ b # x /\ b # y /\ p # x /\ p # y
      /\ b # Nil => b \in M /\ t.parent[b] = y
      /\ p = Nil => x = t.root
  <2>1. PICK z : SideOf(t, x) = z
    OBVIOUS
  <2> QED  BY ONLY <1>0, <1>a, <2>1, RotateParts
<1>5. t.color[b] = "BLACK"
  <2>1. CASE b = Nil
    BY ONLY <1>0, <2>1
  <2>2. CASE b # Nil
    <3>1. b \in M /\ t.color[b] # "RED"
      BY ONLY <1>0, <1>2, <1>4, <2>2 DEF Plain
    <3> QED  BY ONLY <1>1, <3>1 DEF Trees
  <2> QED  BY ONLY <2>1, <2>2
<1>6. /\ T.color[Nil] = "BLACK" /\ T.color[x] = "RED" /\ T.color[y] = "BLACK"
      /\ \A m \in M \ {x, y} : T.color[m] = t.color[m]
  BY ONLY <1>0, <1>b, <1>2, <1>3 DEF Rotated, Exchanged
<1>7. /\ T.root = IF p = Nil THEN y ELSE t.root
      /\ \A m \in M : T.parent[m] = IF b # Nil /\ m = b THEN x ELSE IF m = x THEN y
                                    ELSE IF m = y THEN p ELSE t.parent[m]
  BY ONLY <1>b, <1>1 DEF Rotated, Exchanged, SamePointers
<1>8. Plain(T, M)
  <2>a. SUFFICES ASSUME NEW m \in M, T.color[m] = "RED"
                 PROVE  m # T.root /\ T.color[T.parent[m]] = "BLACK"
    BY DEF Plain
  <2>1. m # y
    BY ONLY <1>6, <2>a
  <2>2. CASE m = x
    <3>1. T.parent[m] = y
      BY ONLY <1>4, <1>7, <2>2
    <3>2. p # Nil => x # t.root
      BY ONLY <1>0, <1>a, AboveOf
    <3>3. m # T.root
      BY ONLY <1>2, <1>7, <2>2, <3>2
    <3> QED  BY ONLY <1>6, <3>1, <3>3
  <2>3. CASE m # x
    <3>1. t.color[m] = "RED"
      BY ONLY <1>6, <2>a, <2>1, <2>3
    <3>2. m # t.root /\ t.color[t.parent[m]] = "BLACK"
      BY ONLY <1>0, <3>1 DEF Plain
    <3>3. m # b
      BY ONLY <1>5, <3>1
    <3>4. T.parent[m] = t.parent[m] /\ m # T.root
      BY ONLY <1>7, <2>1, <2>3, <3>2, <3>3
    <3>5. t.parent[m] # x
      <4>a. SUFFICES ASSUME t.parent[m] = x PROVE FALSE
        OBVIOUS
      <4>1. t.child[x][s] = m \/ t.child[x][Other(s)] = m
        BY ONLY <1>0, <4>a, Siblings
      <4> QED  BY ONLY <1>0, <1>a, <2>1, <3>1, <4>1
    <3>6. t.parent[m] \in M
      BY ONLY <1>0, <3>2, AboveOf
    <3>7. T.color[t.parent[m]] = t.color[t.parent[m]] \/ t.parent[m] = y
      BY ONLY <1>6, <3>5, <3>6
    <3> QED  BY ONLY <1>6, <3>2, <3>4, <3>7
  <2> QED  BY ONLY <2>2, <2>3
<1> QED  BY ONLY <1>3, <1>5, <1>6, <1>8

\* The links around the nodes of a rotation.
Around(T, t, M, x, s, y, b, p) ==
    /\ T.child[x][s] = t.child[x][s] /\ T.child[x][Other(s)] = b
    /\ T.child[y][s] = x /\ T.child[y][Other(s)] = t.child[y][Other(s)]
    /\ p # Nil => T.child[p][SideOf(t, x)] = y
                  /\ T.child[p][Other(SideOf(t, x))] = t.child[p][Other(SideOf(t, x))]
    /\ T.root = IF p = Nil THEN y ELSE t.root
    /\ \A m \in Links : T.parent[m] = IF b # Nil /\ m = b THEN x ELSE IF m = x THEN y
                                      ELSE IF m = y THEN p ELSE t.parent[m]

LEMMA RotatedAround ==
    ASSUME NEW t, NEW M, NEW L, NEW pos, NEW bd, Laid(t, M, L, pos, bd),
           NEW x \in M, NEW s \in Sides, NEW y, t.child[x][Other(s)] = y, y # Nil,
           NEW b, t.child[y][s] = b, NEW p, t.parent[x] = p,
           NEW U, SamePointers(U, t), NEW T, Rotated(T, U, x, s, y, b, p)
    PROVE  Around(T, t, M, x, s, y, b, p)
<1>0. /\ Laid(t, M, L, pos, bd) /\ t.child[x][Other(s)] = y /\ y # Nil /\ t.child[y][s] = b
      /\ t.parent[x] = p /\ SamePointers(U, t) /\ Rotated(T, U, x, s, y, b, p)
  OBVIOUS
<1>1. PICK z, o : SideOf(t, x) = z /\ Other(s) = o
  OBVIOUS
<1>2. /\ x \in Nodes /\ y \in M /\ y \in Nodes /\ b \in Links /\ p \in Links
      /\ x # y /\ p # x /\ p # y
      /\ p # Nil => x # t.root /\ p \in M /\ z \in Sides /\ t.child[p][z] = x
  BY ONLY <1>0, <1>1, RotateParts
<1>3. p # Nil => p \in Nodes
  BY <1>2 DEF Links
<1>4. o \in Sides /\ o # s /\ (p # Nil => Other(z) \in Sides /\ Other(z) # z)
  BY <1>1, <1>2, TwoSides
<1>5. SideOf(U, x) = z
  BY ONLY <1>0, <1>1 DEF SamePointers, SideOf
<1>6. /\ T.root = IF p = Nil THEN y ELSE t.root
      /\ \A m \in Links : T.parent[m] = IF b # Nil /\ m = b THEN x ELSE IF m = x THEN y
                                        ELSE IF m = y THEN p ELSE t.parent[m]
  BY ONLY <1>0 DEF Rotated, SamePointers
<1>7. \A m \in Nodes, r \in Sides :
         T.child[m][r] = IF m = y /\ r = s THEN x
                         ELSE IF m = x /\ r = o THEN b
                         ELSE IF p # Nil /\ m = p /\ r = z THEN y
                         ELSE t.child[m][r]
  BY ONLY <1>0, <1>1, <1>5 DEF Rotated, SamePointers
<1>8. /\ T.child[x][s] = t.child[x][s] /\ T.child[x][o] = b
      /\ T.child[y][s] = x /\ T.child[y][o] = t.child[y][o]
  BY ONLY <1>2, <1>4, <1>7
<1>9. p # Nil => T.child[p][z] = y /\ T.child[p][Other(z)] = t.child[p][Other(z)]
  BY <1>2, <1>3, <1>4, <1>7
<1> QED  BY ONLY <1>1, <1>6, <1>8, <1>9 DEF Around

\* What a paint of two nodes of the tree does, when they exchange colors.
LEMMA PaintExchanges ==
    ASSUME NEW t \in Trees, NEW M, M \subseteq Nodes, NEW x \in M, NEW y \in M, x # y,
           t.color[x] = "BLACK", t.color[y] = "RED", t.color[Nil] = "BLACK",
           NEW U, U = Paint(Paint(t, y, "BLACK"), x, "RED")
    PROVE  Exchanged(U, t, M, x, y) /\ U.color[Nil] = "BLACK" /\ SamePointers(U, t)
<1>1. x \in Links /\ y \in Links /\ Nil \in Links /\ M \subseteq Links /\ Nil \notin M
  BY RBAssumption DEF Links
<1>2. /\ SamePointers(U, t)
      /\ \A m \in Links : U.color[m] = IF m = x THEN "RED" ELSE IF m = y THEN "BLACK" ELSE t.color[m]
  BY <1>1, PaintTwo
<1>3. x # Nil /\ y # Nil
  BY <1>1
<1>4. U.color[x] = "RED" /\ U.color[y] = "BLACK" /\ U.color[Nil] = t.color[Nil]
  BY <1>1, <1>2, <1>3
<1>5. \A m \in M \ {x, y} : U.color[m] = t.color[m]
  BY <1>1, <1>2
<1> QED  BY <1>2, <1>4, <1>5 DEF Exchanged

\* A red brother goes up.
LEMMA DemoteKeeps ==
    ASSUME NEW t, NEW M, NEW L, NEW pos, NEW bd, Laid(t, M, L, pos, bd),
           NEW h, NEW x, NEW p, NEW s, NEW w, Brothers(t, M, h, x, p, s, w),
           t.color[w] = "RED", NEW T, T = Demote(t, p, w, s)
    PROVE  /\ Form(T, M, L, pos) /\ T.color[p] = "RED" /\ T.color[T.child[p][Other(s)]] = "BLACK"
           /\ \E k : Brothers(T, M, k, x, p, s, T.child[p][Other(s)])
<1>1. M \subseteq Nodes /\ Nil \notin M /\ t \in Trees /\ M \subseteq Links /\ Nil \in Links
  BY RBAssumption DEF Laid, Links
<1>2. /\ t.parent[x] = p /\ SideOf(t, x) = s /\ t.child[p][Other(s)] = w
      /\ p \in M /\ w \in M /\ s \in Sides /\ x \in M \cup {Nil}
      /\ t.child[p][s] = x /\ t.parent[w] = p /\ x # p /\ w # p /\ x # w /\ x # t.root
      /\ t.color[x] = "BLACK" /\ t.color[Nil] = "BLACK" /\ Plain(t, M)
      /\ Counted(t, M, h, p, s)
  BY DEF Brothers
<1>3. h[x] \in Nat /\ h[w] \in Nat /\ 1 <= h[x] /\ h[w] = h[x] + 1
  BY DEF Brothers
<1>4. PICK o : Other(s) = o
  OBVIOUS
<1>5. o \in Sides /\ s # o /\ w # Nil /\ p # Nil
  BY ONLY <1>1, <1>2, <1>4, TwoSides
<1>6. PICK b, q : t.child[w][s] = b /\ t.parent[p] = q
  OBVIOUS
<1>7. PICK U : U = Paint(Paint(t, w, "BLACK"), p, "RED")
  OBVIOUS
<1>8. t.color[p] = "BLACK"
  BY <1>2 DEF Plain
<1>9. Exchanged(U, t, M, p, w) /\ U.color[Nil] = "BLACK" /\ SamePointers(U, t)
  BY <1>1, <1>2, <1>7, <1>8, PaintExchanges
<1>10. T = rotate(U, p, s)
  BY <1>7 DEF Demote
<1>11. /\ p \in M /\ s \in Sides /\ t.child[p][Other(s)] = w /\ w # Nil
       /\ t.child[w][s] = b /\ t.parent[p] = q /\ t.color[w] = "RED"
       /\ t.color[t.child[p][s]] # "RED"
  BY <1>2, <1>5, <1>6
<1>12. Rotated(T, U, p, s, w, b, q) /\ Form(T, M, L, pos)
  BY <1>9, <1>10, <1>11, RotateDone
<1>13. /\ Plain(T, M) /\ T.color[Nil] = "BLACK" /\ T.color[p] = "RED"
       /\ t.color[b] = "BLACK" /\ \A m \in M \ {p, w} : T.color[m] = t.color[m]
  <2>1. t.color[Nil] = "BLACK" /\ Plain(t, M)
    BY ONLY <1>2
  <2> QED  BY <1>9, <1>11, <1>12, <2>1, SwapPlain
<1>14. /\ ~ (p = p /\ s = Other(s)) /\ ~ (p = w /\ s = s)
  BY ONLY <1>2, <1>4, <1>5
<1>15. PICK k : Counted(T, M, k, p, s) /\ Recount(k, h, t, M, p, w)
  BY ZenonT(40), <1>2, <1>9, <1>11, <1>12, <1>14, SwapCounted
<1>16. /\ h[b] = h[w] /\ b \in M \cup {Nil} /\ h[Nil] = 1
  <2>1. One(t, w) = 0
    BY <1>11 DEF One
  <2>2. Counted(t, M, h, p, s) /\ w \in M /\ s \in Sides /\ t.child[w][s] = b /\ w # p
    BY ONLY <1>2, <1>11
  <2>3. /\ b \in M \cup {Nil} /\ h[b] \in Nat /\ h[Nil] = 1
        /\ ~ (w = p /\ s = s) => h[w] = h[b] + One(t, w)
    BY <2>2, CountedAt
  <2> QED  BY <2>1, <2>2, <2>3
<1>17. b \in M /\ b # p /\ b # w /\ t.parent[b] = w /\ b # x
  <2>1. b # Nil
    BY <1>3, <1>16
  <2>2. b \in M /\ t.parent[b] = w /\ b # w /\ b # p
    <3>1. PICK z : SideOf(t, p) = z
      OBVIOUS
    <3> QED  BY <1>11, <2>1, <3>1, RotateParts
  <2> QED  BY ONLY <1>2, <2>1, <2>2
<1>18. /\ T.child[p][s] = x /\ T.child[p][o] = b
       /\ T.root = IF q = Nil THEN w ELSE t.root
       /\ \A m \in Links : T.parent[m] = IF m = b THEN p ELSE IF m = p THEN w
                                         ELSE IF m = w THEN q ELSE t.parent[m]
  <2>1. Around(T, t, M, p, s, w, b, q)
    BY <1>9, <1>11, <1>12, RotatedAround
  <2>2. b # Nil
    BY <1>1, <1>17
  <2> QED  BY ZenonT(40), <1>2, <1>4, <2>1, <2>2 DEF Around
<1>19. /\ T.parent[x] = p /\ SideOf(T, x) = s /\ T.parent[b] = p /\ x # T.root
  <2>1. x \in Links /\ b \in Links
    BY ONLY <1>1, <1>2, <1>17
  <2>2. T.parent[x] = p /\ T.parent[b] = p
    BY ZenonT(40), <1>2, <1>17, <1>18, <2>1
  <2>3. SideOf(T, x) = s
    <3>1. T.child[p][s] = x /\ T.child[p][Other(s)] # x /\ s \in Sides
      BY ONLY <1>2, <1>4, <1>17, <1>18
    <3> QED  BY ZenonT(40), <2>2, <3>1 DEF SideOf, Sides, Other
  <2> QED  BY ZenonT(40), <1>2, <1>18, <2>2, <2>3
<1>20. T.color[x] = "BLACK" /\ T.color[b] = "BLACK"
  BY ZenonT(40), <1>2, <1>13, <1>17
<1>21. k[x] \in Nat /\ k[b] \in Nat /\ 1 <= k[x] /\ k[b] = k[x] + 1
  <2>1. k[x] = h[x] /\ k[b] = h[b]
    BY ONLY <1>2, <1>15, <1>17 DEF Recount
  <2> QED  BY <1>3, <1>16, <2>1
<1>22. Brothers(T, M, k, x, p, s, b)
  BY ZenonT(40), <1>2, <1>4, <1>13, <1>15, <1>17, <1>18, <1>19, <1>20, <1>21 DEF Brothers
<1> QED  BY <1>4, <1>12, <1>13, <1>18, <1>20, <1>22

\* Only the inner nephew is red: it takes the brother's place.
LEMMA TurnKeeps ==
    ASSUME NEW t, NEW M, NEW L, NEW pos, NEW bd, Laid(t, M, L, pos, bd),
           NEW h, NEW x, NEW p, NEW s, NEW w, Brothers(t, M, h, x, p, s, w),
           t.color[w] = "BLACK", NEW v, t.child[w][s] = v, t.color[v] = "RED",
           t.color[t.child[w][Other(s)]] = "BLACK",
           NEW T, T = rotate(Paint(Paint(t, v, "BLACK"), w, "RED"), w, Other(s))
    PROVE  /\ Form(T, M, L, pos) /\ T.child[p][Other(s)] = v /\ T.color[v] = "BLACK"
           /\ T.child[v][Other(s)] = w /\ T.color[w] = "RED"
           /\ \E k : Brothers(T, M, k, x, p, s, v)
<1>1. M \subseteq Nodes /\ Nil \notin M /\ t \in Trees /\ M \subseteq Links /\ Nil \in Links
  BY RBAssumption DEF Laid, Links
<1>2. /\ t.parent[x] = p /\ SideOf(t, x) = s /\ t.child[p][Other(s)] = w
      /\ p \in M /\ w \in M /\ s \in Sides /\ x \in M \cup {Nil}
      /\ t.child[p][s] = x /\ t.parent[w] = p /\ x # p /\ w # p /\ x # w /\ x # t.root
      /\ t.color[x] = "BLACK" /\ t.color[Nil] = "BLACK" /\ Plain(t, M)
      /\ Counted(t, M, h, p, s)
  BY ZenonT(40) DEF Brothers
<1>24. w \in M /\ s \in Sides /\ t.child[w][s] = v /\ t.child[p][Other(s)] = w /\ p \in M
  BY ZenonT(40), <1>2
<1>25. x \in M \cup {Nil} /\ t.color[x] = "BLACK" /\ t.color[Nil] = "BLACK" /\ p # w
  BY ZenonT(40), <1>2
<1>26. x = t.child[p][s] /\ t.parent[x] = p /\ x # w /\ x # p /\ t.parent[w] = p /\ x # t.root
  BY ZenonT(40), <1>2
<1>3. h[x] \in Nat /\ h[w] \in Nat /\ 1 <= h[x] /\ h[w] = h[x] + 1
  BY ZenonT(40) DEF Brothers
<1>4. PICK o : Other(s) = o
  OBVIOUS
<1>5. o \in Sides /\ s # o /\ Other(o) = s /\ w # Nil /\ p # Nil /\ v # Nil
  BY ZenonT(40), <1>1, <1>2, <1>4, TwoSides
<1>6. PICK b : t.child[v][o] = b
  OBVIOUS
<1>7. PICK U : U = Paint(Paint(t, v, "BLACK"), w, "RED")
  OBVIOUS
<1>8. v \in M /\ v # w /\ t.parent[v] = w /\ v # p
  <2>1. v \in M /\ v # w /\ t.parent[v] = w
    BY <1>5, <1>24, ChildOf
  <2>2. \A r \in Sides : t.child[w][r] # p
    <3>1. Other(s) \in Sides
      BY ONLY SMTT(30), <1>24, TwoSides
    <3> QED  BY <1>5, <1>24, <3>1, ChildOf
  <2> QED  BY ONLY <1>24, <2>1, <2>2
<1>9. Exchanged(U, t, M, w, v) /\ U.color[Nil] = "BLACK" /\ SamePointers(U, t)
  BY <1>1, <1>7, <1>8, <1>24, <1>25, PaintExchanges
<1>10. T = rotate(U, w, o)
  BY <1>4, <1>7
<1>11. /\ w \in M /\ o \in Sides /\ t.child[w][Other(o)] = v /\ v # Nil
       /\ t.child[v][o] = b /\ t.parent[w] = p /\ t.color[v] = "RED"
       /\ t.color[t.child[w][o]] # "RED"
  BY ZenonT(40), <1>2, <1>4, <1>5, <1>6
<1>12. Rotated(T, U, w, o, v, b, p) /\ Form(T, M, L, pos)
  BY <1>9, <1>10, <1>11, RotateDone
<1>13. /\ Plain(T, M) /\ T.color[Nil] = "BLACK" /\ T.color[w] = "RED" /\ T.color[v] = "BLACK"
       /\ \A m \in M \ {w, v} : T.color[m] = t.color[m]
  <2>1. t.color[Nil] = "BLACK" /\ Plain(t, M)
    BY ZenonT(40), <1>2
  <2> QED  BY <1>9, <1>11, <1>12, <2>1, SwapPlain
<1>14. ~ (p = w /\ s = Other(o)) /\ ~ (p = v /\ s = o)
  BY ZenonT(40), <1>2, <1>5
<1>15. PICK k : Counted(T, M, k, p, s) /\ Recount(k, h, t, M, w, v)
  BY ZenonT(40), <1>2, <1>9, <1>11, <1>12, <1>14, SwapCounted
<1>16. Around(T, t, M, w, o, v, b, p)
  BY ZenonT(40), <1>9, <1>11, <1>12, RotatedAround
<1>17. SideOf(t, w) = o
  <2>1. t.child[p][o] = w /\ t.child[p][s] = x /\ t.parent[w] = p
    BY ZenonT(40), <1>4, <1>24, <1>26
  <2> QED  BY ZenonT(40), <1>5, <1>26, <2>1, TwoSides DEF SideOf
<1>18. /\ T.child[p][o] = v /\ T.child[p][s] = x /\ T.child[v][o] = w /\ T.root = t.root
  <2>1. T.child[p][o] = v /\ T.child[p][Other(o)] = t.child[p][Other(o)] /\ T.root = t.root
    BY ONLY <1>5, <1>16, <1>17 DEF Around
  <2>2. T.child[v][o] = w
    BY ONLY <1>16 DEF Around
  <2> QED  BY ZenonT(40), <1>5, <1>26, <2>1, <2>2
<1>19. b # Nil => b \in M /\ t.parent[b] = v
  <2>1. PICK z : SideOf(t, w) = z
    OBVIOUS
  <2> QED  BY <1>11, <2>1, RotateParts
<1>20. x # v /\ T.parent[x] = p /\ T.parent[v] = p /\ SideOf(T, x) = s
  <2>1. x # v
    BY ZenonT(40), <1>2, <1>8
  <2>2. b # Nil => b # x
    BY ZenonT(40), <1>2, <1>8, <1>19
  <2>3. b # Nil => b # v
    BY <1>8, <1>19
  <2>4. x \in Links /\ v \in Links
    BY ZenonT(40), <1>1, <1>2, <1>8
  <2>5. T.parent[x] = p /\ T.parent[v] = p
    <3>1. \A m \in Links : T.parent[m] = IF b # Nil /\ m = b THEN w ELSE IF m = w THEN v
                                          ELSE IF m = v THEN p ELSE t.parent[m]
      BY ONLY <1>16 DEF Around
    <3> QED  BY ZenonT(40), <1>8, <1>26, <2>1, <2>2, <2>3, <2>4, <3>1
  <2>6. SideOf(T, x) = s
    <3>1. T.child[p][s] = x /\ T.child[p][Other(s)] # x
      BY <1>4, <1>18, <2>1
    <3> QED  BY ZenonT(40), <1>24, <2>5, <3>1 DEF SideOf, Sides, Other
  <2> QED  BY <2>1, <2>5, <2>6
<1>21. T.color[x] = "BLACK"
  BY ZenonT(40), <1>13, <1>20, <1>25, <1>26
<1>22. k[x] \in Nat /\ k[v] \in Nat /\ 1 <= k[x] /\ k[v] = k[x] + 1
  <2>1. k[x] = h[x] /\ k[v] = h[w]
    BY ZenonT(40), <1>2, <1>15, <1>20 DEF Recount
  <2> QED  BY <1>3, <2>1
<1>23. Brothers(T, M, k, x, p, s, v)
  BY ZenonT(40), <1>2, <1>4, <1>8, <1>13, <1>15, <1>18, <1>20, <1>21, <1>22 DEF Brothers
<1> QED  BY ONLY <1>4, <1>12, <1>13, <1>18, <1>23

\* Both nephews are black: the brother turns red and the parent is short.
LEMMA BalancedKeeps ==
    ASSUME NEW t, NEW M, NEW L, NEW pos, NEW bd, Laid(t, M, L, pos, bd),
           NEW h, NEW x, NEW p, NEW s, NEW w, Brothers(t, M, h, x, p, s, w),
           t.color[w] = "BLACK", Balanced(t, w), NEW T, T = Paint(t, w, "RED")
    PROVE  /\ Form(T, M, L, pos) /\ Colored(T, M, "delete", p) /\ SamePointers(T, t)
           /\ T.color[p] = t.color[p]
<1>1. M \subseteq Nodes /\ Nil \notin M /\ t \in Trees /\ M \subseteq Links /\ Nil \in Links
  BY RBAssumption DEF Laid, Links
<1>2. /\ t.parent[x] = p /\ SideOf(t, x) = s /\ t.child[p][Other(s)] = w
      /\ p \in M /\ w \in M /\ s \in Sides /\ x \in M \cup {Nil}
      /\ t.child[p][s] = x /\ t.parent[w] = p /\ x # p /\ w # p /\ x # w /\ x # t.root
      /\ t.color[x] = "BLACK" /\ t.color[Nil] = "BLACK" /\ Plain(t, M)
      /\ Counted(t, M, h, p, s)
  BY DEF Brothers
<1>3. h[x] \in Nat /\ h[w] \in Nat /\ 1 <= h[x] /\ h[w] = h[x] + 1
  BY DEF Brothers
<1>4. Painted(T, t, w, "RED")
  BY <1>1, <1>2, PaintIs
<1>5. /\ SamePointers(T, t)
      /\ \A m \in Links : T.color[m] = IF m = w THEN "RED" ELSE t.color[m]
  BY <1>4 DEF Painted, SamePointers
<1>6. Form(T, M, L, pos)
  BY <1>5, PointersLaid DEF Form
<1>7. T.color[Nil] = "BLACK" /\ T.color[p] = t.color[p]
  BY ZenonT(40), <1>1, <1>2, <1>5
<1>8. Reds(T, M, p, TRUE)
  <2> SUFFICES ASSUME NEW m \in M, T.color[m] = "RED", m # p, T.parent[m] # p
               PROVE  m # T.root /\ T.color[T.parent[m]] = "BLACK"
    BY ZenonT(40), <1>2 DEF Reds
  <2>1. t.parent[m] = T.parent[m] /\ T.root = t.root
    BY <1>5 DEF SamePointers
  <2>2. m # w /\ t.color[m] = "RED"
    BY ZenonT(40), <1>1, <1>2, <1>5, <2>1
  <2>3. m # t.root /\ t.color[t.parent[m]] = "BLACK"
    BY ONLY <1>2, <2>2 DEF Plain
  <2>4. t.parent[m] # w
    <3> SUFFICES ASSUME t.parent[m] = w PROVE FALSE
      OBVIOUS
    <3>1. t.child[w][s] = m \/ t.child[w][Other(s)] = m
      BY <1>2, Siblings
    <3> QED  BY ZenonT(40), <1>2, <2>2, <3>1, TwoSides DEF Balanced
  <2>5. t.parent[m] \in M
    BY <2>3, AboveOf
  <2> QED  BY <1>1, <1>5, <2>1, <2>3, <2>4, <2>5
<1>9. PICK q, z : t.parent[p] = q /\ SideOf(t, p) = z
  OBVIOUS
<1>10. /\ q # p /\ q # w
       /\ q = Nil => p = t.root
       /\ q # Nil => p # t.root /\ q \in M /\ z \in Sides /\ t.child[q][z] = p
  <2>1. /\ p = t.root => q = Nil
        /\ p # t.root => q \in M /\ q # Nil /\ q # p /\ z \in Sides /\ t.child[q][z] = p
    BY <1>2, <1>9, ParentOf
  <2>2. \A r \in Sides : t.child[w][r] # p
    <3>1. w = t.child[p][Other(s)] /\ w # Nil /\ Other(s) \in Sides
      BY ONLY SMTT(30), <1>1, <1>2, TwoSides
    <3> QED  BY <1>2, <3>1, ChildOf
  <2> QED  BY ZenonT(40), <1>1, <1>2, <2>1, <2>2
<1> DEFINE k == [m \in M \cup {Nil} |-> IF m \in {p, w} THEN h[m] - 1 ELSE h[m]]
<1>11. /\ h \in [M \cup {Nil} -> Nat] /\ h[Nil] = 1 /\ \A m \in M : 1 <= h[m]
       /\ \A m \in M \cup {Nil} : h[m] \in Nat
  BY ONLY <1>2 DEF Counted
<1>12. /\ h[p] = h[x] + One(t, p) + 1 /\ One(t, p) \in {0, 1}
  BY <1>2, CountedAt
<1>13. k \in [M \cup {Nil} -> Nat] /\ k[Nil] = 1 /\ \A m \in M : 1 <= k[m]
  <2>1. h[p] - 1 \in Nat /\ 1 <= h[p] - 1 /\ h[w] - 1 \in Nat /\ 1 <= h[w] - 1
    BY SMTT(30), <1>3, <1>12
  <2>2. k = [m \in M \cup {Nil} |-> k[m]] /\ k[Nil] = h[Nil]
    BY ONLY <1>1, <1>2
  <2>3. \A m \in M : k[m] \in Nat /\ 1 <= k[m]
    BY SMTT(30), <1>11, <2>1
  <2> HIDE DEF k
  <2> QED  BY <1>11, <2>2, <2>3
<1>14. k[p] = h[p] - 1 /\ k[w] = h[w] - 1 /\ \A m \in (M \cup {Nil}) \ {p, w} : k[m] = h[m]
  BY ONLY <1>2
<1> HIDE DEF k
<1>15. ASSUME NEW m \in M, NEW r \in Sides
       PROVE  /\ T.child[m][r] \in M \cup {Nil}
              /\ ~ (m = q /\ r = z) => k[m] = k[T.child[m][r]] + One(T, m)
              /\ m = q /\ r = z => k[m] = k[T.child[m][r]] + One(T, m) + 1
  <2>1. PICK c : T.child[m][r] = c /\ t.child[m][r] = c
    BY SMTT(30), <1>5 DEF SamePointers
  <2>2. /\ c \in M \cup {Nil} /\ h[c] \in Nat /\ h[m] \in Nat /\ One(t, m) \in {0, 1}
        /\ ~ (m = p /\ r = s) => h[m] = h[c] + One(t, m)
        /\ m = p /\ r = s => h[m] = h[c] + One(t, m) + 1
    BY <1>2, <2>1, CountedAt
  <2>3. c # Nil => c # m /\ t.parent[c] = m
    BY <2>1, ChildOf
  <2>4. CASE m = p /\ r = s
    <3>1. c = x /\ k[c] = h[x] /\ k[m] = h[m] - 1 /\ One(T, m) = One(t, m) /\ m # q
      BY ZenonT(40), <1>2, <1>7, <1>10, <1>14, <2>1, <2>4 DEF One
    <3> QED  BY <2>1, <2>2, <2>4, <3>1
  <2>5. CASE m = p /\ r # s
    <3>1. c = w /\ k[c] = h[c] - 1 /\ k[m] = h[m] - 1 /\ One(T, m) = One(t, m) /\ m # q
      <4>1. r = Other(s)
        BY ONLY SMTT(30), <1>2, <2>5, TwoSides
      <4>2. c = w
        BY ONLY <1>2, <2>1, <2>5, <4>1
      <4>3. One(T, m) = One(t, m) /\ m # q
        BY <1>7, <1>10, <2>5 DEF One
      <4> QED  BY <1>14, <2>5, <4>2, <4>3
    <3> QED  BY <2>1, <2>2, <2>5, <3>1
  <2>6. CASE m = w
    <3>1. c # w /\ c # p /\ m # q
      BY ONLY <1>1, <1>2, <1>9, <1>10, <2>3, <2>6
    <3>2. k[c] = h[c] /\ k[m] = h[m] - 1
      BY <1>14, <2>2, <2>6, <3>1
    <3>3. One(T, m) = 0 /\ One(t, m) = 1
      BY <1>1, <1>5, <2>6 DEF One
    <3>4. m # p
      BY ONLY <1>2, <2>6
    <3> QED  BY <2>1, <2>2, <3>1, <3>2, <3>3, <3>4
  <2>7. CASE m # p /\ m # w
    <3>1. One(T, m) = One(t, m) /\ k[m] = h[m]
      BY <1>1, <1>5, <1>14, <2>7 DEF One
    <3>2. CASE c = p
      <4>1. m = q
        BY ONLY <1>1, <1>2, <1>9, <2>3, <3>2
      <4>2. r = z
        <5>1. q # Nil /\ t.child[q][z] = t.child[m][r] /\ q \in M /\ z \in Sides /\ t.child[q][z] # Nil
          BY ONLY <1>1, <1>2, <1>10, <2>1, <3>2, <4>1
        <5> QED  BY SMTT(30), <5>1, OnePlace
      <4>3. k[c] = h[c] - 1
        BY <1>14, <3>2
      <4> QED  BY <2>1, <2>2, <2>7, <3>1, <4>1, <4>2, <4>3
    <3>3. CASE c # p
      <4>1. c # w
        BY ONLY <1>1, <1>2, <2>3, <2>7
      <4>2. ~ (m = q /\ r = z)
        BY <1>1, <1>10, <2>1, <3>3
      <4>3. k[c] = h[c]
        BY <1>14, <2>2, <3>3, <4>1
      <4> QED  BY <2>1, <2>2, <2>7, <3>1, <4>2, <4>3
    <3> QED  BY <3>2, <3>3
  <2> QED  BY <2>4, <2>5, <2>6, <2>7
<1>16. Counted(T, M, k, q, z)
  BY ZenonT(40), <1>1, <1>13, <1>15, CountedBy
<1>17. T.parent[p] = q /\ SideOf(T, p) = z /\ T.root = t.root /\ T.child = t.child
  BY <1>5, <1>9 DEF SamePointers, SideOf
<1>18. Running(T, M, "delete", p) /\ ShortAt(T, "delete", p) = q
  BY ZenonT(40), <1>2, <1>10, <1>17 DEF Running, ShortAt
<1>19. Colored(T, M, "delete", p)
  BY ZenonT(40), <1>7, <1>8, <1>16, <1>17, <1>18 DEF Colored
<1> QED  BY <1>5, <1>6, <1>7, <1>19

\* The outer nephew is red: the last rotation.
LEMMA FinishKeeps ==
    ASSUME NEW t, NEW M, NEW L, NEW pos, NEW bd, Laid(t, M, L, pos, bd),
           NEW h, NEW x, NEW p, NEW s, NEW w, Brothers(t, M, h, x, p, s, w),
           t.color[w] = "BLACK", NEW e, t.child[w][Other(s)] = e, t.color[e] = "RED",
           NEW T, T = Finish(t, p, w, s)
    PROVE  Form(T, M, L, pos) /\ Colored(T, M, "delete", T.root)
<1>1. M \subseteq Nodes /\ Nil \notin M /\ t \in Trees /\ M \subseteq Links /\ Nil \in Links
  BY SMTT(30), RBAssumption DEF Laid, Links
<1>2. /\ p \in M /\ w \in M /\ s \in Sides /\ t.child[p][Other(s)] = w /\ x \in M \cup {Nil}
      /\ t.child[p][s] = x /\ t.parent[x] = p /\ x # w /\ x # p /\ w # p /\ t.parent[w] = p
  BY SMTT(30) DEF Brothers
<1>3. t.color[x] = "BLACK" /\ t.color[Nil] = "BLACK" /\ Plain(t, M) /\ Counted(t, M, h, p, s)
  BY SMTT(30) DEF Brothers
<1>4. h[x] \in Nat /\ h[w] \in Nat /\ 1 <= h[x] /\ h[w] = h[x] + 1
  BY DEF Brothers
<1>5. PICK o : Other(s) = o
  OBVIOUS
<1>6. o \in Sides /\ s # o /\ Other(o) = s /\ w # Nil /\ p # Nil /\ e # Nil
  BY ZenonT(40), <1>1, <1>2, <1>3, <1>5, TwoSides
<1>7. PICK b, q : t.child[w][s] = b /\ t.parent[p] = q
  OBVIOUS
<1>8. e \in M /\ t.parent[e] = w /\ e # w /\ e # p /\ e # x /\ b # e
  <2>3. w \in M /\ o \in Sides /\ t.child[w][o] = e /\ e # Nil
    BY ZenonT(40), <1>2, <1>5, <1>6
  <2>1. e \in M /\ t.parent[e] = w /\ e # w /\ t.child[w][Other(o)] # e
    BY <2>3, ChildOf
  <2>4. p \in M /\ t.child[p][o] = w /\ w # Nil
    BY ZenonT(40), <1>2, <1>5, <1>6
  <2>2. \A r \in Sides : t.child[w][r] # p
    BY <2>3, <2>4, ChildOf
  <2> QED  BY ZenonT(40), <1>2, <1>5, <1>6, <1>7, <2>1, <2>2
<1>9. PICK U : U = Paint(Paint(Paint(t, w, t.color[p]), p, "BLACK"), e, "BLACK")
  OBVIOUS
<1>10. /\ SamePointers(U, t)
       /\ \A m \in Links : U.color[m] = IF m = e THEN "BLACK" ELSE IF m = p THEN "BLACK"
                                        ELSE IF m = w THEN t.color[p] ELSE t.color[m]
  <2>1. w \in Links /\ p \in Links /\ e \in Links /\ t.color[p] \in {"RED", "BLACK"}
    BY ZenonT(40), <1>1, <1>2, <1>8 DEF Trees
  <2>2. PICK A : A = Paint(Paint(t, w, t.color[p]), p, "BLACK")
    OBVIOUS
  <2>3. /\ SamePointers(A, t)
        /\ \A m \in Links : A.color[m] = IF m = p THEN "BLACK" ELSE IF m = w THEN t.color[p]
                                         ELSE t.color[m]
    BY <1>1, <2>1, <2>2, PaintTwo
  <2>4. A \in Trees
    BY <2>3 DEF SamePointers
  <2>5. Painted(U, A, e, "BLACK")
    BY <1>9, <2>1, <2>2, <2>4, PaintIs
  <2> QED  BY <2>3, <2>5 DEF Painted, SamePointers
<1>11. T = rotate(U, p, s)
  BY <1>9 DEF Finish
<1>12. /\ p \in M /\ s \in Sides /\ t.child[p][Other(s)] = w /\ w # Nil
       /\ t.child[w][s] = b /\ t.parent[p] = q
  BY ZenonT(40), <1>2, <1>6, <1>7
<1>13. Rotated(T, U, p, s, w, b, q) /\ Form(T, M, L, pos)
  BY <1>10, <1>11, <1>12, RotateDone
<1>14. Around(T, t, M, p, s, w, b, q)
  BY <1>10, <1>12, <1>13, RotatedAround
<1>15. /\ b \in M \cup {Nil} /\ b # p /\ b # w /\ q # p /\ q # w
       /\ b # Nil => t.parent[b] = w
       /\ q # Nil => q \in M /\ p # t.root
       /\ q = Nil => p = t.root
  <2>1. PICK z : SideOf(t, p) = z
    OBVIOUS
  <2>2. /\ b # p /\ b # w /\ q # p /\ q # w
        /\ b # Nil => b \in M /\ t.parent[b] = w
        /\ q # Nil => p # t.root /\ q \in M
        /\ q = Nil => p = t.root
    BY <1>12, <2>1, RotateParts
  <2> QED  BY <2>2
<1>16. /\ T.color[Nil] = "BLACK" /\ T.color[p] = "BLACK" /\ T.color[e] = "BLACK"
       /\ T.color[w] = t.color[p]
       /\ \A m \in M : m # p /\ m # w /\ m # e => T.color[m] = t.color[m]
  <2>1. T.color = U.color
    BY <1>13 DEF Rotated
  <2>2. p \in Links /\ w \in Links /\ e \in Links
    BY ZenonT(40), <1>1, <1>2, <1>8
  <2> QED  BY ZenonT(40), <1>1, <1>2, <1>3, <1>6, <1>8, <1>10, <2>1, <2>2
<1>17. /\ T.root = IF q = Nil THEN w ELSE t.root
       /\ \A m \in M : T.parent[m] = IF b # Nil /\ m = b THEN p ELSE IF m = p THEN w
                                     ELSE IF m = w THEN q ELSE t.parent[m]
  BY <1>1, <1>14 DEF Around
<1>18. Reds(T, M, T.root, TRUE)
  <2> SUFFICES ASSUME NEW m \in M, T.color[m] = "RED", m # T.root
               PROVE  T.color[T.parent[m]] = "BLACK"
    BY DEF Reds
  <2>1. m # p /\ m # e
    BY <1>16
  <2>2. CASE m = w
    <3>1. q # Nil
      BY <1>17, <2>2
    <3>2. T.parent[m] = q /\ t.color[p] = "RED"
      BY <1>15, <1>16, <1>17, <2>2
    <3>3. t.color[q] = "BLACK"
      BY ZenonT(40), <1>2, <1>3, <1>7, <3>2 DEF Plain
    <3>4. T.color[q] = "BLACK"
      BY <1>15, <1>16, <3>1, <3>3
    <3> QED  BY <3>2, <3>4
  <2>3. CASE m # w
    <3>1. t.color[m] = "RED"
      BY <1>16, <2>1, <2>3
    <3>2. m # t.root /\ t.color[t.parent[m]] = "BLACK"
      BY <1>3, <3>1 DEF Plain
    <3>3. CASE b # Nil /\ m = b
      BY <1>16, <1>17, <3>3
    <3>4. CASE ~ (b # Nil /\ m = b)
      <4>1. T.parent[m] = t.parent[m]
        BY <1>17, <2>1, <2>3, <3>4
      <4>2. t.parent[m] # w
        <5> SUFFICES ASSUME t.parent[m] = w PROVE FALSE
          OBVIOUS
        <5>2. w \in M /\ s \in Sides
          BY ZenonT(40), <1>2
        <5>1. t.child[w][s] = m \/ t.child[w][Other(s)] = m
          BY <5>2, Siblings
        <5> QED  BY <1>1, <1>7, <2>1, <3>4, <5>1
      <4>3. t.parent[m] \in M
        BY <3>2, AboveOf
      <4> QED  BY <1>16, <3>2, <4>1, <4>2, <4>3
    <3> QED  BY <3>3, <3>4
  <2> QED  BY <2>2, <2>3
<1> DEFINE k == [m \in M \cup {Nil} |-> IF m = e THEN h[e] + 1 ELSE IF m = p THEN h[x] + 1
                                        ELSE IF m = w THEN h[p] ELSE h[m]]
<1>19. /\ h \in [M \cup {Nil} -> Nat] /\ h[Nil] = 1 /\ \A m \in M : 1 <= h[m]
       /\ \A m \in M \cup {Nil} : h[m] \in Nat
  BY <1>3 DEF Counted
<1>20. k \in [M \cup {Nil} -> Nat] /\ k[Nil] = 1 /\ \A m \in M : 1 <= k[m]
  <2>1. /\ h[e] + 1 \in Nat /\ 1 <= h[e] + 1 /\ h[x] + 1 \in Nat /\ 1 <= h[x] + 1
        /\ h[p] \in Nat /\ 1 <= h[p]
    <3>1. p \in M /\ e \in M
      BY ZenonT(40), <1>2, <1>8
    <3> QED  BY <1>4, <1>19, <3>1
  <2>2. k = [m \in M \cup {Nil} |-> k[m]] /\ k[Nil] = h[Nil]
    BY ZenonT(40), <1>1, <1>2, <1>8
  <2>3. \A m \in M : k[m] \in Nat /\ 1 <= k[m]
    BY <1>19, <2>1
  <2> HIDE DEF k
  <2> QED  BY <1>19, <2>2, <2>3
<1>21. /\ k[e] = h[e] + 1 /\ k[p] = h[x] + 1 /\ k[w] = h[p]
       /\ \A m \in (M \cup {Nil}) \ {e, p, w} : k[m] = h[m]
  BY ZenonT(40), <1>2, <1>8
<1> HIDE DEF k
<1>22. /\ h[p] = h[x] + One(t, p) + 1 /\ One(t, p) \in {0, 1} /\ h[b] = h[x] /\ h[e] = h[x]
       /\ One(T, w) = One(t, p) /\ One(T, p) = 1 /\ One(T, e) = 1 /\ One(t, e) = 0
  <2>1. h[p] = h[x] + One(t, p) + 1 /\ One(t, p) \in {0, 1}
    <3>1. p \in M /\ s \in Sides /\ t.child[p][s] = x /\ Counted(t, M, h, p, s)
      BY ZenonT(40), <1>2, <1>3
    <3> QED  BY <3>1, CountedAt
  <2>2. One(t, w) = 1 /\ One(T, w) = One(t, p) /\ One(T, p) = 1 /\ One(T, e) = 1 /\ One(t, e) = 0
    BY <1>16 DEF One
  <2>3. h[b] \in Nat /\ (~ (w = p /\ s = s) => h[w] = h[b] + One(t, w))
    <3>1. w \in M /\ s \in Sides /\ t.child[w][s] = b /\ Counted(t, M, h, p, s)
      BY ZenonT(40), <1>2, <1>3, <1>12
    <3> QED  BY <3>1, CountedAt
  <2>4. h[e] \in Nat /\ (~ (w = p /\ o = s) => h[w] = h[e] + One(t, w))
    <3>1. w \in M /\ o \in Sides /\ t.child[w][o] = e /\ Counted(t, M, h, p, s)
      BY ZenonT(40), <1>2, <1>3, <1>5, <1>6
    <3> QED  BY <3>1, CountedAt
  <2>5. h[w] = h[b] + 1 /\ h[w] = h[e] + 1
    BY ZenonT(40), <1>2, <2>2, <2>3, <2>4
  <2>6. h[b] = h[x] /\ h[e] = h[x]
    BY <1>4, <2>3, <2>4, <2>5
  <2> QED  BY <2>1, <2>2, <2>6
<1>23. T.parent[T.root] = Nil /\ T.root \in M /\ T.root \in M \cup {Nil}
  <2>1. PICK f : Laid(T, M, L, pos, f)
    BY <1>13 DEF Form
  <2> QED  BY ZenonT(40), <1>2, <2>1 DEF Laid
<1>24. PICK z : SideOf(T, T.root) = z
  OBVIOUS
<1>25. ASSUME NEW m \in M, NEW r \in Sides
       PROVE  T.child[m][r] \in M \cup {Nil} /\ m # Nil /\ k[m] = k[T.child[m][r]] + One(T, m)
  <2>1. PICK c : t.child[m][r] = c
    OBVIOUS
  <2>2. PICK d : T.child[m][r] = d
    OBVIOUS
  <2>3. /\ c \in M \cup {Nil} /\ h[c] \in Nat /\ h[m] \in Nat /\ One(t, m) \in {0, 1}
        /\ ~ (m = p /\ r = s) => h[m] = h[c] + One(t, m)
    BY <1>3, <2>1, CountedAt
  <2>4. /\ m = p /\ r = s => d = c
        /\ m = p /\ r = o => d = b
        /\ m = w /\ r = s => d = p
        /\ m = w /\ r = o => d = c
        /\ m # p /\ m # w => \/ c = p /\ d = w
                             \/ c # p /\ c # w /\ d = c
    BY <1>5, <1>10, <1>12, <1>13, <2>1, <2>2, RotatedChild
  <2>5. c # Nil => c # m /\ t.parent[c] = m
    BY <2>1, ChildOf
  <2>6. r = s \/ r = o
    BY ZenonT(40), <1>2, <1>5, TwoSides
  <2>7. CASE m = p /\ r = s
    <3>1. d = x /\ k[d] = h[x] /\ k[m] = h[x] + 1
      BY ZenonT(40), <1>2, <1>8, <1>21, <2>1, <2>4, <2>7
    <3> QED  BY ZenonT(40), <1>1, <1>2, <1>22, <2>2, <2>7, <3>1
  <2>8. CASE m = p /\ r = o
    <3>1. d = b /\ k[d] = h[x] /\ k[m] = h[x] + 1
      BY <1>8, <1>15, <1>21, <1>22, <2>4, <2>8
    <3> QED  BY <1>1, <1>15, <1>22, <2>2, <2>8, <3>1
  <2>9. CASE m = w /\ r = s
    <3>1. d = p /\ k[d] = h[x] + 1 /\ k[m] = h[p]
      BY <1>21, <2>4, <2>9
    <3>2. k[m] = k[d] + One(T, m)
      BY <1>4, <1>22, <2>9, <3>1
    <3> QED  BY ZenonT(40), <1>1, <1>2, <2>2, <3>1, <3>2
  <2>10. CASE m = w /\ r = o
    <3>1. d = e /\ k[d] = h[x] + 1 /\ k[m] = h[p]
      BY <1>5, <1>21, <1>22, <2>1, <2>4, <2>10
    <3> QED  BY <1>1, <1>4, <1>8, <1>22, <2>2, <2>10, <3>1
  <2>11. CASE m = e
    <3>1. c # p /\ c # w /\ c # e /\ m # p /\ m # w
      <4>1. \A r1 \in Sides : t.child[e][r1] # w
        <5>1. w \in M /\ o \in Sides /\ t.child[w][o] = e /\ e # Nil
          BY ZenonT(40), <1>2, <1>5, <1>6
        <5> QED  BY <5>1, ChildOf
      <4>2. c # w /\ c # e
        BY <1>8, <1>1, <2>1, <2>5, <2>11, <4>1
      <4>3. c # p
        <5> SUFFICES ASSUME c = p PROVE FALSE
          OBVIOUS
        <5>1. /\ p \in M /\ t.child[p][o] = w /\ w # Nil /\ w \in M /\ t.child[w][o] = e /\ e # Nil
              /\ e \in M /\ t.child[e][r] = p /\ p # Nil /\ o \in Sides
          BY ZenonT(40), <1>2, <1>5, <1>6, <1>8, <2>1, <2>11
        <5>2. /\ Width(bd, w) < Width(bd, p) /\ Width(bd, p) \in Nat /\ Width(bd, w) \in Nat
          <6>1. p \in M /\ o \in Sides /\ t.child[p][o] = w /\ w # Nil
            BY ZenonT(40), <5>1
          <6> QED  BY <6>1, Narrower
        <5>3. Width(bd, e) < Width(bd, w) /\ Width(bd, e) \in Nat
          <6>1. w \in M /\ o \in Sides /\ t.child[w][o] = e /\ e # Nil
            BY ZenonT(40), <5>1
          <6> QED  BY <6>1, Narrower
        <5>4. Width(bd, p) < Width(bd, e)
          BY ZenonT(40), <5>1, Narrower
        <5> QED  BY <5>2, <5>3, <5>4
      <4> QED  BY <1>8, <2>11, <4>2, <4>3
    <3>2. d = c /\ k[d] = h[c] /\ k[m] = h[m] + 1 /\ One(T, m) = 1 /\ One(t, m) = 0
      BY <1>21, <1>22, <2>3, <2>4, <2>11, <3>1
    <3> QED  BY <1>1, <2>2, <2>3, <3>1, <3>2
  <2>12. CASE m # p /\ m # w /\ m # e
    <3>1. k[m] = h[m] /\ One(T, m) = One(t, m)
      BY <1>16, <1>21, <2>12 DEF One
    <3>2. c # e
      BY <1>1, <1>8, <2>5, <2>12
    <3>3. k[d] = h[c] /\ d \in M \cup {Nil}
      BY ZenonT(40), <1>2, <1>21, <2>3, <2>4, <2>12, <3>2
    <3> QED  BY <1>1, <2>2, <2>3, <2>12, <3>1, <3>3
  <2> QED  BY <2>6, <2>7, <2>8, <2>9, <2>10, <2>11, <2>12
<1>26. Counted(T, M, k, Nil, z)
  BY ZenonT(40), <1>1, <1>20, <1>25, CountedBy
<1>27. Running(T, M, "delete", T.root) /\ ShortAt(T, "delete", T.root) = Nil
  BY <1>23 DEF Running, ShortAt
<1> QED  BY ZenonT(40), <1>13, <1>16, <1>18, <1>24, <1>26, <1>27 DEF Colored

\* The round once the brother is black.
BlackRound(t, p, w, s) ==
    LET o == Other(s)
        turn == t.color[t.child[w][o]] = "BLACK"
        t2 == IF turn THEN rotate(Paint(Paint(t, t.child[w][s], "BLACK"), w, "RED"), w, o)
              ELSE t
    IN Finish(t2, p, t2.child[p][o], s)

LEMMA BlackRoundKeeps ==
    ASSUME NEW t, NEW M, NEW L, NEW pos, NEW bd, Laid(t, M, L, pos, bd),
           NEW h, NEW x, NEW p, NEW s, NEW w, Brothers(t, M, h, x, p, s, w),
           t.color[w] = "BLACK", ~ Balanced(t, w), NEW T, T = BlackRound(t, p, w, s)
    PROVE  Form(T, M, L, pos) /\ Colored(T, M, "delete", T.root)
<1>1. M \subseteq Nodes /\ Nil \notin M /\ t \in Trees
  BY RBAssumption DEF Laid
<1>2. w \in M /\ s \in Sides /\ t.child[p][Other(s)] = w
  BY DEF Brothers
<1>3. PICK o : Other(s) = o
  OBVIOUS
<1>4. o \in Sides /\ \A r \in Sides : r = s \/ r = o
  BY <1>2, <1>3, TwoSides
<1>5. \A r \in Sides : t.color[t.child[w][r]] \in {"RED", "BLACK"}
  <2>1. w \in Nodes
    BY <1>1, <1>2
  <2> QED  BY <1>1, <2>1 DEF Trees
<1>6. CASE t.color[t.child[w][o]] = "BLACK"
  <2>1. PICK v : t.child[w][s] = v
    OBVIOUS
  <2>2. t.color[v] = "RED"
    BY ZenonT(40), <1>2, <1>4, <1>5, <1>6, <2>1 DEF Balanced
  <2>3. PICK A : A = rotate(Paint(Paint(t, v, "BLACK"), w, "RED"), w, Other(s))
    OBVIOUS
  <2>4. t.color[t.child[w][Other(s)]] = "BLACK"
    BY <1>3, <1>6
  <2>5. /\ Form(A, M, L, pos) /\ A.child[p][Other(s)] = v /\ A.color[v] = "BLACK"
        /\ A.child[v][Other(s)] = w /\ A.color[w] = "RED"
        /\ \E k : Brothers(A, M, k, x, p, s, v)
    BY <2>1, <2>2, <2>3, <2>4, TurnKeeps
  <2>6. T = Finish(A, p, v, s)
    BY <2>1, <2>3, <2>4, <2>5 DEF BlackRound
  <2>7. PICK e : Laid(A, M, L, pos, e)
    BY <2>5 DEF Form
  <2>8. PICK k : Brothers(A, M, k, x, p, s, v)
    BY <2>5
  <2> QED  BY <2>5, <2>6, <2>7, <2>8, FinishKeeps
<1>7. CASE t.color[t.child[w][o]] # "BLACK"
  <2>1. PICK e : t.child[w][Other(s)] = e
    OBVIOUS
  <2>2. t.color[e] = "RED"
    BY <1>3, <1>4, <1>5, <1>7, <2>1
  <2>3. T = Finish(t, p, w, s)
    BY <1>2, <1>3, <1>7 DEF BlackRound
  <2> QED  BY <2>1, <2>2, <2>3, FinishKeeps
<1> QED  BY <1>6, <1>7

\* A round goes up, or it is the last one.
DeleteAdvances ==
    \/ SamePointers(tree', tree) /\ nd' = tree.parent[nd]
    \/ nd' = tree'.root \/ tree'.color[nd'] # "BLACK"

LEMMA DeleteRound ==
    ASSUME NEW M, NEW L, NEW pos, Form(tree, M, L, pos), Colored(tree, M, at, nd),
           rb_delete_fixup
    PROVE  /\ Form(tree', M, L, pos) /\ Colored(tree', M, at', nd')
           /\ at = "delete" /\ at' = at /\ nd' \in M /\ DeleteAdvances
           /\ nd # tree.root /\ tree.parent[nd] \in M
<1>1. PICK bd : Laid(tree, M, L, pos, bd)
  BY DEF Form
<1>2. /\ at = "delete" /\ at' = "delete" /\ nd # tree.root /\ tree.color[nd] = "BLACK"
  BY ZenonT(40) DEF rb_delete_fixup, Looping
<1>3. PICK p, s : tree.parent[nd] = p /\ SideOf(tree, nd) = s
  OBVIOUS
<1>4. PICK o : Other(s) = o
  OBVIOUS
<1>5. PICK b0 : b0 = tree.child[p][o]
  OBVIOUS
<1>6. PICK h : Brothers(tree, M, h, nd, p, s, b0)
  BY <1>1, <1>2, <1>3, <1>4, <1>5, BrothersAre
<1>7. p \in M /\ b0 \in M /\ tree \in Trees /\ M \subseteq Nodes
  BY <1>1, <1>6 DEF Brothers, Laid
<1>8. PICK t : t = IF tree.color[b0] = "RED" THEN Demote(tree, p, b0, s) ELSE tree
  OBVIOUS
<1>9. PICK w : t.child[p][o] = w
  OBVIOUS
<1>10. IF Balanced(t, w) THEN tree' = Paint(t, w, "RED") /\ nd' = p
       ELSE tree' = BlackRound(t, p, w, s) /\ nd' = tree'.root
  BY ZenonT(40), <1>3, <1>4, <1>5, <1>8, <1>9 DEF rb_delete_fixup, BlackRound
<1>11. /\ Form(t, M, L, pos) /\ t.color[w] = "BLACK" /\ \E k : Brothers(t, M, k, nd, p, s, w)
       /\ t = tree \/ t.color[p] = "RED"
  <2>1. CASE tree.color[b0] = "RED"
    <3>1. t = Demote(tree, p, b0, s)
      BY <1>8, <2>1
    <3>2. /\ Form(t, M, L, pos) /\ t.color[p] = "RED" /\ t.color[t.child[p][Other(s)]] = "BLACK"
          /\ \E k : Brothers(t, M, k, nd, p, s, t.child[p][Other(s)])
      BY <1>1, <1>6, <2>1, <3>1, DemoteKeeps
    <3> QED  BY <1>4, <1>9, <3>2
  <2>2. CASE tree.color[b0] # "RED"
    <3>1. t = tree /\ w = b0
      BY <1>5, <1>8, <1>9, <2>2
    <3>2. tree.color[b0] = "BLACK"
      <4>1. b0 \in Links
        BY <1>7 DEF Links
      <4> QED  BY <1>7, <2>2, <4>1 DEF Trees
    <3> QED  BY <1>6, <3>1, <3>2
  <2> QED  BY <2>1, <2>2
<1>12. PICK k : Brothers(t, M, k, nd, p, s, w)
  BY <1>11
<1>13. PICK e : Laid(t, M, L, pos, e)
  BY <1>11 DEF Form
<1>14. CASE Balanced(t, w)
  <2>1. tree' = Paint(t, w, "RED") /\ nd' = p
    BY <1>10, <1>14
  <2>2. /\ Form(tree', M, L, pos) /\ Colored(tree', M, "delete", p) /\ SamePointers(tree', t)
        /\ tree'.color[p] = t.color[p]
    BY <1>11, <1>12, <1>13, <1>14, <2>1, BalancedKeeps
  <2>3. DeleteAdvances
    BY <1>3, <1>11, <2>1, <2>2 DEF DeleteAdvances
  <2> QED  BY <1>2, <1>3, <1>7, <2>1, <2>2, <2>3
<1>15. CASE ~ Balanced(t, w)
  <2>1. tree' = BlackRound(t, p, w, s) /\ nd' = tree'.root
    BY <1>10, <1>15
  <2>2. Form(tree', M, L, pos) /\ Colored(tree', M, "delete", tree'.root)
    BY <1>11, <1>12, <1>13, <1>15, <2>1, BlackRoundKeeps
  <2>3. tree'.root \in M
    <3>1. PICK f : Laid(tree', M, L, pos, f)
      BY <2>2 DEF Form
    <3> QED  BY <1>7, <3>1 DEF Laid
  <2> QED  BY <1>2, <1>3, <1>7, <2>1, <2>2, <2>3 DEF DeleteAdvances
<1> QED  BY <1>14, <1>15

\* A node the paths through which are one short is painted black.
LEMMA ShortCounted ==
    ASSUME NEW t, NEW M, NEW L, NEW pos, NEW bd, Laid(t, M, L, pos, bd),
           NEW x \in M, x # t.root, t.color[x] = "RED",
           NEW p, t.parent[x] = p, NEW s, SideOf(t, x) = s,
           NEW h, Counted(t, M, h, p, s),
           NEW T, SamePointers(T, t), T.color[x] = "BLACK",
           \A m \in M \ {x} : T.color[m] = t.color[m], NEW y
    PROVE  \E k : Counted(T, M, k, Nil, y)
<1> DEFINE k == [m \in M \cup {Nil} |-> IF m = x THEN h[m] + 1 ELSE h[m]]
<1>1. M \subseteq Nodes /\ Nil \notin M
  BY RBAssumption DEF Laid
<1>2. /\ h \in [M \cup {Nil} -> Nat] /\ h[Nil] = 1 /\ \A m \in M : 1 <= h[m]
      /\ \A m \in M \cup {Nil} : h[m] \in Nat
  BY DEF Counted
<1>3. p \in M /\ p # x /\ s \in Sides /\ t.child[p][s] = x
  BY ParentOf
<1>4. k \in [M \cup {Nil} -> Nat] /\ k[Nil] = 1 /\ \A m \in M : 1 <= k[m]
  BY <1>1, <1>2
<1>5. k[x] = h[x] + 1 /\ \A m \in (M \cup {Nil}) \ {x} : k[m] = h[m]
  OBVIOUS
<1> HIDE DEF k
<1>6. ASSUME NEW m \in M, NEW r \in Sides
      PROVE  T.child[m][r] \in M \cup {Nil} /\ m # Nil /\ k[m] = k[T.child[m][r]] + One(T, m)
  <2>1. PICK c : T.child[m][r] = c /\ t.child[m][r] = c
    BY DEF SamePointers
  <2>2. /\ c \in M \cup {Nil} /\ h[c] \in Nat /\ h[m] \in Nat /\ One(t, m) \in {0, 1}
        /\ ~ (m = p /\ r = s) => h[m] = h[c] + One(t, m)
        /\ m = p /\ r = s => h[m] = h[c] + One(t, m) + 1
    BY <2>1, CountedAt
  <2>3. c # Nil => c # m /\ t.parent[c] = m
    BY <2>1, ChildOf
  <2>4. CASE m = x
    <3>1. c # x
      BY <1>1, <2>3, <2>4
    <3>2. k[c] = h[c] /\ k[m] = h[m] + 1 /\ One(T, m) = 1 /\ One(t, m) = 0
      BY <1>5, <2>2, <2>4, <3>1 DEF One
    <3> QED  BY <1>1, <1>3, <2>1, <2>2, <2>4, <3>2
  <2>5. CASE m = p /\ r = s
    <3>1. c = x /\ k[c] = h[c] + 1 /\ k[m] = h[m] /\ One(T, m) = One(t, m)
      BY <1>3, <1>5, <2>1, <2>5 DEF One
    <3> QED  BY <1>1, <2>1, <2>2, <2>5, <3>1
  <2>6. CASE m # x /\ ~ (m = p /\ r = s)
    <3>1. c # x
      <4> SUFFICES ASSUME c = x PROVE FALSE
        OBVIOUS
      <4>1. t.child[p][s] = t.child[m][r] /\ t.child[p][s] # Nil /\ p \in M /\ s \in Sides
        BY <1>1, <1>3, <2>1
      <4>2. m = p /\ r = s
        BY <4>1, OnePlace
      <4> QED  BY <2>6, <4>2
    <3>2. k[c] = h[c] /\ k[m] = h[m] /\ One(T, m) = One(t, m)
      BY <1>5, <2>2, <2>6, <3>1 DEF One
    <3> QED  BY <1>1, <2>1, <2>2, <2>6, <3>2
  <2> QED  BY <2>4, <2>5, <2>6
<1>7. Counted(T, M, k, Nil, y)
  BY ZenonT(40), <1>1, <1>4, <1>6, CountedBy
<1> QED  BY <1>7

\* rb_delete returns: nd is painted black.
LEMMA DeleteEnds ==
    ASSUME NEW M, NEW L, NEW pos, Form(tree, M, L, pos), Colored(tree, M, at, nd),
           DeleteReturns
    PROVE  /\ Form(tree', M, L, pos) /\ Colored(tree', M, at', nd')
           /\ at' = "idle" /\ nd' = Nil
<1>1. PICK bd : Laid(tree, M, L, pos, bd)
  BY DEF Form
<1>2. /\ at = "delete" /\ (nd = tree.root \/ tree.color[nd] # "BLACK")
      /\ tree' = Paint(tree, nd, "BLACK") /\ at' = "idle" /\ nd' = Nil
  BY DEF DeleteReturns, Looping
<1>3. M \subseteq Nodes /\ Nil \notin M /\ tree \in Trees /\ M \subseteq Links /\ Nil \in Links
  BY <1>1, RBAssumption DEF Laid, Links
<1>4. /\ tree.color[Nil] = "BLACK" /\ Reds(tree, M, nd, TRUE) /\ nd \in M \cup {Nil}
      /\ \/ nd = tree.root /\ tree.parent[nd] = Nil
         \/ /\ nd # tree.root /\ tree.parent[nd] \in M
            /\ tree.child[tree.parent[nd]][SideOf(tree, nd)] = nd
  BY ZenonT(40), <1>2 DEF Colored, Running
<1>5. PICK p, s : tree.parent[nd] = p /\ SideOf(tree, nd) = s
  OBVIOUS
<1>6. PICK h : Counted(tree, M, h, p, s)
  BY <1>2, <1>5 DEF Colored, ShortAt
<1>7. nd \in Links
  BY <1>3, <1>4
<1>8. Painted(tree', tree, nd, "BLACK")
  BY <1>2, <1>3, <1>7, PaintIs
<1>9. /\ SamePointers(tree', tree)
      /\ \A m \in Links : tree'.color[m] = IF m = nd THEN "BLACK" ELSE tree.color[m]
  BY <1>8 DEF Painted, SamePointers
<1>10. Form(tree', M, L, pos)
  BY <1>1, <1>9, PointersLaid DEF Form
<1>11. tree'.color[Nil] = "BLACK"
  BY <1>3, <1>4, <1>9
<1>12. Reds(tree', M, Nil, FALSE)
  <2> SUFFICES ASSUME NEW m \in M, tree'.color[m] = "RED"
               PROVE  m # tree'.root /\ tree'.color[tree'.parent[m]] = "BLACK"
    BY DEF Reds
  <2>1. m # nd /\ tree.color[m] = "RED" /\ tree'.root = tree.root /\ tree'.parent = tree.parent
    BY <1>3, <1>9 DEF SamePointers
  <2>2. \/ m # tree.root /\ tree.color[tree.parent[m]] = "BLACK"
        \/ nd \in M /\ tree.parent[m] = nd
    BY <1>4, <2>1 DEF Reds
  <2>3. nd \in M /\ tree.parent[m] = nd => m # tree.root
    BY <1>1, <1>3, AboveOf
  <2>4. m # tree.root
    BY <2>2, <2>3
  <2>5. tree.parent[m] \in M
    BY <1>1, <2>4, AboveOf
  <2> QED  BY <1>3, <1>9, <2>1, <2>2, <2>4, <2>5
<1>13. PICK y : SideOf(tree', Nil) = y
  OBVIOUS
<1>14. \E k : Counted(tree', M, k, Nil, y)
  <2>1. CASE nd = tree.root /\ nd # Nil
    <3>1. tree'.color[tree.root] = "BLACK" /\ \A m \in M \ {tree.root} : tree'.color[m] = tree.color[m]
      BY <1>3, <1>7, <1>9, <2>1
    <3>2. tree.root \in M
      BY <1>4, <2>1
    <3>3. Counted(tree, M, h, Nil, s)
      BY <1>4, <1>5, <1>6, <2>1
    <3> QED  BY <1>1, <1>9, <3>1, <3>2, <3>3, RootCounted
  <2>2. CASE nd = tree.root /\ nd = Nil
    <3>1. M = {}
      BY <1>1, <2>2 DEF Laid
    <3>2. Counted(tree', M, h, Nil, y)
      BY <1>6, <3>1 DEF Counted
    <3> QED  BY <3>2
  <2>3. CASE nd # tree.root
    <3>1. nd # Nil /\ tree.color[nd] = "RED"
      BY <1>2, <1>3, <1>4, <1>7, <2>3 DEF Trees
    <3>2. nd \in M
      BY <1>4, <3>1
    <3>3. tree'.color[nd] = "BLACK" /\ \A m \in M \ {nd} : tree'.color[m] = tree.color[m]
      BY <1>3, <1>7, <1>9
    <3> QED  BY ZenonT(40), <1>1, <1>5, <1>6, <1>9, <2>3, <3>1, <3>2, <3>3, ShortCounted
  <2> QED  BY <2>1, <2>2, <2>3
<1>15. Colored(tree', M, "idle", Nil)
  <2>1. Running(tree', M, "idle", Nil) /\ ShortAt(tree', "idle", Nil) = Nil
    BY DEF Running, ShortAt
  <2> QED  BY ZenonT(40), <1>11, <1>12, <1>13, <1>14, <2>1 DEF Colored
<1> QED  BY <1>2, <1>10, <1>15

-----------------------------------------------------------------------------
(* The place of a new node.                                                 *)

\* All keys up to the position i are at most that of n, all from j on larger.
Parts(M, pos, n, i, j) ==
    \A a \in M : (pos[a] <= i => Key[a] <= Key[n]) /\ (j <= pos[a] => Key[n] < Key[a])

\* One step of the way down.
LEMMA WayParts ==
    ASSUME NEW t, NEW M, NEW L, NEW pos, NEW bd, Laid(t, M, L, pos, bd), Sorted(M, pos),
           NEW n \in Nodes, NEW m \in M, Parts(M, pos, n, bd[m]["left"], bd[m]["right"]),
           NEW s, s = Way(n, m), NEW c, t.child[m][s] = c
    PROVE  /\ s \in Sides
           /\ s = "left" => Parts(M, pos, n, bd[m]["left"], pos[m])
           /\ s = "right" => Parts(M, pos, n, pos[m], bd[m]["right"])
           /\ c # Nil => c \in M /\ Parts(M, pos, n, bd[c]["left"], bd[c]["right"])
<1>1. s \in Sides
  BY DEF Way, Sides
<1>2. \A a \in M : Key[a] \in Int /\ Key[n] \in Int /\ pos[a] \in Int
  <2>1. M \subseteq Nodes
    BY DEF Laid
  <2> QED  BY <2>1, Numbers, RBAssumption
<1>3. \A a \in M : (pos[a] < pos[m] => Key[a] <= Key[m]) /\ (pos[m] < pos[a] => Key[m] <= Key[a])
                   /\ (pos[a] = pos[m] => a = m)
  BY DEF Sorted, Laid
<1>4. s = "left" => Parts(M, pos, n, bd[m]["left"], pos[m])
  <2> SUFFICES ASSUME s = "left", NEW a \in M, pos[m] <= pos[a]  PROVE Key[n] < Key[a]
    BY DEF Parts
  <2>1. Key[n] < Key[m]
    BY DEF Way
  <2> QED  BY <1>2, <1>3, <2>1
<1>5. s = "right" => Parts(M, pos, n, pos[m], bd[m]["right"])
  <2> SUFFICES ASSUME s = "right", NEW a \in M, pos[a] <= pos[m]  PROVE Key[a] <= Key[n]
    BY DEF Parts
  <2>1. Key[m] <= Key[n]
    BY <1>2 DEF Way
  <2> QED  BY <1>2, <1>3, <2>1
<1>6. c # Nil => c \in M /\ Parts(M, pos, n, bd[c]["left"], bd[c]["right"])
  <2> SUFFICES ASSUME c # Nil PROVE c \in M /\ Parts(M, pos, n, bd[c]["left"], bd[c]["right"])
    OBVIOUS
  <2>1. c \in M /\ bd[c][s] = bd[m][s] /\ bd[c][Other(s)] = pos[m]
    BY <1>1, ChildOf
  <2> QED  BY <1>1, <1>4, <1>5, <2>1, TwoSides
<1> QED  BY <1>1, <1>4, <1>5, <1>6

\* A node below which n may be linked.
Takes(t, M, pos, n, p) ==
    /\ p \in M /\ Way(n, p) \in Sides /\ t.child[p][Way(n, p)] = Nil
    /\ IF Way(n, p) = "left" THEN Parts(M, pos, n, pos[p] - 1, pos[p])
       ELSE Parts(M, pos, n, pos[p], pos[p] + 1)

LEMMA PlaceIs ==
    ASSUME NEW t, NEW M, NEW L, NEW pos, NEW bd, Laid(t, M, L, pos, bd), Sorted(M, pos),
           NEW n \in Nodes, t.root # Nil
    PROVE  Takes(t, M, pos, n, Place(t, n))
<1> DEFINE nx == [m \in Nodes |-> t.child[m][Way(n, m)]]
           stop == {m \in Nodes : nx[m] = Nil}
           id == [m \in Nodes |-> m]
           rank == [m \in Nodes |-> IF m \in M THEN Width(bd, m) ELSE 0]
           F(f) == [p \in Nodes |-> LET q == t.child[p][Way(n, p)]
                                    IN IF q = Nil THEN p ELSE f[q]]
           down == CHOOSE f : f = F(f)
<1>1. Place(t, n) = down[t.root]
  BY DEF Place
<1>2. M \subseteq Nodes /\ Nil \notin Nodes /\ t \in Trees /\ L \in Nat
  BY RBAssumption DEF Laid
<1>3. \A m \in Nodes : Way(n, m) \in Sides /\ nx[m] \in Nodes \cup {Nil}
  BY <1>2 DEF Way, Sides, Trees, Links
<1>4. \E f \in [Nodes -> Nodes] : Follows(f, Nodes, stop, nx, id, id)
  <2>1. rank \in [Nodes -> 0 .. L + 1]
    <3>1. \A m \in M : Width(bd, m) \in 0 .. L + 1
      <4> SUFFICES ASSUME NEW m \in M PROVE Width(bd, m) \in 0 .. L + 1
        OBVIOUS
      <4>1. /\ bd[m]["left"] \in Int /\ 0 <= bd[m]["left"] /\ bd[m]["right"] \in Int
            /\ bd[m]["right"] <= L + 1 /\ pos[m] \in Int
            /\ bd[m]["left"] < pos[m] /\ pos[m] < bd[m]["right"]
        BY Numbers, TwoSides
      <4> QED  BY <1>2, <4>1 DEF Width
    <3> QED  BY <1>2, <3>1
  <2>2. \A m \in Nodes \ stop : nx[m] \in Nodes /\ rank[nx[m]] < rank[m]
    <3> SUFFICES ASSUME NEW m \in Nodes, nx[m] # Nil PROVE nx[m] \in Nodes /\ rank[nx[m]] < rank[m]
      OBVIOUS
    <3>1. PICK c, s : t.child[m][s] = c /\ s = Way(n, m) /\ c = nx[m]
      OBVIOUS
    <3>2. s \in Sides /\ c # Nil
      BY <1>3, <3>1
    <3>3. m \in M
      BY <3>1, <3>2 DEF Laid
    <3>4. c \in M /\ Width(bd, c) < Width(bd, m)
      BY <3>1, <3>2, <3>3, Narrower
    <3> QED  BY <1>2, <3>1, <3>3, <3>4
  <2>3. \A m \in Nodes : id[m] \in Nodes
    OBVIOUS
  <2>4. L + 1 \in Nat
    BY <1>2
  <2> HIDE DEF rank, nx, stop, id
  <2> QED  BY ZenonT(40), <2>1, <2>2, <2>3, <2>4, FollowExists
<1>5. \E f : f = F(f)
  <2>1. PICK f \in [Nodes -> Nodes] : Follows(f, Nodes, stop, nx, id, id)
    BY ZenonT(40), <1>4
  <2>2. f = [m \in Nodes |-> IF m \in stop THEN id[m] ELSE id[f[nx[m]]]]
    BY ZenonT(40), <2>1 DEF Follows
  <2>3. \A m \in Nodes : (IF m \in stop THEN id[m] ELSE id[f[nx[m]]]) = F(f)[m]
    BY <1>3
  <2>4. f = F(f)
    BY ZenonT(40), <2>2, <2>3
  <2> QED  BY <2>4
<1>6. down = F(down)
  <2> HIDE DEF F
  <2> QED  BY <1>5
<1>7. \A m \in Nodes : down[m] = IF nx[m] = Nil THEN m ELSE down[nx[m]]
  <2>1. \A m \in Nodes : F(down)[m] = IF nx[m] = Nil THEN m ELSE down[nx[m]]
    <3> HIDE DEF down
    <3> QED  OBVIOUS
  <2> HIDE DEF F, down
  <2> QED  BY <1>6, <2>1
<1> HIDE DEF F, down
<1> DEFINE Good(m) == Parts(M, pos, n, bd[m]["left"], bd[m]["right"])
           S == {m \in M : Good(m) /\ ~ Takes(t, M, pos, n, down[m])}
<1>8. S = {}
  <2>1. ASSUME NEW m \in S  PROVE \E s \in Sides : t.child[m][s] \in S
    <3>1. PICK s : s = Way(n, m)
      OBVIOUS
    <3>2. PICK c : t.child[m][s] = c
      OBVIOUS
    <3>3. m \in M /\ Good(m) /\ ~ Takes(t, M, pos, n, down[m]) /\ m \in Nodes
      BY <1>2
    <3>4. /\ s \in Sides
          /\ s = "left" => Parts(M, pos, n, bd[m]["left"], pos[m])
          /\ s = "right" => Parts(M, pos, n, pos[m], bd[m]["right"])
          /\ c # Nil => c \in M /\ Parts(M, pos, n, bd[c]["left"], bd[c]["right"])
      BY <3>1, <3>2, <3>3, WayParts
    <3>5. c # Nil
      <4> SUFFICES ASSUME c = Nil PROVE FALSE
        OBVIOUS
      <4>1. down[m] = m
        BY <1>7, <3>1, <3>2, <3>3
      <4>2. t.child[m][s] = Nil
        BY <3>2
      <4>3. bd[m][s] = pos[m] + Dir(s) /\ pos[m] \in Int
        BY <3>3, <3>4, <4>2, NoChild, Numbers
      <4>4. /\ s = "left" => bd[m]["left"] = pos[m] - 1
            /\ s = "right" => bd[m]["right"] = pos[m] + 1
        BY <4>3 DEF Dir
      <4>5. Takes(t, M, pos, n, m)
        BY <3>1, <3>3, <3>4, <4>2, <4>4, TwoSides DEF Takes
      <4> QED  BY <3>3, <4>1, <4>5
    <3>6. down[m] = down[c]
      BY <1>7, <3>1, <3>2, <3>3, <3>5
    <3>7. c \in S
      BY <3>3, <3>4, <3>5, <3>6
    <3> HIDE DEF S
    <3> QED  BY <3>2, <3>4, <3>7
  <2>2. S \in SUBSET M
    OBVIOUS
  <2> HIDE DEF S
  <2> QED  BY <2>1, <2>2, NoDescent
<1>9. t.root \in M /\ Good(t.root)
  <2>1. t.root \in M /\ bd[t.root]["left"] = 0 /\ bd[t.root]["right"] = L + 1
    BY DEF Laid
  <2>2. \A a \in M : pos[a] \in Int /\ 1 <= pos[a] /\ pos[a] <= L
    BY Numbers
  <2> QED  BY <1>2, <2>1, <2>2 DEF Parts
<1> QED  BY <1>1, <1>8, <1>9

\* The node at the end of a room has that room below it.
LEMMA Nested ==
    ASSUME NEW t, NEW M, NEW L, NEW pos, NEW bd, Laid(t, M, L, pos, bd), NEW m \in M, NEW a \in M
    PROVE  /\ bd[m]["right"] = pos[a] => bd[a]["left"] <= bd[m]["left"]
           /\ bd[m]["left"] = pos[a] => bd[m]["right"] <= bd[a]["right"]
<1> DEFINE Q(n) == \A c \in M : /\ bd[n]["right"] = pos[c] => bd[c]["left"] <= bd[n]["left"]
                                /\ bd[n]["left"] = pos[c] => bd[n]["right"] <= bd[c]["right"]
           S == {n \in M : ~ Q(n)}
<1>1. \A c \in M : /\ pos[c] \in Int /\ 1 <= pos[c] /\ pos[c] <= L /\ L \in Nat
                   /\ bd[c]["left"] \in Int /\ bd[c]["right"] \in Int
                   /\ bd[c]["left"] < pos[c] /\ pos[c] < bd[c]["right"]
  BY Numbers, TwoSides
<1>2. ASSUME NEW n \in S  PROVE n # t.root /\ t.parent[n] \in S
  <2>1. n \in M /\ ~ Q(n)
    OBVIOUS
  <2>2. n # t.root
    <3> SUFFICES ASSUME n = t.root PROVE FALSE
      OBVIOUS
    <3>1. n # Nil
      BY <2>1, RBAssumption DEF Laid
    <3>2. bd[n]["left"] = 0 /\ bd[n]["right"] = L + 1
      BY <3>1 DEF Laid
    <3> QED  BY <1>1, <2>1, <3>2
  <2>3. PICK p, z : t.parent[n] = p /\ SideOf(t, n) = z
    OBVIOUS
  <2>3a. n # Nil
    BY <2>1, RBAssumption DEF Laid
  <2>4. p \in M /\ z \in Sides /\ t.child[p][z] = n /\ n # Nil
    BY <2>1, <2>2, <2>3, <2>3a, ParentOf
  <2>5. bd[n][z] = bd[p][z] /\ bd[n][Other(z)] = pos[p]
    BY <2>4, ChildOf
  <2>6. ASSUME Q(p)  PROVE Q(n)
    <3> SUFFICES ASSUME NEW c \in M
                 PROVE  /\ bd[n]["right"] = pos[c] => bd[c]["left"] <= bd[n]["left"]
                        /\ bd[n]["left"] = pos[c] => bd[n]["right"] <= bd[c]["right"]
      OBVIOUS
    <3>1. /\ bd[p]["right"] = pos[c] => bd[c]["left"] <= bd[p]["left"]
          /\ bd[p]["left"] = pos[c] => bd[p]["right"] <= bd[c]["right"]
      BY <2>6
    <3>2. pos[p] = pos[c] => p = c
      BY <2>4 DEF Laid
    <3>3. z = "left" \/ z = "right"
      BY <2>4, TwoSides
    <3>4. CASE z = "left"
      BY ONLY <1>1, <2>1, <2>4, <2>5, <3>1, <3>2, <3>4, TwoSides
    <3>5. CASE z = "right"
      BY ONLY <1>1, <2>1, <2>4, <2>5, <3>1, <3>2, <3>5, TwoSides
    <3> QED  BY <3>3, <3>4, <3>5
  <2> HIDE DEF Q
  <2> QED  BY ONLY <2>1, <2>2, <2>3, <2>4, <2>6
<1>3. S = {}
  <2>1. S \in SUBSET M
    OBVIOUS
  <2> HIDE DEF S
  <2> QED  BY <1>2, <2>1, NoClimb
<1> QED  BY <1>3

\* The gap a pointer to the sentinel stands for, by the position before it.
Gap(pos, m, s) == IF s = "left" THEN pos[m] - 1 ELSE pos[m]

LEMMA OneGap ==
    ASSUME NEW t, NEW M, NEW L, NEW pos, NEW bd, Laid(t, M, L, pos, bd),
           NEW m \in M, NEW r \in Sides, t.child[m][r] = Nil,
           NEW p \in M, NEW s \in Sides, t.child[p][s] = Nil, Gap(pos, m, r) = Gap(pos, p, s)
    PROVE  m = p /\ r = s
<1>1. /\ pos[m] \in Int /\ pos[p] \in Int /\ bd[m]["left"] \in Int /\ bd[m]["right"] \in Int
      /\ bd[p]["left"] \in Int /\ bd[p]["right"] \in Int
      /\ bd[m]["left"] < pos[m] /\ pos[m] < bd[m]["right"]
      /\ bd[p]["left"] < pos[p] /\ pos[p] < bd[p]["right"]
  BY Numbers, TwoSides
<1>2. bd[m][r] = pos[m] + Dir(r) /\ bd[p][s] = pos[p] + Dir(s)
  BY NoChild
<1>3. pos[m] = pos[p] => m = p
  BY DEF Laid
<1>4. /\ bd[m]["right"] = pos[p] => bd[p]["left"] <= bd[m]["left"]
      /\ bd[p]["right"] = pos[m] => bd[m]["left"] <= bd[p]["left"]
  BY Nested
<1>5. (r = "left" \/ r = "right") /\ (s = "left" \/ s = "right")
  BY TwoSides
<1>6. CASE r = s
  BY <1>1, <1>3, <1>5, <1>6 DEF Gap
<1>7. CASE r = "left" /\ s = "right"
  <2>1. pos[m] - 1 = pos[p] /\ bd[p]["right"] = pos[p] + 1 /\ bd[m]["left"] = pos[m] - 1
    BY <1>1, <1>2, <1>7 DEF Gap, Dir
  <2> QED  BY <1>1, <1>4, <2>1
<1>8. CASE r = "right" /\ s = "left"
  <2>1. pos[p] - 1 = pos[m] /\ bd[m]["right"] = pos[m] + 1 /\ bd[p]["left"] = pos[p] - 1
    BY <1>1, <1>2, <1>8 DEF Gap, Dir
  <2> QED  BY <1>1, <1>4, <2>1
<1> QED  BY <1>5, <1>6, <1>7, <1>8

-----------------------------------------------------------------------------
(* rb_insert: a new leaf.                                                   *)

\* A red leaf n is linked below p on side s.
Hangs(T, t, n, p, s) ==
    /\ T \in Trees /\ T.root = IF p = Nil THEN n ELSE t.root
    /\ \A m \in Nodes, r \in Sides :
         T.child[m][r] = IF m = n THEN Nil
                         ELSE IF p # Nil /\ m = p /\ r = s THEN n ELSE t.child[m][r]
    /\ \A m \in Links : /\ T.parent[m] = IF m = n THEN p ELSE t.parent[m]
                        /\ T.color[m] = IF m = n THEN "RED" ELSE t.color[m]

LEMMA HangIs ==
    ASSUME NEW t \in Trees, NEW n \in Nodes, NEW p \in Links, p # n, NEW s \in Sides,
           NEW u, u = IF p = Nil THEN [t EXCEPT !.root = n] ELSE [t EXCEPT !.child[p][s] = n],
           NEW T, T = [u EXCEPT !.parent[n] = p, !.color[n] = "RED",
                                !.child[n] = [r \in Sides |-> Nil]]
    PROVE  Hangs(T, t, n, p, s)
<1>1. Nil \notin Nodes /\ n \in Links /\ n # Nil
  BY RBAssumption DEF Links
<1>2. u \in Trees /\ u.parent = t.parent /\ u.color = t.color
      /\ u.root = IF p = Nil THEN n ELSE t.root
  BY ZenonT(40), <1>1 DEF Trees, Links
<1>3. ASSUME NEW m \in Nodes, NEW r \in Sides
      PROVE  u.child[m][r] = IF p # Nil /\ m = p /\ r = s THEN n ELSE t.child[m][r]
  BY DEF Trees, Links
<1>4. [r \in Sides |-> Nil] \in [Sides -> Links]
  BY DEF Links
<1>5. T \in Trees /\ T.root = u.root
  BY ZenonT(40), <1>1, <1>2, <1>4 DEF Trees
<1>6. ASSUME NEW m \in Nodes, NEW r \in Sides
      PROVE  T.child[m][r] = IF m = n THEN Nil ELSE u.child[m][r]
  BY <1>2, <1>4 DEF Trees
<1>7. ASSUME NEW m \in Links
      PROVE  /\ T.parent[m] = IF m = n THEN p ELSE t.parent[m]
             /\ T.color[m] = IF m = n THEN "RED" ELSE t.color[m]
  BY <1>2 DEF Trees
<1> QED  BY <1>2, <1>3, <1>5, <1>6, <1>7 DEF Hangs

\* Room is made behind the position g.
Room(g, i) == IF i > g THEN i + 1 ELSE i
Moved(po, pos, M, n, g) == po[n] = g + 1 /\ \A m \in M : po[m] = Room(g, pos[m])

LEMMA RoomIs ==
    ASSUME NEW g \in Int, NEW i \in Int, NEW j \in Int
    PROVE  /\ Room(g, i) \in Int /\ (i < j => Room(g, i) < Room(g, j))
           /\ (Room(g, i) = Room(g, j) => i = j) /\ Room(g, i) # g + 1
           /\ (i # g => Room(g, i + 1) = Room(g, i) + 1)
           /\ i <= Room(g, i) /\ Room(g, i) <= i + 1
BY DEF Room

\* The positions with the new node among them.
LEMMA RoomMade ==
    ASSUME NEW t, NEW M, NEW L, NEW pos, NEW bd, Laid(t, M, L, pos, bd),
           NEW n, n \notin M, NEW g \in 0 .. L,
           NEW po, po = [m \in M \cup {n} |-> IF m = n THEN g + 1 ELSE Room(g, pos[m])]
    PROVE  /\ po \in [M \cup {n} -> 1 .. L + 1] /\ Moved(po, pos, M, n, g)
           /\ \A i \in 1 .. L + 1 : \E m \in M \cup {n} : po[m] = i
           /\ \A a, b \in M \cup {n} : po[a] = po[b] => a = b
<1>1. L \in Nat /\ g \in Int /\ 0 <= g /\ g <= L
  BY DEF Laid
<1>2. \A m \in M : /\ pos[m] \in Int /\ 1 <= pos[m] /\ pos[m] <= L
                   /\ m # n /\ po[m] = Room(g, pos[m])
  BY Numbers
<1>3. po[n] = g + 1
  OBVIOUS
<1>4. \A m \in M \cup {n} : po[m] \in 1 .. L + 1
  BY <1>1, <1>2, <1>3 DEF Room
<1>5. po \in [M \cup {n} -> 1 .. L + 1]
  BY <1>4
<1>6. ASSUME NEW i \in 1 .. L + 1  PROVE \E m \in M \cup {n} : po[m] = i
  <2>1. CASE i = g + 1
    BY <1>3, <2>1
  <2>2. CASE i <= g
    <3>1. PICK m \in M : pos[m] = i
      BY <1>1, <2>2 DEF Laid
    <3> QED  BY <1>1, <1>2, <2>2, <3>1 DEF Room
  <2>3. CASE i > g + 1
    <3>1. i - 1 \in 1 .. L
      BY <1>1, <2>3
    <3>2. PICK m \in M : pos[m] = i - 1
      BY <3>1 DEF Laid
    <3> QED  BY <1>1, <1>2, <2>3, <3>2 DEF Room
  <2> QED  BY <1>1, <2>1, <2>2, <2>3
<1>7. ASSUME NEW a \in M \cup {n}, NEW b \in M \cup {n}, po[a] = po[b]  PROVE a = b
  <2>1. a \in M /\ b \in M => pos[a] = pos[b]
    BY <1>1, <1>2, <1>7 DEF Room
  <2>2. a \in M /\ b = n => FALSE
    BY <1>1, <1>2, <1>3, <1>7 DEF Room
  <2>3. b \in M /\ a = n => FALSE
    BY <1>1, <1>2, <1>3, <1>7 DEF Room
  <2> QED  BY <2>1, <2>2, <2>3 DEF Laid
<1> QED  BY ZenonT(40), <1>2, <1>3, <1>5, <1>6, <1>7 DEF Moved

\* The bounds with the new leaf among them.
LEMMA LeafLaid ==
    ASSUME NEW t, NEW M, NEW L, NEW pos, NEW bd, Laid(t, M, L, pos, bd),
           NEW n \in Nodes, n \notin M, NEW p \in M, NEW s \in Sides, t.child[p][s] = Nil,
           NEW T, Hangs(T, t, n, p, s), NEW g, g = Gap(pos, p, s),
           NEW po, po = [m \in M \cup {n} |-> IF m = n THEN g + 1 ELSE Room(g, pos[m])]
    PROVE  Form(T, M \cup {n}, L + 1, po) /\ g \in 0 .. L /\ Moved(po, pos, M, n, g)
<1>1. /\ p \in Nodes /\ p # Nil /\ L \in Nat /\ pos[p] \in Int /\ 1 <= pos[p] /\ pos[p] <= L
  BY Numbers
<1>2. s = "left" \/ s = "right"
  BY TwoSides
<1>3. g \in 0 .. L /\ g \in Int /\ (s = "left" => g = pos[p] - 1) /\ (s = "right" => g = pos[p])
  BY <1>1, <1>2 DEF Gap
<1>4. /\ po \in [M \cup {n} -> 1 .. L + 1] /\ Moved(po, pos, M, n, g)
      /\ \A i \in 1 .. L + 1 : \E m \in M \cup {n} : po[m] = i
      /\ \A a, b \in M \cup {n} : po[a] = po[b] => a = b
  <2>1. g \in 0 .. L
    BY <1>3
  <2> QED  BY <2>1, RoomMade
<1>5. PICK be : be = [m \in M \cup {n} |-> [r \in Sides |->
                        IF m = n THEN (IF r = "left" THEN g ELSE g + 2) ELSE Room(g, bd[m][r])]]
  BY ZenonT(40)
<1>6. /\ be[n]["left"] = g /\ be[n]["right"] = g + 2 /\ po[n] = g + 1
      /\ \A m \in M, r \in Sides : be[m][r] = Room(g, bd[m][r])
      /\ \A m \in M : m # n /\ m # Nil /\ m \in Nodes /\ po[m] = Room(g, pos[m])
  BY <1>4, <1>5, Numbers, TwoSides DEF Moved
<1>7. \A m \in M : /\ pos[m] \in Int /\ 1 <= pos[m] /\ pos[m] <= L
                   /\ \A r \in Sides : bd[m][r] \in Int /\ 0 <= bd[m][r] /\ bd[m][r] <= L + 1
                   /\ bd[m]["left"] < pos[m] /\ pos[m] < bd[m]["right"]
  BY Numbers
<1>8. be \in [M \cup {n} -> [Sides -> 0 .. L + 2]]
  <2>1. ASSUME NEW m \in M \cup {n}, NEW r \in Sides  PROVE be[m][r] \in 0 .. L + 2
    BY <1>1, <1>3, <1>6, <1>7, TwoSides DEF Room
  <2>2. \A m \in M \cup {n} : be[m] = [r \in Sides |-> be[m][r]]
    BY <1>5
  <2>3. \A m \in M \cup {n} : be[m] \in [Sides -> 0 .. L + 2]
    <3> SUFFICES ASSUME NEW m \in M \cup {n} PROVE be[m] \in [Sides -> 0 .. L + 2]
      OBVIOUS
    <3>1. PICK e : e = be[m]
      OBVIOUS
    <3>2. e = [r \in Sides |-> e[r]] /\ \A r \in Sides : e[r] \in 0 .. L + 2
      BY ZenonT(40), <2>1, <2>2, <3>1
    <3>3. e \in [Sides -> 0 .. L + 2]
      BY <3>2
    <3> QED  BY <3>1, <3>3
  <2>4. be = [m \in M \cup {n} |-> be[m]]
    BY <1>5
  <2> QED  BY ZenonT(40), <2>3, <2>4
<1>9. \A m \in M \cup {n} : be[m]["left"] < po[m] /\ po[m] < be[m]["right"]
  BY <1>3, <1>6, <1>7, TwoSides DEF Room
<1>10. /\ n # Nil /\ n \in Links /\ Nil \notin Nodes /\ M \subseteq Links
       /\ T \in Trees /\ T.root = t.root /\ p # n /\ T.parent[n] = p /\ T.child[p][s] = n
       /\ \A r \in Sides : T.child[n][r] = Nil
       /\ \A m \in Nodes, r \in Sides : m # n /\ ~ (m = p /\ r = s) => T.child[m][r] = t.child[m][r]
       /\ \A m \in Links : m # n => T.parent[m] = t.parent[m]
  BY <1>1, <1>6, RBAssumption DEF Hangs, Links
<1>11. ASSUME NEW m \in M \cup {n}, NEW r \in Sides
       PROVE  Linked(T, M \cup {n}, po, be, m, r)
  <2>1. CASE m = n
    <3>1. T.child[m][r] = Nil /\ be[m][r] = po[m] + Dir(r)
      BY <1>3, <1>6, <1>10, <2>1, TwoSides DEF Dir
    <3> QED  BY <3>1 DEF Linked
  <2>2. CASE m = p /\ r = s
    <3>1. bd[p][s] = pos[p] + Dir(s)
      BY NoChild
    <3>2. po[p] = Room(g, pos[p]) /\ be[p][s] = Room(g, bd[p][s])
      BY <1>6
    <3>3. CASE s = "left"
      <4>1. po[p] = g + 2 /\ be[p][s] = g /\ be[n][s] = g /\ be[n][Other(s)] = g + 2
        BY <1>1, <1>3, <1>6, <3>1, <3>2, <3>3, TwoSides DEF Room, Dir
      <4> QED  BY <1>10, <2>2, <4>1 DEF Linked
    <3>4. CASE s = "right"
      <4>1. po[p] = g /\ be[p][s] = g + 2 /\ be[n][s] = g + 2 /\ be[n][Other(s)] = g
        BY <1>1, <1>3, <1>6, <3>1, <3>2, <3>4, TwoSides DEF Room, Dir
      <4> QED  BY <1>10, <2>2, <4>1 DEF Linked
    <3> QED  BY <1>2, <3>3, <3>4
  <2>3. CASE m # n /\ ~ (m = p /\ r = s) /\ t.child[m][r] = Nil
    <3>1. m \in M /\ T.child[m][r] = Nil
      BY <1>6, <1>10, <2>3
    <3>2. bd[m][r] = pos[m] + Dir(r)
      BY <2>3, <3>1, NoChild
    <3>3. Gap(pos, m, r) # g
      BY <2>3, <3>1, OneGap
    <3>4. po[m] = Room(g, pos[m]) /\ be[m][r] = Room(g, bd[m][r]) /\ pos[m] \in Int
      BY <1>6, <1>7, <3>1
    <3>5. be[m][r] = po[m] + Dir(r)
      BY <1>3, <3>2, <3>3, <3>4, TwoSides DEF Room, Dir, Gap
    <3> QED  BY <3>1, <3>5 DEF Linked
  <2>4. CASE m # n /\ ~ (m = p /\ r = s) /\ t.child[m][r] # Nil
    <3>1. PICK c : t.child[m][r] = c
      OBVIOUS
    <3>2. m \in M /\ T.child[m][r] = c /\ c # Nil
      BY <1>6, <1>10, <2>4, <3>1
    <3>3. c \in M /\ c \in Nodes /\ t.parent[c] = m /\ bd[c][r] = bd[m][r] /\ bd[c][Other(r)] = pos[m]
      BY <3>1, <3>2, ChildOf
    <3>4. T.parent[c] = m
      BY <1>6, <1>10, <3>3 DEF Links
    <3>5. be[c][r] = be[m][r] /\ be[c][Other(r)] = po[m]
      BY <1>6, <3>2, <3>3, TwoSides
    <3> QED  BY <3>2, <3>3, <3>4, <3>5 DEF Linked
  <2> QED  BY <2>1, <2>2, <2>3, <2>4
<1>12. t.root # Nil /\ T.root = t.root /\ T.root \in M /\ T.parent[T.root] = Nil
       /\ be[T.root]["left"] = 0 /\ be[T.root]["right"] = L + 2
  <2>1. t.root # Nil
    BY DEF Laid
  <2>2. t.root \in M /\ t.parent[t.root] = Nil /\ bd[t.root]["left"] = 0 /\ bd[t.root]["right"] = L + 1
    BY <2>1 DEF Laid
  <2>3. Room(g, 0) = 0 /\ Room(g, L + 1) = L + 2
    BY <1>1, <1>3 DEF Room
  <2> QED  BY <1>6, <1>10, <2>1, <2>2, <2>3, TwoSides
<1>13. ASSUME NEW m \in (M \cup {n}) \ {T.root}  PROVE Hung(T, M \cup {n}, m)
  <2>1. CASE m = n
    BY <1>10, <2>1 DEF Hung
  <2>2. CASE m # n
    <3>1. m \in M /\ m # t.root /\ m # Nil /\ m \in Nodes
      BY <1>6, <1>12, <2>2
    <3>2. PICK q, z : t.parent[m] = q /\ SideOf(t, m) = z
      OBVIOUS
    <3>3. q \in M /\ q \in Nodes /\ z \in Sides /\ t.child[q][z] = m
      BY <3>1, <3>2, ParentOf
    <3>4. q # n /\ ~ (q = p /\ z = s)
      BY <1>6, <3>1, <3>3
    <3>5. T.parent[m] = q /\ T.child[q][z] = m
      BY <1>10, <2>2, <3>1, <3>2, <3>3, <3>4
    <3> QED  BY <3>3, <3>5 DEF Hung
  <2> QED  BY <2>1, <2>2
<1>14. \A m \in Nodes \ (M \cup {n}) : T.parent[m] = Nil /\ \A r \in Sides : T.child[m][r] = Nil
  <2> SUFFICES ASSUME NEW m \in Nodes \ (M \cup {n})
               PROVE  T.parent[m] = Nil /\ \A r \in Sides : T.child[m][r] = Nil
    OBVIOUS
  <2>1. t.parent[m] = Nil /\ \A r \in Sides : t.child[m][r] = Nil
    BY DEF Laid
  <2> QED  BY <1>10, <2>1 DEF Links
<1>15. Laid(T, M \cup {n}, L + 1, po, be)
  <2>1. M \cup {n} \subseteq Nodes /\ L + 1 \in Nat /\ (L + 1) + 1 = L + 2
    BY <1>1, <1>6
  <2> QED  BY ZenonT(40), <1>4, <1>8, <1>9, <1>10, <1>11, <1>12, <1>13, <1>14, <2>1 DEF Laid
<1> QED  BY ZenonT(40), <1>3, <1>4, <1>15 DEF Form

\* What Colored says between calls.
LEMMA IdleColored ==
    ASSUME NEW t, NEW M, M \subseteq Nodes, NEW x
    PROVE  Colored(t, M, "idle", x) <=>
             /\ t.color[Nil] = "BLACK" /\ x = Nil /\ Plain(t, M) /\ \E h, z : Counted(t, M, h, Nil, z)
<1>1. \A m \in M : m # Nil
  BY RBAssumption
<1>2. ShortAt(t, "idle", x) = Nil
  BY DEF ShortAt
<1>3. \A h, z, y : Counted(t, M, h, Nil, z) => Counted(t, M, h, Nil, y)
  <2> SUFFICES ASSUME NEW h, NEW z, NEW y, Counted(t, M, h, Nil, z) PROVE Counted(t, M, h, Nil, y)
    OBVIOUS
  <2> QED  BY <1>1 DEF Counted
<1>4. Running(t, M, "idle", x) <=> x = Nil
  BY DEF Running
<1>5. x = Nil => (Reds(t, M, x, FALSE) <=> Plain(t, M))
  BY <1>1 DEF Reds, Plain
<1>6. Colored(t, M, "idle", x) <=>
        /\ t.color[Nil] = "BLACK" /\ Reds(t, M, x, FALSE) /\ Running(t, M, "idle", x)
        /\ \E h : Counted(t, M, h, Nil, SideOf(t, x))
  BY ZenonT(40), <1>2 DEF Colored
<1> QED  BY ZenonT(40), <1>3, <1>4, <1>5, <1>6

\* A red leaf adds no black node to any path.
LEMMA LeafColored ==
    ASSUME NEW t, NEW M, NEW L, NEW pos, NEW bd, Laid(t, M, L, pos, bd),
           Colored(t, M, "idle", Nil),
           NEW n \in Nodes, n \notin M, NEW p \in M, NEW s \in Sides, t.child[p][s] = Nil,
           NEW T, Hangs(T, t, n, p, s)
    PROVE  Colored(T, M \cup {n}, "insert", n)
<1>1. M \subseteq Nodes /\ p # Nil /\ p \in Nodes /\ p # n /\ n # Nil /\ \A m \in M : m # Nil /\ m # n
  BY Numbers, RBAssumption
<1>2. t.color[Nil] = "BLACK" /\ Plain(t, M)
  BY <1>1, IdleColored
<1>3. PICK h, z : Counted(t, M, h, Nil, z)
  BY ZenonT(40), <1>1, IdleColored
<1>4. /\ T.root = t.root /\ T.parent[n] = p /\ T.child[p][s] = n /\ T.color[n] = "RED"
      /\ \A r \in Sides : T.child[n][r] = Nil
      /\ \A m \in M, r \in Sides : ~ (m = p /\ r = s) => T.child[m][r] = t.child[m][r]
      /\ \A m \in Links : m # n => T.parent[m] = t.parent[m] /\ T.color[m] = t.color[m]
      /\ T.color[Nil] = "BLACK"
  BY <1>1, <1>2 DEF Hangs, Links
<1>5. Reds(T, M \cup {n}, n, FALSE)
  <2>1. ASSUME NEW m \in M, T.color[m] = "RED"
        PROVE  m # T.root /\ T.color[T.parent[m]] = "BLACK"
    <3>1. m # n /\ m \in Links /\ t.color[m] = "RED" /\ T.parent[m] = t.parent[m]
      BY <1>1, <1>4, <2>1 DEF Links
    <3>2. m # t.root /\ t.color[t.parent[m]] = "BLACK"
      BY <1>2, <3>1 DEF Plain
    <3>3. PICK q : t.parent[m] = q
      OBVIOUS
    <3>4. q \in M
      BY <3>2, <3>3, AboveOf
    <3>5. T.color[q] = t.color[q]
      BY <1>1, <1>4, <3>4 DEF Links
    <3> QED  BY <1>4, <3>1, <3>2, <3>3, <3>5
  <2> QED  BY <2>1 DEF Reds
<1>6. PICK k : k = [m \in (M \cup {n}) \cup {Nil} |-> IF m = n THEN 1 ELSE h[m]]
  BY ZenonT(40)
<1>7. /\ h \in [M \cup {Nil} -> Nat] /\ h[Nil] = 1 /\ \A m \in M : 1 <= h[m]
  BY <1>3 DEF Counted
<1>8. k[n] = 1 /\ k[Nil] = 1 /\ \A m \in M : k[m] = h[m]
  BY <1>1, <1>6, <1>7
<1>9. k \in [(M \cup {n}) \cup {Nil} -> Nat]
  <2>1. \A m \in (M \cup {n}) \cup {Nil} : k[m] \in Nat
    BY <1>7, <1>8
  <2>2. k = [m \in (M \cup {n}) \cup {Nil} |-> k[m]]
    BY <1>6
  <2> QED  BY <2>1, <2>2
<1>10. ASSUME NEW m \in M \cup {n}, NEW r \in Sides
       PROVE  /\ T.child[m][r] \in (M \cup {n}) \cup {Nil}
              /\ k[m] = k[T.child[m][r]] + One(T, m)
  <2>1. CASE m = n
    BY <1>4, <1>8, <2>1 DEF One
  <2>2. CASE m # n
    <3>1. m \in M /\ m \in Links
      BY <1>1, <2>2 DEF Links
    <3>2. PICK c : t.child[m][r] = c
      OBVIOUS
    <3>3. /\ c \in M \cup {Nil} /\ h[m] = h[c] + One(t, m)
      <4>1. m # Nil
        BY <1>1, <3>1
      <4> QED  BY <1>3, <3>1, <3>2, <4>1, CountedAt
    <3>4. One(T, m) = One(t, m)
      BY <1>4, <2>2, <3>1 DEF One
    <3>5. CASE m = p /\ r = s
      BY <1>4, <1>7, <1>8, <3>1, <3>2, <3>3, <3>4, <3>5
    <3>6. CASE ~ (m = p /\ r = s)
      BY <1>4, <1>7, <1>8, <3>1, <3>2, <3>3, <3>4, <3>6
    <3> QED  BY <3>5, <3>6
  <2> QED  BY <2>1, <2>2
<1>11. Counted(T, M \cup {n}, k, Nil, z)
  <2>1. M \cup {n} \subseteq Nodes /\ \A m \in M \cup {n} : m # Nil /\ 1 <= k[m]
    BY <1>1, <1>7, <1>8
  <2> QED  BY ZenonT(40), <1>8, <1>9, <1>10, <2>1, CountedBy
<1> QED  BY ZenonT(40), <1>1, <1>4, <1>5, <1>11, InsertColored

\* The first node.
LEMMA FirstLaid ==
    ASSUME NEW t, NEW M, NEW L, NEW pos, NEW bd, Laid(t, M, L, pos, bd), t.root = Nil,
           Colored(t, M, "idle", Nil), NEW n \in Nodes, NEW T, NEW s, Hangs(T, t, n, Nil, s)
    PROVE  /\ M = {} /\ L = 0 /\ Form(T, {n}, 1, [m \in {n} |-> 1])
           /\ Colored(T, {n}, "insert", n)
<1>1. M = {} /\ L \in Nat /\ n # Nil /\ n \in Links
  BY RBAssumption DEF Laid, Links
<1>2. L = 0
  <2>1. \A i \in 1 .. L : FALSE
    BY <1>1 DEF Laid
  <2> QED  BY <1>1, <2>1
<1>3. t.color[Nil] = "BLACK"
  BY DEF Colored
<1>4. /\ T \in Trees /\ T.root = n /\ T.parent[n] = Nil /\ T.color[n] = "RED" /\ T.color[Nil] = "BLACK"
      /\ \A r \in Sides : T.child[n][r] = Nil
      /\ \A m \in Nodes \ {n}, r \in Sides : T.child[m][r] = t.child[m][r]
      /\ \A m \in Nodes \ {n} : T.parent[m] = t.parent[m]
  BY <1>1, <1>3 DEF Hangs, Links
<1>5. PICK po, be : po = [m \in {n} |-> 1] /\ be = [m \in {n} |-> [r \in Sides |-> IF r = "left" THEN 0 ELSE 2]]
  BY ZenonT(40)
<1>6. po[n] = 1 /\ be[n]["left"] = 0 /\ be[n]["right"] = 2 /\ po \in [{n} -> 1 .. 1]
      /\ be \in [{n} -> [Sides -> 0 .. 2]]
  BY <1>5, TwoSides
<1>7. \A m \in {n}, r \in Sides : Linked(T, {n}, po, be, m, r)
  BY <1>4, <1>6, TwoSides DEF Linked, Dir
<1>8. \A m \in Nodes \ {n} : T.parent[m] = Nil /\ \A r \in Sides : T.child[m][r] = Nil
  <2>1. \A m \in Nodes : t.parent[m] = Nil /\ \A r \in Sides : t.child[m][r] = Nil
    BY <1>1 DEF Laid
  <2> QED  BY <1>4, <2>1
<1>9. Laid(T, {n}, 1, po, be)
  <2>1. \A i \in 1 .. 1 : \E m \in {n} : po[m] = i
    BY <1>6
  <2>2. 1 + 1 = 2 /\ 1 \in Nat /\ {n} \subseteq Nodes /\ {n} \ {T.root} = {}
    BY <1>4
  <2>3. \A m, l \in {n} : po[m] = po[l] => m = l
    OBVIOUS
  <2>4. \A m \in {n} : be[m]["left"] < po[m] /\ po[m] < be[m]["right"]
    BY <1>6
  <2>5. be \in [{n} -> [Sides -> 0 .. 1 + 1]]
    BY <1>6, <2>2
  <2>6. /\ T.root # Nil /\ T.root \in {n} /\ T.parent[T.root] = Nil
        /\ be[T.root]["left"] = 0 /\ be[T.root]["right"] = 1 + 1
    BY <1>1, <1>4, <1>6, <2>2
  <2>7. T \in Trees /\ po \in [{n} -> 1 .. 1] /\ \A m \in {n} \ {T.root} : FALSE
    BY <1>4, <1>6
  <2> QED  BY ZenonT(40), <1>7, <1>8, <2>1, <2>2, <2>3, <2>4, <2>5, <2>6, <2>7 DEF Laid
<1>10. Reds(T, {n}, n, FALSE)
  BY DEF Reds
<1>11. PICK k : k = [m \in {n} \cup {Nil} |-> 1]
  BY ZenonT(40)
<1>12. Counted(T, {n}, k, Nil, s)
  <2>1. k \in [{n} \cup {Nil} -> Nat] /\ k[n] = 1 /\ k[Nil] = 1 /\ One(T, n) = 0
    BY <1>4, <1>11 DEF One
  <2>2. PICK N : N = {n}
    BY ZenonT(40)
  <2>3. /\ N \subseteq Nodes /\ k \in [N \cup {Nil} -> Nat] /\ k[Nil] = 1
        /\ \A m \in N : 1 <= k[m]
    BY <2>1, <2>2
  <2>4. \A m \in N, r \in Sides :
          /\ T.child[m][r] \in N \cup {Nil}
          /\ ~ (m = Nil /\ r = s) => k[m] = k[T.child[m][r]] + One(T, m)
          /\ m = Nil /\ r = s => k[m] = k[T.child[m][r]] + One(T, m) + 1
    BY <1>1, <1>4, <2>1, <2>2
  <2>5. Counted(T, N, k, Nil, s)
    BY ZenonT(40), <2>3, <2>4, CountedBy
  <2> QED  BY <2>2, <2>5
<1>13. Colored(T, {n}, "insert", n)
  BY ZenonT(40), <1>4, <1>10, <1>12, InsertColored
<1> QED  BY <1>1, <1>2, <1>5, <1>9, <1>13 DEF Form

\* The keys stay sorted: n is behind those that are not larger.
LEMMA SortedMoved ==
    ASSUME NEW t, NEW M, NEW L, NEW pos, NEW bd, Laid(t, M, L, pos, bd), Sorted(M, pos),
           NEW n \in Nodes, n \notin M, NEW g \in Int, Parts(M, pos, n, g, g + 1),
           NEW po, Moved(po, pos, M, n, g)
    PROVE  Sorted(M \cup {n}, po)
<1>1. \A m \in M : pos[m] \in Int /\ Key[m] \in Int
  BY Numbers, RBAssumption
<1>2. Key[n] \in Int
  BY RBAssumption
<1>3. ASSUME NEW a \in M \cup {n}, NEW b \in M \cup {n}, po[a] < po[b]
      PROVE  Key[a] <= Key[b]
  <2>1. CASE a \in M /\ b \in M
    <3>1. pos[a] < pos[b]
      BY <1>1, <1>3, <2>1 DEF Moved, Room
    <3> QED  BY <2>1, <3>1 DEF Sorted
  <2>2. CASE a = n /\ b \in M
    <3>1. g + 1 <= pos[b]
      BY <1>1, <1>3, <2>2 DEF Moved, Room
    <3>2. Key[n] < Key[b]
      BY <2>2, <3>1 DEF Parts
    <3> QED  BY <1>1, <1>2, <2>2, <3>2
  <2>3. CASE a \in M /\ b = n
    <3>1. pos[a] <= g
      BY <1>1, <1>3, <2>3 DEF Moved, Room
    <3> QED  BY <2>3, <3>1 DEF Parts
  <2>4. CASE a = n /\ b = n
    BY <1>2, <2>4
  <2> QED  BY <2>1, <2>2, <2>3, <2>4
<1> QED  BY <1>3 DEF Sorted

\* What a call of rb_insert does: n comes in at one position.
LEMMA InsertKeeps ==
    ASSUME NEW M, NEW L, NEW pos, Form(tree, M, L, pos), Sorted(M, pos),
           Colored(tree, M, at, nd), at = "idle" => nd = Nil, NEW n \in Nodes, rb_insert(n)
    PROVE  /\ at = "idle" /\ at' = "insert" /\ nd' = n /\ n \notin M /\ L \in Nat
           /\ \E po, g : /\ Form(tree', M \cup {n}, L + 1, po) /\ Sorted(M \cup {n}, po)
                         /\ Colored(tree', M \cup {n}, at', nd')
                         /\ g \in 0 .. L /\ Moved(po, pos, M, n, g)
                         /\ Parts(M, pos, n, g, g + 1)
<1>1. PICK bd : Laid(tree, M, L, pos, bd)
  BY DEF Form
<1>2. /\ at = "idle" /\ at' = "insert" /\ nd' = n /\ n \notin M /\ nd = Nil
      /\ Colored(tree, M, "idle", Nil)
  BY MembersAre DEF rb_insert
<1>3. tree \in Trees /\ Nil \in Links /\ M \subseteq Nodes /\ n # Nil /\ L \in Nat
  BY <1>1, RBAssumption DEF Laid, Links
<1>4. PICK pre : pre = Place(tree, n)
  OBVIOUS
<1>5. PICK T : T = tree'
  OBVIOUS
<1>6. PICK s : s = IF pre = Nil THEN "left" ELSE Way(n, pre)
  OBVIOUS
<1>7. T = [(IF pre = Nil THEN [tree EXCEPT !.root = n] ELSE [tree EXCEPT !.child[pre][s] = n])
             EXCEPT !.parent[n] = pre, !.color[n] = "RED", !.child[n] = [r \in Sides |-> Nil]]
  BY <1>4, <1>5, <1>6 DEF rb_insert, Leaf
<1>8. CASE tree.root = Nil
  <2>1. pre = Nil /\ s = "left" /\ s \in Sides /\ Nil # n
    BY <1>3, <1>4, <1>6, <1>8, TwoSides DEF Place
  <2>2. Hangs(T, tree, n, Nil, s)
    BY ZenonT(40), <1>3, <1>7, <2>1, HangIs
  <2>3. PICK po : po = [m \in {n} |-> 1]
    BY ZenonT(40)
  <2>4. M = {} /\ L = 0 /\ Form(T, {n}, 1, po) /\ Colored(T, {n}, "insert", n)
    BY <1>1, <1>2, <1>8, <2>2, <2>3, FirstLaid
  <2>5. M \cup {n} = {n} /\ L + 1 = 1 /\ 0 \in 0 .. L
    BY <2>4
  <2>6. Sorted({n}, po)
    BY <2>3 DEF Sorted
  <2>7. Moved(po, pos, M, n, 0) /\ Parts(M, pos, n, 0, 0 + 1)
    BY <2>3, <2>4 DEF Moved, Parts
  <2> QED  BY <1>2, <1>3, <1>5, <2>4, <2>5, <2>6, <2>7
<1>9. CASE tree.root # Nil
  <2>1. Takes(tree, M, pos, n, pre)
    BY <1>1, <1>4, <1>9, PlaceIs
  <2>2. pre \in M /\ pre \in Nodes /\ pre \in Links /\ pre # Nil /\ pre # n
    BY <1>2, <1>3, <2>1, RBAssumption DEF Takes, Links
  <2>3. s = Way(n, pre) /\ s \in Sides /\ tree.child[pre][s] = Nil
    BY <1>6, <2>1, <2>2 DEF Takes
  <2>4. PICK u : u = IF pre = Nil THEN [tree EXCEPT !.root = n]
                     ELSE [tree EXCEPT !.child[pre][s] = n]
    BY ZenonT(40)
  <2>5. T = [u EXCEPT !.parent[n] = pre, !.color[n] = "RED", !.child[n] = [r \in Sides |-> Nil]]
    BY <1>7, <2>4
  <2>6. Hangs(T, tree, n, pre, s)
    BY ZenonT(40), <1>3, <2>2, <2>3, <2>4, <2>5, HangIs
  <2>7. PICK g : g = Gap(pos, pre, s)
    OBVIOUS
  <2>8. PICK po : po = [m \in M \cup {n} |-> IF m = n THEN g + 1 ELSE Room(g, pos[m])]
    BY ZenonT(40)
  <2>9. Form(T, M \cup {n}, L + 1, po) /\ g \in 0 .. L /\ Moved(po, pos, M, n, g)
    BY <1>1, <1>2, <2>2, <2>3, <2>6, <2>7, <2>8, LeafLaid
  <2>10. Parts(M, pos, n, g, g + 1)
    <3>1. pos[pre] \in Int
      BY <1>1, <2>2, Numbers
    <3>2. s = "left" => g = pos[pre] - 1 /\ g + 1 = pos[pre]
      BY <2>7, <3>1 DEF Gap
    <3>3. s # "left" => g = pos[pre] /\ g + 1 = pos[pre] + 1
      BY <2>7, <3>1 DEF Gap
    <3> QED  BY <2>1, <2>3, <3>2, <3>3 DEF Takes
  <2>11. Sorted(M \cup {n}, po)
    <3>1. g \in Int
      BY <2>9
    <3> QED  BY <1>1, <1>2, <2>9, <2>10, <3>1, SortedMoved
  <2>12. Colored(T, M \cup {n}, "insert", n)
    BY <1>1, <1>2, <2>2, <2>3, <2>6, LeafColored
  <2> QED  BY <1>2, <1>3, <1>5, <2>9, <2>10, <2>11, <2>12
<1> QED  BY <1>8, <1>9

-----------------------------------------------------------------------------
(* rb_delete.                                                               *)

\* The last node on side s below n is the end of the room below n.
LEMMA MostIs ==
    ASSUME NEW t, NEW M, NEW L, NEW pos, NEW bd, Laid(t, M, L, pos, bd),
           NEW n \in M, NEW s \in Sides, NEW y, y = Most(t, n, s)
    PROVE  y \in M /\ t.child[y][s] = Nil /\ bd[y][s] = bd[n][s]
<1> DEFINE nx == [m \in Nodes |-> t.child[m][s]]
           stop == {m \in Nodes : nx[m] = Nil}
           id == [m \in Nodes |-> m]
           rank == [m \in Nodes |-> IF m \in M THEN Width(bd, m) ELSE 0]
           F(f) == [m \in Nodes |-> IF t.child[m][s] = Nil THEN m ELSE f[t.child[m][s]]]
           go == CHOOSE f : f = F(f)
<1>1. y = go[n]
  BY DEF Most
<1>2. M \subseteq Nodes /\ Nil \notin Nodes /\ t \in Trees /\ L \in Nat
  BY RBAssumption DEF Laid
<1>3. \A m \in Nodes : nx[m] \in Nodes \cup {Nil}
  BY <1>2 DEF Trees, Links
<1>4. \E f \in [Nodes -> Nodes] : Follows(f, Nodes, stop, nx, id, id)
  <2>1. rank \in [Nodes -> 0 .. L + 1]
    <3>1. \A m \in M : Width(bd, m) \in 0 .. L + 1
      <4> SUFFICES ASSUME NEW m \in M PROVE Width(bd, m) \in 0 .. L + 1
        OBVIOUS
      <4>1. /\ bd[m]["left"] \in Int /\ 0 <= bd[m]["left"] /\ bd[m]["right"] \in Int
            /\ bd[m]["right"] <= L + 1 /\ pos[m] \in Int
            /\ bd[m]["left"] < pos[m] /\ pos[m] < bd[m]["right"]
        BY Numbers, TwoSides
      <4> QED  BY <1>2, <4>1 DEF Width
    <3> QED  BY <1>2, <3>1
  <2>2. \A m \in Nodes \ stop : nx[m] \in Nodes /\ rank[nx[m]] < rank[m]
    <3> SUFFICES ASSUME NEW m \in Nodes, nx[m] # Nil PROVE nx[m] \in Nodes /\ rank[nx[m]] < rank[m]
      OBVIOUS
    <3>1. PICK c : t.child[m][s] = c /\ c = nx[m]
      OBVIOUS
    <3>2. m \in M /\ c # Nil
      BY <3>1 DEF Laid
    <3>3. c \in M /\ Width(bd, c) < Width(bd, m)
      BY <3>1, <3>2, Narrower
    <3> QED  BY <1>2, <3>1, <3>2, <3>3
  <2>3. \A m \in Nodes : id[m] \in Nodes
    OBVIOUS
  <2>4. L + 1 \in Nat
    BY <1>2
  <2> HIDE DEF rank, nx, stop, id
  <2> QED  BY ZenonT(40), <2>1, <2>2, <2>3, <2>4, FollowExists
<1>5. \E f : f = F(f)
  <2>1. PICK f \in [Nodes -> Nodes] : Follows(f, Nodes, stop, nx, id, id)
    BY ZenonT(40), <1>4
  <2>2. f = [m \in Nodes |-> IF m \in stop THEN id[m] ELSE id[f[nx[m]]]]
    BY ZenonT(40), <2>1 DEF Follows
  <2>3. \A m \in Nodes : (IF m \in stop THEN id[m] ELSE id[f[nx[m]]]) = F(f)[m]
    BY <1>3
  <2>4. f = F(f)
    BY ZenonT(40), <2>2, <2>3
  <2> QED  BY <2>4
<1>6. go = F(go)
  <2> HIDE DEF F
  <2> QED  BY <1>5
<1>7. \A m \in Nodes : go[m] = IF t.child[m][s] = Nil THEN m ELSE go[t.child[m][s]]
  <2>1. \A m \in Nodes : F(go)[m] = IF t.child[m][s] = Nil THEN m ELSE go[t.child[m][s]]
    <3> HIDE DEF go
    <3> QED  OBVIOUS
  <2> HIDE DEF F, go
  <2> QED  BY <1>6, <2>1
<1> HIDE DEF F, go
<1> DEFINE Ends(m) == go[m] \in M /\ t.child[go[m]][s] = Nil /\ bd[go[m]][s] = bd[m][s]
           S == {m \in M : ~ Ends(m)}
<1>8. S = {}
  <2>1. ASSUME NEW m \in S  PROVE \E r \in Sides : t.child[m][r] \in S
    <3>1. PICK c : t.child[m][s] = c
      OBVIOUS
    <3>2. m \in M /\ m \in Nodes /\ ~ Ends(m)
      BY <1>2
    <3>3. c # Nil
      <4> SUFFICES ASSUME c = Nil PROVE FALSE
        OBVIOUS
      <4>1. go[m] = m
        BY <1>7, <3>1, <3>2
      <4> QED  BY <3>1, <3>2, <4>1
    <3>4. c \in M /\ bd[c][s] = bd[m][s]
      BY <3>1, <3>2, <3>3, ChildOf
    <3>5. go[m] = go[c]
      BY <1>7, <3>1, <3>2, <3>3
    <3>6. c \in S
      BY <3>2, <3>4, <3>5
    <3> HIDE DEF S
    <3> QED  BY <3>1, <3>6
  <2>2. S \in SUBSET M
    OBVIOUS
  <2> HIDE DEF S
  <2> QED  BY <2>1, <2>2, NoDescent
<1> QED  BY <1>1, <1>8

\* rb_init_node empties one node.
LEMMA InitNodeIs ==
    ASSUME NEW v \in Trees, NEW n \in Nodes, NEW T, T = rb_init_node(v, n)
    PROVE  /\ T \in Trees /\ T.root = v.root
           /\ \A m \in Nodes, r \in Sides : T.child[m][r] = IF m = n THEN Nil ELSE v.child[m][r]
           /\ \A m \in Links : /\ T.parent[m] = IF m = n THEN Nil ELSE v.parent[m]
                               /\ T.color[m] = IF m = n THEN "RED" ELSE v.color[m]
<1>1. n \in Links /\ Nil \in Links
  BY DEF Links
<1>2. PICK e : e = [r \in Sides |-> Nil]
  BY ZenonT(40)
<1>3. e \in [Sides -> Links] /\ \A r \in Sides : e[r] = Nil
  BY <1>1, <1>2
<1>4. T = [v EXCEPT !.parent[n] = Nil, !.color[n] = "RED", !.child[n] = e]
  BY <1>2 DEF rb_init_node, Leaf
<1>5. /\ T.root = v.root /\ T.child = [v.child EXCEPT ![n] = e]
      /\ T.parent = [v.parent EXCEPT ![n] = Nil] /\ T.color = [v.color EXCEPT ![n] = "RED"]
      /\ T = [root |-> T.root, child |-> T.child, parent |-> T.parent, color |-> T.color]
  BY ZenonT(40), <1>4 DEF Trees
<1>6. /\ v.child \in [Nodes -> [Sides -> Links]] /\ v.root \in Links
      /\ v.parent \in [Links -> Links] /\ v.color \in [Links -> {"RED", "BLACK"}]
  BY DEF Trees
<1>7. T.child \in [Nodes -> [Sides -> Links]]
      /\ \A m \in Nodes : T.child[m] = IF m = n THEN e ELSE v.child[m]
  BY <1>3, <1>5, <1>6
<1>8. /\ T.parent \in [Links -> Links] /\ T.color \in [Links -> {"RED", "BLACK"}]
      /\ \A m \in Links : /\ T.parent[m] = IF m = n THEN Nil ELSE v.parent[m]
                          /\ T.color[m] = IF m = n THEN "RED" ELSE v.color[m]
  BY <1>1, <1>5, <1>6
<1>9. T \in Trees
  BY ZenonT(40), <1>5, <1>6, <1>7, <1>8 DEF Trees
<1> QED  BY <1>3, <1>5, <1>7, <1>8, <1>9

\* n is taken out, and x, its only child if any, is linked in its place.
Cut(T, t, n, x, p, z) ==
    /\ T \in Trees /\ T.root = IF p = Nil THEN x ELSE t.root
    /\ \A m \in Nodes, r \in Sides :
         T.child[m][r] = IF m = n THEN Nil
                         ELSE IF p # Nil /\ m = p /\ r = z THEN x ELSE t.child[m][r]
    /\ \A m \in Links : /\ T.parent[m] = IF m = n THEN Nil ELSE IF m = x THEN p ELSE t.parent[m]
                        /\ T.color[m] = IF m = n THEN "RED" ELSE t.color[m]

LEMMA CutIs ==
    ASSUME NEW t \in Trees, NEW n \in Nodes, NEW x \in Links, x # n,
           NEW p, t.parent[n] = p, NEW z, SideOf(t, n) = z,
           NEW T, T = rb_init_node(rb_transplant(t, n, x), n)
    PROVE  Cut(T, t, n, x, p, z)
<1>1. n \in Links /\ p \in Links /\ Nil \in Links
  BY DEF Links, Trees
<1>2. PICK u : u = Replace(t, n, x)
  OBVIOUS
<1>3. Replaced(u, t, n, x)
  BY <1>1, <1>2, ReplaceIs
<1>4. PICK v : v = rb_transplant(t, n, x)
  OBVIOUS
<1>5. v = [u EXCEPT !.parent[x] = p]
  BY <1>2, <1>4 DEF rb_transplant
<1>6. /\ v \in Trees /\ v.root = u.root /\ v.child = u.child /\ v.color = u.color
      /\ \A m \in Links : v.parent[m] = IF m = x THEN p ELSE u.parent[m]
  BY ZenonT(40), <1>1, <1>3, <1>5 DEF Trees, Replaced
<1>7. T = rb_init_node(v, n)
  BY <1>4
<1>9. /\ T \in Trees /\ T.root = v.root
      /\ \A m \in Nodes, r \in Sides : T.child[m][r] = IF m = n THEN Nil ELSE v.child[m][r]
      /\ \A m \in Links : /\ T.parent[m] = IF m = n THEN Nil ELSE v.parent[m]
                          /\ T.color[m] = IF m = n THEN "RED" ELSE v.color[m]
  BY <1>6, <1>7, InitNodeIs
<1>10. /\ u.parent = t.parent /\ u.color = t.color
       /\ u.root = IF p = Nil THEN x ELSE t.root
       /\ \A m \in Nodes, r \in Sides :
            u.child[m][r] = IF p # Nil /\ m = p /\ r = z THEN x ELSE t.child[m][r]
  BY <1>3 DEF Replaced
<1> QED  BY <1>6, <1>9, <1>10 DEF Cut

\* The positions close up behind the position i.
Close(i, j) == IF j > i THEN j - 1 ELSE j
Shut(i, r, j) == IF r = "left" /\ j = i THEN j - 1 ELSE Close(i, j)

LEMMA CloseIs ==
    ASSUME NEW i \in Int, NEW j \in Int, j # i, NEW r \in Sides
    PROVE  /\ Close(i, j) \in Int /\ Shut(i, r, j) = Close(i, j)
           /\ Shut(i, r, j + Dir(r)) = Close(i, j) + Dir(r)
           /\ Shut(i, r, i + Dir(r)) = Shut(i, r, i)
<1>1. Sides = {"left", "right"}
  BY TwoSides
<1> QED  BY <1>1 DEF Close, Shut, Dir

LEMMA ShutIs ==
    ASSUME NEW i \in Int, NEW j \in Int, j # i, NEW k \in Int, NEW l \in Int
    PROVE  /\ k < j => Shut(i, "left", k) < Close(i, j)
           /\ j < l => Close(i, j) < Shut(i, "right", l)
BY DEF Close, Shut

\* The positions without n.
LEMMA RoomClosed ==
    ASSUME NEW t, NEW M, NEW L, NEW pos, NEW bd, Laid(t, M, L, pos, bd), NEW n \in M,
           NEW po, po = [m \in M \ {n} |-> Close(pos[n], pos[m])]
    PROVE  /\ L - 1 \in Nat /\ po \in [M \ {n} -> 1 .. L - 1]
           /\ \A i \in 1 .. L - 1 : \E m \in M \ {n} : po[m] = i
           /\ \A a, b \in M \ {n} : po[a] = po[b] => a = b
<1>1. /\ L \in Nat /\ pos[n] \in Int /\ 1 <= pos[n] /\ pos[n] <= L
  BY Numbers
<1>2. \A m \in M : pos[m] \in Int /\ 1 <= pos[m] /\ pos[m] <= L
  BY Numbers
<1>3. \A m \in M \ {n} : pos[m] # pos[n] /\ po[m] = Close(pos[n], pos[m])
  BY DEF Laid
<1>4. \A m \in M \ {n} : po[m] \in 1 .. L - 1
  BY <1>1, <1>2, <1>3 DEF Close
<1>5. po \in [M \ {n} -> 1 .. L - 1]
  BY <1>4
<1>6. ASSUME NEW i \in 1 .. L - 1  PROVE \E m \in M \ {n} : po[m] = i
  <2>1. CASE i < pos[n]
    <3>1. PICK m \in M : pos[m] = i
      BY <1>1, <2>1 DEF Laid
    <3> QED  BY <1>1, <1>2, <1>3, <2>1, <3>1 DEF Close
  <2>2. CASE pos[n] <= i
    <3>1. i + 1 \in 1 .. L
      BY <1>1
    <3>2. PICK m \in M : pos[m] = i + 1
      BY ZenonT(40), <3>1 DEF Laid
    <3> QED  BY <1>1, <1>2, <1>3, <2>2, <3>2 DEF Close
  <2> QED  BY <1>1, <2>1, <2>2
<1>7. ASSUME NEW a \in M \ {n}, NEW b \in M \ {n}, po[a] = po[b]  PROVE a = b
  <2>1. pos[a] = pos[b]
    BY <1>1, <1>2, <1>3, <1>7 DEF Close
  <2> QED  BY <2>1 DEF Laid
<1> QED  BY <1>1, <1>5, <1>6, <1>7

LEMMA CutLaid ==
    ASSUME NEW t, NEW M, NEW L, NEW pos, NEW bd, Laid(t, M, L, pos, bd),
           NEW n \in M, NEW s \in Sides, t.child[n][s] = Nil,
           NEW x, t.child[n][Other(s)] = x, NEW p, t.parent[n] = p, NEW z, SideOf(t, n) = z,
           NEW T, Cut(T, t, n, x, p, z),
           NEW po, po = [m \in M \ {n} |-> Close(pos[n], pos[m])]
    PROVE  Form(T, M \ {n}, L - 1, po)
<1>1. PICK i : i = pos[n]
  OBVIOUS
<1>2. /\ n \in Nodes /\ n # Nil /\ n \in Links /\ L \in Nat /\ i \in Int /\ 1 <= i /\ i <= L
  BY <1>1, Numbers
<1>3. /\ L - 1 \in Nat /\ po \in [M \ {n} -> 1 .. L - 1]
      /\ \A j \in 1 .. L - 1 : \E m \in M \ {n} : po[m] = j
      /\ \A a, b \in M \ {n} : po[a] = po[b] => a = b
  BY RoomClosed
<1>4. PICK be : be = [m \in M \ {n} |-> [r \in Sides |-> Shut(i, r, bd[m][r])]]
  BY ZenonT(40)
<1>5. /\ \A m \in M \ {n}, r \in Sides : be[m][r] = Shut(i, r, bd[m][r])
      /\ \A m \in M \ {n} : po[m] = Close(i, pos[m]) /\ pos[m] # i
  BY <1>1, <1>4 DEF Laid
<1>6. \A m \in M : /\ m \in Nodes /\ m # Nil /\ pos[m] \in Int /\ 1 <= pos[m] /\ pos[m] <= L
                   /\ \A r \in Sides : bd[m][r] \in Int /\ 0 <= bd[m][r] /\ bd[m][r] <= L + 1
                   /\ bd[m]["left"] < pos[m] /\ pos[m] < bd[m]["right"]
  BY Numbers
<1>7. be \in [M \ {n} -> [Sides -> 0 .. L]]
  <2>1. ASSUME NEW m \in M \ {n}, NEW r \in Sides  PROVE be[m][r] \in 0 .. L
    <3>1. r = "left" \/ r = "right"
      BY TwoSides
    <3>2. r = "left" => bd[m][r] < L
      BY <1>2, <1>6
    <3>3. r = "right" => 0 < bd[m][r]
      BY <1>2, <1>6
    <3> QED  BY <1>2, <1>5, <1>6, <3>1, <3>2, <3>3 DEF Shut, Close
  <2>2. \A m \in M \ {n} : be[m] \in [Sides -> 0 .. L]
    <3> SUFFICES ASSUME NEW m \in M \ {n} PROVE be[m] \in [Sides -> 0 .. L]
      OBVIOUS
    <3>1. PICK e : e = be[m]
      OBVIOUS
    <3>2. e = [r \in Sides |-> e[r]] /\ \A r \in Sides : e[r] \in 0 .. L
      BY <1>4, <2>1, <3>1
    <3>3. e \in [Sides -> 0 .. L]
      BY <3>2
    <3> QED  BY <3>1, <3>3
  <2>3. be = [m \in M \ {n} |-> be[m]]
    BY <1>4
  <2> QED  BY <2>2, <2>3
<1>8. \A m \in M \ {n} : be[m]["left"] < po[m] /\ po[m] < be[m]["right"]
  <2> SUFFICES ASSUME NEW m \in M \ {n} PROVE be[m]["left"] < po[m] /\ po[m] < be[m]["right"]
    OBVIOUS
  <2>1. /\ be[m]["left"] = Shut(i, "left", bd[m]["left"])
        /\ be[m]["right"] = Shut(i, "right", bd[m]["right"])
        /\ po[m] = Close(i, pos[m]) /\ pos[m] # i
    BY <1>5, TwoSides
  <2>2. bd[m]["left"] \in Int /\ bd[m]["right"] \in Int
    BY <1>6, TwoSides
  <2>3. i \in Int /\ pos[m] \in Int /\ bd[m]["left"] < pos[m] /\ pos[m] < bd[m]["right"]
    BY <1>2, <1>6
  <2> QED  BY <2>1, <2>2, <2>3, ShutIs
<1>9. /\ T \in Trees /\ T.root = IF p = Nil THEN x ELSE t.root
      /\ \A r \in Sides : T.child[n][r] = Nil
      /\ \A m \in Nodes, r \in Sides :
           m # n => T.child[m][r] = IF p # Nil /\ m = p /\ r = z THEN x ELSE t.child[m][r]
      /\ \A m \in Nodes : m # n => T.parent[m] = IF m = x THEN p ELSE t.parent[m]
      /\ T.parent[n] = Nil /\ Nil \notin Nodes
  BY <1>2, RBAssumption DEF Cut, Links
<1>10. /\ n = t.root => p = Nil
       /\ n # t.root => /\ p \in M /\ p \in Nodes /\ p # Nil /\ p # n
                        /\ z \in Sides /\ t.child[p][z] = n
  BY ParentOf
\* x takes over the room of n.
<1>11. /\ x = Nil => \A r \in Sides : bd[n][r] = i + Dir(r)
       /\ x # Nil => /\ x \in M /\ x # n /\ x # t.root /\ t.parent[x] = n
                     /\ \A r \in Sides : be[x][r] = Shut(i, r, bd[n][r])
  <2>1. Other(s) \in Sides /\ \A r \in Sides : r = s \/ r = Other(s)
    BY TwoSides
  <2>2. bd[n][s] = i + Dir(s)
    BY <1>1, NoChild
  <2>3. ASSUME x = Nil PROVE bd[n][Other(s)] = i + Dir(Other(s))
    <3>1. PICK o : Other(s) = o
      OBVIOUS
    <3>2. o \in Sides /\ t.child[n][o] = Nil
      BY ZenonT(40), <2>1, <2>3, <3>1
    <3>3. bd[n][o] = pos[n] + Dir(o)
      BY <3>2, NoChild
    <3> QED  BY <1>1, <3>1, <3>3
  <2>4. ASSUME x # Nil
        PROVE  /\ x \in M /\ x # n /\ x # t.root /\ t.parent[x] = n
               /\ \A r \in Sides : be[x][r] = Shut(i, r, bd[n][r])
    <3>1. /\ x \in M /\ x # n /\ x # t.root /\ t.parent[x] = n
          /\ bd[x][Other(s)] = bd[n][Other(s)] /\ bd[x][Other(Other(s))] = pos[n]
      BY <2>1, <2>4, ChildOf
    <3>2. bd[x][s] = i
      BY <1>1, <3>1, TwoSides
    <3>3. Shut(i, s, i + Dir(s)) = Shut(i, s, i)
      <4>1. i + 1 \in Int /\ i + 1 # i
        BY <1>2
      <4> QED  BY <1>2, <4>1, CloseIs
    <3>4. be[x][s] = Shut(i, s, bd[n][s])
      BY <1>5, <2>2, <3>1, <3>2, <3>3
    <3>5. be[x][Other(s)] = Shut(i, Other(s), bd[n][Other(s)])
      BY <1>5, <2>1, <3>1
    <3> QED  BY <2>1, <3>1, <3>4, <3>5
  <2> QED  BY <2>1, <2>2, <2>3, <2>4
<1>12. ASSUME NEW m \in M \ {n}, NEW r \in Sides  PROVE Linked(T, M \ {n}, po, be, m, r)
  <2>0. m \in M /\ m \in Nodes /\ m # Nil /\ m # n /\ po[m] = Close(i, pos[m]) /\ pos[m] # i /\ pos[m] \in Int
    BY <1>5, <1>6
  <2>1. CASE p # Nil /\ m = p /\ r = z
    <3>1. n # t.root /\ t.child[m][r] = n /\ T.child[m][r] = x
      BY <1>9, <1>10, <2>0, <2>1
    <3>2. bd[n][r] = bd[m][r] /\ bd[n][Other(r)] = pos[m]
      BY <1>2, <2>0, <3>1, ChildOf
    <3>3. CASE x = Nil
      <4>1. bd[m][r] = i + Dir(r) /\ pos[m] = i + Dir(Other(r)) /\ Other(r) \in Sides
        BY <1>11, <3>2, <3>3, TwoSides
      <4>2. be[m][r] = Shut(i, r, bd[m][r])
        BY <1>5
      <4>3. \/ Dir(r) = 1 /\ Dir(Other(r)) = -1 /\ r # "left"
            \/ Dir(r) = -1 /\ Dir(Other(r)) = 1 /\ r = "left"
        BY TwoSides DEF Dir
      <4>4. be[m][r] = po[m] + Dir(r)
        <5>1. PICK d : d = Dir(r)
          OBVIOUS
        <5>2. CASE d = 1
          <6>1. bd[m][r] = i + 1 /\ pos[m] = i - 1 /\ r # "left"
            BY <1>2, <4>1, <4>3, <5>1, <5>2
          <6>2. be[m][r] = i /\ po[m] = i - 1
            BY <1>2, <2>0, <4>2, <6>1 DEF Shut, Close
          <6> QED  BY <1>2, <5>1, <5>2, <6>2
        <5>3. CASE d = -1
          <6>1. bd[m][r] = i - 1 /\ pos[m] = i + 1 /\ r = "left"
            BY <1>2, <4>1, <4>3, <5>1, <5>3
          <6>2. be[m][r] = i - 1 /\ po[m] = i
            BY <1>2, <2>0, <4>2, <6>1 DEF Shut, Close
          <6> QED  BY <1>2, <5>1, <5>3, <6>2
        <5> QED  BY <4>3, <5>1, <5>2, <5>3
      <4> QED  BY <3>1, <3>3, <4>4 DEF Linked
    <3>4. CASE x # Nil
      <4>1. x \in M /\ x # n /\ x \in Nodes /\ T.parent[x] = m
        BY <1>6, <1>9, <1>11, <2>1, <3>4
      <4>2. be[x][r] = Shut(i, r, bd[n][r]) /\ be[x][Other(r)] = Shut(i, Other(r), bd[n][Other(r)])
        BY <1>11, <3>4, TwoSides
      <4>3. be[m][r] = Shut(i, r, bd[m][r])
        BY <1>5
      <4>4. Shut(i, Other(r), pos[m]) = Close(i, pos[m])
        <5>1. Other(r) \in Sides
          BY TwoSides
        <5>2. i \in Int /\ pos[m] \in Int /\ pos[m] # i
          BY <1>2, <2>0
        <5> QED  BY <5>1, <5>2, CloseIs
      <4> QED  BY <2>0, <3>1, <3>2, <3>4, <4>1, <4>2, <4>3, <4>4 DEF Linked
    <3> QED  BY <3>3, <3>4
  <2>2. CASE ~ (p # Nil /\ m = p /\ r = z)
    <3>1. PICK c : t.child[m][r] = c
      OBVIOUS
    <3>2. T.child[m][r] = c
      BY <1>9, <2>0, <2>2, <3>1
    <3>3. CASE c = Nil
      <4>1. bd[m][r] = pos[m] + Dir(r)
        <5>1. m \in M /\ t.child[m][r] = Nil
          BY <2>0, <3>1, <3>3
        <5> QED  BY <5>1, NoChild
      <4>2. be[m][r] = Shut(i, r, bd[m][r])
        BY <1>5
      <4>3. Shut(i, r, pos[m] + Dir(r)) = Close(i, pos[m]) + Dir(r)
        BY <1>2, <2>0, CloseIs
      <4> QED  BY <2>0, <3>2, <3>3, <4>1, <4>2, <4>3 DEF Linked
    <3>4. CASE c # Nil
      <4>1. c \in M /\ t.parent[c] = m /\ bd[c][r] = bd[m][r] /\ bd[c][Other(r)] = pos[m] /\ c # t.root
        BY <2>0, <3>1, <3>4, ChildOf
      <4>2. c # n
        <5> SUFFICES ASSUME c = n PROVE FALSE
          OBVIOUS
        <5>1. p = m /\ n # t.root /\ t.child[p][z] = t.child[m][r] /\ t.child[m][r] # Nil /\ p \in M /\ z \in Sides
          BY <1>10, <3>1, <3>4, <4>1
        <5>2. m = p /\ r = z
          BY <2>0, <5>1, OnePlace
        <5> QED  BY <2>2, <5>1, <5>2, <1>10
      <4>3. c # x
        BY <1>11, <2>0, <3>4, <4>1
      <4>4. T.parent[c] = m
        BY <1>6, <1>9, <4>1, <4>2, <4>3
      <4>5. be[c][r] = Shut(i, r, bd[c][r]) /\ be[c][Other(r)] = Shut(i, Other(r), bd[c][Other(r)])
            /\ be[m][r] = Shut(i, r, bd[m][r])
        BY <1>5, <4>1, <4>2, TwoSides
      <4>6. Shut(i, Other(r), pos[m]) = Close(i, pos[m])
        <5>1. Other(r) \in Sides
          BY TwoSides
        <5>2. i \in Int /\ pos[m] \in Int /\ pos[m] # i
          BY <1>2, <2>0
        <5> QED  BY <5>1, <5>2, CloseIs
      <4> QED  BY <2>0, <3>2, <3>4, <4>1, <4>2, <4>4, <4>5, <4>6 DEF Linked
    <3> QED  BY <3>3, <3>4
  <2> QED  BY <2>1, <2>2
<1>13. /\ T.root = Nil => M \ {n} = {}
       /\ T.root # Nil => /\ T.root \in M \ {n} /\ T.parent[T.root] = Nil
                          /\ be[T.root]["left"] = 0 /\ be[T.root]["right"] = L
  <2>1. t.root # Nil
    BY DEF Laid
  <2>2. t.root \in M /\ t.parent[t.root] = Nil /\ bd[t.root]["left"] = 0 /\ bd[t.root]["right"] = L + 1
    BY <2>1 DEF Laid
  <2>3. Shut(i, "left", 0) = 0 /\ Shut(i, "right", L + 1) = L
    BY <1>2 DEF Shut, Close
  <2>4. CASE n # t.root
    <3>1. T.root = t.root /\ t.root \in M \ {n} /\ t.root # x
      BY <1>9, <1>10, <1>11, <2>1, <2>2, <2>4
    <3>2. T.parent[t.root] = Nil
      BY <1>6, <1>9, <2>2, <3>1
    <3>3. be[t.root]["left"] = 0 /\ be[t.root]["right"] = L
      BY <1>5, <2>2, <2>3, <3>1, TwoSides
    <3> QED  BY <2>1, <3>1, <3>2, <3>3
  <2>5. CASE n = t.root /\ x = Nil
    <3>1. 0 = i + Dir("left") /\ L + 1 = i + Dir("right")
      BY <1>11, <2>2, <2>5, TwoSides
    <3>2. i = 1 /\ L = 1
      BY <1>2, <3>1 DEF Dir
    <3>3. \A m \in M : pos[m] = pos[n]
      BY <1>1, <1>6, <3>2
    <3>4. \A m \in M : m = n
      BY <3>3 DEF Laid
    <3> QED  BY <1>9, <1>10, <2>5, <3>4
  <2>6. CASE n = t.root /\ x # Nil
    <3>1. T.root = x /\ x \in M \ {n} /\ x \in Nodes /\ T.parent[x] = Nil
      BY <1>6, <1>9, <1>10, <1>11, <2>6
    <3>2. be[x]["left"] = 0 /\ be[x]["right"] = L
      BY <1>11, <2>2, <2>3, <2>6, TwoSides
    <3> QED  BY <2>6, <3>1, <3>2
  <2> QED  BY <2>4, <2>5, <2>6
<1>14. ASSUME NEW m \in (M \ {n}) \ {T.root}  PROVE Hung(T, M \ {n}, m)
  <2>1. m \in M /\ m # n /\ m \in Nodes /\ m # Nil
    BY <1>6
  <2>2. CASE m = x
    <3>1. p # Nil
      BY <1>9, <2>1, <2>2
    <3>2. p \in M /\ p \in Nodes /\ p # n /\ z \in Sides
      BY <1>10, <3>1
    <3>3. T.parent[m] = p /\ T.child[p][z] = m
      BY <1>9, <2>1, <2>2, <3>1, <3>2
    <3> QED  BY <3>2, <3>3 DEF Hung
  <2>3. CASE m # x
    <3>1. m # t.root
      <4> SUFFICES ASSUME m = t.root PROVE FALSE
        OBVIOUS
      <4>1. p # Nil
        <5>1. n # t.root
          BY <2>1
        <5> QED  BY <1>10, <5>1
      <4> QED  BY <1>9, <4>1
    <3>2. PICK q, w : t.parent[m] = q /\ SideOf(t, m) = w
      OBVIOUS
    <3>3. q \in M /\ q \in Nodes /\ w \in Sides /\ t.child[q][w] = m
      BY <2>1, <3>1, <3>2, ParentOf
    <3>4. q # n
      <4> SUFFICES ASSUME q = n PROVE FALSE
        OBVIOUS
      <4>1. w = s \/ w = Other(s)
        BY <3>3, TwoSides
      <4> QED  BY <2>1, <2>3, <3>3, <4>1
    <3>5. ~ (p # Nil /\ q = p /\ w = z)
      BY <1>10, <2>1, <3>3
    <3>6. T.parent[m] = q /\ T.child[q][w] = m
      BY <1>9, <2>1, <2>3, <3>2, <3>3, <3>4, <3>5
    <3> QED  BY <3>3, <3>4, <3>6 DEF Hung
  <2> QED  BY <2>2, <2>3
<1>15. \A m \in Nodes \ (M \ {n}) : T.parent[m] = Nil /\ \A r \in Sides : T.child[m][r] = Nil
  <2> SUFFICES ASSUME NEW m \in Nodes, m \notin M \ {n}
               PROVE  T.parent[m] = Nil /\ \A r \in Sides : T.child[m][r] = Nil
    OBVIOUS
  <2>1. CASE m = n
    BY <1>9, <2>1
  <2>2. CASE m # n
    <3>1. m \notin M
      BY <2>2
    <3>2. t.parent[m] = Nil /\ \A r \in Sides : t.child[m][r] = Nil
      BY <3>1 DEF Laid
    <3>3. m # x /\ ~ (p # Nil /\ m = p)
      BY <1>9, <1>10, <1>11, <3>1
    <3> QED  BY <1>9, <2>2, <3>2, <3>3
  <2> QED  BY <2>1, <2>2
<1>16. Laid(T, M \ {n}, L - 1, po, be)
  <2>1. M \ {n} \subseteq Nodes /\ (L - 1) + 1 = L
    BY <1>2, <1>6
  <2> QED  BY ZenonT(40), <1>3, <1>7, <1>8, <1>9, <1>12, <1>13, <1>14, <1>15, <2>1 DEF Laid
<1> QED  BY <1>16 DEF Form

\* A node with one child at most is taken out: when it was black, the paths
\* through its place are one short.
LEMMA CutColored ==
    ASSUME NEW t, NEW M, NEW L, NEW pos, NEW bd, Laid(t, M, L, pos, bd),
           Colored(t, M, "idle", Nil),
           NEW n \in M, NEW s \in Sides, t.child[n][s] = Nil,
           NEW x, t.child[n][Other(s)] = x, NEW p, t.parent[n] = p, NEW z, SideOf(t, n) = z,
           NEW T, Cut(T, t, n, x, p, z)
    PROVE  /\ x \in (M \ {n}) \cup {Nil} /\ T.parent[x] = p
           /\ t.color[n] = "RED" => Colored(T, M \ {n}, "idle", Nil)
           /\ t.color[n] = "BLACK" => Colored(T, M \ {n}, "delete", x)
<1>1. /\ M \subseteq Nodes /\ Nil \notin Nodes /\ t \in Trees
      /\ \A m \in M : m # Nil /\ m \in Nodes /\ m \in Links
  BY RBAssumption DEF Laid, Links
<1>2. t.color[Nil] = "BLACK" /\ Plain(t, M)
  BY ZenonT(40), <1>1, IdleColored
<1>3. PICK h, w : Counted(t, M, h, Nil, w)
  BY ZenonT(40), <1>1, IdleColored
<1>4. /\ n = t.root => p = Nil
      /\ n # t.root => /\ p \in M /\ p \in Nodes /\ p # Nil /\ p # n
                       /\ z \in Sides /\ t.child[p][z] = n
  BY ParentOf
<1>5. x # Nil => x \in M /\ x # n /\ x # t.root /\ t.parent[x] = n
  <2>1. PICK o : Other(s) = o
    OBVIOUS
  <2>2. o \in Sides /\ t.child[n][o] = x
    BY <2>1, TwoSides
  <2>3. ASSUME x # Nil PROVE x \in M /\ x # n /\ x # t.root /\ t.parent[x] = n
    BY <2>2, <2>3, ChildOf
  <2> QED  BY <2>3
<1>6. /\ T.root = IF p = Nil THEN x ELSE t.root
      /\ \A m \in M \ {n}, r \in Sides :
           T.child[m][r] = IF p # Nil /\ m = p /\ r = z THEN x ELSE t.child[m][r]
      /\ \A m \in Links : m # n => /\ T.parent[m] = IF m = x THEN p ELSE t.parent[m]
                                   /\ T.color[m] = t.color[m]
  BY <1>1 DEF Cut
<1>7. /\ x \in (M \ {n}) \cup {Nil} /\ x \in Links /\ x # n /\ T.parent[x] = p /\ n # Nil
      /\ T.color[Nil] = "BLACK" /\ \A m \in M \ {n} : T.color[m] = t.color[m]
  BY <1>1, <1>2, <1>5, <1>6 DEF Links
<1>8. h[n] = 1 + One(t, n) /\ h[x] = 1 /\ One(t, n) \in {0, 1}
  <2>1. PICK c : t.child[n][s] = c
    OBVIOUS
  <2>2. h[n] = h[c] + One(t, n) /\ h[Nil] = 1 /\ One(t, n) \in {0, 1}
    BY <1>3, <1>7, <2>1, CountedAt
  <2>3. PICK o : Other(s) = o
    OBVIOUS
  <2>4. o \in Sides /\ t.child[n][o] = x
    BY <2>3, TwoSides
  <2>5. h[n] = h[x] + One(t, n) /\ h[x] \in Nat
    BY <1>3, <1>7, <2>4, CountedAt
  <2> QED  BY <2>1, <2>2, <2>5
<1>9. ASSUME NEW m \in M \ {n}, T.color[m] = "RED"
      PROVE  /\ m # x => m # T.root /\ T.color[T.parent[m]] = "BLACK"
             /\ m = x => t.color[n] = "BLACK"
  <2>1. m \in M /\ m \in Links /\ m # Nil /\ m # n /\ t.color[m] = "RED"
    BY <1>1, <1>7, <1>9
  <2>2. m # t.root /\ t.color[t.parent[m]] = "BLACK"
    BY <1>2, <2>1 DEF Plain
  <2>3. ASSUME m # x PROVE m # T.root /\ T.color[T.parent[m]] = "BLACK"
    <3>1. PICK q, v : t.parent[m] = q /\ SideOf(t, m) = v
      OBVIOUS
    <3>2. q \in M /\ v \in Sides /\ t.child[q][v] = m
      BY <2>1, <2>2, <3>1, ParentOf
    <3>3. q # n
      <4> SUFFICES ASSUME q = n PROVE FALSE
        OBVIOUS
      <4>1. v = s \/ v = Other(s)
        BY <3>2, TwoSides
      <4> QED  BY <2>1, <2>3, <3>2, <4>1
    <3> QED  BY <1>6, <1>7, <2>1, <2>2, <2>3, <3>1, <3>2, <3>3
  <2>4. ASSUME m = x PROVE t.color[n] = "BLACK"
    BY <1>5, <2>1, <2>2, <2>4
  <2> QED  BY <2>3, <2>4
<1>10. PICK k : k = [m \in (M \ {n}) \cup {Nil} |-> h[m]]
  BY ZenonT(40)
<1>11. h \in [M \cup {Nil} -> Nat] /\ h[Nil] = 1 /\ \A m \in M : 1 <= h[m]
  BY <1>3 DEF Counted
<1>12. /\ k \in [(M \ {n}) \cup {Nil} -> Nat] /\ k[Nil] = 1 /\ M \ {n} \subseteq Nodes
       /\ \A m \in M \ {n} : k[m] = h[m] /\ 1 <= k[m]
       /\ k[x] = 1
  <2>1. \A m \in (M \ {n}) \cup {Nil} : k[m] = h[m] /\ k[m] \in Nat
    BY <1>10, <1>11
  <2>2. k = [m \in (M \ {n}) \cup {Nil} |-> k[m]]
    BY <1>10, <2>1
  <2>3. k \in [(M \ {n}) \cup {Nil} -> Nat]
    BY ZenonT(40), <2>1, <2>2
  <2> QED  BY <1>1, <1>7, <1>8, <1>11, <2>1, <2>3
<1>13. ASSUME NEW m \in M \ {n}, NEW r \in Sides
       PROVE  /\ T.child[m][r] \in (M \ {n}) \cup {Nil}
              /\ ~ (m = p /\ r = z) => k[m] = k[T.child[m][r]] + One(T, m)
              /\ m = p /\ r = z => k[m] = k[T.child[m][r]] + One(T, m) + One(t, n)
  <2>1. PICK c : t.child[m][r] = c
    OBVIOUS
  <2>2. m \in M /\ m # Nil /\ One(T, m) = One(t, m) /\ One(t, m) \in {0, 1}
    BY <1>1, <1>7 DEF One
  <2>3. c \in M \cup {Nil} /\ h[m] = h[c] + One(t, m) /\ h[c] \in Nat
    BY <1>3, <2>1, <2>2, CountedAt
  <2>4. CASE m = p /\ r = z
    <3>1. c = n /\ T.child[m][r] = x
      BY <1>4, <1>6, <2>1, <2>2, <2>4
    <3> QED  BY <1>7, <1>8, <1>12, <2>2, <2>3, <2>4, <3>1
  <2>5. CASE ~ (m = p /\ r = z)
    <3>1. T.child[m][r] = c
      BY <1>6, <2>1, <2>5
    <3>2. c # n
      <4> SUFFICES ASSUME c = n PROVE FALSE
        OBVIOUS
      <4>1. n # t.root /\ m = p
        BY <1>7, <2>1, <2>2, ChildOf
      <4>2. t.child[p][z] = t.child[m][r] /\ t.child[m][r] # Nil /\ p \in M /\ z \in Sides
        BY ZenonT(40), <1>4, <1>7, <2>1, <4>1
      <4>3. m = p /\ r = z
        BY <2>2, <4>2, OnePlace
      <4> QED  BY <2>5, <4>3
    <3>3. c \in (M \ {n}) \cup {Nil} /\ k[c] = h[c]
      BY <1>11, <1>12, <2>3, <3>2
    <3> QED  BY <1>12, <2>2, <2>3, <2>5, <3>1, <3>3
  <2> QED  BY <2>4, <2>5
<1>14. ASSUME t.color[n] = "RED" PROVE Colored(T, M \ {n}, "idle", Nil)
  <2>1. One(t, n) = 0
    BY <1>14 DEF One
  <2>2. \A m \in M \ {n}, r \in Sides :
          /\ T.child[m][r] \in (M \ {n}) \cup {Nil}
          /\ ~ (m = Nil /\ r = z) => k[m] = k[T.child[m][r]] + One(T, m)
          /\ m = Nil /\ r = z => k[m] = k[T.child[m][r]] + One(T, m) + 1
    <3>1. \A m \in M \ {n} : m # Nil /\ One(T, m) \in Nat
      BY <1>1 DEF One
    <3>2. \A m \in M \ {n}, r \in Sides : k[T.child[m][r]] \in Nat
      BY <1>12, <1>13
    <3> QED  BY <1>13, <2>1, <3>1, <3>2
  <2>3. Counted(T, M \ {n}, k, Nil, z)
    BY ZenonT(40), <1>12, <2>2, CountedBy
  <2>4. Plain(T, M \ {n})
    BY <1>9, <1>14 DEF Plain
  <2> QED  BY <1>7, <1>12, <2>3, <2>4, IdleColored
<1>15. ASSUME t.color[n] = "BLACK" PROVE Colored(T, M \ {n}, "delete", x)
  <2>1. One(t, n) = 1
    BY <1>15 DEF One
  <2>2. Reds(T, M \ {n}, x, TRUE)
    BY <1>9 DEF Reds
  <2>3. \A m \in M \ {n}, r \in Sides :
          /\ T.child[m][r] \in (M \ {n}) \cup {Nil}
          /\ ~ (m = p /\ r = z) => k[m] = k[T.child[m][r]] + One(T, m)
          /\ m = p /\ r = z => k[m] = k[T.child[m][r]] + One(T, m) + 1
    BY <1>13, <2>1
  <2>4. Counted(T, M \ {n}, k, p, z)
    BY ZenonT(40), <1>12, <2>3, CountedBy
  <2>5. CASE n = t.root
    <3>1. p = Nil /\ T.root = x /\ T.parent[x] = Nil
      BY <1>4, <1>6, <1>7, <2>5
    <3>2. \A m \in M \ {n} : m # Nil
      BY <1>1
    <3>3. Counted(T, M \ {n}, k, Nil, SideOf(T, x))
      BY <2>4, <3>1, <3>2 DEF Counted
    <3>4. Running(T, M \ {n}, "delete", x)
      BY <1>7, <3>1 DEF Running
    <3> QED  BY ZenonT(40), <1>7, <2>2, <3>1, <3>3, <3>4 DEF Colored, ShortAt
  <2>6. CASE n # t.root
    <3>1. p \in M \ {n} /\ p # Nil /\ z \in Sides /\ t.child[p][z] = n /\ T.child[p][z] = x
      BY <1>4, <1>6, <2>6
    <3>2. x # T.root
      <4>1. t.root # Nil
        BY <1>1 DEF Laid
      <4> QED  BY <1>5, <1>6, <3>1, <4>1
    <3>3. t.child[p][Other(z)] # x
      <4> SUFFICES ASSUME t.child[p][Other(z)] = x PROVE FALSE
        OBVIOUS
      <4>1. PICK o : Other(z) = o
        OBVIOUS
      <4>2. o \in Sides /\ o # z /\ t.child[p][o] = x /\ p \in M
        BY <3>1, <4>1, TwoSides
      <4>3. x = Nil
        <5> SUFFICES ASSUME x # Nil PROVE FALSE
          OBVIOUS
        <5>1. t.parent[x] = p
          BY <4>2, ChildOf
        <5> QED  BY <1>5, <3>1, <5>1
      <4>4. h[p] = h[x] + One(t, p) /\ h[p] \in Nat /\ One(t, p) \in {0, 1}
        BY <1>3, <3>1, <4>2, CountedAt
      <4>5. n = t.child[p][z] /\ z \in Sides
        BY <3>1
      <4>6. h[p] = h[n] + One(t, p)
        BY <1>3, <3>1, <4>2, <4>5, CountedAt
      <4> QED  BY <1>8, <2>1, <4>4, <4>6
    <3>4. SideOf(T, x) = z
      <4>1. CASE z = "left"
        BY ONLY <1>7, <3>1, <4>1 DEF SideOf
      <4>2. CASE z = "right"
        <5>1. T.child[p]["left"] = t.child[p]["left"] /\ t.child[p]["left"] # x
          BY <1>6, <3>1, <3>3, <4>2, TwoSides
        <5> QED  BY <1>7, <4>2, <5>1 DEF SideOf
      <4> QED  BY <3>1, <4>1, <4>2, TwoSides
    <3>5. Running(T, M \ {n}, "delete", x)
      BY <1>7, <3>1, <3>2, <3>4 DEF Running
    <3>6. ShortAt(T, "delete", x) = p
      BY <1>7 DEF ShortAt
    <3>7. \E f : Counted(T, M \ {n}, f, ShortAt(T, "delete", x), SideOf(T, x))
      BY <2>4, <3>4, <3>6
    <3> QED  BY ZenonT(40), <1>7, <2>2, <3>5, <3>7 DEF Colored
  <2> QED  BY <2>5, <2>6
<1> QED  BY <1>7, <1>14, <1>15

\* The same tree with y in the place of n.
Rn(n, y, m) == IF m = n THEN y ELSE m
Renamed(T, U, N, n, y) ==
    /\ T \in Trees /\ T.root = Rn(n, y, U.root) /\ T.color[Nil] = U.color[Nil]
    /\ \A m \in N : /\ T.parent[Rn(n, y, m)] = Rn(n, y, U.parent[m])
                    /\ T.color[Rn(n, y, m)] = U.color[m]
                    /\ \A r \in Sides : T.child[Rn(n, y, m)][r] = Rn(n, y, U.child[m][r])
    /\ \A m \in Nodes \ ((N \ {n}) \cup {y}) : T.parent[m] = Nil /\ \A r \in Sides : T.child[m][r] = Nil

LEMMA RenameIs ==
    ASSUME NEW N, NEW n \in N, NEW y, y \notin N,
           NEW O, O = (N \ {n}) \cup {y}
    PROVE  /\ \A m \in N : /\ Rn(n, y, m) \in O /\ Rn(y, n, Rn(n, y, m)) = m
           /\ \A m \in O : /\ Rn(y, n, m) \in N /\ Rn(n, y, Rn(y, n, m)) = m
           /\ \A a, b : a # y /\ b # y /\ Rn(n, y, a) = Rn(n, y, b) => a = b
BY DEF Rn

LEMMA RenameLaid ==
    ASSUME NEW U, NEW N, NEW K, NEW pu, NEW be, Laid(U, N, K, pu, be),
           NEW n \in N, NEW y \in Nodes, y \notin N, NEW T, Renamed(T, U, N, n, y),
           NEW O, O = (N \ {n}) \cup {y},
           NEW po, po = [m \in O |-> pu[Rn(y, n, m)]]
    PROVE  Form(T, O, K, po)
<1>1. /\ N \subseteq Nodes /\ K \in Nat /\ pu \in [N -> 1 .. K] /\ be \in [N -> [Sides -> 0 .. K + 1]]
      /\ Nil \notin Nodes /\ n # Nil /\ y # Nil /\ U.root # Nil
  BY RBAssumption DEF Laid
<1>2. /\ \A m \in N : Rn(n, y, m) \in O /\ Rn(y, n, Rn(n, y, m)) = m
      /\ \A m \in O : Rn(y, n, m) \in N /\ Rn(n, y, Rn(y, n, m)) = m
      /\ \A a, b : a # y /\ b # y /\ Rn(n, y, a) = Rn(n, y, b) => a = b
  BY RenameIs
<1>3. PICK bd : bd = [m \in O |-> be[Rn(y, n, m)]]
  BY ZenonT(40)
<1>4. \A m \in N : bd[Rn(n, y, m)] = be[m] /\ po[Rn(n, y, m)] = pu[m]
  BY <1>2, <1>3
<1>5. O \subseteq Nodes /\ po \in [O -> 1 .. K] /\ bd \in [O -> [Sides -> 0 .. K + 1]]
  BY <1>1, <1>2, <1>3
<1>6. /\ T \in Trees /\ T.root = Rn(n, y, U.root)
      /\ \A m \in N, r \in Sides : T.child[Rn(n, y, m)][r] = Rn(n, y, U.child[m][r])
      /\ \A m \in N : T.parent[Rn(n, y, m)] = Rn(n, y, U.parent[m])
      /\ \A m \in Nodes \ O : T.parent[m] = Nil /\ \A r \in Sides : T.child[m][r] = Nil
  BY DEF Renamed
<1>7. \A i \in 1 .. K : \E m \in O : po[m] = i
  <2> SUFFICES ASSUME NEW i \in 1 .. K PROVE \E m \in O : po[m] = i
    OBVIOUS
  <2>1. PICK a \in N : pu[a] = i
    BY DEF Laid
  <2> QED  BY ZenonT(40), <1>2, <1>4, <2>1
<1>8. \A m, l \in O : po[m] = po[l] => m = l
  <2> SUFFICES ASSUME NEW m \in O, NEW l \in O, po[m] = po[l] PROVE m = l
    OBVIOUS
  <2>1. PICK a, b : a = Rn(y, n, m) /\ b = Rn(y, n, l)
    OBVIOUS
  <2>2. a \in N /\ b \in N /\ pu[a] = pu[b] /\ m = Rn(n, y, a) /\ l = Rn(n, y, b)
    BY <1>2, <2>1
  <2>3. a = b
    BY <2>2 DEF Laid
  <2> QED  BY <2>2, <2>3
<1>9. \A m \in O : bd[m]["left"] < po[m] /\ po[m] < bd[m]["right"]
  <2> SUFFICES ASSUME NEW m \in O PROVE bd[m]["left"] < po[m] /\ po[m] < bd[m]["right"]
    OBVIOUS
  <2>1. PICK a : a = Rn(y, n, m)
    OBVIOUS
  <2>2. a \in N /\ bd[m] = be[a] /\ po[m] = pu[a]
    BY <1>2, <1>3, <2>1
  <2>3. be[a]["left"] < pu[a] /\ pu[a] < be[a]["right"]
    BY <2>2 DEF Laid
  <2> QED  BY <2>2, <2>3
<1>10. ASSUME NEW m \in O, NEW r \in Sides  PROVE Linked(T, O, po, bd, m, r)
  <2>1. PICK a, c : a = Rn(y, n, m) /\ c = U.child[a][r]
    OBVIOUS
  <2>2. a \in N /\ m = Rn(n, y, a) /\ bd[m] = be[a] /\ po[m] = pu[a]
    BY ZenonT(40), <1>2, <1>4, <2>1
  <2>3. T.child[m][r] = Rn(n, y, c)
    BY <1>6, <2>1, <2>2
  <2>4. CASE c = Nil
    <3>1. T.child[m][r] = Nil
      BY <1>1, <2>3, <2>4 DEF Rn
    <3>2. be[a][r] = pu[a] + Dir(r)
      BY <2>1, <2>2, <2>4, NoChild
    <3> QED  BY <2>2, <3>1, <3>2 DEF Linked
  <2>5. CASE c # Nil
    <3>1. /\ c \in N /\ U.parent[c] = a /\ be[c][r] = be[a][r] /\ be[c][Other(r)] = pu[a]
      BY <2>1, <2>2, <2>5, ChildOf
    <3>2. PICK d : d = Rn(n, y, c)
      OBVIOUS
    <3>3. d \in O /\ d # Nil /\ bd[d] = be[c] /\ T.parent[d] = m
      BY ZenonT(40), <1>1, <1>2, <1>4, <1>5, <1>6, <2>2, <3>1, <3>2
    <3> QED  BY <2>2, <2>3, <3>1, <3>2, <3>3 DEF Linked
  <2> QED  BY <2>4, <2>5
<1>11. T.root # Nil /\ T.root \in O /\ T.parent[T.root] = Nil
       /\ bd[T.root]["left"] = 0 /\ bd[T.root]["right"] = K + 1
  <2>1. U.root \in N /\ U.parent[U.root] = Nil /\ be[U.root]["left"] = 0 /\ be[U.root]["right"] = K + 1
    BY <1>1 DEF Laid
  <2>2. Rn(n, y, Nil) = Nil
    BY <1>1 DEF Rn
  <2>3. PICK u : u = Rn(n, y, U.root)
    OBVIOUS
  <2>4. u \in O /\ T.root = u /\ bd[u] = be[U.root]
    BY ZenonT(40), <1>2, <1>4, <1>6, <2>1, <2>3
  <2>5. T.parent[u] = Nil
    BY <1>6, <2>1, <2>2, <2>3
  <2>6. u # Nil
    BY <1>1, <1>5, <2>4
  <2> QED  BY <2>1, <2>4, <2>5, <2>6
<1>12. ASSUME NEW m \in O \ {T.root}  PROVE Hung(T, O, m)
  <2>1. PICK a : a = Rn(y, n, m)
    OBVIOUS
  <2>2. a \in N /\ m = Rn(n, y, a) /\ a # U.root
    BY <1>2, <1>6, <2>1
  <2>3. PICK q, v : q = U.parent[a] /\ SideOf(U, a) = v
    OBVIOUS
  <2>4. q \in N /\ v \in Sides /\ U.child[q][v] = a
    BY <2>2, <2>3, ParentOf
  <2>5. T.parent[m] = Rn(n, y, q) /\ Rn(n, y, q) \in O /\ T.child[Rn(n, y, q)][v] = m
    BY <1>2, <1>6, <2>2, <2>3, <2>4
  <2> QED  BY <2>4, <2>5 DEF Hung
<1>13. Laid(T, O, K, po, bd)
  BY ZenonT(40), <1>1, <1>5, <1>6, <1>7, <1>8, <1>9, <1>10, <1>11, <1>12 DEF Laid
<1> QED  BY <1>13 DEF Form

LEMMA RenameColored ==
    ASSUME NEW U, NEW N, NEW K, NEW pu, NEW be, Laid(U, N, K, pu, be),
           NEW a \in {"idle", "delete"}, NEW x, Colored(U, N, a, x),
           NEW n \in N, NEW y \in Nodes, y \notin N, x # n, x # y,
           NEW T, Renamed(T, U, N, n, y), a = "delete" => T.parent[x] = Rn(n, y, U.parent[x]),
           NEW O, O = (N \ {n}) \cup {y}
    PROVE  Colored(T, O, a, x)
<1>1. /\ N \subseteq Nodes /\ Nil \notin Nodes /\ n # Nil /\ y # Nil /\ U.root # Nil
      /\ O \subseteq Nodes /\ U.root \in N
  BY RBAssumption DEF Laid
<1>2. /\ \A m \in N : Rn(n, y, m) \in O /\ Rn(y, n, Rn(n, y, m)) = m
      /\ \A m \in O : Rn(y, n, m) \in N /\ Rn(n, y, Rn(y, n, m)) = m
      /\ \A b, c : b # y /\ c # y /\ Rn(n, y, b) = Rn(n, y, c) => b = c
  BY RenameIs
<1>3. Rn(n, y, Nil) = Nil /\ Rn(n, y, x) = x /\ Rn(y, n, x) = x /\ Rn(y, n, Nil) = Nil
  BY <1>1 DEF Rn
<1>4. /\ T.root = Rn(n, y, U.root) /\ T.color[Nil] = U.color[Nil]
      /\ \A m \in N, r \in Sides : T.child[Rn(n, y, m)][r] = Rn(n, y, U.child[m][r])
      /\ \A m \in N : /\ T.parent[Rn(n, y, m)] = Rn(n, y, U.parent[m])
                      /\ T.color[Rn(n, y, m)] = U.color[m]
  BY DEF Renamed
<1>5. U.color[Nil] = "BLACK" /\ Reds(U, N, x, a = "delete") /\ Running(U, N, a, x)
  BY DEF Colored
<1>6. PICK h : Counted(U, N, h, ShortAt(U, a, x), SideOf(U, x))
  BY DEF Colored
<1>7. Reds(T, O, x, a = "delete")
  <2> SUFFICES ASSUME NEW m \in O, T.color[m] = "RED"
               PROVE  \/ m = x
                      \/ m # T.root /\ T.color[T.parent[m]] = "BLACK"
                      \/ a = "delete" /\ x \in O /\ T.parent[m] = x
    BY DEF Reds
  <2>1. PICK b : b = Rn(y, n, m)
    OBVIOUS
  <2>2. b \in N /\ m = Rn(n, y, b) /\ U.color[b] = "RED"
    BY <1>2, <1>4, <2>1
  <2>3. \/ b = x
        \/ b # U.root /\ U.color[U.parent[b]] = "BLACK"
        \/ a = "delete" /\ x \in N /\ U.parent[b] = x
    BY <1>5, <2>2 DEF Reds
  <2>4. CASE b = x
    BY <1>3, <2>2, <2>4
  <2>5. CASE b # U.root /\ U.color[U.parent[b]] = "BLACK"
    <3>1. PICK q : q = U.parent[b]
      OBVIOUS
    <3>2. q \in N
      BY <2>2, <2>5, <3>1, AboveOf
    <3>3. m # T.root
      BY <1>1, <1>2, <1>4, <2>2, <2>5
    <3> QED  BY <1>4, <2>2, <2>5, <3>1, <3>2, <3>3
  <2>6. CASE a = "delete" /\ x \in N /\ U.parent[b] = x
    BY <1>2, <1>3, <1>4, <2>2, <2>6
  <2> QED  BY <2>3, <2>4, <2>5, <2>6
\* x is below the same node as before, and on the same side.
<1>8. ASSUME a = "delete", ~ (x = U.root /\ U.parent[x] = Nil)
      PROVE  /\ U.parent[x] \in N /\ T.parent[x] = Rn(n, y, U.parent[x])
             /\ SideOf(T, x) = SideOf(U, x) /\ SideOf(U, x) \in Sides
             /\ x # T.root /\ T.child[T.parent[x]][SideOf(T, x)] = x
  <2>1. PICK q, v : q = U.parent[x] /\ SideOf(U, x) = v
    OBVIOUS
  <2>2. x # U.root /\ q \in N /\ U.child[q][v] = x
    BY <1>5, <1>8, <2>1 DEF Running
  <2>3. v \in Sides
    BY <2>1 DEF SideOf, Sides
  <2>4. T.parent[x] = Rn(n, y, q) /\ T.child[Rn(n, y, q)][v] = x
        /\ T.child[Rn(n, y, q)]["left"] = Rn(n, y, U.child[q]["left"])
    BY <1>3, <1>4, <1>8, <2>1, <2>2, <2>3, TwoSides
  <2>5. x = Rn(n, y, U.child[q]["left"]) <=> x = U.child[q]["left"]
    BY <1>3 DEF Rn
  <2>6. SideOf(T, x) = v
    BY <2>1, <2>4, <2>5 DEF SideOf
  <2>7. x # T.root
    <3>1. U.root # y
      BY <1>1
    <3> QED  BY <1>3, <1>4, <2>2, <3>1 DEF Rn
  <2> QED  BY <2>1, <2>2, <2>3, <2>4, <2>6, <2>7
<1>9. ASSUME a = "delete", x = U.root, U.parent[x] = Nil
      PROVE  x = T.root /\ T.parent[x] = Nil
  BY <1>3, <1>4, <1>9
<1>10. Running(T, O, a, x)
  <2>1. a = "idle" => x = Nil
    BY <1>5 DEF Running
  <2>2. a = "delete" => x \in O \cup {Nil}
    BY <1>2, <1>3, <1>5 DEF Running
  <2>3. ASSUME a = "delete"
        PROVE  \/ x = T.root /\ T.parent[x] = Nil
               \/ /\ x # T.root /\ T.parent[x] \in O
                  /\ T.child[T.parent[x]][SideOf(T, x)] = x
    BY <1>2, <1>8, <1>9, <2>3
  <2> QED  BY <2>1, <2>2, <2>3 DEF Running
<1>11. PICK q, v, w : q = ShortAt(U, a, x) /\ SideOf(U, x) = v /\ w = Rn(n, y, q)
  OBVIOUS
<1>12. PICK k : k = [m \in O \cup {Nil} |-> h[Rn(y, n, m)]]
  BY ZenonT(40)
<1>13. /\ h \in [N \cup {Nil} -> Nat] /\ h[Nil] = 1 /\ \A m \in N : 1 <= h[m]
  BY <1>6 DEF Counted
<1>14. /\ k \in [O \cup {Nil} -> Nat] /\ k[Nil] = 1 /\ \A m \in O : 1 <= k[m]
       /\ \A m \in N \cup {Nil} : k[Rn(n, y, m)] = h[m]
  <2>1. \A m \in O \cup {Nil} : Rn(y, n, m) \in N \cup {Nil} /\ k[m] = h[Rn(y, n, m)]
    BY <1>2, <1>3, <1>12
  <2>2. \A m \in O \cup {Nil} : k[m] \in Nat
    BY <1>13, <2>1
  <2>3. k \in [O \cup {Nil} -> Nat]
    BY <1>12, <2>2
  <2> QED  BY <1>2, <1>3, <1>13, <2>1, <2>3
<1>15. q \in N \cup {Nil}
  BY <1>5, <1>11 DEF ShortAt, Running
<1>16. Counted(T, O, k, w, v)
  <2>1. ASSUME NEW m \in O, NEW r \in Sides
        PROVE  /\ T.child[m][r] \in O \cup {Nil}
               /\ ~ (m = w /\ r = v) => k[m] = k[T.child[m][r]] + One(T, m)
               /\ m = w /\ r = v => k[m] = k[T.child[m][r]] + One(T, m) + 1
    <3>1. PICK b, c : b = Rn(y, n, m) /\ c = U.child[b][r]
      OBVIOUS
    <3>2. b \in N /\ m = Rn(n, y, b) /\ b # y
      BY <1>2, <3>1
    <3>3. T.child[m][r] = Rn(n, y, c) /\ One(T, m) = One(U, b)
      BY <1>4, <3>1, <3>2 DEF One
    <3>4. /\ c \in N \cup {Nil}
          /\ ~ (b = q /\ r = v) => h[b] = h[c] + One(U, b)
          /\ b = q /\ r = v => h[b] = h[c] + One(U, b) + 1
      BY <1>6, <1>11, <3>1, <3>2, CountedAt
    <3>5. m = w <=> b = q
      <4>1. q # y
        BY <1>1, <1>15
      <4> QED  BY <1>2, <1>11, <3>2, <4>1
    <3>6. k[m] = h[b] /\ k[T.child[m][r]] = h[c] /\ T.child[m][r] \in O \cup {Nil}
      BY <1>2, <1>3, <1>14, <3>2, <3>3, <3>4
    <3> QED  BY <3>3, <3>4, <3>5, <3>6
  <2>2. O \subseteq Nodes /\ k \in [O \cup {Nil} -> Nat] /\ k[Nil] = 1 /\ \A m \in O : 1 <= k[m]
    BY <1>1, <1>14
  <2> QED  BY ZenonT(40), <2>1, <2>2, CountedBy
<1>17. \E f : Counted(T, O, f, ShortAt(T, a, x), SideOf(T, x))
  <2>1. CASE a = "delete" /\ ~ (x = U.root /\ U.parent[x] = Nil)
    <3>1. ShortAt(T, a, x) = w /\ SideOf(T, x) = v
      BY <1>8, <1>11, <2>1 DEF ShortAt
    <3> QED  BY <1>16, <3>1
  <2>2. CASE ~ (a = "delete" /\ ~ (x = U.root /\ U.parent[x] = Nil))
    <3>1. ShortAt(T, a, x) = Nil /\ w = Nil
      BY <1>3, <1>9, <1>11, <2>2 DEF ShortAt
    <3>2. \A m \in O : m # Nil
      BY <1>1
    <3>3. Counted(T, O, k, Nil, SideOf(T, x))
      BY <1>16, <3>1, <3>2 DEF Counted
    <3> QED  BY <3>1, <3>3
  <2> QED  BY <2>1, <2>2
<1> QED  BY ZenonT(40), <1>4, <1>5, <1>7, <1>10, <1>17 DEF Colored

\* A node n with two children, the next node y, and the links around them.
Beside(t, M, n, l, r, y, x, p, z, q, v) ==
    /\ n \in M /\ l \in M /\ r \in M /\ y \in M /\ q \in M /\ v \in Sides /\ z \in Sides
    /\ t.child[n]["left"] = l /\ t.child[n]["right"] = r /\ t.child[y]["right"] = x
    /\ t.parent[n] = p /\ SideOf(t, n) = z /\ t.parent[y] = q /\ SideOf(t, y) = v
    /\ t.parent[l] = n /\ t.parent[r] = n /\ t.child[y]["left"] = Nil /\ t.child[q][v] = y
    /\ l # r /\ l # n /\ r # n /\ y # n /\ y # l /\ q # y
    /\ x # n /\ x # y /\ x # l /\ x # r /\ (x = Nil \/ x \in M)
    /\ p # n /\ p # y /\ (p = Nil <=> n = t.root)
    /\ p # Nil => p \in M /\ t.child[p][z] = n
    /\ q = n => y = r /\ v = "right"
    /\ q # n => y # r

LEMMA BesideIs ==
    ASSUME NEW t, NEW M, NEW L, NEW pos, NEW bd, Laid(t, M, L, pos, bd),
           NEW n \in M, NEW l, t.child[n]["left"] = l, l # Nil,
           NEW r, t.child[n]["right"] = r, r # Nil, NEW y, y = Most(t, r, "left"),
           NEW x, t.child[y]["right"] = x, NEW p, t.parent[n] = p, NEW z, SideOf(t, n) = z,
           NEW q, t.parent[y] = q, NEW v, SideOf(t, y) = v
    PROVE  Beside(t, M, n, l, r, y, x, p, z, q, v) /\ pos[y] = pos[n] + 1
<1>0. "left" \in Sides /\ "right" \in Sides /\ Other("left") = "right" /\ Other("right") = "left"
  BY TwoSides
<1>1. /\ l \in M /\ l # n /\ t.parent[l] = n /\ bd[l]["right"] = pos[n]
      /\ t.child[n]["right"] # l
  BY <1>0, ChildOf
<1>2. r \in M /\ r # n /\ t.parent[r] = n /\ bd[r]["left"] = pos[n]
  BY <1>0, ChildOf
<1>3. y \in M /\ t.child[y]["left"] = Nil /\ bd[y]["left"] = bd[r]["left"]
  BY <1>0, <1>2, MostIs
<1>4. bd[y]["left"] = pos[y] + Dir("left")
  BY <1>0, <1>3, NoChild
<1>5. /\ pos[n] \in Int /\ pos[y] \in Int /\ pos[l] \in Int /\ n # Nil /\ y # Nil
      /\ bd[n]["left"] \in Int /\ bd[n]["left"] < pos[n]
      /\ bd[l]["left"] \in Int /\ bd[l]["left"] < pos[l] /\ pos[l] < bd[l]["right"]
  BY <1>0, <1>1, <1>3, Numbers
<1>6. pos[y] = pos[n] + 1
  BY <1>2, <1>3, <1>4, <1>5 DEF Dir
<1>7. y # n /\ y # l
  BY <1>1, <1>2, <1>3, <1>5
<1>8. x # Nil => x \in M /\ x # y /\ t.parent[x] = y /\ bd[x]["left"] = pos[y]
  BY <1>0, <1>3, ChildOf
<1>9. /\ n = t.root => p = Nil
      /\ n # t.root => p \in M /\ p # Nil /\ p # n /\ z \in Sides /\ t.child[p][z] = n
  BY ParentOf
<1>10. y # t.root
  <2> SUFFICES ASSUME y = t.root PROVE FALSE
    OBVIOUS
  <2>1. bd[y]["left"] = 0
    BY <1>5 DEF Laid
  <2>2. 1 <= pos[n]
    BY Numbers
  <2> QED  BY <1>2, <1>3, <1>5, <2>1, <2>2
<1>11. q \in M /\ q # y /\ v \in Sides /\ t.child[q][v] = y
  BY <1>3, <1>10, ParentOf
<1>12. p # y
  <2> SUFFICES ASSUME p = y PROVE FALSE
    OBVIOUS
  <2>1. n # t.root /\ z \in Sides /\ t.child[y][z] = n
    BY <1>5, <1>9
  <2>2. z = "right"
    BY <1>3, <1>5, <2>1, TwoSides
  <2>3. n = t.child[y]["right"] /\ n # Nil
    BY <1>5, <2>1, <2>2
  <2>4. bd[n]["left"] = pos[y]
    BY ZenonT(40), <1>8, <2>3
  <2> QED  BY <1>5, <1>6, <2>4
<1>13. q = n => y = r /\ v = "right"
  BY <1>7, <1>11, TwoSides
<1>14. z \in Sides
  BY DEF SideOf, Sides
<1>15. n # Nil /\ y # Nil /\ l # r
  BY <1>1, <1>5
<1>16. x # n /\ x # l /\ x # r /\ x # y
  <2>1. CASE x = Nil
    BY <1>15, <2>1
  <2>2. CASE x # Nil
    <3>1. x # n
      BY <1>8, <1>12, <2>2
    <3> QED  BY <1>1, <1>2, <1>7, <1>8, <2>2, <3>1
  <2> QED  BY <2>1, <2>2
<1>17. q # n => y # r
  BY <1>2
<1>18. p # n /\ (p = Nil <=> n = t.root) /\ (p # Nil => p \in M /\ t.child[p][z] = n)
  BY <1>9, <1>15
<1> QED  BY <1>1, <1>2, <1>3, <1>6, <1>7, <1>8, <1>11, <1>12, <1>13, <1>14, <1>15, <1>16,
            <1>17, <1>18 DEF Beside

\* What a splice leaves, field by field.
Spliced(T, t, n, l, r, y, x, p, z, q, v) ==
    /\ T \in Trees /\ T.root = IF p = Nil THEN y ELSE t.root
    /\ \A m \in Nodes, s \in Sides :
         T.child[m][s] = IF m = n THEN Nil
                         ELSE IF m = y THEN (IF s = "left" THEN l ELSE IF q = n THEN x ELSE r)
                         ELSE IF p # Nil /\ m = p /\ s = z THEN y
                         ELSE IF q # n /\ m = q /\ s = v THEN x ELSE t.child[m][s]
    /\ \A m \in Links :
         /\ T.parent[m] = IF m = n THEN Nil ELSE IF m = l THEN y ELSE IF m = y THEN p
                          ELSE IF m = x THEN (IF q = n THEN y ELSE q)
                          ELSE IF q # n /\ m = r THEN y ELSE t.parent[m]
         /\ T.color[m] = IF m = n THEN "RED" ELSE IF m = y THEN t.color[n] ELSE t.color[m]

\* One pointer set.
RaisedTo(T, t, a, c) ==
    /\ T \in Trees /\ T.root = t.root /\ T.color = t.color /\ T.child = t.child
    /\ \A m \in Links : T.parent[m] = IF m = a THEN c ELSE t.parent[m]

LEMMA UpSet ==
    ASSUME NEW t \in Trees, NEW a \in Links, NEW c \in Links, NEW T, T = [t EXCEPT !.parent[a] = c]
    PROVE  RaisedTo(T, t, a, c)
BY DEF Trees, RaisedTo

LEMMA DownSet ==
    ASSUME NEW t \in Trees, NEW a \in Nodes, NEW s \in Sides, NEW c \in Links,
           NEW T, T = [t EXCEPT !.child[a][s] = c]
    PROVE  /\ T \in Trees /\ T.root = t.root /\ T.color = t.color /\ T.parent = t.parent
           /\ \A m \in Nodes, r \in Sides :
                T.child[m][r] = IF m = a /\ r = s THEN c ELSE t.child[m][r]
BY ZenonT(40) DEF Trees

\* The tree before n is replaced.
Joint(u, t, n, r, y, x, q, v) ==
    /\ u \in Trees /\ u.root = t.root /\ u.color = t.color
    /\ \A m \in Nodes, s \in Sides :
         u.child[m][s] = IF q # n /\ m = y /\ s = "right" THEN r
                         ELSE IF q # n /\ m = q /\ s = v THEN x ELSE t.child[m][s]
    /\ \A m \in Links :
         u.parent[m] = IF q # n /\ m = r THEN y
                       ELSE IF m = x THEN (IF q = n THEN y ELSE q) ELSE t.parent[m]

LEMMA JointIs ==
    ASSUME NEW t \in Trees, NEW M, M \subseteq Nodes, NEW n, NEW l, NEW r, NEW y, NEW x, NEW p,
           NEW z, NEW q, NEW v, Beside(t, M, n, l, r, y, x, p, z, q, v),
           NEW u, u = IF t.parent[y] = n THEN [t EXCEPT !.parent[x] = y]
                      ELSE [rb_transplant(t, y, x) EXCEPT !.child[y]["right"] = r, !.parent[r] = y]
    PROVE  Joint(u, t, n, r, y, x, q, v)
<1>1. /\ x \in Links /\ y \in Links /\ r \in Links /\ q \in Links /\ y \in Nodes /\ q # Nil
      /\ t.parent[y] = q /\ SideOf(t, y) = v /\ x # r /\ q # y /\ q \in Nodes /\ "right" \in Sides
  BY RBAssumption, TwoSides DEF Beside, Links
<1>2. CASE q = n
  <2>1. u = [t EXCEPT !.parent[x] = y]
    BY <1>1, <1>2
  <2>2. /\ u \in Trees /\ u.root = t.root /\ u.color = t.color /\ u.child = t.child
        /\ \A m \in Links : u.parent[m] = IF m = x THEN y ELSE t.parent[m]
    <3>1. x \in Links /\ y \in Links
      BY <1>1
    <3>2. RaisedTo(u, t, x, y)
      BY <2>1, <3>1, UpSet
    <3> QED  BY <3>2 DEF RaisedTo
  <2>3. \A m \in Nodes, s \in Sides :
          u.child[m][s] = IF q # n /\ m = y /\ s = "right" THEN r
                          ELSE IF q # n /\ m = q /\ s = v THEN x ELSE t.child[m][s]
    <3> SUFFICES ASSUME NEW m \in Nodes, NEW s \in Sides
                 PROVE  u.child[m][s] = IF q # n /\ m = y /\ s = "right" THEN r
                          ELSE IF q # n /\ m = q /\ s = v THEN x ELSE t.child[m][s]
      OBVIOUS
    <3>1. u.child[m][s] = t.child[m][s] /\ ~ (q # n /\ m = y /\ s = "right")
          /\ ~ (q # n /\ m = q /\ s = v)
      BY ZenonT(40), <1>2, <2>2
    <3> QED  BY <3>1
  <2>4. \A m \in Links :
          u.parent[m] = IF q # n /\ m = r THEN y
                        ELSE IF m = x THEN (IF q = n THEN y ELSE q) ELSE t.parent[m]
    BY <1>2, <2>2
  <2> QED  BY <2>2, <2>3, <2>4 DEF Joint
<1>3. CASE q # n
  <2>1. PICK a : a = Replace(t, y, x)
    OBVIOUS
  <2>2. Replaced(a, t, y, x)
    BY <1>1, <2>1, ReplaceIs
  <2>3. /\ a \in Trees /\ a.parent = t.parent /\ a.color = t.color /\ a.root = t.root
        /\ \A m \in Nodes, s \in Sides :
             a.child[m][s] = IF m = q /\ s = v THEN x ELSE t.child[m][s]
    BY <1>1, <2>2 DEF Replaced
  <2>4. PICK b : b = rb_transplant(t, y, x)
    OBVIOUS
  <2>5. b = [a EXCEPT !.parent[x] = q]
    BY <1>1, <2>1, <2>4 DEF rb_transplant
  <2>6. /\ b \in Trees /\ b.color = t.color /\ b.root = t.root /\ b.child = a.child
        /\ \A m \in Links : b.parent[m] = IF m = x THEN q ELSE t.parent[m]
    BY ZenonT(40), <1>1, <2>3, <2>5 DEF Trees
  <2>7. u = [b EXCEPT !.child[y]["right"] = r, !.parent[r] = y]
    BY <1>1, <1>3, <2>4
  <2>8. /\ u \in Trees /\ u.color = b.color /\ u.root = b.root
        /\ \A m \in Nodes, s \in Sides :
             u.child[m][s] = IF m = y /\ s = "right" THEN r ELSE b.child[m][s]
        /\ \A m \in Links : u.parent[m] = IF m = r THEN y ELSE b.parent[m]
    <3>1. PICK e : e = [b EXCEPT !.child[y]["right"] = r]
      BY ZenonT(40)
    <3>2. /\ e \in Trees /\ e.root = b.root /\ e.color = b.color /\ e.parent = b.parent
          /\ \A m \in Nodes, s \in Sides :
               e.child[m][s] = IF m = y /\ s = "right" THEN r ELSE b.child[m][s]
      BY <1>1, <2>6, <3>1, DownSet
    <3>3. u = [e EXCEPT !.parent[r] = y]
      BY ZenonT(40), <2>7, <3>1
    <3>4. /\ u \in Trees /\ u.root = e.root /\ u.color = e.color /\ u.child = e.child
          /\ \A m \in Links : u.parent[m] = IF m = r THEN y ELSE e.parent[m]
      <4>1. e \in Trees /\ r \in Links /\ y \in Links
        BY <1>1, <3>2
      <4>2. RaisedTo(u, e, r, y)
        BY <3>3, <4>1, UpSet
      <4> QED  BY <4>2 DEF RaisedTo
    <3> QED  BY ZenonT(40), <3>2, <3>4
  <2> QED  BY <1>3, <2>3, <2>6, <2>8 DEF Joint
<1> QED  BY <1>2, <1>3

LEMMA SpliceIs ==
    ASSUME NEW t \in Trees, NEW M, M \subseteq Nodes, NEW n, NEW l, NEW r, NEW y, NEW x, NEW p,
           NEW z, NEW q, NEW v, Beside(t, M, n, l, r, y, x, p, z, q, v),
           NEW T, T = rb_init_node(Splice(t, n, y), n)
    PROVE  Spliced(T, t, n, l, r, y, x, p, z, q, v)
<1>1. /\ n \in Nodes /\ l \in Nodes /\ r \in Nodes /\ y \in Nodes /\ n \in Links /\ l \in Links
      /\ r \in Links /\ y \in Links /\ p \in Links /\ x \in Links /\ n # Nil /\ Nil \in Links
      /\ "left" \in Sides /\ "right" \in Sides
  BY RBAssumption, TwoSides DEF Beside, Links, Trees
<1>2. /\ t.child[n]["left"] = l /\ t.child[n]["right"] = r /\ t.child[y]["right"] = x
      /\ t.parent[n] = p /\ SideOf(t, n) = z /\ n # x /\ n # r /\ n # l /\ n # y /\ y # l
      /\ y # p /\ y # x /\ l # x /\ l # r /\ x # r /\ z \in Sides /\ v \in Sides
      /\ (q # n => y # r) /\ (q = n => y = r)
      /\ (p # Nil => t.child[p][z] = n /\ p \in Nodes) /\ t.child[q][v] = y
  BY DEF Beside
<1>3. PICK u : u = IF t.parent[y] = n THEN [t EXCEPT !.parent[x] = y]
                   ELSE [rb_transplant(t, y, x) EXCEPT !.child[y]["right"] = r, !.parent[r] = y]
  BY ZenonT(40)
<1>4. Joint(u, t, n, r, y, x, q, v)
  BY ZenonT(40), <1>3, JointIs
<1>5. PICK b : b = rb_transplant(u, n, y)
  OBVIOUS
<1>6. PICK c, d : c = t.color[n] /\ d = Splice(t, n, y)
  OBVIOUS
<1>7. d = [b EXCEPT !.child[y]["left"] = l, !.parent[l] = y, !.color[y] = c]
  <2>1. d = [rb_transplant(IF t.parent[y] = n THEN [t EXCEPT !.parent[t.child[y]["right"]] = y]
                           ELSE [rb_transplant(t, y, t.child[y]["right"]) EXCEPT
                                   !.child[y]["right"] = t.child[n]["right"],
                                   !.parent[t.child[n]["right"]] = y], n, y)
               EXCEPT !.child[y]["left"] = t.child[n]["left"], !.parent[t.child[n]["left"]] = y,
                      !.color[y] = t.color[n]]
    BY ZenonT(40), <1>6 DEF Splice
  <2>2. u = IF t.parent[y] = n THEN [t EXCEPT !.parent[t.child[y]["right"]] = y]
            ELSE [rb_transplant(t, y, t.child[y]["right"]) EXCEPT
                    !.child[y]["right"] = t.child[n]["right"],
                    !.parent[t.child[n]["right"]] = y]
    BY SMTT(30), <1>2, <1>3
  <2>3. d = [rb_transplant(u, n, y)
               EXCEPT !.child[y]["left"] = t.child[n]["left"], !.parent[t.child[n]["left"]] = y,
                      !.color[y] = t.color[n]]
    BY ONLY ZenonT(40), <2>1, <2>2
  <2> QED  BY <1>2, <1>5, <1>6, <2>3
<1>8. u.parent[n] = p /\ u \in Trees
  BY <1>1, <1>2, <1>4 DEF Joint
<1>9. p # Nil => SideOf(u, n) = z
  <2> SUFFICES ASSUME p # Nil PROVE SideOf(u, n) = z
    OBVIOUS
  <2>1. t.child[p][z] = n /\ p \in Nodes /\ (z = "left" \/ z = "right")
    BY <1>2, TwoSides
  <2>2. u.child[p]["left"] = IF q # n /\ p = q /\ "left" = v THEN x ELSE t.child[p]["left"]
    BY <1>1, <1>2, <1>4, <2>1 DEF Joint
  <2>3. CASE z = "left"
    BY <1>2, <1>8, <2>1, <2>2, <2>3 DEF SideOf
  <2>4. CASE z = "right"
    <3>1. t.child[p]["left"] # n
      BY <1>2, <2>4 DEF SideOf
    <3> QED  BY <1>2, <1>8, <2>2, <2>4, <3>1 DEF SideOf
  <2> QED  BY <2>1, <2>3, <2>4
<1>10. PICK a : a = Replace(u, n, y)
  OBVIOUS
<1>11. Replaced(a, u, n, y)
  BY <1>1, <1>8, <1>10, ReplaceIs
<1>12. /\ a \in Trees /\ a.parent = u.parent /\ a.color = t.color
       /\ a.root = IF p = Nil THEN y ELSE t.root
       /\ \A m \in Nodes, s \in Sides :
            a.child[m][s] = IF p # Nil /\ m = p /\ s = z THEN y ELSE u.child[m][s]
  <2>1. u.root = t.root /\ u.color = t.color
    BY <1>4 DEF Joint
  <2> QED  BY <1>8, <1>9, <1>11, <2>1 DEF Replaced
<1>13. b = [a EXCEPT !.parent[y] = p]
  BY <1>5, <1>8, <1>10 DEF rb_transplant
<1>14. /\ b \in Trees /\ b.root = a.root /\ b.child = a.child /\ b.color = a.color
       /\ \A m \in Links : b.parent[m] = IF m = y THEN p ELSE u.parent[m]
  BY ZenonT(40), <1>1, <1>12, <1>13 DEF Trees
<1>15. c \in {"RED", "BLACK"}
  BY <1>1, <1>6 DEF Trees
<1>16. /\ d \in Trees /\ d.root = b.root
       /\ \A m \in Nodes, s \in Sides :
            d.child[m][s] = IF m = y /\ s = "left" THEN l ELSE b.child[m][s]
       /\ \A m \in Links : /\ d.parent[m] = IF m = l THEN y ELSE b.parent[m]
                           /\ d.color[m] = IF m = y THEN c ELSE b.color[m]
  BY ZenonT(40), <1>1, <1>7, <1>14, <1>15 DEF Trees
<1>17. T = rb_init_node(d, n)
  BY <1>6
<1>18. /\ T \in Trees /\ T.root = d.root
       /\ \A m \in Nodes, s \in Sides : T.child[m][s] = IF m = n THEN Nil ELSE d.child[m][s]
       /\ \A m \in Links : /\ T.parent[m] = IF m = n THEN Nil ELSE d.parent[m]
                           /\ T.color[m] = IF m = n THEN "RED" ELSE d.color[m]
  <2>1. d \in Trees /\ n \in Nodes
    BY <1>1, <1>16
  <2> QED  BY <1>17, <2>1, InitNodeIs
<1>19. \A m \in Nodes, s \in Sides :
         T.child[m][s] = IF m = n THEN Nil
                         ELSE IF m = y THEN (IF s = "left" THEN l ELSE IF q = n THEN x ELSE r)
                         ELSE IF p # Nil /\ m = p /\ s = z THEN y
                         ELSE IF q # n /\ m = q /\ s = v THEN x ELSE t.child[m][s]
  <2> SUFFICES ASSUME NEW m \in Nodes, NEW s \in Sides
               PROVE  T.child[m][s] = IF m = n THEN Nil
                         ELSE IF m = y THEN (IF s = "left" THEN l ELSE IF q = n THEN x ELSE r)
                         ELSE IF p # Nil /\ m = p /\ s = z THEN y
                         ELSE IF q # n /\ m = q /\ s = v THEN x ELSE t.child[m][s]
    OBVIOUS
  <2>1. u.child[m][s] = IF q # n /\ m = y /\ s = "right" THEN r
                        ELSE IF q # n /\ m = q /\ s = v THEN x ELSE t.child[m][s]
    BY <1>4 DEF Joint
  <2>2. s = "left" \/ s = "right"
    BY TwoSides
  <2>3. q # y
    BY DEF Beside
  <2>4. T.child[m][s] = IF m = n THEN Nil ELSE IF m = y /\ s = "left" THEN l
                        ELSE IF p # Nil /\ m = p /\ s = z THEN y ELSE u.child[m][s]
    BY <1>12, <1>14, <1>16, <1>18
  <2> QED  BY <1>2, <2>1, <2>2, <2>3, <2>4
<1>20. \A m \in Links :
         /\ T.parent[m] = IF m = n THEN Nil ELSE IF m = l THEN y ELSE IF m = y THEN p
                          ELSE IF m = x THEN (IF q = n THEN y ELSE q)
                          ELSE IF q # n /\ m = r THEN y ELSE t.parent[m]
         /\ T.color[m] = IF m = n THEN "RED" ELSE IF m = y THEN t.color[n] ELSE t.color[m]
  <2> SUFFICES ASSUME NEW m \in Links
               PROVE  /\ T.parent[m] = IF m = n THEN Nil ELSE IF m = l THEN y ELSE IF m = y THEN p
                                       ELSE IF m = x THEN (IF q = n THEN y ELSE q)
                                       ELSE IF q # n /\ m = r THEN y ELSE t.parent[m]
                      /\ T.color[m] = IF m = n THEN "RED" ELSE IF m = y THEN t.color[n] ELSE t.color[m]
    OBVIOUS
  <2>1. u.parent[m] = IF q # n /\ m = r THEN y
                      ELSE IF m = x THEN (IF q = n THEN y ELSE q) ELSE t.parent[m]
    BY <1>4 DEF Joint
  <2>2. T.parent[m] = IF m = n THEN Nil ELSE IF m = l THEN y ELSE IF m = y THEN p ELSE u.parent[m]
    BY <1>14, <1>16, <1>18
  <2>3. T.color[m] = IF m = n THEN "RED" ELSE IF m = y THEN c ELSE t.color[m]
    BY <1>12, <1>14, <1>16, <1>18
  <2> QED  BY <1>2, <1>6, <2>1, <2>2, <2>3
<1>21. T.root = IF p = Nil THEN y ELSE t.root
  BY <1>12, <1>14, <1>16, <1>18
<1> QED  BY <1>18, <1>19, <1>20, <1>21 DEF Spliced

\* A splice takes y out and puts it in the place of n.
LEMMA SpliceRenames ==
    ASSUME NEW t, NEW M, NEW L, NEW pos, NEW bd, Laid(t, M, L, pos, bd),
           NEW n, NEW l, NEW r, NEW y, NEW x, NEW p, NEW z, NEW q, NEW v,
           Beside(t, M, n, l, r, y, x, p, z, q, v),
           NEW T, Spliced(T, t, n, l, r, y, x, p, z, q, v),
           NEW U, Cut(U, t, y, x, q, v), NEW N, N = M \ {y}
    PROVE  Renamed(T, U, N, n, y) /\ T.parent[x] = Rn(n, y, U.parent[x])
<1>1. /\ M \subseteq Nodes /\ Nil \notin Nodes /\ t.root # Nil /\ t.root \in M
      /\ \A m \in M : m # Nil /\ m \in Links
      /\ \A m \in Nodes \ M : t.parent[m] = Nil /\ \A s \in Sides : t.child[m][s] = Nil
  <2>1. n \in M
    BY DEF Beside
  <2> QED  BY <2>1, RBAssumption DEF Laid, Links
<1>2. /\ n \in M /\ l \in M /\ r \in M /\ y \in M /\ q \in M /\ v \in Sides /\ z \in Sides
      /\ t.child[n]["left"] = l /\ t.child[n]["right"] = r /\ t.child[y]["right"] = x
      /\ t.parent[n] = p /\ t.parent[y] = q /\ t.parent[l] = n /\ t.parent[r] = n
      /\ t.child[q][v] = y /\ l # r /\ l # n /\ r # n /\ y # n /\ y # l /\ q # y
      /\ x # n /\ x # y /\ x # l /\ x # r /\ (x = Nil \/ x \in M) /\ p # n /\ p # y
      /\ (p = Nil <=> n = t.root) /\ (p # Nil => p \in M /\ t.child[p][z] = n)
      /\ (q = n => y = r /\ v = "right") /\ (q # n => y # r)
  BY DEF Beside
<1>3. /\ T \in Trees /\ T.root = IF p = Nil THEN y ELSE t.root
      /\ \A m \in Nodes, s \in Sides :
           T.child[m][s] = IF m = n THEN Nil
                           ELSE IF m = y THEN (IF s = "left" THEN l ELSE IF q = n THEN x ELSE r)
                           ELSE IF p # Nil /\ m = p /\ s = z THEN y
                           ELSE IF q # n /\ m = q /\ s = v THEN x ELSE t.child[m][s]
      /\ \A m \in Links :
           T.parent[m] = IF m = n THEN Nil ELSE IF m = l THEN y ELSE IF m = y THEN p
                         ELSE IF m = x THEN (IF q = n THEN y ELSE q)
                         ELSE IF q # n /\ m = r THEN y ELSE t.parent[m]
      /\ \A m \in Links :
           T.color[m] = IF m = n THEN "RED" ELSE IF m = y THEN t.color[n] ELSE t.color[m]
  BY DEF Spliced
<1>4. q # Nil /\ n # Nil /\ y # Nil
  BY <1>1, <1>2
<1>5. /\ U.root = t.root
      /\ \A m \in Nodes, s \in Sides :
           U.child[m][s] = IF m = y THEN Nil ELSE IF m = q /\ s = v THEN x ELSE t.child[m][s]
      /\ \A m \in Links : U.parent[m] = IF m = y THEN Nil ELSE IF m = x THEN q ELSE t.parent[m]
      /\ \A m \in Links : U.color[m] = IF m = y THEN "RED" ELSE t.color[m]
  BY <1>4 DEF Cut
<1>6. /\ Nil \in Links /\ x \in Links /\ Rn(n, y, Nil) = Nil /\ Rn(n, y, n) = y
      /\ \A m : m # n => Rn(n, y, m) = m
  BY <1>1, <1>2, <1>4 DEF Links, Rn
<1>7. T.color[Nil] = U.color[Nil]
  BY <1>3, <1>4, <1>5, <1>6
<1>8. T.root = Rn(n, y, U.root)
  BY <1>2, <1>3, <1>5, <1>6
<1>9. T.parent[x] = Rn(n, y, U.parent[x])
  BY <1>2, <1>3, <1>5, <1>6
<1>10. ASSUME NEW m \in N, m # n
       PROVE  /\ T.parent[m] = Rn(n, y, U.parent[m]) /\ T.color[m] = U.color[m]
              /\ \A s \in Sides : T.child[m][s] = Rn(n, y, U.child[m][s])
  <2>1. m \in M /\ m # y /\ m \in Nodes /\ m \in Links /\ m # Nil
    BY <1>1
  <2>2. T.color[m] = U.color[m]
    BY <1>3, <1>5, <1>10, <2>1
  <2>3. T.parent[m] = Rn(n, y, U.parent[m])
    <3>1. CASE m = l \/ m = x \/ m = r
      BY <1>2, <1>3, <1>5, <1>6, <1>10, <2>1, <3>1
    <3>2. CASE m # l /\ m # x /\ m # r
      <4>1. t.parent[m] # n
        <5> SUFFICES ASSUME t.parent[m] = n PROVE FALSE
          OBVIOUS
        <5>1. t.child[n]["left"] = m \/ t.child[n][Other("left")] = m
          <6>1. n \in M /\ "left" \in Sides
            BY <1>2, TwoSides
          <6> QED  BY <2>1, <6>1, Siblings
        <5> QED  BY <1>2, <3>2, <5>1, TwoSides
      <4> QED  BY <1>3, <1>5, <1>6, <1>10, <2>1, <3>2, <4>1
    <3> QED  BY <3>1, <3>2
  <2>4. ASSUME NEW s \in Sides PROVE T.child[m][s] = Rn(n, y, U.child[m][s])
    <3>1. CASE p # Nil /\ m = p /\ s = z
      <4>1. ~ (m = q /\ s = v)
        BY <1>2, <3>1
      <4> QED  BY ONLY <1>2, <1>3, <1>5, <1>6, <1>10, <2>1, <3>1, <4>1
    <3>2. CASE ~ (p # Nil /\ m = p /\ s = z) /\ m = q /\ s = v
      BY ONLY <1>2, <1>3, <1>5, <1>6, <1>10, <2>1, <3>2
    <3>3. CASE ~ (p # Nil /\ m = p /\ s = z) /\ ~ (m = q /\ s = v)
      <4>1. PICK c : t.child[m][s] = c
        OBVIOUS
      <4>2. c # n
        <5> SUFFICES ASSUME c = n PROVE FALSE
          OBVIOUS
        <5>1. n # t.root /\ m = p
          <6>1. c # Nil
            BY <1>4
          <6>2. m \in M
            BY <2>1
          <6>3. c # t.root /\ t.parent[c] = m
            BY <4>1, <6>1, <6>2, ChildOf
          <6> QED  BY <1>2, <6>3
        <5>2. t.child[p][z] = t.child[m][s] /\ t.child[m][s] # Nil /\ p \in M
          BY ZenonT(40), <1>2, <1>4, <4>1, <5>1
        <5>3. m = p /\ s = z
          BY <1>2, <2>1, <5>2, OnePlace
        <5> QED  BY <1>2, <3>3, <5>1, <5>3
      <4>3. T.child[m][s] = c /\ U.child[m][s] = c
        BY <1>3, <1>5, <1>10, <2>1, <3>3, <4>1
      <4> QED  BY <1>6, <4>2, <4>3
    <3> QED  BY <3>1, <3>2, <3>3
  <2> QED  BY <2>2, <2>3, <2>4
<1>11. /\ T.parent[y] = Rn(n, y, U.parent[n]) /\ T.color[y] = U.color[n]
       /\ \A s \in Sides : T.child[y][s] = Rn(n, y, U.child[n][s])
  <2>1. n \in Nodes /\ n \in Links /\ y \in Nodes /\ y \in Links
    BY <1>1, <1>2
  <2>2. T.parent[y] = Rn(n, y, U.parent[n]) /\ T.color[y] = U.color[n]
    BY <1>2, <1>3, <1>5, <1>6, <2>1
  <2>3. ASSUME NEW s \in Sides PROVE T.child[y][s] = Rn(n, y, U.child[n][s])
    <3>1. U.child[n][s] = IF n = q /\ s = v THEN x ELSE t.child[n][s]
      BY <1>2, <1>5, <2>1
    <3>2. T.child[y][s] = IF s = "left" THEN l ELSE IF q = n THEN x ELSE r
      BY <1>2, <1>3, <2>1
    <3>3. s = "left" \/ s = "right"
      BY TwoSides
    <3> QED  BY <1>2, <1>6, <3>1, <3>2, <3>3
  <2> QED  BY <2>2, <2>3
<1>12. \A m \in N : /\ T.parent[Rn(n, y, m)] = Rn(n, y, U.parent[m])
                    /\ T.color[Rn(n, y, m)] = U.color[m]
                    /\ \A s \in Sides : T.child[Rn(n, y, m)][s] = Rn(n, y, U.child[m][s])
  <2> SUFFICES ASSUME NEW m \in N
               PROVE  /\ T.parent[Rn(n, y, m)] = Rn(n, y, U.parent[m])
                      /\ T.color[Rn(n, y, m)] = U.color[m]
                      /\ \A s \in Sides : T.child[Rn(n, y, m)][s] = Rn(n, y, U.child[m][s])
    OBVIOUS
  <2>1. CASE m = n
    BY <1>6, <1>11, <2>1
  <2>2. CASE m # n
    <3>1. Rn(n, y, m) = m
      BY <1>6, <2>2
    <3> QED  BY <1>10, <2>2, <3>1
  <2> QED  BY <2>1, <2>2
<1>13. \A m \in Nodes \ ((N \ {n}) \cup {y}) :
         T.parent[m] = Nil /\ \A s \in Sides : T.child[m][s] = Nil
  <2> SUFFICES ASSUME NEW m \in Nodes, m \notin (N \ {n}) \cup {y}
               PROVE  T.parent[m] = Nil /\ \A s \in Sides : T.child[m][s] = Nil
    OBVIOUS
  <2>1. m \in Links /\ (m = n \/ m \notin M)
    BY DEF Links
  <2>2. CASE m = n
    BY <1>3, <2>1, <2>2
  <2>3. CASE m \notin M
    <3>1. /\ m # n /\ m # l /\ m # y /\ m # x /\ m # r /\ m # q /\ ~ (p # Nil /\ m = p)
      BY <1>1, <1>2, <2>3
    <3>2. t.parent[m] = Nil /\ \A s \in Sides : t.child[m][s] = Nil
      BY <1>1, <2>3
    <3>3. T.parent[m] = t.parent[m]
      BY <1>3, <2>1, <3>1
    <3>4. \A s \in Sides : T.child[m][s] = t.child[m][s]
      BY <1>3, <3>1
    <3> QED  BY <3>2, <3>3, <3>4
  <2> QED  BY <2>1, <2>2, <2>3
<1> QED  BY <1>3, <1>7, <1>8, <1>9, <1>12, <1>13 DEF Renamed

\* A node with one child at most taken out, and where the loop starts.
Out(U, t, M, L, pos, y, x, a, w) ==
    /\ Cut(U, t, y, x, t.parent[y], SideOf(t, y))
    /\ Form(U, M \ {y}, L - 1, [m \in M \ {y} |-> Close(pos[y], pos[m])])
    /\ Colored(U, M \ {y}, a, w) /\ a \in {"idle", "delete"} /\ w \in (M \ {y}) \cup {Nil}
    /\ a = "delete" => w = x
    /\ a = "idle" => w = Nil

LEMMA TakenOut ==
    ASSUME NEW t, NEW M, NEW L, NEW pos, NEW bd, Laid(t, M, L, pos, bd),
           Colored(t, M, "idle", Nil), NEW y \in M, NEW s \in Sides, t.child[y][s] = Nil,
           NEW x, t.child[y][Other(s)] = x,
           NEW U, U = rb_init_node(rb_transplant(t, y, x), y),
           NEW a, a = IF t.color[y] = "BLACK" THEN "delete" ELSE "idle",
           NEW w, w = IF t.color[y] = "BLACK" THEN x ELSE Nil
    PROVE  Out(U, t, M, L, pos, y, x, a, w)
<1>1. /\ t \in Trees /\ y \in Nodes /\ t.color[y] \in {"RED", "BLACK"} /\ Nil \in Links
      /\ M \subseteq Links
  BY DEF Laid, Trees, Links
<1>2. x \in Links /\ x # y
  <2>1. PICK o : Other(s) = o
    OBVIOUS
  <2>2. o \in Sides /\ t.child[y][o] = x
    BY <2>1, TwoSides
  <2>3. x # Nil => x \in M /\ x # y
    BY <2>2, ChildOf
  <2>4. y # Nil
    BY Numbers
  <2> QED  BY <1>1, <2>3, <2>4
<1>3. PICK p, z : t.parent[y] = p /\ SideOf(t, y) = z
  OBVIOUS
<1>4. Cut(U, t, y, x, p, z)
  BY <1>1, <1>2, <1>3, CutIs
<1>5. PICK po : po = [m \in M \ {y} |-> Close(pos[y], pos[m])]
  BY ZenonT(40)
<1>6. Form(U, M \ {y}, L - 1, po)
  BY <1>3, <1>4, <1>5, CutLaid
<1>7. /\ x \in (M \ {y}) \cup {Nil}
      /\ t.color[y] = "RED" => Colored(U, M \ {y}, "idle", Nil)
      /\ t.color[y] = "BLACK" => Colored(U, M \ {y}, "delete", x)
  BY <1>3, <1>4, CutColored
<1>8. /\ t.color[y] = "BLACK" => a = "delete" /\ w = x
      /\ t.color[y] # "BLACK" => a = "idle" /\ w = Nil /\ t.color[y] = "RED"
  BY <1>1
<1>9. Colored(U, M \ {y}, a, w)
  BY <1>7, <1>8
<1>10. a \in {"idle", "delete"} /\ w \in (M \ {y}) \cup {Nil} /\ (a = "delete" => w = x)
       /\ (a = "idle" => w = Nil)
  BY <1>7, <1>8
<1> QED  BY <1>3, <1>4, <1>5, <1>6, <1>9, <1>10 DEF Out

\* Without n the keys stay sorted.
LEMMA SortedClosed ==
    ASSUME NEW t, NEW M, NEW L, NEW pos, NEW bd, Laid(t, M, L, pos, bd), Sorted(M, pos),
           NEW n \in M, NEW po, po = [m \in M \ {n} |-> Close(pos[n], pos[m])]
    PROVE  Sorted(M \ {n}, po)
<1> SUFFICES ASSUME NEW a \in M \ {n}, NEW b \in M \ {n}, po[a] < po[b]
             PROVE  Key[a] <= Key[b]
  BY DEF Sorted
<1>1. pos[a] \in Int /\ pos[b] \in Int /\ pos[n] \in Int /\ pos[a] # pos[n] /\ pos[b] # pos[n]
  <2>1. a # n /\ b # n
    OBVIOUS
  <2> QED  BY <2>1, Numbers DEF Laid
<1>2. pos[a] < pos[b]
  BY <1>1 DEF Close
<1> QED  BY <1>2 DEF Sorted

\* What a call of rb_delete does: n is gone, and nothing else moves.
LEMMA DeleteKeeps ==
    ASSUME NEW M, NEW L, NEW pos, Form(tree, M, L, pos), Sorted(M, pos),
           Colored(tree, M, at, nd), NEW n \in Nodes, rb_delete(n),
           NEW po, po = [m \in M \ {n} |-> Close(pos[n], pos[m])]
    PROVE  /\ at = "idle" /\ n \in M /\ at' \in {"idle", "delete"}
           /\ nd' \in (M \ {n}) \cup {Nil}
           /\ Form(tree', M \ {n}, L - 1, po) /\ Sorted(M \ {n}, po)
           /\ Colored(tree', M \ {n}, at', nd')
<1>1. PICK bd : Laid(tree, M, L, pos, bd)
  BY DEF Form
<1>2. at = "idle" /\ n \in M
  BY MembersAre DEF rb_delete
<1>3. nd = Nil /\ Colored(tree, M, "idle", Nil)
  BY <1>2 DEF Colored, Running
<1>4. tree \in Trees /\ M \subseteq Nodes /\ Nil \notin Nodes
  BY <1>1, RBAssumption DEF Laid
<1>5. Sorted(M \ {n}, po)
  BY <1>1, <1>2, SortedClosed
<1>6. PICK l, r : tree.child[n]["left"] = l /\ tree.child[n]["right"] = r
  BY ZenonT(40)
<1>7. PICK T, b, w : T = tree' /\ b = at' /\ w = nd'
  OBVIOUS
<1>8. CASE ~ (l # Nil /\ r # Nil)
  <2>1. PICK x, s : x = (IF l = Nil THEN r ELSE l) /\ s = (IF l = Nil THEN "left" ELSE "right")
    OBVIOUS
  <2>2. s \in Sides /\ tree.child[n][s] = Nil /\ tree.child[n][Other(s)] = x
    BY <1>6, <1>8, <2>1, TwoSides
  <2>3. T = rb_init_node(rb_transplant(tree, n, x), n)
    BY <1>6, <1>7, <1>8, <2>1 DEF rb_delete
  <2>4. /\ b = IF tree.color[n] = "BLACK" THEN "delete" ELSE "idle"
        /\ w = IF tree.color[n] = "BLACK" THEN x ELSE Nil
    BY <1>2, <1>3, <1>6, <1>7, <1>8, <2>1 DEF rb_delete, Unpaired
  <2>5. Out(T, tree, M, L, pos, n, x, b, w)
    BY <1>1, <1>2, <1>3, <2>2, <2>3, <2>4, TakenOut
  <2>6. /\ Form(T, M \ {n}, L - 1, po) /\ Colored(T, M \ {n}, b, w)
        /\ b \in {"idle", "delete"} /\ w \in (M \ {n}) \cup {Nil}
    BY <2>5 DEF Out
  <2> QED  BY <1>2, <1>5, <1>7, <2>6
<1>9. CASE l # Nil /\ r # Nil
  <2>1. PICK y : y = Most(tree, r, "left")
    OBVIOUS
  <2>2. PICK x : tree.child[y]["right"] = x
    OBVIOUS
  <2>3. T = rb_init_node(Splice(tree, n, y), n)
    BY <1>6, <1>7, <1>9, <2>1 DEF rb_delete
  <2>4. /\ b = IF tree.color[y] = "BLACK" THEN "delete" ELSE "idle"
        /\ w = IF tree.color[y] = "BLACK" THEN x ELSE Nil
    BY <1>2, <1>3, <1>6, <1>7, <1>9, <2>1, <2>2 DEF rb_delete, Unpaired
  <2>5. PICK p, z : tree.parent[n] = p /\ SideOf(tree, n) = z
    OBVIOUS
  <2>6. PICK q, v : tree.parent[y] = q /\ SideOf(tree, y) = v
    OBVIOUS
  <2>7. Beside(tree, M, n, l, r, y, x, p, z, q, v) /\ pos[y] = pos[n] + 1
    BY <1>1, <1>2, <1>6, <1>9, <2>1, <2>2, <2>5, <2>6, BesideIs
  <2>8. PICK U : U = rb_init_node(rb_transplant(tree, y, x), y)
    OBVIOUS
  <2>9. /\ y \in M /\ y # n /\ tree.child[y]["left"] = Nil /\ x # n /\ x # y
        /\ "left" \in Sides /\ Other("left") = "right"
    BY <2>7, TwoSides DEF Beside
  <2>10. Out(U, tree, M, L, pos, y, x, b, w)
    <3>1. PICK s : s = "left"
      OBVIOUS
    <3>2. s \in Sides /\ tree.child[y][s] = Nil /\ tree.child[y][Other(s)] = x
      BY <2>2, <2>9, <3>1
    <3>3. y \in M
      BY <2>9
    <3> QED  BY <1>1, <1>3, <2>4, <2>8, <3>2, <3>3, TakenOut
  <2>11. PICK N, K, pu : N = M \ {y} /\ K = L - 1 /\ pu = [m \in M \ {y} |-> Close(pos[y], pos[m])]
    BY ZenonT(40)
  <2>12. /\ Cut(U, tree, y, x, q, v) /\ Form(U, N, K, pu) /\ Colored(U, N, b, w)
         /\ b \in {"idle", "delete"} /\ w \in N \cup {Nil}
         /\ (b = "delete" => w = x) /\ (b = "idle" => w = Nil)
    BY <2>6, <2>10, <2>11 DEF Out
  <2>13. Spliced(T, tree, n, l, r, y, x, p, z, q, v)
    BY <1>4, <2>3, <2>7, SpliceIs
  <2>14. Renamed(T, U, N, n, y) /\ T.parent[x] = Rn(n, y, U.parent[x])
    BY <1>1, <2>7, <2>11, <2>12, <2>13, SpliceRenames
  <2>15. PICK be : Laid(U, N, K, pu, be)
    BY <2>12 DEF Form
  <2>16. n \in N /\ y \in Nodes /\ y \notin N /\ M \ {n} = (N \ {n}) \cup {y}
    BY <1>2, <1>4, <2>9, <2>11
  <2>17. po = [m \in M \ {n} |-> pu[Rn(y, n, m)]]
    <3>1. \A m \in M : pos[m] \in Int /\ (m # y => pos[m] # pos[y])
      BY <1>1, <2>9, Numbers DEF Laid
    <3>2. \A m \in M \ {n} : Close(pos[n], pos[m]) = pu[Rn(y, n, m)]
      <4> SUFFICES ASSUME NEW m \in M \ {n} PROVE Close(pos[n], pos[m]) = pu[Rn(y, n, m)]
        OBVIOUS
      <4>1. CASE m = y
        <5>1. pu[Rn(y, n, m)] = Close(pos[y], pos[n])
          BY <1>2, <2>9, <2>11, <4>1 DEF Rn
        <5> QED  BY <1>2, <2>7, <3>1, <4>1, <5>1 DEF Close
      <4>2. CASE m # y
        <5>1. pu[Rn(y, n, m)] = Close(pos[y], pos[m])
          BY <2>11, <4>2 DEF Rn
        <5> QED  BY <1>2, <2>7, <3>1, <4>2, <5>1 DEF Close
      <4> QED  BY <4>1, <4>2
    <3> QED  BY <3>2
  <2>18. Form(T, M \ {n}, K, po)
    BY <2>14, <2>15, <2>16, <2>17, RenameLaid
  <2>19. Colored(T, M \ {n}, b, w)
    <3>1. w # n /\ w # y
      <4>1. n # Nil /\ y # Nil
        BY <1>2, <1>4, <2>9
      <4> QED  BY <2>9, <2>12, <4>1
    <3>2. b = "delete" => T.parent[w] = Rn(n, y, U.parent[w])
      BY <2>12, <2>14
    <3>3. b \in {"idle", "delete"} /\ Colored(U, N, b, w) /\ Renamed(T, U, N, n, y)
      BY <2>12, <2>14
    <3> QED  BY <2>15, <2>16, <3>1, <3>2, <3>3, RenameColored
  <2>20. w \in (M \ {n}) \cup {Nil}
    BY <2>9, <2>11, <2>12, <2>4
  <2> QED  BY <1>2, <1>5, <1>7, <2>11, <2>12, <2>18, <2>19, <2>20
<1> QED  BY <1>8, <1>9

-----------------------------------------------------------------------------
(* The invariant.                                                           *)

LEMMA InitHolds == ASSUME Init PROVE RBInv
<1>1. PICK pos : pos = [m \in {} |-> 0]
  OBVIOUS
<1>2. PICK bd : bd = [m \in {} |-> [s \in Sides |-> 0]]
  OBVIOUS
<1>3. PICK t : t = tree
  OBVIOUS
<1>4. /\ t.root = Nil /\ t.child = [n \in Nodes |-> [s \in Sides |-> Nil]]
      /\ t.parent = [n \in Links |-> Nil]
      /\ t.color = [n \in Links |-> IF n = Nil THEN "BLACK" ELSE "RED"]
      /\ t = [root |-> t.root, child |-> t.child, parent |-> t.parent, color |-> t.color]
      /\ at = "idle" /\ nd = Nil
  BY <1>3 DEF Init, Links
<1>5. Nil \in Links
  BY DEF Links
<1>6. t \in Trees
  <2>1. t.child \in [Nodes -> [Sides -> Links]] /\ t.parent \in [Links -> Links]
        /\ t.color \in [Links -> {"RED", "BLACK"}] /\ t.root \in Links
    BY <1>4, <1>5
  <2> QED  BY <1>4, <2>1 DEF Trees
<1>7. /\ pos \in [{} -> 1 .. 0] /\ bd \in [{} -> [Sides -> 0 .. 0 + 1]]
      /\ \A i \in 1 .. 0 : \E m \in {} : pos[m] = i
  BY <1>1, <1>2
<1>8. \A n \in Nodes : t.parent[n] = Nil /\ \A s \in Sides : t.child[n][s] = Nil
  BY <1>4 DEF Links
<1>9. Laid(t, {}, 0, pos, bd)
  BY <1>4, <1>6, <1>7, <1>8 DEF Laid
<1>10. Colored(t, {}, "idle", Nil)
  <2>1. PICK N : N = {}
    BY ZenonT(40)
  <2>2. PICK h : h = [m \in N \cup {Nil} |-> 1]
    BY ZenonT(40)
  <2>3. h \in [N \cup {Nil} -> Nat] /\ h[Nil] = 1 /\ \A m \in N : FALSE
    BY <2>1, <2>2
  <2>4. Counted(t, N, h, Nil, Nil)
    BY <2>3 DEF Counted
  <2>5. t.color[Nil] = "BLACK" /\ Plain(t, N) /\ N \subseteq Nodes
    BY <1>4, <1>5, <2>3 DEF Plain
  <2>6. Colored(t, N, "idle", Nil)
    BY <2>4, <2>5, IdleColored
  <2> QED  BY <2>1, <2>6
<1>11. Sorted({}, pos)
  BY DEF Sorted
<1>12. Form(t, {}, 0, pos)
  BY <1>9 DEF Form
<1> QED  BY <1>3, <1>4, <1>5, <1>10, <1>11, <1>12 DEF RBInv

LEMMA NextHolds == ASSUME RBInv, [Next]_vars PROVE RBInv'
<1>1. PICK M, L, pos : Form(tree, M, L, pos) /\ Sorted(M, pos) /\ Colored(tree, M, at, nd)
  BY DEF RBInv
<1>2. M \subseteq Nodes /\ \A N : N \subseteq Nodes => \A m \in N \cup {Nil} : m \in Links
  BY <1>1, MembersAre DEF Links
<1> SUFFICES /\ at' \in {"idle", "insert", "delete"} /\ nd' \in Links
             /\ \E N, K, po : Form(tree', N, K, po) /\ Sorted(N, po) /\ Colored(tree', N, at', nd')
  BY DEF RBInv
<1>3. ASSUME NEW n \in Nodes, rb_insert(n)
      PROVE  /\ at' \in {"idle", "insert", "delete"} /\ nd' \in Links
             /\ \E N, K, po : Form(tree', N, K, po) /\ Sorted(N, po) /\ Colored(tree', N, at', nd')
  <2>1. at = "idle" => nd = Nil
    BY <1>1 DEF Colored, Running
  <2>2. /\ at = "idle" /\ at' = "insert" /\ nd' = n /\ n \notin M /\ L \in Nat
        /\ \E po, g : /\ Form(tree', M \cup {n}, L + 1, po) /\ Sorted(M \cup {n}, po)
                      /\ Colored(tree', M \cup {n}, at', nd')
                      /\ g \in 0 .. L /\ Moved(po, pos, M, n, g)
                      /\ Parts(M, pos, n, g, g + 1)
    BY <1>1, <1>3, <2>1, InsertKeeps
  <2> QED  BY <2>2 DEF Links
<1>4. ASSUME NEW n \in Nodes, rb_delete(n)
      PROVE  /\ at' \in {"idle", "insert", "delete"} /\ nd' \in Links
             /\ \E N, K, po : Form(tree', N, K, po) /\ Sorted(N, po) /\ Colored(tree', N, at', nd')
  <2>1. PICK po : po = [m \in M \ {n} |-> Close(pos[n], pos[m])]
    BY ZenonT(40)
  <2>2. /\ at' \in {"idle", "delete"} /\ nd' \in (M \ {n}) \cup {Nil}
        /\ Form(tree', M \ {n}, L - 1, po) /\ Sorted(M \ {n}, po)
        /\ Colored(tree', M \ {n}, at', nd')
    BY <1>1, <1>4, <2>1, DeleteKeeps
  <2>3. nd' \in Links
    BY <1>2, <2>2
  <2> QED  BY <2>2, <2>3
<1>5. CASE rb_insert_fixup
  <2>1. /\ Form(tree', M, L, pos) /\ Colored(tree', M, at', nd')
        /\ at = "insert" /\ at' = at /\ nd' \in M
    BY <1>1, <1>5, InsertRound
  <2> QED  BY <1>1, <1>2, <2>1
<1>6. CASE InsertReturns
  <2>1. /\ Form(tree', M, L, pos) /\ Colored(tree', M, at', nd') /\ at' = "idle" /\ nd' = Nil
    BY <1>1, <1>6, InsertEnds
  <2> QED  BY <1>1, <1>2, <2>1
<1>7. CASE rb_delete_fixup
  <2>1. /\ Form(tree', M, L, pos) /\ Colored(tree', M, at', nd')
        /\ at = "delete" /\ at' = at /\ nd' \in M
    BY <1>1, <1>7, DeleteRound
  <2> QED  BY <1>1, <1>2, <2>1
<1>8. CASE DeleteReturns
  <2>1. /\ Form(tree', M, L, pos) /\ Colored(tree', M, at', nd') /\ at' = "idle" /\ nd' = Nil
    BY <1>1, <1>8, DeleteEnds
  <2> QED  BY <1>1, <1>2, <2>1
<1>9. CASE UNCHANGED vars
  <2>1. tree' = tree /\ at' = at /\ nd' = nd
    BY <1>9 DEF vars
  <2> QED  BY <1>1, <2>1 DEF RBInv
<1> QED  BY <1>3, <1>4, <1>5, <1>6, <1>7, <1>8, <1>9 DEF Next

\* The inductive invariant: the tree can be laid out along a line with the
\* keys in order, and its colors are right but for the exception the running
\* loop is there to repair (rbtree.c, every function).
THEOREM RBInvariant == Spec => []RBInv
<1>1. Init => RBInv
  BY InitHolds
<1>2. RBInv /\ [Next]_vars => RBInv'
  BY NextHolds
<1> QED  BY <1>1, <1>2, PTL DEF Spec

\* The colors are red or black and every pointer is to a node or the sentinel.
THEOREM RBTypes == Spec => []TypeOK
<1>1. RBInv => TypeOK
  BY InvTypes
<1> QED  BY <1>1, RBInvariant, PTL

\* Pointers down and up agree in every state, in the middle of a rotation's
\* loop as well, and the sentinel stays black.
THEOREM RBLinks == Spec => []LinksExact
<1>1. RBInv => LinksExact
  BY InvLinks
<1> QED  BY <1>1, RBInvariant, PTL

\* All paths have the same number of black nodes and no red node has a red
\* parent, but for the exception that the running loop repairs.
THEOREM RBBalance == Spec => []RedBlack
<1>1. RBInv => RedBlack
  BY InvBlack
<1> QED  BY <1>1, RBInvariant, PTL

-----------------------------------------------------------------------------
(* Iteration.                                                               *)

\* The node at a position, or the sentinel.
At(w, i) == IF i \in 1 .. Len(w) THEN w[i] ELSE Nil

LEMMA AtIs ==
    ASSUME NEW t, NEW M, NEW L, NEW pos, NEW bd, Laid(t, M, L, pos, bd),
           NEW w, w = Listed(M, L, pos), NEW m \in M
    PROVE  At(w, pos[m]) = m
<1>1. Len(w) = L /\ pos[m] \in 1 .. L /\ w[pos[m]] = m
  BY ListedIs
<1> QED  BY <1>1 DEF At

\* The way up ends behind the room of n.
LEMMA UpIs ==
    ASSUME NEW t, NEW M, NEW L, NEW pos, NEW bd, Laid(t, M, L, pos, bd),
           NEW w, w = Listed(M, L, pos), NEW n \in M, NEW s \in Sides, t.child[n][s] = Nil
    PROVE  Neighbour(t, n, s) = At(w, bd[n][s])
<1> DEFINE stop == {m \in Nodes : ~ (t.parent[m] # Nil /\ t.child[t.parent[m]][s] = m)}
           nx == [m \in Nodes |-> t.parent[m]]
           id == [m \in Links |-> m]
           rank == [m \in Nodes |-> IF m \in M THEN (L + 1) - Width(bd, m) ELSE 0]
           F(f) == [m \in Nodes |-> LET p == t.parent[m]
                                    IN IF p # Nil /\ m = t.child[p][s] THEN f[p] ELSE p]
           up == CHOOSE f : f = F(f)
<1>1. Neighbour(t, n, s) = up[n]
  BY DEF Neighbour
<1>2. M \subseteq Nodes /\ Nil \notin Nodes /\ t \in Trees /\ L \in Nat
  BY RBAssumption DEF Laid
<1>3. \A m \in Nodes : m \in Links /\ t.parent[m] \in Links /\ (t.parent[m] # Nil => t.parent[m] \in Nodes)
  BY <1>2 DEF Trees, Links
<1>4. \E f \in [Nodes -> Links] : Follows(f, Nodes, stop, nx, nx, id)
  <2>0. \A m \in M : /\ Width(bd, m) \in 0 .. L + 1
    <3> SUFFICES ASSUME NEW m \in M PROVE Width(bd, m) \in 0 .. L + 1
      OBVIOUS
    <3>1. /\ bd[m]["left"] \in Int /\ 0 <= bd[m]["left"] /\ bd[m]["right"] \in Int
          /\ bd[m]["right"] <= L + 1 /\ pos[m] \in Int
          /\ bd[m]["left"] < pos[m] /\ pos[m] < bd[m]["right"]
      BY Numbers, TwoSides
    <3> QED  BY <1>2, <3>1 DEF Width
  <2>1. rank \in [Nodes -> 0 .. L + 1]
    <3>1. \A m \in M : (L + 1) - Width(bd, m) \in 0 .. L + 1
      BY <1>2, <2>0
    <3> QED  BY <1>2, <3>1
  <2>2. \A m \in Nodes \ stop : nx[m] \in Nodes /\ rank[nx[m]] < rank[m]
    <3> SUFFICES ASSUME NEW m \in Nodes, t.parent[m] # Nil, t.child[t.parent[m]][s] = m
                 PROVE  nx[m] \in Nodes /\ rank[nx[m]] < rank[m]
      OBVIOUS
    <3>1. PICK p : t.parent[m] = p /\ p = nx[m]
      OBVIOUS
    <3>2. m \in M /\ m # Nil
      BY <1>2 DEF Laid
    <3>3. p \in M /\ t.child[p][s] = m
      BY <3>1, <3>2, AboveOf
    <3>4. Width(bd, m) < Width(bd, p)
      BY <3>2, <3>3, Narrower
    <3>5. Width(bd, m) \in Int /\ Width(bd, p) \in Int
      BY <2>0, <3>2, <3>3
    <3>6. nx[m] = p /\ p \in Nodes
      BY ZenonT(40), <1>2, <3>1, <3>3
    <3>7. rank[p] = (L + 1) - Width(bd, p) /\ rank[m] = (L + 1) - Width(bd, m)
      BY <3>2, <3>3, <3>6
    <3>8. (L + 1) - Width(bd, p) < (L + 1) - Width(bd, m)
      BY <1>2, <3>4, <3>5
    <3> HIDE DEF rank, nx
    <3> QED  BY <3>6, <3>7, <3>8
  <2>3. \A m \in Nodes : nx[m] \in Links
    BY <1>3
  <2>4. L + 1 \in Nat /\ \A u \in Links : id[u] \in Links
    BY <1>2
  <2> HIDE DEF rank, nx, stop, id
  <2> QED  BY ZenonT(40), <2>1, <2>2, <2>3, <2>4, FollowExists
<1>5. \E f : f = F(f)
  <2>1. PICK f \in [Nodes -> Links] : Follows(f, Nodes, stop, nx, nx, id)
    BY ZenonT(40), <1>4
  <2>2. f = [m \in Nodes |-> IF m \in stop THEN nx[m] ELSE id[f[nx[m]]]]
    BY ONLY ZenonT(40), <2>1 DEF Follows
  <2>3. \A m \in Nodes : (IF m \in stop THEN nx[m] ELSE id[f[nx[m]]]) = F(f)[m]
    BY <1>3, <2>1
  <2>4. f = F(f)
    BY ZenonT(40), <2>2, <2>3
  <2> QED  BY <2>4
<1>6. up = F(up)
  <2> HIDE DEF F
  <2> QED  BY <1>5
<1>7. \A m \in Nodes : up[m] = IF t.parent[m] # Nil /\ t.child[t.parent[m]][s] = m
                               THEN up[t.parent[m]] ELSE t.parent[m]
  <2>1. \A m \in Nodes : F(up)[m] = IF t.parent[m] # Nil /\ t.child[t.parent[m]][s] = m
                                    THEN up[t.parent[m]] ELSE t.parent[m]
    <3> HIDE DEF up
    <3> QED  OBVIOUS
  <2> HIDE DEF F, up
  <2> QED  BY <1>6, <2>1
<1> HIDE DEF F, up
<1> DEFINE S == {m \in M : up[m] # At(w, bd[m][s])}
<1>8. S = {}
  <2>1. ASSUME NEW m \in S  PROVE m # t.root /\ t.parent[m] \in S
    <3>1. m \in M /\ m \in Nodes /\ up[m] # At(w, bd[m][s]) /\ m # Nil
      BY <1>2
    <3>2. m # t.root
      <4> SUFFICES ASSUME m = t.root PROVE FALSE
        OBVIOUS
      <4>1. t.parent[m] = Nil /\ bd[m]["left"] = 0 /\ bd[m]["right"] = L + 1
        BY <3>1 DEF Laid
      <4>2. up[m] = Nil
        BY <1>7, <3>1, <4>1
      <4>3. Len(w) = L
        BY ListedIs
      <4>4. At(w, bd[m][s]) = Nil
        BY <1>2, <4>1, <4>3, TwoSides DEF At
      <4> QED  BY <3>1, <4>2, <4>4
    <3>3. PICK p, z : t.parent[m] = p /\ SideOf(t, m) = z
      OBVIOUS
    <3>4. p \in M /\ p \in Nodes /\ p # Nil /\ z \in Sides /\ t.child[p][z] = m
      BY <3>1, <3>2, <3>3, ParentOf
    <3>5. bd[m][z] = bd[p][z] /\ bd[m][Other(z)] = pos[p] /\ t.child[p][Other(z)] # m
      BY <3>1, <3>4, ChildOf
    <3>6. z = s
      <4> SUFFICES ASSUME z # s PROVE FALSE
        OBVIOUS
      <4>1. s = Other(z)
        BY <3>4, TwoSides
      <4>2. up[m] = p
        BY ZenonT(40), <1>7, <3>1, <3>3, <3>4, <3>5, <4>1
      <4>3. At(w, pos[p]) = p
        BY <3>4, AtIs
      <4> QED  BY <3>1, <3>5, <4>1, <4>2, <4>3
    <3>7. up[m] = up[p]
      BY ZenonT(40), <1>7, <3>1, <3>3, <3>4, <3>6
    <3>8. p \in S
      BY <3>1, <3>4, <3>5, <3>6, <3>7
    <3> HIDE DEF S
    <3> QED  BY <3>2, <3>3, <3>8
  <2>2. S \in SUBSET M
    OBVIOUS
  <2> HIDE DEF S
  <2> QED  BY <2>1, <2>2, NoClimb
<1> QED  BY <1>1, <1>8

\* rb_next and rb_prev go to the next position.
LEMMA NeighbourIs ==
    ASSUME NEW t, NEW M, NEW L, NEW pos, NEW bd, Laid(t, M, L, pos, bd),
           NEW w, w = Listed(M, L, pos), NEW n \in M, NEW s \in Sides
    PROVE  Neighbour(t, n, s) = At(w, pos[n] + Dir(s))
<1>1. CASE t.child[n][s] = Nil
  <2>1. Neighbour(t, n, s) = At(w, bd[n][s])
    BY <1>1, UpIs
  <2>2. bd[n][s] = pos[n] + Dir(s)
    BY <1>1, NoChild
  <2> QED  BY <2>1, <2>2
<1>2. CASE t.child[n][s] # Nil
  <2>1. PICK c, o : t.child[n][s] = c /\ Other(s) = o
    OBVIOUS
  <2>2. c # Nil /\ o \in Sides
    BY <1>2, <2>1, TwoSides
  <2>3. c \in M /\ bd[c][o] = pos[n]
    BY <2>1, <2>2, ChildOf
  <2>4. PICK y : y = Most(t, c, o)
    OBVIOUS
  <2>5. y \in M /\ t.child[y][o] = Nil /\ bd[y][o] = bd[c][o]
    BY <2>2, <2>3, <2>4, MostIs
  <2>6. bd[y][o] = pos[y] + Dir(o)
    BY <2>2, <2>5, NoChild
  <2>7. pos[y] \in Int /\ pos[n] \in Int
    BY <2>5, Numbers
  <2>8. Dir(s) \in Int /\ Dir(o) = 0 - Dir(s)
    BY <2>1, DirIs
  <2>9. pos[y] = pos[n] + Dir(s)
    BY <2>3, <2>5, <2>6, <2>7, <2>8
  <2>10. Neighbour(t, n, s) = y
    BY <1>2, <2>1, <2>4 DEF Neighbour
  <2>11. At(w, pos[y]) = y
    BY <2>5, AtIs
  <2> QED  BY <2>9, <2>10, <2>11
<1> QED  BY <1>1, <1>2

\* rb_first and rb_last.
LEMMA ExtremeIs ==
    ASSUME NEW t, NEW M, NEW L, NEW pos, NEW bd, Laid(t, M, L, pos, bd),
           NEW w, w = Listed(M, L, pos)
    PROVE  Extreme(t, "left") = At(w, 1) /\ Extreme(t, "right") = At(w, L)
<1>1. L \in Nat /\ Len(w) = L
  BY ListedIs
<1>2. CASE t.root = Nil
  <2>1. M = {}
    BY <1>2 DEF Laid
  <2>2. \A i \in 1 .. L : FALSE
    BY <2>1 DEF Laid
  <2>3. L = 0
    BY <1>1, <2>2
  <2>4. Extreme(t, "left") = Nil /\ Extreme(t, "right") = Nil
    BY <1>2 DEF Extreme
  <2> QED  BY <1>1, <2>3, <2>4 DEF At
<1>3. ASSUME t.root # Nil, NEW s \in Sides
      PROVE  /\ s = "left" => Extreme(t, s) = At(w, 1)
             /\ s = "right" => Extreme(t, s) = At(w, L)
  <2>1. PICK r : r = t.root
    OBVIOUS
  <2>2. r \in M /\ bd[r]["left"] = 0 /\ bd[r]["right"] = L + 1
    BY <1>3, <2>1 DEF Laid
  <2>3. PICK y : y = Most(t, r, s)
    OBVIOUS
  <2>4. y \in M /\ t.child[y][s] = Nil /\ bd[y][s] = bd[r][s]
    BY <2>2, <2>3, MostIs
  <2>5. bd[y][s] = pos[y] + Dir(s) /\ pos[y] \in Int
    BY <2>4, NoChild, Numbers
  <2>6. Extreme(t, s) = y
    BY <1>3, <2>1, <2>3 DEF Extreme
  <2>7. At(w, pos[y]) = y
    BY <2>4, AtIs
  <2>8. (s = "left" => pos[y] = 1) /\ (s = "right" => pos[y] = L)
    <3>1. ASSUME s = "left" PROVE pos[y] = 1
      <4>1. 0 = pos[y] - 1
        BY ZenonT(40), <2>2, <2>4, <2>5, <3>1 DEF Dir
      <4> QED  BY <2>5, <4>1
    <3>2. ASSUME s = "right" PROVE pos[y] = L
      <4>1. L + 1 = pos[y] + 1
        BY ZenonT(40), <2>2, <2>4, <2>5, <3>2 DEF Dir
      <4> QED  BY <1>1, <2>5, <4>1
    <3> QED  BY <3>1, <3>2
  <2> QED  BY <2>6, <2>7, <2>8
<1>4. CASE t.root # Nil
  <2>1. "left" \in Sides /\ "right" \in Sides
    BY TwoSides
  <2> QED  BY <1>3, <1>4, <2>1
<1> QED  BY <1>2, <1>4

LEMMA InvIterates == ASSUME RBInv PROVE IteratesInOrder
<1>1. PICK M, L, pos : Form(tree, M, L, pos)
  BY DEF RBInv
<1>2. PICK bd : Laid(tree, M, L, pos, bd)
  BY <1>1 DEF Form
<1>3. PICK w : w = Listed(M, L, pos)
  OBVIOUS
<1>4. Walk(tree) = w
  BY <1>1, <1>3, MembersAre
<1>5. Len(w) = L /\ \A i \in 1 .. L : w[i] \in M /\ pos[w[i]] = i
  BY <1>2, <1>3, ListedIs
<1>6. Extreme(tree, "left") = At(w, 1) /\ Extreme(tree, "right") = At(w, L)
  BY <1>2, <1>3, ExtremeIs
<1>7. ASSUME NEW i \in 1 .. L
      PROVE  /\ Neighbour(tree, w[i], "right") = At(w, i + 1)
             /\ Neighbour(tree, w[i], "left") = At(w, i - 1)
  <2>1. PICK n : n = w[i]
    OBVIOUS
  <2>2. n \in M /\ pos[n] = i
    BY <1>5, <2>1
  <2>3. \A s \in Sides : Neighbour(tree, n, s) = At(w, pos[n] + Dir(s))
    BY <1>2, <1>3, <2>2, NeighbourIs
  <2>4. /\ Neighbour(tree, n, "right") = At(w, i + Dir("right"))
        /\ Neighbour(tree, n, "left") = At(w, i + Dir("left"))
    BY <2>2, <2>3, TwoSides
  <2>5. i + Dir("right") = i + 1 /\ i + Dir("left") = i - 1
    BY DEF Dir
  <2> QED  BY <2>1, <2>4, <2>5
<1> QED  BY <1>4, <1>5, <1>6, <1>7 DEF IteratesInOrder, At

\* Between calls rb_first, rb_next, rb_last and rb_prev visit every node once,
\* in the order of the keys, from either end.
THEOREM RBIterates == Spec => []IteratesInOrder
<1>1. RBInv => IteratesInOrder
  BY InvIterates
<1> QED  BY <1>1, RBInvariant, PTL

-----------------------------------------------------------------------------
(* The tree as an ordered list.                                             *)

Glue(a, b) == a \o b
Glued(a, b, e) ==
    /\ Len(e) = Len(a) + Len(b)
    /\ \A i \in 1 .. Len(a) : e[i] = a[i]
    /\ \A i \in 1 .. Len(b) : e[Len(a) + i] = b[i]

LEMMA GlueIs ==
    ASSUME NEW S, NEW a \in Seq(S), NEW b \in Seq(S), NEW e, e = Glue(a, b)
    PROVE  e \in Seq(S) /\ Glued(a, b, e)
<1>1. e \in Seq(S) /\ Len(e) = Len(a) + Len(b)
  BY DEF Glue
<1>2. Len(a) \in Nat /\ Len(b) \in Nat
  OBVIOUS
<1>3. \A i \in 1 .. Len(a) + Len(b) : e[i] = (IF i <= Len(a) THEN a[i] ELSE b[i - Len(a)])
  BY DEF Glue
<1>4. ASSUME NEW i \in 1 .. Len(a) PROVE e[i] = a[i]
  <2>1. i \in 1 .. Len(a) + Len(b) /\ i <= Len(a)
    BY <1>2
  <2> QED  BY <1>3, <2>1
<1>5. ASSUME NEW i \in 1 .. Len(b) PROVE e[Len(a) + i] = b[i]
  <2>1. PICK j : j = Len(a) + i
    OBVIOUS
  <2>2. j \in 1 .. Len(a) + Len(b) /\ ~(j <= Len(a)) /\ j - Len(a) = i
    BY <1>2, <2>1
  <2> QED  BY <1>3, <2>1, <2>2
<1> QED  BY <1>1, <1>4, <1>5 DEF Glued

LEMMA RoomSplit ==
    ASSUME NEW k \in Nat, NEW g \in 0 .. k, NEW i \in 1 .. k + 1, i > g + 1
    PROVE  \E j \in 1 .. k - g : i = (g + 1) + j /\ g + j \in 1 .. k /\ Room(g, g + j) = i
<1>1. PICK j : j = i - (g + 1)
  OBVIOUS
<1>2. j \in 1 .. k - g /\ i = (g + 1) + j /\ g + j \in 1 .. k
  BY <1>1
<1>3. Room(g, g + j) = i
  BY <1>2 DEF Room
<1> QED  BY <1>2, <1>3

\* A sequence of the right length with the right elements.
LEMMA InsertedIs ==
    ASSUME NEW S, NEW w \in Seq(S), NEW g \in 0 .. Len(w), NEW n \in S, NEW u \in Seq(S),
           Len(u) = Len(w) + 1, u[g + 1] = n, \A i \in 1 .. Len(w) : u[Room(g, i)] = w[i]
    PROVE  u = InsertAt(w, g + 1, n)
<1>1. PICK a, b, c : a = SubSeq(w, 1, g) /\ b = <<n>> /\ c = SubSeq(w, g + 1, Len(w))
  BY ZenonT(40)
<1>2. Len(w) \in Nat /\ g \in Int /\ 0 <= g /\ g <= Len(w)
  OBVIOUS
<1>3. /\ a \in Seq(S) /\ Len(a) = g /\ \A i \in 1 .. g : a[i] = w[i]
  BY <1>1, <1>2
<1>4. c \in Seq(S) /\ Len(c) = Len(w) - g /\ \A i \in 1 .. Len(w) - g : c[i] = w[g + i]
  BY <1>1, <1>2
<1>5. b \in Seq(S) /\ Len(b) = 1 /\ b[1] = n
  BY <1>1
<1>6. PICK e : e = Glue(a, b)
  OBVIOUS
<1>7. /\ e \in Seq(S) /\ Len(e) = g + 1 /\ e[g + 1] = n /\ \A i \in 1 .. g : e[i] = w[i]
  <2>1. /\ e \in Seq(S) /\ Len(e) = Len(a) + Len(b)
        /\ \A i \in 1 .. Len(a) : e[i] = a[i]
        /\ \A i \in 1 .. Len(b) : e[Len(a) + i] = b[i]
    <3>1. a \in Seq(S) /\ b \in Seq(S) /\ e = Glue(a, b)
      BY <1>3, <1>5, <1>6
    <3>2. e \in Seq(S) /\ Glued(a, b, e)
      BY <3>1, GlueIs
    <3> QED  BY <3>2 DEF Glued
  <2>2. 1 \in 1 .. Len(b)
    BY <1>5
  <2> QED  BY <1>3, <1>5, <2>1, <2>2
<1>8. PICK f : f = Glue(e, c)
  OBVIOUS
<1>9. /\ f \in Seq(S) /\ Len(f) = Len(w) + 1
      /\ \A i \in 1 .. g + 1 : f[i] = e[i]
      /\ \A i \in 1 .. Len(w) - g : f[(g + 1) + i] = c[i]
  <2>1. /\ f \in Seq(S) /\ Len(f) = Len(e) + Len(c)
        /\ \A i \in 1 .. Len(e) : f[i] = e[i]
        /\ \A i \in 1 .. Len(c) : f[Len(e) + i] = c[i]
    <3>1. e \in Seq(S) /\ c \in Seq(S) /\ f = Glue(e, c)
      BY <1>4, <1>7, <1>8
    <3>2. f \in Seq(S) /\ Glued(e, c, f)
      BY <3>1, GlueIs
    <3> QED  BY <3>2 DEF Glued
  <2>2. Len(f) = Len(w) + 1
    BY <1>2, <1>4, <1>7, <2>1
  <2> QED  BY <1>4, <1>7, <2>1, <2>2
<1>10. ASSUME NEW i \in 1 .. Len(w) + 1 PROVE f[i] = u[i]
  <2>1. CASE i <= g
    <3>1. i \in 1 .. g /\ i \in 1 .. g + 1 /\ i \in 1 .. Len(w) /\ Room(g, i) = i
      BY <1>2, <2>1 DEF Room
    <3> QED  BY ZenonT(40), <1>7, <1>9, <3>1
  <2>2. CASE i = g + 1
    BY <1>2, <1>7, <1>9, <2>2
  <2>3. CASE i > g + 1
    <3>1. PICK j \in 1 .. Len(w) - g : /\ i = (g + 1) + j
                                       /\ g + j \in 1 .. Len(w) /\ Room(g, g + j) = i
      BY ZenonT(40), <1>2, <2>3, RoomSplit
    <3>2. f[i] = c[j] /\ c[j] = w[g + j]
      BY <1>4, <1>9, <3>1
    <3>3. u[Room(g, g + j)] = w[g + j]
      BY <3>1
    <3> QED  BY <3>1, <3>2, <3>3
  <2> QED  BY <1>2, <2>1, <2>2, <2>3
<1>11. f = u
  BY <1>9, <1>10
<1>12. f = InsertAt(w, g + 1, n)
  <2>1. (g + 1) - 1 = g
    BY <1>2
  <2> QED  BY ZenonT(40), <1>1, <1>6, <1>8, <2>1 DEF InsertAt, Glue
<1> QED  BY <1>11, <1>12

LEMMA RemovedIs ==
    ASSUME NEW S, NEW w \in Seq(S), NEW j \in 1 .. Len(w), NEW u \in Seq(S),
           Len(u) = Len(w) - 1, \A i \in 1 .. Len(w) : i # j => u[Close(j, i)] = w[i]
    PROVE  u = RemoveAt(w, j)
<1>1. PICK a, c : a = SubSeq(w, 1, j - 1) /\ c = SubSeq(w, j + 1, Len(w))
  BY ZenonT(40)
<1>2. Len(w) \in Nat /\ j \in Int /\ 1 <= j /\ j <= Len(w)
  OBVIOUS
<1>3. a \in Seq(S) /\ Len(a) = j - 1 /\ \A i \in 1 .. j - 1 : a[i] = w[i]
  BY <1>1, <1>2
<1>4. c \in Seq(S) /\ Len(c) = Len(w) - j /\ \A i \in 1 .. Len(w) - j : c[i] = w[j + i]
  BY <1>1, <1>2
<1>5. PICK f : f = a \o c
  BY ZenonT(40)
<1>6. /\ f \in Seq(S) /\ Len(f) = Len(w) - 1
      /\ \A i \in 1 .. j - 1 : f[i] = a[i]
      /\ \A i \in 1 .. Len(w) - j : f[(j - 1) + i] = c[i]
  BY SMTT(30), <1>2, <1>3, <1>4, <1>5
<1>7. ASSUME NEW i \in 1 .. Len(w) - 1 PROVE f[i] = u[i]
  <2>1. CASE i < j
    <3>1. i \in 1 .. j - 1 /\ i \in 1 .. Len(w) /\ i # j /\ Close(j, i) = i
      BY <1>2, <2>1 DEF Close
    <3> QED  BY <1>3, <1>6, <3>1
  <2>2. CASE i >= j
    <3>1. PICK k : k = i - (j - 1)
      OBVIOUS
    <3>2. /\ k \in 1 .. Len(w) - j /\ i = (j - 1) + k /\ j + k \in 1 .. Len(w) /\ j + k # j
          /\ Close(j, j + k) = i
      BY <1>2, <2>2, <3>1 DEF Close
    <3> QED  BY ZenonT(40), <1>4, <1>6, <3>2
  <2> QED  BY <1>2, <2>1, <2>2
<1>8. f = u
  BY <1>6, <1>7
<1> QED  BY ZenonT(40), <1>1, <1>5, <1>8 DEF RemoveAt

\* The elements that are not larger than n are the first g.
LEMMA RankIs ==
    ASSUME NEW t, NEW M, NEW L, NEW pos, NEW bd, Laid(t, M, L, pos, bd),
           NEW w, w = Listed(M, L, pos), NEW n \in Nodes, NEW g \in 0 .. L,
           Parts(M, pos, n, g, g + 1)
    PROVE  Cardinality({i \in DOMAIN w : Key[w[i]] <= Key[n]}) = g
<1>1. w \in Seq(Nodes) /\ Len(w) = L /\ L \in Nat /\ \A i \in 1 .. L : w[i] \in M /\ pos[w[i]] = i
  BY ListedIs
<1>2. DOMAIN w = 1 .. L
  BY <1>1
<1>3. g \in Nat /\ Key[n] \in Int /\ \A m \in M : Key[m] \in Int
  BY <1>1, RBAssumption DEF Laid
<1>4. ASSUME NEW i \in 1 .. L PROVE Key[w[i]] <= Key[n] <=> i <= g
  <2>1. PICK a : a = w[i]
    OBVIOUS
  <2>2. a \in M /\ pos[a] = i
    BY <1>1, <2>1
  <2>3. (pos[a] <= g => Key[a] <= Key[n]) /\ (g + 1 <= pos[a] => Key[n] < Key[a])
    BY <2>2 DEF Parts
  <2> QED  BY <1>3, <2>1, <2>2, <2>3
<1>5. {i \in DOMAIN w : Key[w[i]] <= Key[n]} = 1 .. g
  BY <1>1, <1>2, <1>3, <1>4
<1>6. Cardinality(1 .. g) = g
  <2>1. Cardinality(1 .. g) = IF 1 > g THEN 0 ELSE g - 1 + 1
    BY <1>3, FS_Interval
  <2> QED  BY <1>3, <2>1
<1> QED  BY ZenonT(40), <1>5, <1>6

LEMMA LaidWalk ==
    ASSUME NEW t, NEW M, NEW L, NEW pos, Form(t, M, L, pos), NEW w, w = Listed(M, L, pos)
    PROVE  Walk(t) = w
<1>1. PICK bd : Laid(t, M, L, pos, bd)
  BY DEF Form
<1> QED  BY <1>1, WalkIs

LEMMA InsertListed ==
    ASSUME NEW t, NEW M, NEW L, NEW pos, NEW bd, Laid(t, M, L, pos, bd),
           NEW n \in Nodes, n \notin M, NEW g \in 0 .. L, Parts(M, pos, n, g, g + 1),
           NEW e, NEW N, NEW K, NEW po, NEW c, Laid(e, N, K, po, c),
           N = M \cup {n}, K = L + 1, Moved(po, pos, M, n, g)
    PROVE  Walk(e) \in List!Called(Walk(t))
<1>1. PICK w, u : w = Listed(M, L, pos) /\ u = Listed(N, K, po)
  OBVIOUS
<1>2. Walk(t) = w
  BY <1>1, WalkIs
<1>3. Walk(e) = u
  BY <1>1, WalkIs
<1>4. /\ w \in Seq(Nodes) /\ Len(w) = L /\ L \in Nat
      /\ \A i \in 1 .. L : w[i] \in M /\ pos[w[i]] = i
      /\ ToSet(w) = M
  BY <1>1, ListedIs
<1>5. u \in Seq(Nodes) /\ Len(u) = K /\ \A m \in N : u[po[m]] = m
  <2>1. Laid(e, N, K, po, c) /\ u = Listed(N, K, po)
    BY <1>1
  <2>2. /\ u \in Seq(Nodes) /\ Len(u) = K /\ K \in Nat
        /\ \A m \in N : po[m] \in 1 .. K /\ u[po[m]] = m
    BY ONLY <2>1, ListedIs
  <2> QED  BY <2>2
<1>6. u[g + 1] = n
  BY <1>5 DEF Moved
<1>7. ASSUME NEW i \in 1 .. Len(w) PROVE u[Room(g, i)] = w[i]
  <2>1. PICK m : m = w[i]
    OBVIOUS
  <2>2. m \in M /\ pos[m] = i
    BY <1>4, <2>1
  <2>3. po[m] = Room(g, i) /\ u[po[m]] = m
    BY <1>5, <2>2 DEF Moved
  <2> QED  BY <2>1, <2>3
<1>8. u = InsertAt(w, g + 1, n)
  <2>1. /\ w \in Seq(Nodes) /\ g \in 0 .. Len(w) /\ n \in Nodes /\ u \in Seq(Nodes)
        /\ Len(u) = Len(w) + 1 /\ u[g + 1] = n /\ \A i \in 1 .. Len(w) : u[Room(g, i)] = w[i]
    BY <1>4, <1>5, <1>6, <1>7
  <2> QED  BY ZenonT(40), <2>1, InsertedIs
<1>9. Cardinality({i \in DOMAIN w : Key[w[i]] <= Key[n]}) = g
  BY <1>1, RankIs
<1>10. u = List!Inserted(w, n)
  <2>1. List!Cardinality({i \in DOMAIN w : Key[w[i]] <= Key[n]}) = g
    BY <1>9 DEF List!Cardinality, Cardinality
  <2>2. u = List!InsertAt(w, g + 1, n)
    BY <1>8 DEF List!InsertAt, InsertAt
  <2> QED  BY <2>1, <2>2 DEF List!Inserted
<1>11. n \in Nodes \ List!ToSet(w)
  BY <1>4 DEF List!ToSet, ToSet
<1> QED  BY <1>2, <1>3, <1>10, <1>11 DEF List!Called

LEMMA DeleteListed ==
    ASSUME NEW t, NEW M, NEW L, NEW pos, NEW bd, Laid(t, M, L, pos, bd), NEW n \in M,
           NEW e, NEW N, NEW K, NEW po, NEW c, Laid(e, N, K, po, c),
           N = M \ {n}, K = L - 1, po = [m \in N |-> Close(pos[n], pos[m])]
    PROVE  Walk(e) \in List!Called(Walk(t))
<1>1. PICK w, u : w = Listed(M, L, pos) /\ u = Listed(N, K, po)
  OBVIOUS
<1>2. Walk(t) = w
  BY <1>1, WalkIs
<1>3. Walk(e) = u
  BY <1>1, WalkIs
<1>4. /\ w \in Seq(Nodes) /\ Len(w) = L /\ L \in Nat
      /\ \A m \in M : pos[m] \in 1 .. L
      /\ \A i \in 1 .. L : w[i] \in M /\ pos[w[i]] = i
  BY <1>1, ListedIs
<1>5. u \in Seq(Nodes) /\ Len(u) = K /\ \A m \in N : u[po[m]] = m
  <2>1. Laid(e, N, K, po, c) /\ u = Listed(N, K, po)
    BY <1>1
  <2>2. /\ u \in Seq(Nodes) /\ Len(u) = K /\ K \in Nat
        /\ \A m \in N : po[m] \in 1 .. K /\ u[po[m]] = m
    BY ONLY <2>1, ListedIs
  <2> QED  BY <2>2
<1>6. PICK j : j = pos[n]
  OBVIOUS
<1>7. ASSUME NEW i \in 1 .. Len(w), i # j PROVE u[Close(j, i)] = w[i]
  <2>1. PICK m : m = w[i]
    OBVIOUS
  <2>2. m \in N /\ pos[m] = i
    BY <1>4, <1>6, <1>7, <2>1
  <2>3. po[m] = Close(j, i) /\ u[po[m]] = m
    BY <1>5, <1>6, <2>2
  <2> QED  BY <2>1, <2>3
<1>8. u = RemoveAt(w, j)
  <2>1. /\ w \in Seq(Nodes) /\ j \in 1 .. Len(w) /\ u \in Seq(Nodes)
        /\ Len(u) = Len(w) - 1 /\ \A i \in 1 .. Len(w) : i # j => u[Close(j, i)] = w[i]
    BY <1>4, <1>5, <1>6, <1>7
  <2> QED  BY <2>1, RemovedIs
<1>9. j \in DOMAIN w
  BY <1>4, <1>6
<1>10. u = List!RemoveAt(w, j)
  BY <1>8 DEF List!RemoveAt, RemoveAt
<1> QED  BY <1>2, <1>3, <1>9, <1>10 DEF List!Called

\* One step is one call of the list or is not seen.
LEMMA StepListed ==
    ASSUME RBInv, [Next]_vars
    PROVE  Walk(tree') \in List!Called(Walk(tree)) \/ Walk(tree') = Walk(tree)
<1>1. PICK M, L, pos : Form(tree, M, L, pos) /\ Sorted(M, pos) /\ Colored(tree, M, at, nd)
  BY DEF RBInv
<1>2. PICK t, e : t = tree /\ e = tree'
  OBVIOUS
<1>3. PICK bd : Laid(t, M, L, pos, bd)
  BY <1>1, <1>2 DEF Form
<1>4. ASSUME NEW n \in Nodes, rb_insert(n) PROVE Walk(e) \in List!Called(Walk(t))
  <2>1. at = "idle" => nd = Nil
    BY <1>1 DEF Colored, Running
  <2>2. /\ n \notin M
        /\ \E po, g : /\ Form(tree', M \cup {n}, L + 1, po) /\ Sorted(M \cup {n}, po)
                      /\ Colored(tree', M \cup {n}, at', nd')
                      /\ g \in 0 .. L /\ Moved(po, pos, M, n, g)
                      /\ Parts(M, pos, n, g, g + 1)
    BY <1>1, <1>4, <2>1, InsertKeeps
  <2>3. PICK po, g : /\ Form(e, M \cup {n}, L + 1, po)
                     /\ g \in 0 .. L /\ Moved(po, pos, M, n, g) /\ Parts(M, pos, n, g, g + 1)
    BY <1>2, <2>2
  <2>4. PICK N, K : N = M \cup {n} /\ K = L + 1
    BY ZenonT(40)
  <2>5. PICK c : Laid(e, N, K, po, c)
    BY <2>3, <2>4 DEF Form
  <2> QED  BY <1>3, <2>2, <2>3, <2>4, <2>5, InsertListed
<1>5. ASSUME NEW n \in Nodes, rb_delete(n) PROVE Walk(e) \in List!Called(Walk(t))
  <2>1. PICK N, K : N = M \ {n} /\ K = L - 1
    BY ZenonT(40)
  <2>2. PICK po : po = [m \in N |-> Close(pos[n], pos[m])]
    BY ZenonT(40)
  <2>3. po = [m \in M \ {n} |-> Close(pos[n], pos[m])]
    BY <2>1, <2>2
  <2>4. n \in M /\ Form(tree', M \ {n}, L - 1, po)
    BY <1>1, <1>5, <2>3, DeleteKeeps
  <2>5. PICK c : Laid(e, N, K, po, c)
    BY <1>2, <2>1, <2>4 DEF Form
  <2> QED  BY <1>3, <2>1, <2>2, <2>4, <2>5, DeleteListed
<1>6. ASSUME Form(tree', M, L, pos) PROVE Walk(e) = Walk(t)
  <2>1. PICK w : w = Listed(M, L, pos)
    OBVIOUS
  <2>2. Walk(t) = w
    BY <1>1, <1>2, <2>1, LaidWalk
  <2>3. Walk(e) = w
    BY <1>2, <1>6, <2>1, LaidWalk
  <2> QED  BY <2>2, <2>3
<1>7. CASE rb_insert_fixup
  BY <1>1, <1>2, <1>6, <1>7, InsertRound
<1>8. CASE InsertReturns
  BY <1>1, <1>2, <1>6, <1>8, InsertEnds
<1>9. CASE rb_delete_fixup
  BY <1>1, <1>2, <1>6, <1>9, DeleteRound
<1>10. CASE DeleteReturns
  BY <1>1, <1>2, <1>6, <1>10, DeleteEnds
<1>11. CASE UNCHANGED vars
  BY <1>11 DEF vars
<1> QED  BY <1>2, <1>4, <1>5, <1>7, <1>8, <1>9, <1>10, <1>11 DEF Next

LEMMA InitListed == ASSUME Init PROVE Walk(tree) = <<>>
<1>1. PICK M, L, pos : Form(tree, M, L, pos)
  BY InitHolds DEF RBInv
<1>2. PICK bd : Laid(tree, M, L, pos, bd)
  BY <1>1 DEF Form
<1>3. PICK w : w = Listed(M, L, pos)
  OBVIOUS
<1>4. M = {}
  BY <1>2 DEF Init, Laid
<1>5. w \in Seq(Nodes) /\ Len(w) = L /\ L \in Nat /\ \A i \in 1 .. L : w[i] \in M
  BY <1>2, <1>3, ListedIs
<1>6. L = 0
  BY <1>4, <1>5
<1>7. w = <<>>
  BY <1>5, <1>6
<1> QED  BY ZenonT(40), <1>1, <1>3, <1>7, LaidWalk

\* The tree implements OrderedList: a call inserts or removes its node in one
\* step, behind the nodes with the same key, and no round of a fix-up shows.
THEOREM RBImplements == Spec => ImplementsList
<1>1. Init => List!Init
  BY InitListed DEF List!Init
<1>2. RBInv /\ [Next]_vars => [List!Next]_(Walk(tree))
  BY StepListed DEF List!Next
<1> QED  BY <1>1, <1>2, RBInvariant, PTL DEF Spec, ImplementsList, List!Spec

-----------------------------------------------------------------------------
(* The rounds of a fix-up.                                                  *)

\* The numbers of nodes above the elements of D.
Deep(t, D) == CHOOSE d : d = [m \in D |-> IF m = t.root THEN 0 ELSE 1 + d[t.parent[m]]]

\* They are well defined when D is the tree, with or without the sentinel.
LEMMA DeepIs ==
    ASSUME NEW t, NEW M, NEW L, NEW pos, NEW bd, Laid(t, M, L, pos, bd),
           NEW D, M \subseteq D, D \subseteq M \cup {Nil},
           \A m \in D : m # t.root => t.parent[m] \in M,
           NEW d, d = Deep(t, D)
    PROVE  \A m \in D : d[m] \in Nat /\ d[m] = IF m = t.root THEN 0 ELSE 1 + d[t.parent[m]]
<1> DEFINE stop == {t.root}
           nx == [m \in D |-> t.parent[m]]
           zero == [m \in D |-> 0]
           st == [k \in Nat |-> 1 + k]
           rank == [m \in D |-> IF m \in M THEN (L + 1) - Width(bd, m) ELSE L + 2]
           F(f) == [m \in D |-> IF m = t.root THEN 0 ELSE 1 + f[t.parent[m]]]
<1>1. M \subseteq Nodes /\ Nil \notin M /\ L \in Nat
  BY RBAssumption DEF Laid
<1>2. \A m \in M : Width(bd, m) \in 0 .. L + 1
  <2> SUFFICES ASSUME NEW m \in M PROVE Width(bd, m) \in 0 .. L + 1
    OBVIOUS
  <2>1. /\ bd[m]["left"] \in Int /\ 0 <= bd[m]["left"] /\ bd[m]["right"] \in Int
        /\ bd[m]["right"] <= L + 1 /\ pos[m] \in Int
        /\ bd[m]["left"] < pos[m] /\ pos[m] < bd[m]["right"]
    BY Numbers, TwoSides
  <2> QED  BY <1>1, <2>1 DEF Width
<1>3. \E f \in [D -> Nat] : Follows(f, D, stop, nx, zero, st)
  <2>1. rank \in [D -> 0 .. L + 2]
    <3>1. L + 2 \in 0 .. L + 2 /\ \A m \in M : (L + 1) - Width(bd, m) \in 0 .. L + 2
      BY <1>1, <1>2
    <3> QED  BY <3>1
  <2>2. \A m \in D \ stop : nx[m] \in D /\ rank[nx[m]] < rank[m]
    <3> SUFFICES ASSUME NEW m \in D, m # t.root PROVE nx[m] \in D /\ rank[nx[m]] < rank[m]
      OBVIOUS
    <3>1. PICK p, z : t.parent[m] = p /\ SideOf(t, m) = z
      OBVIOUS
    <3>2. p \in M /\ p \in D /\ nx[m] = p
      BY <3>1
    <3>3. rank[p] = (L + 1) - Width(bd, p) /\ Width(bd, p) \in 0 .. L + 1
      BY <1>2, <3>2
    <3>4. CASE m \in M
      <4>1. z \in Sides /\ t.child[p][z] = m /\ m # Nil
        BY <1>1, <3>1, <3>4, ParentOf
      <4>2. Width(bd, m) < Width(bd, p) /\ Width(bd, m) \in 0 .. L + 1
        BY <1>2, <3>2, <3>4, <4>1, Narrower
      <4>3. rank[m] = (L + 1) - Width(bd, m)
        BY <3>4
      <4>4. (L + 1) - Width(bd, p) < (L + 1) - Width(bd, m)
        BY <1>1, <3>3, <4>2
      <4> HIDE DEF rank, nx
      <4> QED  BY <3>2, <3>3, <4>3, <4>4
    <3>5. CASE m \notin M
      <4>1. rank[m] = L + 2
        BY <3>5
      <4>2. (L + 1) - Width(bd, p) < L + 2
        BY <1>1, <3>3
      <4> HIDE DEF rank, nx
      <4> QED  BY <3>2, <3>3, <4>1, <4>2
    <3> QED  BY <3>4, <3>5
  <2>3. L + 2 \in Nat /\ (\A m \in D : zero[m] \in Nat) /\ \A u \in Nat : st[u] \in Nat
    BY <1>1
  <2> HIDE DEF rank, nx, stop, zero, st
  <2> QED  BY ZenonT(40), <2>1, <2>2, <2>3, FollowExists
<1>4. \E f : f = F(f)
  <2>1. PICK f \in [D -> Nat] : Follows(f, D, stop, nx, zero, st)
    BY ZenonT(40), <1>3
  <2>2. f = [m \in D |-> IF m \in stop THEN zero[m] ELSE st[f[nx[m]]]]
    BY ZenonT(40), <2>1 DEF Follows
  <2>3. \A m \in D : (IF m \in stop THEN zero[m] ELSE st[f[nx[m]]]) = F(f)[m]
    <3> SUFFICES ASSUME NEW m \in D PROVE (IF m \in stop THEN zero[m] ELSE st[f[nx[m]]]) = F(f)[m]
      OBVIOUS
    <3>1. m # t.root => t.parent[m] \in D /\ f[t.parent[m]] \in Nat
      BY <2>1
    <3> QED  BY <3>1
  <2>4. f = F(f)
    BY ZenonT(40), <2>2, <2>3
  <2> QED  BY <2>4
<1>5. d = F(d)
  <2>1. d = CHOOSE f : f = F(f)
    BY DEF Deep
  <2> HIDE DEF F
  <2> QED  BY <1>4, <2>1
<1>6. \A m \in D : d[m] = IF m = t.root THEN 0 ELSE 1 + d[t.parent[m]]
  <2>1. \A m \in D : F(d)[m] = IF m = t.root THEN 0 ELSE 1 + d[t.parent[m]]
    OBVIOUS
  <2> HIDE DEF F
  <2> QED  BY <1>5, <2>1
<1> HIDE DEF F
<1> DEFINE S == {m \in M : d[m] \notin Nat}
<1>7. S = {}
  <2>1. ASSUME NEW m \in S PROVE m # t.root /\ t.parent[m] \in S
    <3>1. m \in M /\ m \in D /\ d[m] \notin Nat
      OBVIOUS
    <3>2. m # t.root
      BY <1>6, <3>1
    <3>3. t.parent[m] \in M /\ d[m] = 1 + d[t.parent[m]]
      BY <1>6, <3>1, <3>2
    <3>4. d[t.parent[m]] \notin Nat
      BY <3>1, <3>3
    <3> QED  BY <3>2, <3>3, <3>4
  <2>2. S \in SUBSET M
    OBVIOUS
  <2> HIDE DEF S
  <2> QED  BY <2>1, <2>2, NoClimb
<1>8. ASSUME NEW m \in D PROVE d[m] \in Nat
  <2>1. \A k \in M : d[k] \in Nat
    BY <1>7
  <2>2. m = t.root \/ t.parent[m] \in M
    OBVIOUS
  <2> HIDE DEF S
  <2> QED  BY <1>6, <2>1, <2>2
<1> QED  BY <1>6, <1>8

\* The sentinel changes none of them.
LEMMA DeepSame ==
    ASSUME NEW t, NEW M, NEW L, NEW pos, NEW bd, Laid(t, M, L, pos, bd),
           NEW D, M \subseteq D, D \subseteq M \cup {Nil},
           \A m \in D : m # t.root => t.parent[m] \in M,
           NEW a, a = Deep(t, M), NEW d, d = Deep(t, D), NEW n \in M
    PROVE  a[n] \in Nat /\ d[n] = a[n]
<1>1. \A m \in M : m # t.root => t.parent[m] \in M
  OBVIOUS
<1>2. \A m \in M : a[m] \in Nat /\ a[m] = IF m = t.root THEN 0 ELSE 1 + a[t.parent[m]]
  <2>1. PICK E : E = M
    OBVIOUS
  <2>2. M \subseteq E /\ E \subseteq M \cup {Nil} /\ (\A m \in E : m # t.root => t.parent[m] \in M)
        /\ a = Deep(t, E)
    BY <1>1, <2>1
  <2>3. \A m \in E : a[m] \in Nat /\ a[m] = IF m = t.root THEN 0 ELSE 1 + a[t.parent[m]]
    BY <2>2, DeepIs
  <2> QED  BY <2>1, <2>3
<1>3. \A m \in D : d[m] \in Nat /\ d[m] = IF m = t.root THEN 0 ELSE 1 + d[t.parent[m]]
  BY DeepIs
<1> DEFINE S == {m \in M : d[m] # a[m]}
<1>4. ASSUME NEW m \in S PROVE m # t.root /\ t.parent[m] \in S
  <2>1. m \in M /\ m \in D /\ d[m] # a[m]
    OBVIOUS
  <2>2. m # t.root
    BY <1>2, <1>3, <2>1
  <2>3. t.parent[m] \in M /\ d[m] = 1 + d[t.parent[m]] /\ a[m] = 1 + a[t.parent[m]]
    BY <1>1, <1>2, <1>3, <2>1, <2>2
  <2>4. d[t.parent[m]] # a[t.parent[m]]
    BY <2>1, <2>3
  <2> QED  BY <2>2, <2>3, <2>4
<1>5. S \in SUBSET M
  OBVIOUS
<1>6. S = {}
  <2> HIDE DEF S
  <2> QED  BY <1>4, <1>5, NoClimb
<1> QED  BY <1>2, <1>6

\* After a round that moves no pointer the tree is no deeper anywhere.
LEMMA SameDeep ==
    ASSUME NEW t, NEW T, SamePointers(T, t), NEW D
    PROVE  Deep(T, D) = Deep(t, D)
BY DEF Deep, SamePointers

LEMMA FormMembers ==
    ASSUME NEW t, NEW M, NEW L, NEW pos, Form(t, M, L, pos)
    PROVE  ToSet(Walk(t)) = M
<1>1. PICK bd, w : Laid(t, M, L, pos, bd) /\ w = Listed(M, L, pos)
  BY DEF Form
<1>2. Walk(t) = w /\ ToSet(w) = M
  BY <1>1, WalkIs, ListedIs
<1> QED  BY <1>2

\* A round of rb_insert_fixup goes up two levels or is the last one.
LEMMA InsertNearer ==
    ASSUME RBInv, rb_insert_fixup
    PROVE  Depth(nd)' < Depth(nd) \/ ~Looping'
<1>1. PICK M, L, pos : Form(tree, M, L, pos) /\ Colored(tree, M, at, nd)
  BY DEF RBInv
<1>2. /\ Form(tree', M, L, pos) /\ at = "insert" /\ at' = at /\ nd' \in M /\ nd \in M
      /\ InsertAdvances /\ tree.color[tree.parent[nd]] = "RED" /\ tree.color[Nil] = "BLACK"
  BY <1>1, InsertRound DEF Colored
<1>3. CASE tree'.color[tree'.parent[nd']] = "BLACK"
  <2>1. at' = "insert"
    BY <1>2
  <2> QED  BY <1>3, <2>1 DEF Looping
<1>4. CASE SamePointers(tree', tree) /\ nd' = tree.parent[tree.parent[nd]]
  <2>1. PICK t, x, g, p : t = tree /\ x = nd /\ g = nd' /\ tree.parent[nd] = p
    OBVIOUS
  <2>2. PICK bd : Laid(t, M, L, pos, bd)
    BY <1>1, <2>1 DEF Form
  <2>3. x \in M /\ g \in M /\ t.parent[x] = p /\ t.parent[p] = g /\ t.color[p] # t.color[Nil]
    BY <1>2, <1>4, <2>1
  <2>4. Nil \notin M
    BY <2>2, RBAssumption DEF Laid
  <2>5. p # Nil
    BY <2>3
  <2>6. x # t.root /\ p \in M
    BY <2>2, <2>3, <2>5, AboveOf
  <2>7. p # t.root
    <3>1. g # Nil
      BY <2>3, <2>4
    <3> QED  BY <2>2, <2>3, <2>6, <3>1, AboveOf
  <2>8. PICK d, E : d = Deep(t, E) /\ E = M
    OBVIOUS
  <2>9. \A m \in M : m # t.root => t.parent[m] \in M
    BY <2>2, AboveOf
  <2>10. \A m \in E : d[m] \in Nat /\ d[m] = IF m = t.root THEN 0 ELSE 1 + d[t.parent[m]]
    <3>1. M \subseteq E /\ E \subseteq M \cup {Nil} /\ \A m \in E : m # t.root => t.parent[m] \in M
      BY <2>8, <2>9
    <3> QED  BY <2>2, <2>8, <3>1, DeepIs
  <2>11. d[x] = 1 + d[p] /\ d[p] = 1 + d[g] /\ d[g] \in Nat
    BY <2>3, <2>6, <2>7, <2>8, <2>10
  <2>12. Depth(nd) = d[x]
    <3>1. Members \cup {nd} = E
      BY <1>1, <2>1, <2>3, <2>8, FormMembers DEF Members
    <3>2. Depth(nd) = Deep(tree, Members \cup {nd})[nd]
      BY DEF Depth, Deep
    <3> QED  BY <2>1, <2>8, <3>1, <3>2
  <2>13. Depth(nd)' = d[g]
    <3>1. Members' \cup {nd'} = E
      BY <1>2, <2>8, FormMembers DEF Members
    <3>2. Depth(nd)' = Deep(tree', Members' \cup {nd'})[nd']
      BY DEF Depth, Deep
    <3>3. Deep(tree', E) = Deep(tree, E)
      BY <1>4, SameDeep
    <3> QED  BY <2>1, <2>8, <3>1, <3>2, <3>3
  <2> QED  BY <2>11, <2>12, <2>13
<1> QED  BY <1>2, <1>3, <1>4 DEF InsertAdvances

\* A round of rb_delete_fixup goes up one level or is the last one.
LEMMA DeleteNearer ==
    ASSUME RBInv, rb_delete_fixup
    PROVE  Depth(nd)' < Depth(nd) \/ ~Looping'
<1>1. PICK M, L, pos : Form(tree, M, L, pos) /\ Colored(tree, M, at, nd)
  BY DEF RBInv
<1>2. /\ Form(tree', M, L, pos) /\ at = "delete" /\ at' = at /\ nd' \in M /\ DeleteAdvances
      /\ nd # tree.root /\ tree.parent[nd] \in M /\ nd \in M \cup {Nil}
  BY <1>1, DeleteRound DEF Colored, Running
<1>3. CASE nd' = tree'.root \/ tree'.color[nd'] # "BLACK"
  <2>1. at' = "delete"
    BY <1>2
  <2> QED  BY <1>3, <2>1 DEF Looping
<1>4. CASE SamePointers(tree', tree) /\ nd' = tree.parent[nd]
  <2>1. PICK t, x, p : t = tree /\ x = nd /\ p = nd'
    OBVIOUS
  <2>2. PICK bd : Laid(t, M, L, pos, bd)
    BY <1>1, <2>1 DEF Form
  <2>3. x \in M \cup {Nil} /\ p \in M /\ t.parent[x] = p /\ x # t.root
    BY <1>2, <1>4, <2>1
  <2>4. PICK D, E : D = M \cup {x} /\ E = M
    BY ZenonT(40)
  <2>5. PICK d, a : d = Deep(t, D) /\ a = Deep(t, M)
    OBVIOUS
  <2>6. \A m \in M : m # t.root => t.parent[m] \in M
    BY <2>2, AboveOf
  <2>7. M \subseteq D /\ D \subseteq M \cup {Nil} /\ \A m \in D : m # t.root => t.parent[m] \in M
    BY <2>3, <2>4, <2>6
  <2>8. d[x] = 1 + d[p]
    <3>1. \A m \in D : d[m] \in Nat /\ d[m] = IF m = t.root THEN 0 ELSE 1 + d[t.parent[m]]
      BY <2>2, <2>5, <2>7, DeepIs
    <3> QED  BY <2>3, <2>4, <3>1
  <2>9. a[p] \in Nat /\ d[p] = a[p]
    BY <2>2, <2>3, <2>5, <2>7, DeepSame
  <2>10. Depth(nd) = d[x]
    <3>1. Members \cup {nd} = D
      BY <1>1, <2>1, <2>4, FormMembers DEF Members
    <3>2. Depth(nd) = Deep(tree, Members \cup {nd})[nd]
      BY DEF Depth, Deep
    <3> QED  BY <2>1, <2>5, <3>1, <3>2
  <2>11. Depth(nd)' = a[p]
    <3>1. Members' \cup {nd'} = M
      BY <1>2, FormMembers DEF Members
    <3>2. Depth(nd)' = Deep(tree', Members' \cup {nd'})[nd']
      BY DEF Depth, Deep
    <3>3. Deep(tree', M) = Deep(tree, M)
      BY <1>4, SameDeep
    <3> QED  BY <2>1, <2>5, <3>1, <3>2, <3>3
  <2> QED  BY <2>8, <2>9, <2>10, <2>11
<1> QED  BY <1>2, <1>3, <1>4 DEF DeleteAdvances

\* A round of either loop brings nd nearer to the root or is the last of its
\* call, so a call makes no more rounds than the tree is high.
THEOREM RBAdvances == Spec => FixupAdvances
<1>1. ASSUME RBInv, [Next]_vars
      PROVE  at # "idle" /\ at' = at => Depth(nd)' < Depth(nd) \/ ~Looping' \/ UNCHANGED vars
  <2>1. CASE rb_insert_fixup
    BY <1>1, <2>1, InsertNearer
  <2>2. CASE rb_delete_fixup
    BY <1>1, <2>2, DeleteNearer
  <2>3. ASSUME NEW n \in Nodes, rb_insert(n) \/ rb_delete(n) PROVE at = "idle"
    BY <2>3 DEF rb_insert, rb_delete
  <2>4. CASE InsertReturns \/ DeleteReturns
    BY <2>4 DEF InsertReturns, DeleteReturns
  <2> QED  BY <1>1, <2>1, <2>2, <2>3, <2>4 DEF Next
<1>2. RBInv /\ [Next]_vars =>
        [at # "idle" /\ at' = at => Depth(nd)' < Depth(nd) \/ ~Looping']_vars
  BY <1>1
<1> QED  BY <1>2, RBInvariant, PTL DEF Spec, FixupAdvances
=============================================================================
