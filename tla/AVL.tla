--------------------------------- MODULE AVL ---------------------------------
(***************************************************************************)
(* The balanced tree (avl/avl.c) in which the server keeps its sources,    *)
(* relays, listeners, files, statistics and bans.  Nodes are linked by     *)
(* child[n][-1] (left), child[n][1] (right) and parent; Root is the        *)
(* sentinel whose right child is the tree.  The code's mirrored branches   *)
(* are one here, with the side as a parameter.                             *)
(***************************************************************************)
EXTENDS Integers, Sequences, FiniteSets, FiniteSetsExt, SequencesExt

CONSTANTS
  Keys,       \* keys, integers
  MaxEqual,   \* bound: entries with one key at a time
  AvlNodes,   \* memory for nodes
  Root, Null  \* the sentinel, and no node

VARIABLES
  avl,        \* [child, parent, balance, rank, key, length, used]
  held        \* the keys the tree ought to hold, as a sequence in order

avlVars == <<avl, held>>
Side == {-1, 1}

NewNode(T, n, k, p) ==           \* avl_node_new
  [T EXCEPT !.used = @ \cup {n}, !.key[n] = k, !.parent[n] = p,
            !.child[n] = [d \in Side |-> Null], !.balance[n] = 0, !.rank[n] = 1]

AvlInit ==                       \* avl_tree_new
  /\ held = <<>>
  /\ avl = [child |-> [n \in AvlNodes \cup {Root} |-> [d \in Side |-> Null]],
            parent |-> [n \in AvlNodes \cup {Root} |-> Null],
            balance |-> [n \in AvlNodes \cup {Root} |-> 0],
            rank |-> [n \in AvlNodes \cup {Root} |-> 1],
            key |-> [n \in AvlNodes \cup {Root} |-> 0], length |-> 0, used |-> {}]

Link(T, p, d, c) ==              \* c becomes p's child on side d
  LET U == [T EXCEPT !.child[p][d] = c]
  IN IF c = Null THEN U ELSE [U EXCEPT !.parent[c] = p]

SideOf(T, k, n) == IF k <= T.key[n] THEN -1 ELSE 1   \* compare_fun (...) < 1

Rotate(T, x, d) ==               \* x's child on side d rises above x
  LET y == T.child[x][d]
      U == [Link(Link(T, x, d, T.child[y][-d]), y, -d, x) EXCEPT !.parent[y] = T.parent[x]]
  IN IF d = -1 THEN [U EXCEPT !.rank[x] = @ - U.rank[y]]
               ELSE [U EXCEPT !.rank[y] = @ + U.rank[x]]

Balances(T, bs) == [T EXCEPT !.balance = [n \in DOMAIN @ |->
                      IF n \in DOMAIN bs THEN bs[n] ELSE @[n]]]

\* A single rotation when the tall side's child r leans the same way, a double one when
\* it leans the other way; the new top.
Single(T, s, d) == [tree |-> Balances(Rotate(T, s, d), [n \in {s, T.child[s][d]} |-> 0]),
                    top |-> T.child[s][d]]
\* A fault: the two nodes of a double rotation are taken to end level.
Double_Level(T, s, d) ==
  LET r == T.child[s][d] p == T.child[r][-d]
      U == Rotate(Link(Rotate(T, r, -d), s, d, p), s, d)
  IN [tree |-> Balances(U, [n \in {s, r, p} |-> 0]), top |-> p]

Double(T, s, d) ==
  LET r == T.child[s][d] p == T.child[r][-d] b == T.balance[p]
      U == Rotate(Link(Rotate(T, r, -d), s, d, p), s, d)
  IN [tree |-> Balances(U, [n \in {s, r, p} |->
                 IF n = s /\ b = d THEN -d ELSE IF n = r /\ b = -d THEN d ELSE 0]),
      top |-> p]

Top(rotated, t, s) ==            \* the finishing touch: t's former child was s
  LET T == rotated.tree d == IF T.child[t][1] = s THEN 1 ELSE -1
  IN Link(T, t, d, rotated.top)

----------------------------------------------------------------------------
\* avl_insert

RECURSIVE Descend(_, _, _, _, _)
Descend(T, k, t, s, p) ==        \* counting ranks, to the place of the new leaf;
  LET d == SideOf(T, k, p)       \* t, s: the lowest unbalanced node and its parent
      U == IF d = -1 THEN [T EXCEPT !.rank[p] = @ + 1] ELSE T
      q == T.child[p][d]
  IN IF q = Null THEN [tree |-> U, above |-> t, unbalanced |-> s, leaf |-> p, side |-> d]
     ELSE IF T.balance[q] # 0 THEN Descend(U, k, p, q, q) ELSE Descend(U, k, t, s, q)

RECURSIVE Lean(_, _, _, _)
Lean(T, k, p, q) ==              \* the balances between s and the new leaf q
  IF p = q THEN T
  ELSE LET d == SideOf(T, k, p)
       IN Lean([T EXCEPT !.balance[p] = d], k, T.child[p][d], q)

Inserted(T, k, n) ==
  IF T.child[Root][1] = Null
  THEN [Link(NewNode(T, n, k, Root), Root, 1, n) EXCEPT !.length = @ + 1]
  ELSE LET w == Descend(T, k, Root, T.child[Root][1], T.child[Root][1])
           s == w.unbalanced t == w.above
           U == [Link(NewNode(w.tree, n, k, w.leaf), w.leaf, w.side, n)
                  EXCEPT !.length = @ + 1]
           a == SideOf(U, k, s) r == U.child[s][a]
           V == Lean(U, k, r, n)
       IN IF V.balance[s] = 0 THEN [V EXCEPT !.balance[s] = a]
          ELSE IF V.balance[s] = -a THEN [V EXCEPT !.balance[s] = 0]
          ELSE Top(IF V.balance[r] = a THEN Single(V, s, a) ELSE Double(V, s, a), t, s)

----------------------------------------------------------------------------
\* avl_get_by_key, avl_delete

RECURSIVE Seek(_, _, _)
Seek(T, k, x) ==
  IF x = Null \/ T.key[x] = k THEN x
  ELSE Seek(T, k, T.child[x][SideOf(T, k, x)])

GetByKey(T, k) == Seek(T, k, T.child[Root][1])

RECURSIVE Walk(_, _, _, _)
Walk(T, k, x, last) ==           \* ranks are lowered on the way; where it ends
  IF x = Null \/ T.key[x] = k THEN [tree |-> T, node |-> x, last |-> last]
  ELSE LET d == SideOf(T, k, x)
       IN Walk(IF d = -1 THEN [T EXCEPT !.rank[x] = @ - 1] ELSE T, k, T.child[x][d], x)

RECURSIVE Undo(_, _)
Undo(T, x) ==                    \* "Oops! now we have to undo the rank changes"
  IF T.parent[x] = Root THEN T
  ELSE LET p == T.parent[x]
       IN Undo(IF T.child[p][-1] = x THEN [T EXCEPT !.rank[p] = @ + 1] ELSE T, p)

RECURSIVE Outermost(_, _, _)
Outermost(T, x, d) == IF T.child[x][d] = Null THEN x ELSE Outermost(T, T.child[x][d], d)

RECURSIVE Rebalance(_, _, _)
Rebalance(T, p, side) ==         \* p's subtree on that side is shorter by one
  IF T.parent[p] = Null THEN T
  ELSE LET top == T.parent[p] q == T.child[p][-side]
           Up(U, x) == Rebalance(U, top, IF U.child[top][-1] = x THEN -1 ELSE 1) IN
       CASE T.balance[p] = 0 -> [T EXCEPT !.balance[p] = -side]
         [] T.balance[p] = side -> Up([T EXCEPT !.balance[p] = 0], p)
         [] OTHER ->
              IF T.balance[q] = 0
              THEN LET R == Single(T, p, -side)
                   IN Balances(Top(R, top, p), [n \in {p, q} |-> IF n = q THEN side ELSE -side])
              ELSE LET R == IF T.balance[q] = -side THEN Single(T, p, -side)
                            ELSE Double(T, p, -side)
                   IN Up(Top(R, top, p), R.top)

Deleted(T, k) ==
  LET w == Walk(T, k, T.child[Root][1], Root) IN
  IF T.child[Root][1] = Null THEN T
  ELSE IF w.node = Null THEN Undo([w.tree EXCEPT !.rank[w.last] = @ + 1], w.last)
  ELSE LET x == w.node
           two == \A d \in Side : T.child[x][d] # Null
           y == IF two THEN Outermost(w.tree, w.tree.child[x][-1], 1) ELSE x
           U == IF two THEN [w.tree EXCEPT !.key[x] = w.tree.key[y], !.rank[x] = @ - 1]
                ELSE w.tree      \* the predecessor's key moves up, its node goes
           c == IF U.child[y][-1] # Null THEN U.child[y][-1] ELSE U.child[y][1]
           p == U.parent[y]
           side == IF U.child[p][-1] = y THEN -1 ELSE 1
           V == [Link(U, p, side, c) EXCEPT !.used = @ \ {y}, !.length = @ - 1,
                   !.child[y] = [d \in Side |-> Null], !.parent[y] = Null,
                   !.balance[y] = 0, !.rank[y] = 1, !.key[y] = 0]
       IN Rebalance(V, p, side)

----------------------------------------------------------------------------
\* Iteration and the searches by order and by index.

First(T) == IF T.child[Root][1] = Null THEN Null ELSE Outermost(T, T.child[Root][1], -1)

RECURSIVE Climb(_, _, _)
Climb(T, x, d) ==                \* up to the first ancestor x is not on side d of
  IF T.parent[x] = Root THEN Null
  ELSE IF T.child[T.parent[x]][-d] = x THEN T.parent[x] ELSE Climb(T, T.parent[x], d)

Neighbour(T, x, d) ==            \* avl_get_next (1) and avl_get_prev (-1)
  IF T.child[x][d] # Null THEN Outermost(T, T.child[x][d], -d) ELSE Climb(T, x, d)

RECURSIVE Onward(_, _)
Onward(T, x) == IF x = Null THEN <<>> ELSE <<T.key[x]>> \o Onward(T, Neighbour(T, x, 1))

RECURSIVE ByIndex(_, _, _)
ByIndex(T, m, x) ==              \* avl_get_by_index
  IF x = Null \/ m = T.rank[x] THEN x
  ELSE IF m < T.rank[x] THEN ByIndex(T, m, T.child[x][-1])
  ELSE ByIndex(T, m - T.rank[x], T.child[x][1])

RECURSIVE Nearest(_, _, _, _, _)
Nearest(T, k, x, d, best) ==     \* avl_get_item_by_key_most (-1) and _least (1)
  IF x = Null \/ T.key[x] = k THEN IF x = Null THEN best ELSE x
  ELSE LET e == SideOf(T, k, x)
       IN Nearest(T, k, T.child[x][e], d, IF e = -d THEN x ELSE best)

----------------------------------------------------------------------------
Insert(k) == /\ AvlNodes \ avl.used # {}
             /\ Cardinality({i \in DOMAIN held : held[i] = k}) < MaxEqual
             /\ avl' = Inserted(avl, k, CHOOSE n \in AvlNodes \ avl.used : TRUE)
             /\ held' = SortSeq(Append(held, k), <=)

Delete(k) == /\ avl' = Deleted(avl, k)
             /\ held' = IF k \in Range(held) THEN RemoveFirst(held, k) ELSE held

AvlNext == \E k \in Keys : Insert(k) \/ (k \in Range(held) /\ Delete(k))
AvlSpec == AvlInit /\ [][AvlNext]_avlVars

----------------------------------------------------------------------------
AvlTypeOK == /\ avl.used \subseteq AvlNodes /\ avl.length = Len(held)
             /\ \A n \in avl.used : avl.parent[n] \in avl.used \cup {Root}

RECURSIVE Height(_, _)
Height(T, x) == IF x = Null THEN 0
                ELSE 1 + Max({Height(T, T.child[x][d]) : d \in Side})

RECURSIVE Size(_, _)
Size(T, x) == IF x = Null THEN 0 ELSE 1 + Size(T, T.child[x][-1]) + Size(T, T.child[x][1])

\* What avl_verify tests: the balance each node records is the difference of its
\* subtrees' heights, at most one, and its rank is its place in its own subtree.
Balanced == \A n \in avl.used :
  /\ avl.balance[n] = Height(avl, avl.child[n][1]) - Height(avl, avl.child[n][-1])
  /\ avl.balance[n] \in -1..1
  /\ avl.rank[n] = Size(avl, avl.child[n][-1]) + 1

\* Every traversal and search sees exactly the keys inserted and not deleted, in order,
\* equal ones included, whatever insertions and deletions shaped the tree.
TreeIsSet ==
  /\ Onward(avl, First(avl)) = held
  /\ \A i \in DOMAIN held : avl.key[ByIndex(avl, i, avl.child[Root][1])] = held[i]
  /\ \A k \in Keys :
       /\ (GetByKey(avl, k) # Null) = (k \in Range(held))
       /\ \A d \in Side :
            LET n == Nearest(avl, k, avl.child[Root][1], d, Null)
                beyond == {j \in Range(held) : d * j >= d * k}
            IN IF beyond = {} THEN n = Null
               ELSE avl.key[n] = IF d = 1 THEN Min(beyond) ELSE Max(beyond)
==============================================================================
