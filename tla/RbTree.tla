------------------------------- MODULE RbTree --------------------------------
(***************************************************************************)
(* The red-black tree of the kernel library, kernel/lib/ds/rbtree.c.  The  *)
(* nodes are embedded in the objects of the callers, so a deletion moves   *)
(* pointers and never data.  A case of the loops that restore the balance  *)
(* is an action; a search is an operator on the tree.                      *)
(***************************************************************************)
EXTENDS Integers, Sequences, Functions

CONSTANTS
  Node,  \* the nodes that callers have
  Key,   \* what the comparison function sees of a node
  Null

Red == "red"
Black == "black"

VARIABLES
  t,        \* the tree: its root, and the fields of every node
  pc,       \* "insert" in rbt_insert_fix, "delete" in rbt_delete_fix, else "idle"
  node,     \* the variable node of these loops
  deletee,  \* the node that rbtree_delete removes
  child,    \* its variable child
  members   \* the nodes inserted and not deleted, as the callers know them

vars == <<t, pc, node, deletee, child, members>>

Init ==
  /\ t = [root |-> Null,
          left |-> [n \in Node |-> Null], right |-> [n \in Node |-> Null],
          parent |-> [n \in Node |-> Null], colour |-> [n \in Node |-> Red]]
  /\ pc = "idle" /\ node = Null /\ deletee = Null /\ child = Null
  /\ members = {}

-----------------------------------------------------------------------------
(* Access to nodes and moves of pointers *)

Colour(n) == IF n = Null THEN Black ELSE t.colour[n]

Sibling(n) ==
  LET p == t.parent[n] IN IF t.left[p] = n THEN t.right[p] ELSE t.left[p]

SetParent(s, n, p) == IF n = Null THEN s ELSE [s EXCEPT !.parent[n] = p]

\* The link to node old in its parent p, or in the root, becomes one to new.
Relink(s, p, old, new) ==
  IF p = Null THEN [s EXCEPT !.root = new]
  ELSE IF s.left[p] = old THEN [s EXCEPT !.left[p] = new]
  ELSE [s EXCEPT !.right[p] = new]

ReplaceSubtree(s, old, new) ==
  SetParent(Relink(s, s.parent[old], old, new), new, s.parent[old])

RotateLeft(s, old) ==
  LET new == s.right[old]
      s1 == [ReplaceSubtree(s, old, new) EXCEPT !.right[old] = s.left[new]]
      s2 == [SetParent(s1, s.left[new], old) EXCEPT !.left[new] = old]
  IN  SetParent(s2, old, new)

\* Mutant of RotateRight: the subtree in the middle keeps its parent.
RotateRightForgetful(s, old) ==
  LET new == s.left[old]
      s1 == [ReplaceSubtree(s, old, new) EXCEPT !.left[old] = s.right[new],
                                                !.right[new] = old]
  IN  SetParent(s1, old, new)

RotateRight(s, old) ==
  LET new == s.left[old]
      s1 == [ReplaceSubtree(s, old, new) EXCEPT !.left[old] = s.right[new]]
      s2 == [SetParent(s1, s.right[new], old) EXCEPT !.right[new] = old]
  IN  SetParent(s2, old, new)

\* rbt_swap_nodes.  Here y is below x, maybe its child: x is never a child of y.
SwapNodes(s, x, y) ==
  LET s1 == SetParent(SetParent(s, s.left[x], y), s.right[x], y)
      s2 == ReplaceSubtree(s1, x, y)
      s3 == [s2 EXCEPT !.left[y] = IF s.left[x] # y THEN s.left[x] ELSE x,
                       !.right[y] = IF s.right[x] # y THEN s.right[x] ELSE x,
                       !.colour[y] = s.colour[x]]
      s4 == SetParent(SetParent(s3, s.left[y], x), s.right[y], x)
      s5 == IF s.parent[y] = x THEN SetParent(s4, x, y)
            ELSE SetParent(Relink(s4, s.parent[y], y, x), x, s.parent[y])
  IN  [s5 EXCEPT !.left[x] = s.left[y], !.right[x] = s.right[y],
                 !.colour[x] = s.colour[y]]

-----------------------------------------------------------------------------
(* rbtree_insert *)

\* The node below which a node with key k goes; equal keys go to the left.
InsertionPoint(k) ==
  LET f[n \in Node] ==
        LET next == IF Key[n] >= k THEN t.left[n] ELSE t.right[n]
        IN  IF next = Null THEN n ELSE f[next]
  IN  IF t.root = Null THEN Null ELSE f[t.root]

\* The new node becomes a leaf below p.
InsertBelow(n, p, left) ==
  /\ pc = "idle"
  /\ n \notin members
  /\ LET leaf == [t EXCEPT !.left[n] = Null, !.right[n] = Null, !.parent[n] = p,
                           !.colour[n] = Red]
     IN  t' = IF p = Null THEN [leaf EXCEPT !.root = n]
              ELSE IF left THEN [leaf EXCEPT !.left[p] = n]
              ELSE [leaf EXCEPT !.right[p] = n]
  /\ pc' = "insert" /\ node' = n
  /\ members' = members \cup {n}
  /\ UNCHANGED <<deletee, child>>

Insert(n) ==
  LET p == InsertionPoint(Key[n]) IN InsertBelow(n, p, p # Null /\ Key[p] >= Key[n])

\* rbt_insert_fix leaves its loop with tree s.
InsertDone(s) == t' = s /\ pc' = "idle" /\ node' = Null

InsertAtRoot ==
  /\ pc = "insert" /\ t.parent[node] = Null
  /\ InsertDone([t EXCEPT !.colour[node] = Black])
  /\ UNCHANGED <<deletee, child, members>>

InsertUnderBlack ==
  /\ pc = "insert" /\ t.parent[node] # Null
  /\ Colour(t.parent[node]) = Black
  /\ InsertDone(t)
  /\ UNCHANGED <<deletee, child, members>>

UnderRed == pc = "insert" /\ t.parent[node] # Null /\ Colour(t.parent[node]) = Red
Parent == t.parent[node]
Grandparent == t.parent[Parent]
Uncle == Sibling(Parent)

\* Mutants of InsertRedUncle: the loop stops after one round; it goes up too far.
InsertRedUncleOnce ==
  /\ UnderRed /\ Colour(Uncle) = Red
  /\ InsertDone([t EXCEPT !.colour[Parent] = Black, !.colour[Uncle] = Black,
                          !.colour[Grandparent] = Red])
  /\ UNCHANGED <<deletee, child, members>>

InsertRedUncle ==
  /\ UnderRed /\ Colour(Uncle) = Red
  /\ t' = [t EXCEPT !.colour[Parent] = Black, !.colour[Uncle] = Black,
                    !.colour[Grandparent] = Red]
  /\ node' = Grandparent
  /\ UNCHANGED <<pc, deletee, child, members>>

\* Grandparent, parent and node form a triangle: a rotation makes them a line.
InsertTriangle ==
  /\ UnderRed /\ Colour(Uncle) = Black
  /\ \/ /\ node = t.right[Parent] /\ Parent = t.left[Grandparent]
        /\ t' = RotateLeft(t, Parent)
     \/ /\ node = t.left[Parent] /\ Parent = t.right[Grandparent]
        /\ t' = RotateRight(t, Parent)
  /\ node' = Parent
  /\ UNCHANGED <<pc, deletee, child, members>>

InsertLine ==
  /\ UnderRed /\ Colour(Uncle) = Black
  /\ LET s == [t EXCEPT !.colour[Parent] = Black, !.colour[Grandparent] = Red]
     IN  \/ /\ node = t.left[Parent] /\ Parent = t.left[Grandparent]
            /\ InsertDone(RotateRight(s, Grandparent))
         \/ /\ node = t.right[Parent] /\ Parent = t.right[Grandparent]
            /\ InsertDone(RotateLeft(s, Grandparent))
  /\ UNCHANGED <<deletee, child, members>>

-----------------------------------------------------------------------------
(* rbtree_delete *)

\* rbt_find_successor: the last node of the left subtree.
Predecessor(n) ==
  LET f[m \in Node] == IF t.right[m] = Null THEN m ELSE f[t.right[m]]
  IN  f[t.left[n]]

\* Node d leaves tree s and c takes its place.  The fields of a node outside of the tree
\* mean nothing: rbtree_insert sets them again.
RemoveNode(s, d, c) ==
  [ReplaceSubtree(s, d, c) EXCEPT !.left[d] = Null, !.right[d] = Null,
                                  !.parent[d] = Null, !.colour[d] = Red]

\* rbtree_delete ends with tree s.
DeleteDone(s, d, c) ==
  /\ t' = RemoveNode(s, d, c)
  /\ pc' = "idle" /\ node' = Null /\ deletee' = Null /\ child' = Null

\* The tree in which n has at most one child.
WithOneChild(n) ==
  IF t.left[n] # Null /\ t.right[n] # Null THEN SwapNodes(t, n, Predecessor(n)) ELSE t

\* The rest of rbtree_delete; the deletee had colour k when it was looked at.
DeleteColoured(n, k) ==
  LET s == WithOneChild(n)
      c == IF s.right[n] # Null THEN s.right[n] ELSE s.left[n]
      redChild == c # Null /\ s.colour[c] = Red
  IN  /\ pc = "idle"
      /\ n \in members
      /\ members' = members \ {n}
      /\ \/ k = Red /\ DeleteDone(s, n, c)
         \/ k = Black /\ redChild /\ DeleteDone([s EXCEPT !.colour[c] = Black], n, c)
         \/ /\ k = Black /\ ~redChild
            /\ t' = s /\ pc' = "delete" /\ node' = n /\ deletee' = n /\ child' = c

Delete(n) == DeleteColoured(n, WithOneChild(n).colour[n])

\* Mutant of DeleteAtRoot: the loop goes on.
DeleteAtRootForever ==
  /\ pc = "delete" /\ Parent = Null
  /\ UNCHANGED vars

\* rbt_delete_fix has arrived at the root.
DeleteAtRoot ==
  /\ pc = "delete" /\ Parent = Null
  /\ DeleteDone(t, deletee, child)
  /\ UNCHANGED members

\* The children of the sibling, on the side of node and on the other side.
Near == IF node = t.left[Parent] THEN t.left[Sibling(node)] ELSE t.right[Sibling(node)]
Far == IF node = t.left[Parent] THEN t.right[Sibling(node)] ELSE t.left[Sibling(node)]

\* The rotations that move n to the side of node, and away from it.
RotateToNode(s, n) == IF node = t.left[Parent] THEN RotateLeft(s, n) ELSE RotateRight(s, n)
RotateFromNode(s, n) == IF node = t.left[Parent] THEN RotateRight(s, n) ELSE RotateLeft(s, n)

DeleteRedSibling ==
  /\ pc = "delete" /\ Parent # Null /\ Colour(Sibling(node)) = Red
  /\ t' = RotateToNode([t EXCEPT !.colour[Sibling(node)] = Black, !.colour[Parent] = Red],
                       Parent)
  /\ UNCHANGED <<pc, node, deletee, child, members>>

UnderBlackSibling == pc = "delete" /\ Parent # Null /\ Colour(Sibling(node)) = Black

DeleteBlackFamily ==
  /\ UnderBlackSibling
  /\ Colour(Near) = Black /\ Colour(Far) = Black /\ Colour(Parent) = Black
  /\ t' = [t EXCEPT !.colour[Sibling(node)] = Red]
  /\ node' = Parent
  /\ UNCHANGED <<pc, deletee, child, members>>

DeleteUnderRed ==
  /\ UnderBlackSibling
  /\ Colour(Near) = Black /\ Colour(Far) = Black /\ Colour(Parent) = Red
  /\ DeleteDone([t EXCEPT !.colour[Sibling(node)] = Red, !.colour[Parent] = Black],
                deletee, child)
  /\ UNCHANGED members

DeleteInnerRed ==
  /\ UnderBlackSibling
  /\ Colour(Near) = Red /\ Colour(Far) = Black
  /\ t' = RotateFromNode([t EXCEPT !.colour[Sibling(node)] = Red, !.colour[Near] = Black],
                         Sibling(node))
  /\ UNCHANGED <<pc, node, deletee, child, members>>

DeleteOuterRed ==
  /\ UnderBlackSibling
  /\ Colour(Far) = Red
  /\ LET s == [t EXCEPT !.colour[Sibling(node)] = Colour(Parent),
                        !.colour[Parent] = Black, !.colour[Far] = Black]
     IN  DeleteDone(RotateToNode(s, Parent), deletee, child)
  /\ UNCHANGED members

-----------------------------------------------------------------------------
(* The searches, for a limit k.  The loops of the code are functions that call themselves. *)

\* rbtree_search
Search(k) ==
  LET f[n \in Node \cup {Null}] ==
        IF n = Null THEN Null
        ELSE IF Key[n] = k THEN n
        ELSE IF Key[n] > k THEN f[t.left[n]] ELSE f[t.right[n]]
  IN  f[t.root]

\* The inner loops of the searches: to the left while the keys are above k, to the right
\* while they are below, and up to an ancestor below or above k.
LeftWhileAbove(k) ==
  LET f[n \in Node] == IF Key[n] > k /\ t.left[n] # Null THEN f[t.left[n]] ELSE n IN f
RightWhileBelow(k) ==
  LET f[n \in Node] == IF Key[n] < k /\ t.right[n] # Null THEN f[t.right[n]] ELSE n IN f

\* Mutant of UpWhileAbove: a single step up.
UpOnce(k) == [n \in Node |-> IF t.parent[n] # Null THEN t.parent[n] ELSE n]

UpWhileAbove(k) ==
  LET f[n \in Node] == IF Key[n] > k /\ t.parent[n] # Null THEN f[t.parent[n]] ELSE n IN f
UpWhileBelow(k) ==
  LET f[n \in Node \cup {Null}] == IF n # Null /\ Key[n] < k THEN f[t.parent[n]] ELSE n IN f

\* rbtree_search_min, for a limit that some key reaches: without one the code follows the
\* parent of the root, which is NULL.
SearchMin(k) ==
  LET f[n \in Node] ==
        LET m == RightWhileBelow(k)[LeftWhileAbove(k)[n]]
        IN  IF Key[m] = k THEN m
            ELSE IF Key[m] < k /\ t.right[m] = Null THEN UpWhileBelow(k)[m]
            ELSE IF Key[m] > k /\ t.left[m] = Null THEN m
            ELSE f[m]
  IN  IF t.root = Null THEN Null ELSE f[t.root]

\* rbtree_search_max
SearchMax(k) ==
  LET f[n \in Node] ==
        LET m == LeftWhileAbove(k)[RightWhileBelow(k)[n]]
        IN  IF Key[m] = k THEN m
            ELSE IF Key[m] > k /\ t.left[m] = Null THEN UpWhileAbove(k)[m]
            ELSE IF Key[m] < k /\ t.right[m] = Null THEN m
            ELSE f[m]
  IN  IF t.root = Null \/ Key[f[t.root]] > k THEN Null ELSE f[t.root]

\* The loop of rbtree_iter_range, with a callback that always asks for more.  Where it is:
\* at a node of the tree, and where it comes from.
IterFrom(start, before, to) ==
  LET Place == members \cup {Null}
      f[at \in Place \X Place] ==
        LET n == at[1]
            prev == at[2]
        IN  IF n = Null THEN <<>>
            ELSE IF prev = t.left[n]
            THEN IF Key[n] > to THEN <<>>
                 ELSE <<n>> \o f[<<IF t.right[n] # Null THEN t.right[n] ELSE t.parent[n], n>>]
            ELSE IF prev = t.right[n] THEN f[<<t.parent[n], n>>]
            ELSE IF t.left[n] # Null THEN f[<<t.left[n], n>>] ELSE f[<<n, t.left[n]>>]
  IN  f[<<start, before>>]

\* rbtree_iter_range: the nodes visited, if some key reaches from.
IterRange(from, to) == IterFrom(SearchMin(from), t.left[SearchMin(from)], to)

-----------------------------------------------------------------------------
InsertFix ==
  InsertAtRoot \/ InsertUnderBlack \/ InsertRedUncle \/ InsertTriangle \/ InsertLine

DeleteFix ==
  \/ DeleteAtRoot \/ DeleteRedSibling \/ DeleteBlackFamily
  \/ DeleteUnderRed \/ DeleteInnerRed \/ DeleteOuterRed

Next == (\E n \in Node : Insert(n) \/ Delete(n)) \/ InsertFix \/ DeleteFix

-----------------------------------------------------------------------------
(* Properties *)

\* Type invariant.
TypeOK ==
  /\ t \in [root : Node \cup {Null},
            left : [Node -> Node \cup {Null}], right : [Node -> Node \cup {Null}],
            parent : [Node -> Node \cup {Null}], colour : [Node -> {Red, Black}]]
  /\ pc \in {"idle", "insert", "delete"}
  /\ node \in Node \cup {Null} /\ (pc # "idle" => node # Null)
  /\ deletee \in Node \cup {Null} /\ child \in Node \cup {Null}
  /\ members \subseteq Node

\* The nodes below n and n itself, from left to right.
InOrder[n \in Node \cup {Null}] ==
  IF n = Null THEN <<>> ELSE InOrder[t.left[n]] \o <<n>> \o InOrder[t.right[n]]

Sorted(s) == \A i, j \in 1 .. Len(s) : i < j => s[i] # s[j] /\ Key[s[i]] <= Key[s[j]]

\* Between calls the tree holds the nodes that were inserted and not deleted, each once and
\* in the order of their keys, though a deletion swaps nodes and both calls rotate.  A parent
\* pointer leads back to where the node is linked, also inside of the loops: it is what the
\* rotations and the searches go up by.
HoldsMembers ==
  LET s == InOrder[t.root]
  IN  /\ TypeOK
      /\ pc = "idle" => Range(s) = members /\ Sorted(s)
      /\ t.root # Null => t.parent[t.root] = Null
      /\ \A n \in Range(s) : \A c \in {t.left[n], t.right[n]} \ {Null} : t.parent[c] = n

\* The number of black nodes on the way from n to the first leaf on the left.
BlackHeight[n \in Node \cup {Null}] ==
  IF n = Null THEN 0
  ELSE BlackHeight[t.left[n]] + (IF t.colour[n] = Black THEN 1 ELSE 0)

\* Inside of a call, the assertions of the loops hold, and the pointers that they follow
\* without one are there: a red parent has a parent; a sibling exists; a red one has a
\* black parent and black children.
AssertionsHold ==
  /\ UnderRed => Grandparent # Null
  /\ pc = "delete" /\ Parent # Null =>
       /\ Sibling(node) # Null
       /\ Colour(Sibling(node)) = Red =>
            /\ Colour(Parent) = Black
            /\ Near # Null /\ Colour(Near) = Black

\* Between calls the tree is a red-black tree: a black root, no red node below a red one,
\* the same number of black nodes on every path; inside of a call it is near enough to one
\* for the assertions.
Balanced ==
  /\ AssertionsHold
  /\ pc = "idle" =>
      /\ Colour(t.root) = Black
      /\ \A n \in Range(InOrder[t.root]) :
           /\ t.colour[n] = Red => Colour(t.left[n]) = Black /\ Colour(t.right[n]) = Black
           /\ BlackHeight[t.left[n]] = BlackHeight[t.right[n]]

\* Limits at, between and around the keys.
Limits == UNION {{Key[n] - 1, Key[n], Key[n] + 1} : n \in Node}

\* The searches, which turn around more than once on their way, find what they are named
\* for: a node at the limit, or the nearest one within it.
SearchesFindNearest ==
  pc = "idle" =>
    \A k \in Limits :
      LET below == {n \in members : Key[n] <= k}
          above == {n \in members : Key[n] >= k}
          found == SearchMax(k)
      IN  /\ IF below = {} THEN found = Null
             ELSE found \in below /\ \A n \in below : Key[n] <= Key[found]
          /\ above # {} =>
               SearchMin(k) \in above /\ \A n \in above : Key[SearchMin(k)] <= Key[n]
          /\ IF below \cap above = {} THEN Search(k) = Null ELSE Search(k) \in below \cap above

\* An iteration visits, in order and once each, the nodes of the range, those with the
\* lower limit itself as their key only in part.
IterationCoversRange ==
  pc = "idle" =>
    \A from \in Limits, to \in Limits :
      from < to /\ (\E n \in members : Key[n] >= from) =>
        LET s == IterRange(from, to)
        IN  /\ Sorted(s)
            /\ Range(s) \subseteq {n \in members : Key[n] \in from .. to}
            /\ {n \in members : Key[n] \in from + 1 .. to} \subseteq Range(s)

\* Between calls the searches and the iteration, which turn around more than once on
\* their way, visit what they are named for.
SearchesAreRight == SearchesFindNearest /\ IterationCoversRange

\* Every call returns: no case of the loops leads back to itself.
CallsReturn == pc # "idle" ~> pc = "idle"

=============================================================================
