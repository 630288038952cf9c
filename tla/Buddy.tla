------------------------------- MODULE Buddy -------------------------------
(***************************************************************************)
(* The buddy allocator of hw4/mfree.c: a binary tree in an array, in which *)
(* longest[i] is the length of the longest free block below node i.        *)
(***************************************************************************)
EXTENDS Integers, FiniteSetsExt

CONSTANT size    \* of the memory, a power of two

BuddyAssumption == size \in {2 ^ k : k \in 1 .. 16}

Index == 0 .. 2 * size - 2

LEFT_LEAF(index)  == 2 * index + 1
RIGHT_LEAF(index) == 2 * index + 2
PARENT(index)     == (index + 1) \div 2 - 1

VARIABLES
  longest,
  lent           \* history: the blocks [offset, length] that callers have

vars == <<longest, lent>>

(* The number of units below each node.                                    *)
node_size[index \in Index] == IF index = 0 THEN size ELSE node_size[PARENT(index)] \div 2

(* buddy2_new.                                                             *)
Init ==
  /\ longest = node_size
  /\ lent = {}

Larger(a, b) == IF a > b THEN a ELSE b

-----------------------------------------------------------------------------
(* What a request is rounded up to: the power of two above it, unless it   *)
(* is one.                                                                 *)
fixsize(n) == CHOOSE p \in {2 ^ k : k \in 0 .. 16} : n <= p /\ p < 2 * n

(* Two buddies that are free as a whole become one block.                  *)
Joined(l, r, m) == IF l + r = m THEN m ELSE Larger(l, r)

Ancestors(index) ==
  LET up[i \in Index] == IF i = 0 THEN {} ELSE {PARENT(i)} \cup up[PARENT(i)] IN up[index]

(* The values when that of the node index has become v: a walk from it to  *)
(* the root, which joins buddies or does not.                              *)
Update(index, v, joins) ==
  LET new[i \in Index] ==
        LET l == new[LEFT_LEAF(i)]
            r == new[RIGHT_LEAF(i)]
        IN  IF i = index THEN v
            ELSE IF i \notin Ancestors(index) THEN longest[i]
            ELSE IF joins THEN Joined(l, r, node_size[i]) ELSE Larger(l, r)
  IN  new

(* The node of n units that buddy2_alloc walks to, left when it can.       *)
Descend(n) ==
  LET at[i \in Index] ==
        IF node_size[i] = n THEN i
        ELSE at[IF longest[LEFT_LEAF(i)] >= n THEN LEFT_LEAF(i) ELSE RIGHT_LEAF(i)]
  IN  at[0]

(* buddy2_alloc; a request that cannot be met changes nothing.             *)
buddy2_alloc(asked) ==
  LET n == IF asked <= 0 THEN 1 ELSE fixsize(asked)
      index == Descend(n)
  IN  /\ longest[0] >= n
      /\ longest' = Update(index, 0, FALSE)
      /\ lent' = lent \cup {[offset |-> (index + 1) * n - size, length |-> n]}

(* A slip: the node whose value is searched is the topmost one.            *)
Owner_Top(at) ==
  LET up == {at + size - 1} \cup Ancestors(at + size - 1) IN Min({i \in up : longest[i] = 0})
(* The node that buddy2_free takes for the block: the first above the leaf *)
(* with nothing free.                                                      *)
Owner(at) ==
  LET up == {at + size - 1} \cup Ancestors(at + size - 1) IN Max({i \in up : longest[i] = 0})

buddy2_free(b) ==
  LET index == Owner(b.offset)
  IN  /\ longest' = Update(index, node_size[index], TRUE)
      /\ lent' = lent \ {b}

Next ==
  \/ \E asked \in 0 .. size : buddy2_alloc(asked)
  \/ \E b \in lent : buddy2_free(b)

Spec == Init /\ [][Next]_vars

-----------------------------------------------------------------------------
Under(index) == {i \in Index : i = index \/ index \in Ancestors(i)}
Units(b) == b.offset .. b.offset + b.length - 1
(* The units below node i.                                                 *)
Below(i) == {u \in 0 .. size - 1 : u + size - 1 \in Under(i)}

(* Blocks are in place and apart from one another; and the                 *)
(* array knows the longest block that is free below each node that is not  *)
(* in a lent one, so that a request is refused only when no block of its   *)
(* length is free, and a block is found again by its offset alone.         *)
BuddyExact ==
  /\ \A b \in lent : b.offset % b.length = 0 /\ b.offset + b.length <= size
  /\ \A b, c \in lent : b # c => Units(b) \cap Units(c) = {}
  /\ \A b \in lent : node_size[Owner(b.offset)] = b.length
  /\ \E free \in {{i \in Index : \A b \in lent : Below(i) \cap Units(b) = {}}} :
       \A i \in Index :
         (\A b \in lent : ~(Below(i) \subseteq Units(b)) \/ Below(i) = Units(b))
           => longest[i] = Max({0} \cup {node_size[j] : j \in free \cap Under(i)})
=============================================================================
