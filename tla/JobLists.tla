------------------------------- MODULE JobLists -------------------------------
(***************************************************************************)
(* The std::lists of multiqueue.hh.  A list of the code is only ever       *)
(* appended to at its end and loses nodes anywhere, so it is represented   *)
(* by its nodes and, for each node, the set of the nodes ahead of it.  One *)
(* function `lists' holds several disjoint lists (one per priority, or one *)
(* per job id): its domain is the set of all linked nodes.                 *)
(***************************************************************************)

EmptyLists == [x \in {} |-> {}]

\* The node x is linked behind the nodes of its list, list.insert(end(), x).
PushBack(lists, x, list) ==
  [y \in DOMAIN lists \cup {x} |-> IF y = x THEN list ELSE lists[y]]

\* The nodes in S are unlinked, list.erase(iterator) for each of them.
Unlink(lists, S) == [y \in DOMAIN lists \ S |-> lists[y] \ S]

\* x is the first node of a list whose nodes are list, list.begin().
IsFirst(lists, x, list) == x \in list /\ lists[x] \cap list = {}

===============================================================================
