------------------------------ MODULE GlueThread ------------------------------
(***************************************************************************)
(* The intrusive doubly linked list of gluethread/glthread.c.  A list is a *)
(* head, which is no member, and the nodes that are reached from it by     *)
(* right; the links are in the members, so a node that is taken out        *)
(* without clearing its own two links goes wrong only when it is put in    *)
(* again.  The callers put in only what is in no list.                     *)
(***************************************************************************)
EXTENDS Naturals, SequencesExt

CONSTANTS Node, Key

VARIABLES left, right,  \* the links of the nodes and of the head
          got           \* the nodes the last call returned or visited

vars == <<left, right, got>>

Head_ == "head"
Null == "NULL"
Links(l, r) == [left |-> l, right |-> r]
links == Links(left, right)

\* init_glthread of the head and of every node.
Init == /\ left = [n \in Node \cup {Head_} |-> Null]
        /\ right = left
        /\ got = <<>>

-----------------------------------------------------------------------------
\* ITERATE_GLTHREAD: the nodes from the head on.  The link to the next one is read
\* before the body runs, which may remove the one it is at.
Walk(L) ==
  LET at[i \in 0 .. Cardinality(Node) + 1] ==
        IF i = 0 THEN Head_ ELSE IF at[i - 1] = Null THEN Null ELSE L.right[at[i - 1]]
  IN at

Visited(L) ==
  LET at == Walk(L)
      upTo == CHOOSE i \in DOMAIN at : at[i] # Null /\ (i > Cardinality(Node) \/ at[i + 1] = Null)
  IN [i \in 1..upTo |-> at[i]]

Members == Range(Visited(links))

glthread_add_next(L, curr, new) ==
  LET next == L.right[curr]
  IN IF next = Null
     THEN Links([L.left EXCEPT ![new] = curr], [L.right EXCEPT ![curr] = new])
     ELSE Links([L.left EXCEPT ![new] = curr, ![next] = new],
                [L.right EXCEPT ![curr] = new, ![new] = next])

glthread_add_before(L, curr, new) ==
  LET prev == L.left[curr]
  IN Links([L.left EXCEPT ![new] = prev, ![curr] = new],
           IF prev = Null THEN [L.right EXCEPT ![new] = curr]
           ELSE [L.right EXCEPT ![prev] = new, ![new] = curr])

\* Mutant of remove_glthread: the node keeps its link to the next one.
RemoveKeepsRight(L, curr) ==
  LET prev == L.left[curr]
      next == L.right[curr]
  IN Links([n \in DOMAIN L.left |-> IF n = curr THEN Null
                                    ELSE IF n = next THEN prev ELSE L.left[n]],
           [n \in DOMAIN L.right |-> IF n = prev THEN next ELSE L.right[n]])

\* Each neighbour there is gets the other one, and the node's own links are cleared.
remove_glthread(L, curr) ==
  LET prev == L.left[curr]
      next == L.right[curr]
  IN Links([n \in DOMAIN L.left |-> IF n = curr THEN Null
                                    ELSE IF n = next THEN prev ELSE L.left[n]],
           [n \in DOMAIN L.right |-> IF n = curr THEN Null
                                     ELSE IF n = prev THEN next ELSE L.right[n]])

glthread_add_last(L, new) ==
  glthread_add_next(L, IF Visited(L) = <<>> THEN Head_ ELSE Last(Visited(L)), new)

\* new is initialised, then put behind the last of the nodes before the first one
\* that comp_fn finds greater: behind the head if there is no such node.
glthread_priority_insert(L, new) ==
  LET cleared == Links([L.left EXCEPT ![new] = Null], [L.right EXCEPT ![new] = Null])
      nodes == Visited(cleared)
      greater == {i \in DOMAIN nodes : Key[new] < Key[nodes[i]]}
      before == (IF greater = {} THEN Len(nodes) + 1 ELSE Min(greater)) - 1
  IN glthread_add_next(cleared, IF before = 0 THEN Head_ ELSE nodes[before], new)

delete_glthread_list(L) ==
  LET nodes == Visited(L)
      after[i \in 0..Len(nodes)] ==
        IF i = 0 THEN L ELSE remove_glthread(after[i - 1], nodes[i])
  IN after[Len(nodes)]

-----------------------------------------------------------------------------
Becomes(L) == left' = L.left /\ right' = L.right

AddNext == \E curr \in Members \cup {Head_}, new \in Node \ Members :
             Becomes(glthread_add_next(links, curr, new)) /\ UNCHANGED got

AddBefore == \E curr \in Members, new \in Node \ Members :
               Becomes(glthread_add_before(links, curr, new)) /\ UNCHANGED got

AddLast == \E new \in Node \ Members :
             Becomes(glthread_add_last(links, new)) /\ UNCHANGED got

PriorityInsert == \E new \in Node \ Members :
                    Becomes(glthread_priority_insert(links, new)) /\ UNCHANGED got

RemoveOne == \E curr \in Node :
               Becomes(remove_glthread(links, curr)) /\ UNCHANGED got

dequeue_glthread_first ==
  IF right[Head_] = Null
  THEN got' = <<>> /\ UNCHANGED <<left, right>>
  ELSE got' = <<right[Head_]>> /\ Becomes(remove_glthread(links, right[Head_]))

DeleteList == Becomes(delete_glthread_list(links)) /\ UNCHANGED got

\* get_glthread_list_count counts the nodes it visits.
get_glthread_list_count == got' = Visited(links) /\ UNCHANGED <<left, right>>

IS_QUEUED_UP_IN_THREAD ==
  \E n \in Node : /\ got' = IF left[n] = Null /\ right[n] = Null THEN <<>> ELSE <<n>>
                  /\ UNCHANGED <<left, right>>

Next == \/ AddNext \/ AddBefore \/ AddLast \/ PriorityInsert \/ RemoveOne
        \/ dequeue_glthread_first \/ DeleteList \/ get_glthread_list_count
        \/ IS_QUEUED_UP_IN_THREAD

Spec == Init /\ [][Next]_vars

-----------------------------------------------------------------------------
List == INSTANCE GlueList WITH list <- Visited(links)

\* The links are a list: in whatever order nodes are put in, by place or by
\* priority, and taken out, visited, asked for and put in again, a walk along right
\* meets exactly the nodes that are in, in their order (glthread.c:52 clears links
\* in three branches, glthread.c:114 has a branch for each short list).
ListSpec == List!Spec
=============================================================================
