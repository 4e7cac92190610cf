------------------------------- MODULE GlueList -------------------------------
(***************************************************************************)
(* What the glue list promises: a sequence of nodes, none of them twice.   *)
(* A node may be put in anywhere, taken out wherever it is, and taking out *)
(* one that is not in the list changes nothing.  GlueThread is shown to    *)
(* implement this module.                                                  *)
(***************************************************************************)
EXTENDS Naturals, SequencesExt

CONSTANTS Node,  \* what can be in a list
          Key    \* node -> its priority

VARIABLES list,  \* the nodes, first to last
          got    \* the nodes the last call returned or visited

In(n) == n \in Range(list)
Place(n) == CHOOSE i \in DOMAIN list : list[i] = n

Init == list = <<>> /\ got = <<>>

\* n becomes the i-th node.
Put(n, i) == /\ ~In(n)
             /\ list' = InsertAt(list, i, n)
             /\ UNCHANGED got

\* Behind all nodes that are as urgent, as long as those are in front.
PutByPriority(n) ==
  LET later == {i \in DOMAIN list : Key[n] < Key[list[i]]}
  IN Put(n, IF later = {} THEN Len(list) + 1 ELSE Min(later))

TakeOut(n) == /\ list' = IF In(n) THEN RemoveAt(list, Place(n)) ELSE list
              /\ UNCHANGED got

TakeFirst == IF list = <<>> THEN got' = <<>> /\ UNCHANGED list
             ELSE got' = <<Head(list)>> /\ list' = Tail(list)

TakeAll == list' = <<>> /\ UNCHANGED got

Visit == got' = list /\ UNCHANGED list

AskFor(n) == /\ got' = IF In(n) THEN <<n>> ELSE <<>>
             /\ UNCHANGED list

Next == \/ \E n \in Node : \/ Put(n, 1) \/ Put(n, Len(list) + 1)
                           \/ PutByPriority(n) \/ TakeOut(n) \/ AskFor(n)
                           \/ \E m \in Range(list) : Put(n, Place(m)) \/ Put(n, Place(m) + 1)
        \/ TakeFirst \/ TakeAll \/ Visit

Spec == Init /\ [][Next]_<<list, got>>
=============================================================================
