------------------------------- MODULE Lists -------------------------------
(* Removal from the doubly linked lists of libratbox (rb_tools.h), as       *)
(* sequences.                                                               *)
EXTENDS Naturals, Sequences

\* What is left of a list when the nodes of some elements are taken off it,
\* with rb_dlinkDelete(), rb_dlinkFindDelete() or rb_dlinkFindDestroy().
Without(list, gone) ==
    LET kept[i \in 0..Len(list)] ==
          IF i = 0 THEN <<>>
          ELSE IF list[i] \in gone THEN kept[i - 1] ELSE Append(kept[i - 1], list[i])
    IN  kept[Len(list)]

============================================================================
