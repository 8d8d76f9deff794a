------------------------------ MODULE AtomicEdits ------------------------------
(***************************************************************************)
(* What the dialogs of the manage page promise: a document (the access     *)
(* rules of a service, its metadata) changes by edits.  An edit names the  *)
(* keys an administrator changed and their new values; it takes effect at  *)
(* once, on whatever the document is by then, or not at all.               *)
(***************************************************************************)
CONSTANTS Docs, Keys

VARIABLES value,     \* the documents
          pending    \* edits that were submitted and have not taken effect

vars == <<value, pending>>

Init == pending = {}

Edited(old, e) == [k \in Keys |-> IF k \in e.keys THEN e.to[k] ELSE old[k]]

Submit == /\ \E e \in pending' : pending' = pending \cup {e}
          /\ UNCHANGED value

Apply(e) == /\ pending' = pending \ {e}
            /\ value' = [value EXCEPT ![e.doc] = Edited(value[e.doc], e)]

Drop(e) == /\ pending' = pending \ {e}
           /\ UNCHANGED value

Next == \/ Submit
        \/ \E e \in pending : Apply(e) \/ Drop(e)

Spec == Init /\ [][Next]_vars
===============================================================================
