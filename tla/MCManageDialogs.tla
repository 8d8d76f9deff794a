---------------------------- MODULE MCManageDialogs ----------------------------
EXTENDS ManageDialogs, TLC

(* All rows alike, all texts alike: what differs is the result of edits.   *)
MCInitial == {d \in [Docs -> Contents] :
                /\ \A k, l \in Keys : d["rules"][k] = d["rules"][l]
                /\ \E v \in Values : d["metadata"] = [k \in Keys |-> v]}

(* One kind of excuse in a behaviour.                                      *)
FewExcuses == \A e, f \in excuses : e = f

(* Tabs, keys, values and slots are interchangeable.                       *)
Symmetry == Permutations(Tabs) \cup Permutations(Keys)
              \cup Permutations(Values) \cup Permutations(Slots)
===============================================================================
