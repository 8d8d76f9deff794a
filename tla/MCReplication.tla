----------------------------- MODULE MCReplication -----------------------------
(* Instances of Replication for TLC: every session has one caller.         *)
EXTENDS Replication, TLC

Own == [p \in Procs |-> p]
Symmetry == Permutations(Sessions)

Full == [handling : {"NONE", "NORMAL", "NEWER_WINS"}, rights : {Statements}]
Few == [handling |-> "PARENT_WINS", rights |-> {"UPDATE"}]
SomeTerms == Full \cup {Few}
ChildWins == [handling : {"CHILD_WINS"}, rights : {Statements}]

(* What goes wrong is followed no further where it excuses most of the      *)
(* properties, nor after two edits.                                        *)
Small ==
  /\ excuses \subseteq {"crash", "torn", "uneven", "crossed", "unprotected", "backdated"}
  /\ 2 * time + runs + Cardinality(excuses) <= IF terms = Few THEN 3 ELSE MaxWork
===============================================================================
