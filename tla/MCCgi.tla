------------------------------- MODULE MCCgi -------------------------------
(* Small instances of Cgi. *)
EXTENDS Cgi

Get == [method |-> "GET", length |-> None, body |-> 0, early |-> 0,
        full |-> FALSE, mark |-> TRUE]
Post(l, b, e, f, m) == [method |-> "POST", length |-> l, body |-> b, early |-> e,
                        full |-> f, mark |-> m]

(* Bodies as long as promised, shorter, longer, and split in every way;    *)
(* and heads that fill the buffer or have no end mark after the length.    *)
EveryRequest ==
  {Get} \cup {Post(l, b, e, FALSE, TRUE) : l \in {None, 0, 2, 4}, b \in {0, 2, 4}, e \in 0 .. 2}
        \cup {Post(2, b, 2, f, m) : b \in {2, 4}, f \in BOOLEAN, m \in BOOLEAN}
Split == {r \in EveryRequest : r.early <= r.body}
=============================================================================
