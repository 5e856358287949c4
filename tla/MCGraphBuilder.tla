-------------------------- MODULE MCGraphBuilder --------------------------
(* Instances of GraphBuilder for TLC *)
EXTENDS GraphBuilder

Type(inputs, passthroughs, outputs, data) ==
  [inputs |-> inputs, passthroughs |-> passthroughs, outputs |-> outputs, data |-> data]

(* The nodes of packer/interpreter/test_spec.py: start, inc and stop *)
Values ==
  <<Type(<<>>, <<>>, <<"a">>, {1}), Type(<<>>, <<"a">>, <<>>, {0}), Type(<<"a">>, <<>>, <<>>, {0})>>

(* A packet, as in the CAN specification: one op, a vector of bytes *)
Packets == <<Type(<<>>, <<>>, <<>>, {1, 2})>>

(* Values, and as much data as ops in every node *)
Balanced == <<Type(<<>>, <<>>, <<"a">>, {2}), Type(<<"a">>, <<>>, <<>>, {2})>>

(* Packets in a payload that fills up (a unit of data is two bytes, so that *)
(* there is an op for every unit), and values in one that is large enough.  *)
Small == [name |-> "packets", nodes |-> Packets, max_ops |-> 4, max_data |-> 4,
          biggest_data |-> 1, placement |-> "aggressive",
          max_generate |-> 3, max_queue |-> 1, max_kept |-> 3]
Large == [name |-> "values", nodes |-> Values, max_ops |-> 40, max_data |-> 40,
          biggest_data |-> 1, placement |-> "none",
          max_generate |-> 2, max_queue |-> 1, max_kept |-> 2]

Long  == [Large EXCEPT !.max_generate = 1, !.max_kept = 4]
Both  == [Long EXCEPT !.name = "both", !.placement = "balanced", !.max_generate = 0, !.max_kept = 3]

(* Payloads that run out of ops: nodes are cut short, unless data is full  *)
(* first. A data type that no node has is larger than those of the nodes.  *)
Tight == [Large EXCEPT !.name = "tight", !.max_ops = 7, !.biggest_data = 2,
                       !.max_generate = 1, !.max_queue = 2, !.max_kept = 4]
Even  == [Tight EXCEPT !.name = "even", !.nodes = Balanced, !.max_ops = 5, !.max_data = 5]

AllSetups == {Small, Large, Long, Both, Tight, Even}

Node(ops, data) == [ops |-> ops, data |-> data]

(* Seed files: ids are whatever their writer chose *)
SeedFiles ==
  [values  |-> {<<Node(<<1, 7>>, 1), Node(<<1, 5>>, 1), Node(<<3, 7>>, 0), Node(<<2, 5>>, 0)>>},
   both    |-> {<<Node(<<1, 7>>, 1), Node(<<1, 5>>, 1), Node(<<3, 7>>, 0)>>},
   packets |-> {<<Node(<<1>>, 1), Node(<<1>>, 2)>>},
   tight   |-> {<<Node(<<1, 7>>, 1), Node(<<2, 7>>, 0)>>},
   even    |-> {<<Node(<<1, 7>>, 2), Node(<<2, 7>>, 2)>>}]
============================================================================
