---------------------------- MODULE ValueState ----------------------------
(***************************************************************************)
(* The values of one type a graph under construction offers its next node  *)
(* (struct ValueState of graph_builder.rs): which connector ids are        *)
(* available, and how the ids of the graphs that nodes are copied from     *)
(* were renamed.                                                           *)
(*                                                                         *)
(*   cur    cur_id, the last id given out                                  *)
(*   ids    new_ids_for_sampling, a vector, so that a random id is cheap   *)
(*   index  new_id_to_ids_index, where in the vector an id is (from 0)     *)
(*   n2o    new_id_to_old_id                                               *)
(*   o2n    old_id_to_new_id                                               *)
(*                                                                         *)
(* The three HashMaps are functions whose domains are their keys.          *)
(***************************************************************************)
EXTENDS Naturals, Sequences

(* HashMap::insert and HashMap::remove *)
InsertKey(map, key, value) ==
  [x \in DOMAIN map \cup {key} |-> IF x = key THEN value ELSE map[x]]

RemoveKey(map, key) == [x \in DOMAIN map \ {key} |-> map[x]]

Empty == [x \in {} |-> 0]

new == [cur |-> 0, ids |-> <<>>, index |-> Empty, n2o |-> Empty, o2n |-> Empty]

(* new_id_to_old_id is not cleared *)
clear(s) == [new EXCEPT !.n2o = s.n2o]

(* ... and does not come back with the state of a prefix *)
reset_to(s, other) == [other EXCEPT !.n2o = s.n2o]

num_available(s) == Len(s.ids)

insert_new_id(s) ==
  LET id == s.cur + 1
  IN  [s EXCEPT !.cur = id,
                !.ids = Append(@, id),
                !.index = InsertKey(@, id, Len(s.ids))]

insert_old_id(s, old) ==
  LET id == s.cur + 1
  IN  [insert_new_id(s) EXCEPT !.n2o = InsertKey(@, id, old),
                               !.o2n = InsertKey(@, old, id)]

(* Vec::swap_remove: the last element takes the place of the i-th (from 0) *)
swap_remove(v, i) ==
  [k \in 1 .. Len(v) - 1 |-> IF k = i + 1 THEN v[Len(v)] ELSE v[k]]

Unlinked(s, id) ==
  IF id \in DOMAIN s.n2o THEN RemoveKey(s.o2n, s.n2o[id]) ELSE s.o2n

(* Mutant: the id that moved is still looked up at its old place. *)
TakeNoReindex(s, id) ==
  [s EXCEPT !.ids = swap_remove(s.ids, s.index[id]),
            !.index = RemoveKey(@, id),
            !.n2o = RemoveKey(@, id),
            !.o2n = Unlinked(s, id)]

(* id \in DOMAIN s.index, or the code panics with "unknown new id" *)
take_new_input(s, id) ==
  LET i     == s.index[id]
      ids   == swap_remove(s.ids, i)
      index == RemoveKey(s.index, id)
  IN  [s EXCEPT !.ids = ids,
                !.index = IF Len(ids) > i THEN InsertKey(index, ids[i + 1], i)
                                          ELSE index,
                !.n2o = RemoveKey(@, id),
                !.o2n = Unlinked(s, id)]

(* The ids get_old_available_input may return: the renamed one, or any     *)
(* available one when the old id was not renamed. None: the code panics    *)
(* with "couldn get random input".                                         *)
get_random_input(s) == {s.ids[k] : k \in 1 .. Len(s.ids)}

get_old_available_input(s, old) ==
  IF old \in DOMAIN s.o2n THEN {s.o2n[old]} ELSE get_random_input(s)

-----------------------------------------------------------------------------
(* What keeps the three structures of a ValueState consistent.             *)

(* The index is the inverse of the sampling vector.                        *)
IndexInverse(s) ==
  /\ DOMAIN s.index = get_random_input(s)
  /\ \A id \in DOMAIN s.index :
       s.index[id] \in 0 .. Len(s.ids) - 1 /\ s.ids[s.index[id] + 1] = id

(* A renamed id can be taken, and taking it undoes the renaming.           *)
RenamesAvailable(s) ==
  \A old \in DOMAIN s.o2n :
    s.o2n[old] \in DOMAIN s.index \cap DOMAIN s.n2o /\ s.n2o[s.o2n[old]] = old
============================================================================
