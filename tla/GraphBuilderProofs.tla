------------------------ MODULE GraphBuilderProofs ------------------------
(***************************************************************************)
(* Theorems about ValueState and GraphBuilder. The inductive invariant     *)
(* relates, node by node, the builder's state to the graph in the payload; *)
(* the lemmas follow an operand through rename, link and append.           *)
(***************************************************************************)
EXTENDS GraphBuilder, FiniteSetTheorems, SequenceTheorems, TLAPS

-----------------------------------------------------------------------------
(***************************************************************************)
(* The values of one type.                                                 *)
(***************************************************************************)

\* The vector and its index are inverse to each other, ids are in use.
IsValue(s) ==
    /\ s = [cur |-> s.cur, ids |-> s.ids, index |-> s.index, n2o |-> s.n2o, o2n |-> s.o2n]
    /\ s.cur \in Nat
    /\ s.ids \in Seq(1 .. s.cur)
    /\ IndexInverse(s)
    /\ \A k \in 1 .. Len(s.ids) : s.index[s.ids[k]] = k - 1
    /\ \A old \in DOMAIN s.o2n : s.o2n[old] \in Nat

\* A type without values.
LEMMA NewValue ==
    /\ IsValue(new) /\ RenamesAvailable(new) /\ get_random_input(new) = {}
    /\ \A s : /\ IsValue(clear(s)) /\ RenamesAvailable(clear(s))
              /\ get_random_input(clear(s)) = {} /\ clear(s).cur = 0
<1> DEFINE Fresh(m) == [cur |-> 0, ids |-> <<>>, index |-> Empty, n2o |-> m, o2n |-> Empty]
<1>1. new = Fresh(Empty) /\ \A s : clear(s) = Fresh(s.n2o)
  BY DEF new, clear
<1>2. ASSUME NEW m
      PROVE  IsValue(Fresh(m)) /\ RenamesAvailable(Fresh(m)) /\ get_random_input(Fresh(m)) = {}
  <2>1. DOMAIN Empty = {}
    BY DEF Empty
  <2>2. get_random_input(Fresh(m)) = {}
    BY DEF get_random_input
  <2>3. IndexInverse(Fresh(m))
    BY <2>1, <2>2 DEF IndexInverse
  <2>4. IsValue(Fresh(m))
    BY <2>1, <2>3 DEF IsValue
  <2>5. RenamesAvailable(Fresh(m))
    BY <2>1 DEF RenamesAvailable
  <2> QED  BY <2>2, <2>4, <2>5
<1>3. \A m : Fresh(m).cur = 0
  OBVIOUS
<1> HIDE DEF Fresh
<1> QED  BY <1>1, <1>2, <1>3

\* reset_to takes everything from the other state but new_id_to_old_id.
LEMMA ResetValue ==
    ASSUME NEW s, NEW other, IsValue(other)
    PROVE  /\ IsValue(reset_to(s, other)) /\ reset_to(s, other).cur = other.cur
           /\ get_random_input(reset_to(s, other)) = get_random_input(other)
<1> DEFINE r == reset_to(s, other)
<1>1. r = [cur |-> other.cur, ids |-> other.ids, index |-> other.index,
           n2o |-> s.n2o, o2n |-> other.o2n]
  BY DEF reset_to, IsValue
<1>2. r.cur = other.cur /\ r.ids = other.ids /\ r.index = other.index /\ r.o2n = other.o2n
  BY <1>1
<1>3. r = [cur |-> r.cur, ids |-> r.ids, index |-> r.index, n2o |-> r.n2o, o2n |-> r.o2n]
  BY <1>1
<1> HIDE DEF r
<1>4. get_random_input(r) = get_random_input(other)
  BY <1>2 DEF get_random_input
<1>5. IsValue(r)
  BY <1>2, <1>3, <1>4 DEF IsValue, IndexInverse
<1> QED  BY <1>2, <1>4, <1>5 DEF r

\* A state with new ids, index and renamings.
LEMMA ValueFields ==
    ASSUME NEW c, NEW v, NEW x, NEW a, NEW b, NEW s,
           s = [cur |-> c, ids |-> v, index |-> x, n2o |-> a, o2n |-> b]
    PROVE  /\ s.cur = c /\ s.ids = v /\ s.index = x /\ s.n2o = a /\ s.o2n = b
           /\ s = [cur |-> s.cur, ids |-> s.ids, index |-> s.index, n2o |-> s.n2o, o2n |-> s.o2n]
OBVIOUS

\* insert_new_id and insert_old_id offer one id more, which was not in use.
LEMMA InsertValue ==
    ASSUME NEW s, IsValue(s), NEW t, NEW a, NEW b,
           t = [cur |-> s.cur + 1, ids |-> Append(s.ids, s.cur + 1),
                index |-> InsertKey(s.index, s.cur + 1, Len(s.ids)), n2o |-> a, o2n |-> b],
           \A old \in DOMAIN b : b[old] \in Nat
    PROVE  /\ IsValue(t)
           /\ get_random_input(t) = get_random_input(s) \cup {s.cur + 1}
           /\ Len(t.ids) = Len(s.ids) + 1
           /\ s.cur + 1 \notin get_random_input(s)
<1> DEFINE id == s.cur + 1
           L  == Len(s.ids)
<1>1. /\ t.cur = id /\ t.ids = Append(s.ids, id) /\ t.index = InsertKey(s.index, id, L)
      /\ t.o2n = b
      /\ t = [cur |-> t.cur, ids |-> t.ids, index |-> t.index, n2o |-> t.n2o, o2n |-> t.o2n]
  BY ValueFields
<1>2. /\ s.cur \in Nat /\ id \in Nat /\ s.ids \in Seq(1 .. s.cur) /\ L \in Nat
      /\ IndexInverse(s) /\ \A k \in 1 .. L : s.index[s.ids[k]] = k - 1
      /\ id = s.cur + 1 /\ L = Len(s.ids)
  BY DEF IsValue
<1> HIDE DEF id, L
<1>3. /\ Len(t.ids) = L + 1 /\ t.ids[L + 1] = id
      /\ \A k \in 1 .. L : t.ids[k] = s.ids[k] /\ s.ids[k] \in 1 .. s.cur
  BY <1>1, <1>2, AppendProperties
<1>4. id \notin 1 .. s.cur /\ 1 .. s.cur \subseteq 1 .. id /\ id \in 1 .. id
  BY <1>2
<1>5. t.ids \in Seq(1 .. id)
  <2>1. s.ids \in Seq(1 .. id)
    BY <1>2, <1>4
  <2> QED  BY <1>1, <1>4, <2>1, AppendProperties
<1>6. id \notin get_random_input(s) /\ DOMAIN s.index = get_random_input(s)
  <2>1. id \notin get_random_input(s)
    BY <1>2, <1>3, <1>4 DEF get_random_input
  <2> QED  BY <1>2, <2>1 DEF IndexInverse
<1>7. get_random_input(t) = get_random_input(s) \cup {id}
  <2>1. 1 .. L + 1 = 1 .. L \cup {L + 1}
    BY <1>2
  <2> QED  BY <1>2, <1>3, <2>1 DEF get_random_input
<1>8. /\ DOMAIN t.index = get_random_input(t) /\ t.index[id] = L
      /\ \A x \in get_random_input(s) : t.index[x] = s.index[x]
  <2>1. /\ DOMAIN t.index = DOMAIN s.index \cup {id} /\ t.index[id] = L
        /\ \A x \in DOMAIN s.index : x # id => t.index[x] = s.index[x]
    BY <1>1 DEF InsertKey
  <2> QED  BY <1>6, <1>7, <2>1
<1>9. \A x \in DOMAIN t.index :
          t.index[x] \in 0 .. Len(t.ids) - 1 /\ t.ids[t.index[x] + 1] = x
  <2>1. ASSUME NEW x \in get_random_input(s)
        PROVE  t.index[x] \in 0 .. Len(t.ids) - 1 /\ t.ids[t.index[x] + 1] = x
    <3>1. s.index[x] \in 0 .. L - 1 /\ s.ids[s.index[x] + 1] = x
      BY <1>2, <1>6 DEF IndexInverse
    <3> DEFINE i == s.index[x]
    <3> HIDE DEF i
    <3>2. i + 1 \in 1 .. L /\ i \in 0 .. L
      BY <1>2, <3>1 DEF i
    <3>3. t.index[x] = i /\ s.ids[i + 1] = x
      BY <1>8, <3>1 DEF i
    <3>4. Len(t.ids) - 1 = L
      BY <1>2, <1>3
    <3> QED  BY <1>3, <3>2, <3>3, <3>4
  <2>2. t.index[id] \in 0 .. Len(t.ids) - 1 /\ t.ids[t.index[id] + 1] = id
    BY <1>2, <1>3, <1>8
  <2> QED  BY <1>7, <1>8, <2>1, <2>2
<1>10. \A k \in 1 .. Len(t.ids) : t.index[t.ids[k]] = k - 1
  <2>1. ASSUME NEW k \in 1 .. L
        PROVE  t.index[t.ids[k]] = k - 1
    <3>1. s.ids[k] \in get_random_input(s)
      BY <1>2 DEF get_random_input
    <3> QED  BY <1>2, <1>3, <1>8, <3>1
  <2>2. t.index[t.ids[L + 1]] = (L + 1) - 1
    BY <1>2, <1>3, <1>8
  <2> QED  BY <1>2, <1>3, <2>1, <2>2
<1>11. IsValue(t)
  BY <1>1, <1>2, <1>5, <1>8, <1>9, <1>10 DEF IsValue, IndexInverse
<1> QED  BY <1>2, <1>3, <1>6, <1>7, <1>11

\* It is enough that the index says where each id of the vector is.
LEMMA IndexFrom ==
    ASSUME NEW t, t.ids \in Seq(Nat), DOMAIN t.index = get_random_input(t),
           \A k \in 1 .. Len(t.ids) : t.index[t.ids[k]] = k - 1
    PROVE  IndexInverse(t)
<1>1. ASSUME NEW x \in DOMAIN t.index
      PROVE  t.index[x] \in 0 .. Len(t.ids) - 1 /\ t.ids[t.index[x] + 1] = x
  <2>1. PICK k \in 1 .. Len(t.ids) : x = t.ids[k]
    BY DEF get_random_input
  <2>2. t.index[x] = k - 1 /\ Len(t.ids) \in Nat
    BY <2>1
  <2>3. k - 1 \in 0 .. Len(t.ids) - 1 /\ (k - 1) + 1 = k
    BY <2>2
  <2> QED  BY <2>1, <2>2, <2>3
<1> QED  BY <1>1 DEF IndexInverse

\* The fields of take_new_input.
LEMMA TakeFields ==
    ASSUME NEW s, IsValue(s), NEW id
    PROVE  LET t == take_new_input(s, id)
               i == s.index[id]
               v == swap_remove(s.ids, i)
               x == RemoveKey(s.index, id)
           IN  /\ t = [cur |-> t.cur, ids |-> t.ids, index |-> t.index,
                       n2o |-> t.n2o, o2n |-> t.o2n]
               /\ t.cur = s.cur /\ t.ids = v
               /\ t.index = IF Len(v) > i THEN InsertKey(x, v[i + 1], i) ELSE x
               /\ t.n2o = RemoveKey(s.n2o, id) /\ t.o2n = Unlinked(s, id)
<1> DEFINE t == take_new_input(s, id)
           i == s.index[id]
           v == swap_remove(s.ids, i)
           x == RemoveKey(s.index, id)
           y == IF Len(v) > i THEN InsertKey(x, v[i + 1], i) ELSE x
<1>1. t = [s EXCEPT !.ids = v, !.index = y, !.n2o = RemoveKey(s.n2o, id), !.o2n = Unlinked(s, id)]
  BY DEF take_new_input
<1>2. s = [cur |-> s.cur, ids |-> s.ids, index |-> s.index, n2o |-> s.n2o, o2n |-> s.o2n]
  BY DEF IsValue
<1> HIDE DEF v, y
<1>3. t = [cur |-> s.cur, ids |-> v, index |-> y, n2o |-> RemoveKey(s.n2o, id),
           o2n |-> Unlinked(s, id)]
  BY <1>1, <1>2
<1> HIDE DEF t
<1>4. /\ t.cur = s.cur /\ t.ids = v /\ t.index = y /\ t.n2o = RemoveKey(s.n2o, id)
      /\ t.o2n = Unlinked(s, id)
      /\ t = [cur |-> t.cur, ids |-> t.ids, index |-> t.index, n2o |-> t.n2o, o2n |-> t.o2n]
  BY <1>3
<1> QED  BY <1>4 DEF t, v, y

\* swap_remove removes one place of a vector; the last element moves there.
LEMMA SwapRemove ==
    ASSUME NEW S, NEW v \in Seq(S), NEW i \in 0 .. Len(v) - 1
    PROVE  LET w == swap_remove(v, i)
           IN  /\ w \in Seq(S) /\ Len(w) = Len(v) - 1
               /\ \A k \in 1 .. Len(v) - 1 : w[k] = IF k = i + 1 THEN v[Len(v)] ELSE v[k]
<1> DEFINE w == swap_remove(v, i)
           L == Len(v)
<1>1. L \in Nat /\ L = Len(v) /\ DOMAIN v = 1 .. L /\ \A k \in 1 .. L : v[k] \in S
  OBVIOUS
<1>2. w = [k \in 1 .. L - 1 |-> IF k = i + 1 THEN v[L] ELSE v[k]]
  BY DEF swap_remove
<1> HIDE DEF L
<1>3. L - 1 \in Nat /\ L \in 1 .. L /\ \A k \in 1 .. L - 1 : k \in 1 .. L
  BY <1>1
<1>4. \A k \in 1 .. L - 1 : (IF k = i + 1 THEN v[L] ELSE v[k]) \in S
  BY <1>1, <1>3
<1>5. w \in Seq(S) /\ Len(w) = L - 1
  <2>1. w \in [1 .. L - 1 -> S]
    BY <1>2, <1>4
  <2> HIDE DEF w
  <2> QED  BY <1>3, <2>1
<1>6. \A k \in 1 .. L - 1 : w[k] = IF k = i + 1 THEN v[L] ELSE v[k]
  BY <1>2
<1> QED  BY <1>1, <1>5, <1>6 DEF w

\* take_new_input takes the id it was asked for, and no other.
LEMMA TakeValue ==
    ASSUME NEW s, IsValue(s), NEW id \in DOMAIN s.index
    PROVE  LET t == take_new_input(s, id)
           IN  /\ IsValue(t) /\ t.cur = s.cur
               /\ get_random_input(t) = get_random_input(s) \ {id}
               /\ id \in get_random_input(s)
               /\ Len(t.ids) = Len(s.ids) - 1 /\ Len(s.ids) \in Nat \ {0}
<1> DEFINE t == take_new_input(s, id)
           i == s.index[id]
           L == Len(s.ids)
           v == swap_remove(s.ids, i)
           x == RemoveKey(s.index, id)
<1>1. /\ t = [cur |-> t.cur, ids |-> t.ids, index |-> t.index, n2o |-> t.n2o, o2n |-> t.o2n]
      /\ t.cur = s.cur /\ t.ids = v
      /\ t.index = IF Len(v) > i THEN InsertKey(x, v[i + 1], i) ELSE x
  BY TakeFields
<1>2. /\ s.cur \in Nat /\ s.ids \in Seq(1 .. s.cur) /\ L \in Nat /\ L = Len(s.ids)
      /\ IndexInverse(s) /\ \A k \in 1 .. L : s.index[s.ids[k]] = k - 1
  BY DEF IsValue
<1>3. i \in 0 .. L - 1 /\ s.ids[i + 1] = id /\ DOMAIN s.index = get_random_input(s)
  BY <1>2 DEF IndexInverse
<1>4. /\ v \in Seq(1 .. s.cur) /\ Len(v) = L - 1
      /\ \A k \in 1 .. L - 1 : v[k] = IF k = i + 1 THEN s.ids[L] ELSE s.ids[k]
  BY <1>2, <1>3, SwapRemove
<1>i. \A k \in 1 .. L : s.ids[k] = id => k = i + 1
  BY <1>2, <1>3
<1> HIDE DEF t, i, L, v
<1>5. /\ L \in 1 .. L /\ i + 1 \in 1 .. L
      /\ \A k \in 1 .. L - 1 : k \in 1 .. L /\ k # L
      /\ \A k \in 1 .. L : k # L => k \in 1 .. L - 1
      /\ Len(v) > i <=> i + 1 # L
  BY <1>2, <1>3, <1>4
<1>6. get_random_input(s) = {s.ids[k] : k \in 1 .. L}
  BY <1>2 DEF get_random_input
<1>7. get_random_input(t) = {v[k] : k \in 1 .. L - 1}
  BY <1>1, <1>4 DEF get_random_input
<1>8. get_random_input(t) = get_random_input(s) \ {id}
  <2>1. ASSUME NEW k \in 1 .. L - 1
        PROVE  v[k] \in get_random_input(s) \ {id}
    <3>1. CASE k = i + 1
      <4>1. v[k] = s.ids[L] /\ s.ids[L] # id
        BY <1>4, <1>5, <1>i, <3>1
      <4> QED  BY <1>5, <1>6, <4>1
    <3>2. CASE k # i + 1
      BY <1>4, <1>5, <1>6, <1>i, <3>2
    <3> QED  BY <3>1, <3>2
  <2>2. ASSUME NEW k \in 1 .. L, s.ids[k] # id
        PROVE  \E l \in 1 .. L - 1 : v[l] = s.ids[k]
    <3>1. CASE k = L
      <4>1. i + 1 # L /\ i + 1 \in 1 .. L - 1
        BY <1>3, <1>5, <2>2, <3>1
      <4> QED  BY <1>4, <3>1, <4>1
    <3>2. CASE k # L
      <4>1. k # i + 1 /\ k \in 1 .. L - 1
        BY <1>3, <1>5, <2>2, <3>2
      <4> QED  BY <1>4, <4>1
    <3> QED  BY <3>1, <3>2
  <2> QED  BY <1>6, <1>7, <2>1, <2>2
<1>9. id \in get_random_input(s)
  BY <1>3, <1>5, <1>6
<1>10. DOMAIN x = get_random_input(t) /\ \A y \in DOMAIN x : x[y] = s.index[y]
  BY <1>3, <1>8 DEF RemoveKey
<1> HIDE DEF x
<1>11. /\ DOMAIN t.index = get_random_input(t)
       /\ \A k \in 1 .. L - 1 : t.index[v[k]] = k - 1
  <2>1. CASE i + 1 = L
    <3>1. t.index = x
      BY <1>1, <1>5, <2>1
    <3>2. \A k \in 1 .. L - 1 : k # i + 1 /\ v[k] = s.ids[k] /\ v[k] \in DOMAIN x
      BY <1>4, <1>5, <1>7, <1>10, <2>1
    <3> QED  BY <1>2, <1>5, <1>10, <3>1, <3>2
  <2>2. CASE i + 1 # L
    <3>1. t.index = InsertKey(x, v[i + 1], i)
      BY <1>1, <1>5, <2>2
    <3>2. i + 1 \in 1 .. L - 1 /\ v[i + 1] = s.ids[L] /\ v[i + 1] \in DOMAIN x
      BY <1>4, <1>5, <1>7, <1>10, <2>2
    <3>3. /\ DOMAIN t.index = DOMAIN x /\ t.index[v[i + 1]] = i
          /\ \A y \in DOMAIN x : y # v[i + 1] => t.index[y] = s.index[y]
      BY <1>10, <3>1, <3>2 DEF InsertKey
    <3>4. ASSUME NEW k \in 1 .. L - 1, k # i + 1
          PROVE  t.index[v[k]] = k - 1
      <4>1. v[k] = s.ids[k] /\ v[k] \in DOMAIN x /\ s.index[s.ids[k]] = k - 1
        BY <1>2, <1>4, <1>5, <1>7, <1>10, <3>4
      <4>2. s.index[s.ids[L]] = L - 1 /\ k # L
        BY <1>2, <1>5
      <4>3. v[k] # v[i + 1]
        BY <1>2, <3>2, <4>1, <4>2
      <4> QED  BY <3>3, <4>1, <4>3
    <3>5. (i + 1) - 1 = i
      BY <1>3
    <3> QED  BY <1>10, <3>3, <3>4, <3>5
  <2> QED  BY <2>1, <2>2
<1>12. IndexInverse(t)
  <2>1. t.ids \in Seq(Nat) /\ \A k \in 1 .. Len(t.ids) : t.index[t.ids[k]] = k - 1
    BY <1>1, <1>2, <1>4, <1>11
  <2> QED  BY <1>11, <2>1, IndexFrom
<1>o. \A old \in DOMAIN t.o2n : t.o2n[old] \in Nat
  <2>1. t.o2n = Unlinked(s, id)
    BY TakeFields DEF t
  <2>2. \A old \in DOMAIN t.o2n : old \in DOMAIN s.o2n /\ t.o2n[old] = s.o2n[old]
    BY <2>1 DEF Unlinked, RemoveKey
  <2> QED  BY <2>2 DEF IsValue
<1>13. IsValue(t)
  BY <1>1, <1>2, <1>4, <1>11, <1>12, <1>o DEF IsValue
<1>14. L \in Nat \ {0}
  BY <1>2, <1>5
<1> QED  BY <1>1, <1>2, <1>4, <1>8, <1>9, <1>13, <1>14 DEF t

\* ... and removes the renaming it was found by.
LEMMA TakeRenames ==
    ASSUME NEW s, IsValue(s), RenamesAvailable(s), NEW id \in DOMAIN s.index
    PROVE  RenamesAvailable(take_new_input(s, id))
<1> DEFINE t == take_new_input(s, id)
<1>1. t.n2o = RemoveKey(s.n2o, id) /\ t.o2n = Unlinked(s, id)
  BY TakeFields
<1>2. DOMAIN t.index = DOMAIN s.index \ {id}
  <2>1. DOMAIN t.index = get_random_input(t) /\ DOMAIN s.index = get_random_input(s)
    BY TakeValue DEF IsValue, IndexInverse
  <2> QED  BY <2>1, TakeValue
<1> HIDE DEF t
<1> SUFFICES ASSUME NEW old \in DOMAIN t.o2n
             PROVE  /\ t.o2n[old] \in DOMAIN t.index \cap DOMAIN t.n2o
                    /\ t.n2o[t.o2n[old]] = old
  BY DEF RenamesAvailable, t
<1>3. old \in DOMAIN s.o2n /\ t.o2n[old] = s.o2n[old] /\ (id \in DOMAIN s.n2o => old # s.n2o[id])
  BY <1>1 DEF Unlinked, RemoveKey
<1>4. s.o2n[old] \in DOMAIN s.index \cap DOMAIN s.n2o /\ s.n2o[s.o2n[old]] = old
  BY <1>3 DEF RenamesAvailable
<1>5. s.o2n[old] # id
  BY <1>3, <1>4
<1> QED  BY <1>1, <1>2, <1>3, <1>4, <1>5 DEF RemoveKey

\* The fields of insert_new_id.
LEMMA NewFields ==
    ASSUME NEW s, IsValue(s)
    PROVE  insert_new_id(s) =
             [cur |-> s.cur + 1, ids |-> Append(s.ids, s.cur + 1),
              index |-> InsertKey(s.index, s.cur + 1, Len(s.ids)), n2o |-> s.n2o, o2n |-> s.o2n]
<1> DEFINE id == s.cur + 1
           v  == Append(s.ids, id)
           x  == InsertKey(s.index, id, Len(s.ids))
<1>1. insert_new_id(s) = [s EXCEPT !.cur = id, !.ids = v, !.index = x]
  BY DEF insert_new_id
<1>2. s = [cur |-> s.cur, ids |-> s.ids, index |-> s.index, n2o |-> s.n2o, o2n |-> s.o2n]
  BY DEF IsValue
<1> HIDE DEF id, v, x
<1>3. insert_new_id(s) = [cur |-> id, ids |-> v, index |-> x, n2o |-> s.n2o, o2n |-> s.o2n]
  BY <1>1, <1>2
<1> QED  BY <1>3 DEF id, v, x

\* insert_new_id.
LEMMA InsertNew ==
    ASSUME NEW s, IsValue(s)
    PROVE  LET t == insert_new_id(s)
           IN  /\ IsValue(t) /\ t.cur = s.cur + 1
               /\ get_random_input(t) = get_random_input(s) \cup {s.cur + 1}
               /\ Len(t.ids) = Len(s.ids) + 1
               /\ RenamesAvailable(s) => RenamesAvailable(t)
<1> DEFINE t == insert_new_id(s)
<1>1. t = [cur |-> s.cur + 1, ids |-> Append(s.ids, s.cur + 1),
           index |-> InsertKey(s.index, s.cur + 1, Len(s.ids)), n2o |-> s.n2o, o2n |-> s.o2n]
  BY NewFields
<1>2. /\ t.cur = s.cur + 1 /\ t.n2o = s.n2o /\ t.o2n = s.o2n
      /\ DOMAIN t.index = DOMAIN s.index \cup {s.cur + 1}
  BY <1>1 DEF InsertKey
<1> HIDE DEF t
<1>3. RenamesAvailable(s) => RenamesAvailable(t)
  BY <1>2 DEF RenamesAvailable
<1>4. /\ IsValue(t)
      /\ get_random_input(t) = get_random_input(s) \cup {s.cur + 1}
      /\ Len(t.ids) = Len(s.ids) + 1
  <2>1. \A old \in DOMAIN s.o2n : s.o2n[old] \in Nat
    BY DEF IsValue
  <2> QED  BY <1>1, <2>1, InsertValue
<1> QED  BY <1>2, <1>3, <1>4 DEF t

\* insert_old_id, which also renames.
LEMMA InsertOld ==
    ASSUME NEW s, IsValue(s), NEW old
    PROVE  LET t == insert_old_id(s, old)
           IN  /\ IsValue(t) /\ t.cur = s.cur + 1
               /\ get_random_input(t) = get_random_input(s) \cup {s.cur + 1}
               /\ Len(t.ids) = Len(s.ids) + 1
               /\ RenamesAvailable(s) => RenamesAvailable(t)
<1> DEFINE t == insert_old_id(s, old)
           id == s.cur + 1
<1>1. t = [cur |-> id, ids |-> Append(s.ids, id), index |-> InsertKey(s.index, id, Len(s.ids)),
           n2o |-> InsertKey(s.n2o, id, old), o2n |-> InsertKey(s.o2n, old, id)]
  <2>1. insert_new_id(s) = [cur |-> id, ids |-> Append(s.ids, id),
            index |-> InsertKey(s.index, id, Len(s.ids)), n2o |-> s.n2o, o2n |-> s.o2n]
    BY NewFields
  <2> DEFINE n == insert_new_id(s)
             a == InsertKey(s.n2o, id, old)
             b == InsertKey(s.o2n, old, id)
  <2>2. n.n2o = s.n2o /\ n.o2n = s.o2n
    BY <2>1
  <2>3. t = [n EXCEPT !.n2o = InsertKey(n.n2o, id, old), !.o2n = InsertKey(n.o2n, old, id)]
    BY DEF insert_old_id
  <2>4. t = [n EXCEPT !.n2o = a, !.o2n = b]
    BY <2>2, <2>3
  <2> HIDE DEF t, n, a, b
  <2>5. n = [cur |-> id, ids |-> Append(s.ids, id), index |-> InsertKey(s.index, id, Len(s.ids)),
             n2o |-> s.n2o, o2n |-> s.o2n]
    BY <2>1 DEF n
  <2>6. t = [cur |-> id, ids |-> Append(s.ids, id), index |-> InsertKey(s.index, id, Len(s.ids)),
             n2o |-> a, o2n |-> b]
    BY <2>4, <2>5
  <2> QED  BY <2>6 DEF a, b
<1>2. /\ t.cur = s.cur + 1 /\ t.n2o = InsertKey(s.n2o, id, old)
      /\ t.o2n = InsertKey(s.o2n, old, id)
      /\ DOMAIN t.index = DOMAIN s.index \cup {id}
  BY <1>1 DEF InsertKey
<1>4. /\ IsValue(t)
      /\ get_random_input(t) = get_random_input(s) \cup {id}
      /\ Len(t.ids) = Len(s.ids) + 1
      /\ id \notin get_random_input(s)
  <2>1. \A o \in DOMAIN InsertKey(s.o2n, old, id) : InsertKey(s.o2n, old, id)[o] \in Nat
    BY DEF IsValue, InsertKey
  <2> QED  BY <1>1, <2>1, InsertValue
<1> HIDE DEF t, id
<1>3. ASSUME RenamesAvailable(s), NEW o \in DOMAIN t.o2n
      PROVE  t.o2n[o] \in DOMAIN t.index \cap DOMAIN t.n2o /\ t.n2o[t.o2n[o]] = o
  <2>1. CASE o = old
    BY <1>2, <2>1 DEF InsertKey
  <2>2. CASE o # old
    <3>1. o \in DOMAIN s.o2n /\ t.o2n[o] = s.o2n[o]
      BY <1>2, <2>2 DEF InsertKey
    <3>2. s.o2n[o] \in DOMAIN s.index \cap DOMAIN s.n2o /\ s.n2o[s.o2n[o]] = o
      BY <1>3, <3>1 DEF RenamesAvailable
    <3>3. s.o2n[o] # id
      BY <1>4, <3>2 DEF IsValue, IndexInverse
    <3> QED  BY <1>2, <3>1, <3>2, <3>3 DEF InsertKey
  <2> QED  BY <2>1, <2>2
<1>5. RenamesAvailable(s) => RenamesAvailable(t)
  BY <1>3 DEF RenamesAvailable
<1> QED  BY <1>2, <1>4, <1>5 DEF t, id

-----------------------------------------------------------------------------
(***************************************************************************)
(* The operands of a graph.                                                *)
(***************************************************************************)

\* Two graphs with the same operands.
SameOperands(g, h) ==
    /\ Operands(h) = Operands(g)
    /\ \A p \in Operands(g) : /\ RoleAt(h, p) = RoleAt(g, p) /\ TypeAt(h, p) = TypeAt(g, p)
                              /\ ValueAt(h, p) = ValueAt(g, p)

\* Graph h has one operand more, behind all others.
OneMore(g, h, q) ==
    /\ Operands(h) = Operands(g) \cup {q}
    /\ q \notin Operands(g)
    /\ \A p \in Operands(g) : /\ RoleAt(h, p) = RoleAt(g, p) /\ TypeAt(h, p) = TypeAt(g, p)
                              /\ ValueAt(h, p) = ValueAt(g, p)
                              /\ Before(p, q) /\ ~ Before(q, p)
    /\ ~ Before(q, q)

\* The ids of type v that operands offer or take are at most c.
InUse(g, v, c) == \A p \in With(g, "Set") \cup With(g, "Get") :
                      TypeAt(g, p) = v => ValueAt(g, p)[2] \in 1 .. c

\* A value is its type and its id.
LEMMA ValueParts ==
    ASSUME NEW g, NEW h, NEW p, NEW q
    PROVE  /\ ValueAt(g, p)[1] = TypeAt(g, p)
           /\ (ValueAt(g, p) = ValueAt(h, q)) <=>
                 (TypeAt(g, p) = TypeAt(h, q) /\ ValueAt(g, p)[2] = ValueAt(h, q)[2])
BY DEF ValueAt

\* An operand with the last value of its type.
LEMMA UntakenHas ==
    ASSUME NEW g, NEW v, NEW id
    PROVE  id \in Untaken(g, v) <=>
             \E p \in With(g, "Set") : /\ TypeAt(g, p) = v /\ ValueAt(g, p)[2] = id
                                       /\ ~ \E r \in With(g, "Get") : ValueAt(g, r) = ValueAt(g, p)
BY DEF Untaken

\* Graphs with the same operands have the same values.
LEMMA SameGraph ==
    ASSUME NEW g, NEW h, SameOperands(g, h)
    PROVE  /\ WellLinked(g) => WellLinked(h)
           /\ \A v : Untaken(h, v) = Untaken(g, v)
           /\ \A v, c : InUse(g, v, c) => InUse(h, v, c)
<1>1. \A role : With(h, role) = With(g, role)
  BY DEF SameOperands, With
<1>2. \A role : \A p \in With(g, role) : p \in Operands(g)
  BY DEF With
<1>3. ASSUME NEW v, NEW id
      PROVE  id \in Untaken(h, v) <=> id \in Untaken(g, v)
  BY <1>1, <1>2, UntakenHas DEF SameOperands
<1>4. \A v, c : InUse(g, v, c) => InUse(h, v, c)
  BY <1>1, <1>2 DEF SameOperands, InUse
<1>5. ASSUME WellLinked(g), NEW q \in With(h, "Get") \cup With(h, "Pass")
      PROVE  \E p \in With(h, "Set") : Live(h, p, q)
  <2>1. PICK p \in With(g, "Set") : Live(g, p, q)
    BY <1>1, <1>5 DEF WellLinked
  <2>2. Live(h, p, q)
    BY <1>1, <1>2, <2>1 DEF Live, SameOperands
  <2> QED  BY <1>1, <2>1, <2>2
<1>6. WellLinked(g) => WellLinked(h)
  BY <1>5 DEF WellLinked
<1>7. \A v : Untaken(h, v) = Untaken(g, v)
  BY <1>3 DEF Untaken
<1> QED  BY <1>4, <1>6, <1>7

\* The roles of the operands of a graph with one more.
LEMMA OneMoreWith ==
    ASSUME NEW g, NEW h, NEW q, OneMore(g, h, q)
    PROVE  \A role : /\ RoleAt(h, q) = role => With(h, role) = With(g, role) \cup {q}
                     /\ RoleAt(h, q) # role => With(h, role) = With(g, role)
                     /\ \A p \in With(g, role) : p \in Operands(g)
BY DEF OneMore, With

\* A new operand keeps a graph well linked if its value is still there.
LEMMA OneMoreLinked ==
    ASSUME NEW g, NEW h, NEW q, OneMore(g, h, q), WellLinked(g),
           RoleAt(h, q) \in {"Get", "Pass"} => ValueAt(h, q)[2] \in Untaken(g, TypeAt(h, q))
    PROVE  WellLinked(h)
<1>0. \A role : /\ RoleAt(h, q) = role => With(h, role) = With(g, role) \cup {q}
                /\ RoleAt(h, q) # role => With(h, role) = With(g, role)
                /\ \A p \in With(g, role) : p \in Operands(g)
  BY OneMoreWith
<1> SUFFICES ASSUME NEW r \in With(h, "Get") \cup With(h, "Pass")
             PROVE  \E p \in With(h, "Set") : Live(h, p, r)
  BY DEF WellLinked
<1>1. CASE r = q
  <2>1. RoleAt(h, q) \in {"Get", "Pass"}
    BY <1>1 DEF With
  <2>2. PICK p \in With(g, "Set") :
            /\ TypeAt(g, p) = TypeAt(h, q) /\ ValueAt(g, p)[2] = ValueAt(h, q)[2]
            /\ ~ \E x \in With(g, "Get") : ValueAt(g, x) = ValueAt(g, p)
    BY <2>1, UntakenHas
  <2>3. p \in Operands(g) /\ p \in With(h, "Set")
    BY <1>0
  <2>4. ValueAt(h, p) = ValueAt(h, q) /\ Before(p, q) /\ ~ Before(q, q) /\ ValueAt(h, p) = ValueAt(g, p)
    BY <2>2, <2>3, ValueParts DEF OneMore
  <2>5. ~ \E x \in With(h, "Get") : ValueAt(h, x) = ValueAt(h, p) /\ Before(p, x) /\ Before(x, q)
    <3> SUFFICES ASSUME NEW x \in With(h, "Get"), ValueAt(h, x) = ValueAt(h, p), Before(x, q)
                 PROVE  FALSE
      OBVIOUS
    <3>1. x # q
      BY <2>4
    <3>2. x \in With(g, "Get") /\ x \in Operands(g)
      BY <1>0, <3>1
    <3>3. ValueAt(g, x) = ValueAt(g, p)
      BY <2>4, <3>2 DEF OneMore
    <3> QED  BY <2>2, <3>2, <3>3
  <2> QED  BY <1>1, <2>3, <2>4, <2>5 DEF Live
<1>2. CASE r # q
  <2>1. r \in With(g, "Get") \cup With(g, "Pass") /\ r \in Operands(g)
    BY <1>0, <1>2
  <2>2. PICK p \in With(g, "Set") : Live(g, p, r)
    BY <2>1 DEF WellLinked
  <2>3. p \in With(h, "Set") /\ p \in Operands(g)
    BY <1>0
  <2>4. ValueAt(h, p) = ValueAt(h, r) /\ Before(p, r) /\ ValueAt(h, p) = ValueAt(g, p)
    BY <2>1, <2>2, <2>3 DEF OneMore, Live
  <2>5. ~ \E x \in With(h, "Get") : ValueAt(h, x) = ValueAt(h, p) /\ Before(p, x) /\ Before(x, r)
    <3> SUFFICES ASSUME NEW x \in With(h, "Get"), ValueAt(h, x) = ValueAt(h, p),
                        Before(p, x), Before(x, r)
                 PROVE  FALSE
      OBVIOUS
    <3>1. x # q
      BY <2>1 DEF OneMore
    <3>2. x \in With(g, "Get") /\ x \in Operands(g)
      BY <1>0, <3>1
    <3>3. ValueAt(g, x) = ValueAt(g, p)
      BY <2>4, <3>2 DEF OneMore
    <3> QED  BY <2>2, <3>2, <3>3 DEF Live
  <2> QED  BY <2>3, <2>4, <2>5 DEF Live
<1> QED  BY <1>1, <1>2

\* What a new operand does to the values that are there.
LEMMA OneMoreUntaken ==
    ASSUME NEW g, NEW h, NEW q, OneMore(g, h, q), NEW v, NEW c, InUse(g, v, c)
    PROVE  LET id == ValueAt(h, q)[2]
               mine == TypeAt(h, q) = v
           IN  /\ RoleAt(h, q) = "Set" /\ mine /\ id \notin 1 .. c
                     => Untaken(h, v) = Untaken(g, v) \cup {id}
               /\ RoleAt(h, q) = "Get" /\ mine => Untaken(h, v) = Untaken(g, v) \ {id}
               /\ RoleAt(h, q) \notin {"Set", "Get"} \/ ~ mine => Untaken(h, v) = Untaken(g, v)
<1> DEFINE id == ValueAt(h, q)[2]
<1>0. \A role : /\ RoleAt(h, q) = role => With(h, role) = With(g, role) \cup {q}
                /\ RoleAt(h, q) # role => With(h, role) = With(g, role)
                /\ \A p \in With(g, role) : p \in Operands(g)
  BY OneMoreWith
<1>1. \A p \in Operands(g) : ValueAt(h, p) = ValueAt(g, p) /\ TypeAt(h, p) = TypeAt(g, p)
  BY DEF OneMore
<1>2. \A w, x : x \in Untaken(g, w) <=>
          \E p \in With(g, "Set") : /\ TypeAt(g, p) = w /\ ValueAt(g, p)[2] = x
                                    /\ ~ \E r \in With(g, "Get") : ValueAt(g, r) = ValueAt(g, p)
  BY UntakenHas
<1>3. \A w, x : x \in Untaken(h, w) <=>
          \E p \in With(h, "Set") : /\ TypeAt(h, p) = w /\ ValueAt(h, p)[2] = x
                                    /\ ~ \E r \in With(h, "Get") : ValueAt(h, r) = ValueAt(h, p)
  BY UntakenHas
<1>4. ASSUME RoleAt(h, q) = "Set", TypeAt(h, q) = v, id \notin 1 .. c
      PROVE  Untaken(h, v) = Untaken(g, v) \cup {id}
  <2>1. With(h, "Set") = With(g, "Set") \cup {q} /\ With(h, "Get") = With(g, "Get")
    BY <1>0, <1>4
  <2>2. \A r \in With(g, "Get") : ValueAt(h, r) # ValueAt(h, q)
    BY <1>0, <1>1, <1>4, ValueParts DEF InUse
  <2>3. \A x : x \in Untaken(h, v) <=> x \in Untaken(g, v) \/ x = id
    BY <1>0, <1>1, <1>2, <1>3, <1>4, <2>1, <2>2
  <2> QED  BY <2>3
<1>5. ASSUME RoleAt(h, q) = "Get", TypeAt(h, q) = v
      PROVE  Untaken(h, v) = Untaken(g, v) \ {id}
  <2>1. With(h, "Set") = With(g, "Set") /\ With(h, "Get") = With(g, "Get") \cup {q}
    BY <1>0, <1>5
  <2>2. \A p \in With(g, "Set") : TypeAt(g, p) = v =>
            (ValueAt(h, q) = ValueAt(h, p) <=> ValueAt(g, p)[2] = id)
    BY <1>0, <1>1, <1>5, ValueParts
  <2>3. \A x : x \in Untaken(h, v) <=> x \in Untaken(g, v) /\ x # id
    BY <1>0, <1>1, <1>2, <1>3, <2>1, <2>2
  <2> QED  BY <2>3
<1>6. ASSUME RoleAt(h, q) \notin {"Set", "Get"}
      PROVE  Untaken(h, v) = Untaken(g, v)
  <2>1. With(h, "Set") = With(g, "Set") /\ With(h, "Get") = With(g, "Get")
    BY <1>0, <1>6
  <2>2. \A x : x \in Untaken(h, v) <=> x \in Untaken(g, v)
    BY <1>0, <1>1, <1>2, <1>3, <2>1
  <2> QED  BY <2>2
<1>7. ASSUME TypeAt(h, q) # v
      PROVE  Untaken(h, v) = Untaken(g, v)
  <2>1. \A p \in With(h, "Set") : TypeAt(h, p) = v => p # q /\ p \in With(g, "Set")
    BY <1>0, <1>7
  <2>2. \A p \in With(g, "Set") : p \in With(h, "Set")
    BY <1>0
  <2>3. \A p \in With(g, "Set") : TypeAt(g, p) = v => ValueAt(h, q) # ValueAt(h, p)
    BY <1>0, <1>1, <1>7, ValueParts
  <2>4. \A x : x \in Untaken(h, v) <=> x \in Untaken(g, v)
    BY <1>0, <1>1, <1>2, <1>3, <2>1, <2>2, <2>3
  <2> QED  BY <2>4
<1> QED  BY <1>4, <1>5, <1>6, <1>7

\* The ids in use with a new operand.
LEMMA OneMoreInUse ==
    ASSUME NEW g, NEW h, NEW q, OneMore(g, h, q), NEW v, NEW c, InUse(g, v, c),
           NEW e, 1 .. c \subseteq 1 .. e,
           RoleAt(h, q) \in {"Set", "Get"} /\ TypeAt(h, q) = v => ValueAt(h, q)[2] \in 1 .. e
    PROVE  InUse(h, v, e)
<1>0. \A role : /\ RoleAt(h, q) = role => With(h, role) = With(g, role) \cup {q}
                /\ RoleAt(h, q) # role => With(h, role) = With(g, role)
                /\ \A p \in With(g, role) : p \in Operands(g)
  BY OneMoreWith
<1> SUFFICES ASSUME NEW p \in With(h, "Set") \cup With(h, "Get"), TypeAt(h, p) = v
             PROVE  ValueAt(h, p)[2] \in 1 .. e
  BY DEF InUse
<1>1. CASE p = q
  BY <1>1 DEF With
<1>2. CASE p # q
  <2>1. p \in With(g, "Set") \cup With(g, "Get") /\ p \in Operands(g)
    BY <1>0, <1>2
  <2>2. TypeAt(g, p) = v /\ ValueAt(g, p) = ValueAt(h, p)
    BY <2>1 DEF OneMore
  <2> QED  BY <2>1, <2>2 DEF InUse
<1> QED  BY <1>1, <1>2

\* A node in the payload: its ops and the length of its data.
Nodes == [ops : Seq(Nat), data : Nat]

\* Graph g with one node more.
Plus(g, ops, d) == Append(g, [ops |-> ops, data |-> d])

\* The nodes of Plus(g, ops, d).
LEMMA PlusNodes ==
    ASSUME NEW g \in Seq(Nodes), NEW ops \in Seq(Nat), NEW d \in Nat
    PROVE  /\ Plus(g, ops, d) \in Seq(Nodes) /\ Len(Plus(g, ops, d)) = Len(g) + 1
           /\ DOMAIN Plus(g, ops, d) = 1 .. Len(g) + 1
           /\ \A i \in 1 .. Len(g) : Plus(g, ops, d)[i] = g[i]
           /\ Plus(g, ops, d)[Len(g) + 1] = [ops |-> ops, data |-> d]
           /\ Plus(g, ops, d)[Len(g) + 1].ops = ops
<1>1. [ops |-> ops, data |-> d] \in Nodes
  BY DEF Nodes
<1> QED  BY <1>1, AppendProperties DEF Plus

\* What an operand is.
LEMMA OperandIs ==
    ASSUME NEW g, NEW p
    PROVE  p \in Operands(g) <=> \E i \in DOMAIN g : \E j \in 2 .. Len(g[i].ops) : p = <<i, j>>
BY DEF Operands

\* Operands of the last node and of those before.
LEMMA PlusOperands ==
    ASSUME NEW g \in Seq(Nodes), NEW ops \in Seq(Nat), NEW d \in Nat
    PROVE  LET h == Plus(g, ops, d)
           IN  /\ Operands(h) = Operands(g) \cup {<<Len(g) + 1, j>> : j \in 2 .. Len(ops)}
               /\ \A p \in Operands(g) : p[1] \in 1 .. Len(g) /\ h[p[1]] = g[p[1]]
<1> DEFINE h == Plus(g, ops, d)
           L == Len(g)
<1>1. /\ L \in Nat /\ DOMAIN g = 1 .. L /\ DOMAIN h = 1 .. L + 1
      /\ \A i \in 1 .. L : h[i] = g[i]
      /\ h[L + 1].ops = ops
  <2>1. L \in Nat /\ DOMAIN g = 1 .. L
    BY LenProperties
  <2>2. DOMAIN h = 1 .. Len(g) + 1
    BY PlusNodes
  <2>3. ASSUME NEW i \in 1 .. Len(g)
        PROVE  h[i] = g[i]
    <3>1. [ops |-> ops, data |-> d] \in Nodes
      BY DEF Nodes
    <3> QED  BY <3>1, AppendProperties DEF Plus
  <2>4. h[Len(g) + 1].ops = ops
    BY PlusNodes
  <2> QED  BY <2>1, <2>2, <2>3, <2>4
<1> HIDE DEF h, L
<1>2. 1 .. L + 1 = 1 .. L \cup {L + 1}
  BY <1>1
<1>3. \A p : p \in Operands(h) <=> p \in Operands(g) \/ p \in {<<L + 1, j>> : j \in 2 .. Len(ops)}
  <2>1. ASSUME NEW p
        PROVE  p \in Operands(h) <=> p \in Operands(g) \/ p \in {<<L + 1, j>> : j \in 2 .. Len(ops)}
    <3>1. p \in Operands(h) <=> \E i \in 1 .. L + 1 : \E j \in 2 .. Len(h[i].ops) : p = <<i, j>>
      BY <1>1 DEF Operands
    <3>2. p \in Operands(g) <=> \E i \in 1 .. L : \E j \in 2 .. Len(g[i].ops) : p = <<i, j>>
      BY <1>1 DEF Operands
    <3> QED  BY <1>1, <1>2, <3>1, <3>2
  <2> QED  BY <2>1
<1>4. ASSUME NEW p \in Operands(g)
      PROVE  p[1] \in 1 .. L /\ h[p[1]] = g[p[1]]
  <2>1. PICK i \in 1 .. L : \E j \in 2 .. Len(g[i].ops) : p = <<i, j>>
    BY <1>1, OperandIs
  <2>2. p[1] = i
    BY <2>1
  <2> QED  BY <1>1, <2>1, <2>2
<1>5. Operands(h) = Operands(g) \cup {<<L + 1, j>> : j \in 2 .. Len(ops)}
  BY <1>3
<1> QED  BY <1>4, <1>5 DEF h, L

\* A node without operands, or whose operands are still to come.
LEMMA PlusType ==
    ASSUME NEW g \in Seq(Nodes), NEW n \in Nat, NEW d \in Nat
    PROVE  SameOperands(g, Plus(g, <<n>>, d))
<1> DEFINE h == Plus(g, <<n>>, d)
<1>1. <<n>> \in Seq(Nat) /\ 2 .. Len(<<n>>) = {}
  OBVIOUS
<1>2. Operands(h) = Operands(g) /\ \A p \in Operands(g) : h[p[1]] = g[p[1]]
  <2>1. Operands(h) = Operands(g) \cup {<<Len(g) + 1, j>> : j \in 2 .. Len(<<n>>)}
    BY <1>1, PlusOperands
  <2>2. {<<Len(g) + 1, j>> : j \in 2 .. Len(<<n>>)} = {}
    BY <1>1
  <2>3. ASSUME NEW p \in Operands(g)
        PROVE  h[p[1]] = g[p[1]]
    <3> DEFINE ops == <<n>>
    <3>1. ops \in Seq(Nat)
      BY <1>1
    <3> HIDE DEF ops
    <3>2. Plus(g, ops, d)[p[1]] = g[p[1]]
      BY <3>1, PlusOperands
    <3> QED  BY <3>2 DEF ops
  <2> HIDE DEF h
  <2> QED  BY <2>1, <2>2, <2>3
<1> HIDE DEF h
<1> QED  BY <1>2 DEF SameOperands, RoleAt, TypeAt, ValueAt, h

\* The next operand of a node.
LEMMA PlusOperand ==
    ASSUME NEW g \in Seq(Nodes), NEW ops \in Seq(Nat), ops # <<>>, NEW d \in Nat, NEW id \in Nat
    PROVE  LET h == Plus(g, ops, d)
               k == Plus(g, Append(ops, id), d)
               q == <<Len(g) + 1, Len(ops) + 1>>
           IN  /\ OneMore(h, k, q)
               /\ RoleAt(k, q) = Roles(ops[1])[Len(ops)][1]
               /\ TypeAt(k, q) = Roles(ops[1])[Len(ops)][2]
               /\ ValueAt(k, q)[2] = id
<1> DEFINE h == Plus(g, ops, d)
           more == Append(ops, id)
           k == Plus(g, more, d)
           L == Len(g)
           M == Len(ops)
           q == <<L + 1, M + 1>>
<1>1. /\ L \in Nat /\ M \in Nat /\ M >= 1
      /\ more \in Seq(Nat) /\ Len(more) = M + 1 /\ more[M + 1] = id
      /\ \A j \in 1 .. M : more[j] = ops[j]
  BY AppendProperties, EmptySeq
<1>2. h[L + 1].ops = ops /\ k[L + 1].ops = more
  <2>1. h[L + 1].ops = ops
    BY PlusNodes
  <2>2. k[L + 1].ops = more
    <3> HIDE DEF more
    <3>1. more \in Seq(Nat)
      BY <1>1
    <3>2. Plus(g, more, d)[Len(g) + 1].ops = more
      BY <3>1, PlusNodes
    <3> QED  BY <3>2
  <2> QED  BY <2>1, <2>2
<1>3. /\ Operands(h) = Operands(g) \cup {<<L + 1, j>> : j \in 2 .. M}
      /\ Operands(k) = Operands(g) \cup {<<L + 1, j>> : j \in 2 .. M + 1}
      /\ \A p \in Operands(g) : p[1] \in 1 .. L /\ h[p[1]] = g[p[1]] /\ k[p[1]] = g[p[1]]
  BY <1>1, PlusOperands
<1> HIDE DEF h, k, L, M, more
<1>4. 2 .. M + 1 = 2 .. M \cup {M + 1} /\ M + 1 \notin 2 .. M /\ 1 \in 1 .. M
  BY <1>1
<1>5. Operands(k) = Operands(h) \cup {q}
  BY <1>3, <1>4
<1>6. q[1] = L + 1 /\ q[2] = M + 1 /\ L + 1 \notin 1 .. L
  BY <1>1
<1>7. q \notin Operands(h)
  <2>1. q \notin Operands(g)
    BY <1>3, <1>6
  <2>2. \A j \in 2 .. M : q # <<L + 1, j>>
    BY <1>4
  <2> QED  BY <1>3, <2>1, <2>2
<1>8. ASSUME NEW p \in Operands(h)
      PROVE  /\ RoleAt(k, p) = RoleAt(h, p) /\ TypeAt(k, p) = TypeAt(h, p)
             /\ ValueAt(k, p) = ValueAt(h, p)
             /\ Before(p, q) /\ ~ Before(q, p)
  <2>1. CASE p \in Operands(g)
    <3>1. h[p[1]] = k[p[1]] /\ p[1] \in 1 .. L
      BY <1>3, <2>1
    <3>2. p[1] < L + 1
      BY <1>1, <3>1
    <3> QED  BY <1>1, <1>6, <3>1, <3>2 DEF RoleAt, TypeAt, ValueAt, Before
  <2>2. CASE p \in {<<L + 1, j>> : j \in 2 .. M}
    <3>1. PICK j \in 2 .. M : p = <<L + 1, j>>
      BY <2>2
    <3>2. p[1] = L + 1 /\ p[2] = j /\ j \in 1 .. M /\ j < M + 1
      BY <1>1, <3>1
    <3>3. more[1] = ops[1] /\ more[j] = ops[j]
      BY <1>1, <1>4, <3>2
    <3>4. /\ RoleAt(k, p) = RoleAt(h, p) /\ TypeAt(k, p) = TypeAt(h, p)
          /\ ValueAt(k, p) = ValueAt(h, p)
      BY <1>2, <3>2, <3>3 DEF RoleAt, TypeAt, ValueAt
    <3>5. Before(p, q) /\ ~ Before(q, p)
      BY <1>1, <1>6, <3>2 DEF Before
    <3> QED  BY <3>4, <3>5
  <2> QED  BY <1>3, <2>1, <2>2
<1>9. ~ Before(q, q)
  BY <1>1, <1>6 DEF Before
<1>10. OneMore(h, k, q)
  BY <1>5, <1>7, <1>8, <1>9 DEF OneMore
<1>11. (M + 1) - 1 = M /\ more[1] = ops[1]
  BY <1>1, <1>4
<1>12. RoleAt(k, q) = Roles(ops[1])[M][1] /\ TypeAt(k, q) = Roles(ops[1])[M][2]
  BY <1>2, <1>6, <1>11 DEF RoleAt, TypeAt
<1>13. ValueAt(k, q)[2] = id
  BY <1>1, <1>2, <1>6 DEF ValueAt
<1> QED  BY <1>10, <1>12, <1>13 DEF h, k, L, M, more

\* A node cut short keeps the links of the operands it has.
LEMMA CutLinked ==
    ASSUME NEW g \in Seq(Nodes), NEW ops \in Seq(Nat), NEW d \in Nat,
           NEW m \in 1 .. Len(ops), WellLinked(Plus(g, ops, d))
    PROVE  WellLinked(Plus(g, SubSeq(ops, 1, m), d))
<1> DEFINE h == Plus(g, ops, d)
           cut == SubSeq(ops, 1, m)
           k == Plus(g, cut, d)
           L == Len(g)
           M == Len(ops)
<1>1. L \in Nat /\ M \in Nat /\ m \in Nat /\ m <= M /\ m >= 1 /\ m \in 1 .. M
  OBVIOUS
<1>2. /\ cut \in Seq(Nat) /\ Len(cut) = m /\ \A j \in 1 .. m : cut[j] = ops[j]
  BY <1>1, SubSeqProperties
<1>3. h[L + 1].ops = ops /\ k[L + 1].ops = cut
  <2>1. h[L + 1].ops = ops
    BY PlusNodes
  <2>2. k[L + 1].ops = cut
    <3> HIDE DEF cut
    <3> QED  BY <1>2, PlusNodes
  <2> QED  BY <2>1, <2>2
<1>4. /\ Operands(h) = Operands(g) \cup {<<L + 1, j>> : j \in 2 .. M}
      /\ Operands(k) = Operands(g) \cup {<<L + 1, j>> : j \in 2 .. m}
      /\ \A p \in Operands(g) : p[1] \in 1 .. L /\ h[p[1]] = g[p[1]] /\ k[p[1]] = g[p[1]]
  BY <1>2, PlusOperands
<1>w. WellLinked(h)
  OBVIOUS
<1> HIDE DEF h, k, L, M, cut
<1>5. ASSUME NEW p \in Operands(k)
      PROVE  /\ p \in Operands(h) /\ RoleAt(k, p) = RoleAt(h, p)
             /\ ValueAt(k, p) = ValueAt(h, p)
  <2>1. CASE p \in Operands(g)
    BY <1>4, <2>1 DEF RoleAt, TypeAt, ValueAt
  <2>2. CASE p \in {<<L + 1, j>> : j \in 2 .. m}
    <3>1. PICK j \in 2 .. m : p = <<L + 1, j>>
      BY <2>2
    <3>2. p[1] = L + 1 /\ p[2] = j /\ j \in 1 .. m /\ 1 \in 1 .. m /\ j \in 2 .. M
      BY <1>1, <3>1
    <3>3. cut[1] = ops[1] /\ cut[j] = ops[j]
      BY <1>2, <3>2
    <3> QED  BY <1>3, <1>4, <3>1, <3>2, <3>3 DEF RoleAt, TypeAt, ValueAt
  <2> QED  BY <1>4, <2>1, <2>2
<1>6. ASSUME NEW q \in Operands(k), NEW p \in Operands(h), Before(p, q)
      PROVE  p \in Operands(k)
  <2>1. CASE p \in Operands(g)
    BY <1>4, <2>1
  <2>2. CASE p \in {<<L + 1, j>> : j \in 2 .. M}
    <3>1. PICK j \in 2 .. M : p = <<L + 1, j>>
      BY <2>2
    <3>2. CASE q \in Operands(g)
      <4>1. q[1] \in 1 .. L /\ p[1] = L + 1
        BY <1>4, <3>1, <3>2
      <4> QED  BY <1>1, <1>6, <4>1 DEF Before
    <3>3. CASE q \in {<<L + 1, i>> : i \in 2 .. m}
      <4>1. PICK i \in 2 .. m : q = <<L + 1, i>>
        BY <3>3
      <4>2. p[1] = L + 1 /\ q[1] = L + 1 /\ p[2] = j /\ q[2] = i
        BY <3>1, <4>1
      <4>3. j < i
        BY <1>1, <1>6, <4>2 DEF Before
      <4>4. j \in 2 .. m
        BY <1>1, <4>3
      <4> QED  BY <1>4, <3>1, <4>4
    <3> QED  BY <1>4, <3>2, <3>3
  <2> QED  BY <1>4, <2>1, <2>2
<1> SUFFICES ASSUME NEW q \in With(k, "Get") \cup With(k, "Pass")
             PROVE  \E p \in With(k, "Set") : Live(k, p, q)
  BY DEF WellLinked, k, cut
<1>7. q \in Operands(k) /\ q \in With(h, "Get") \cup With(h, "Pass")
  BY <1>5 DEF With
<1>8. PICK p \in With(h, "Set") : Live(h, p, q)
  BY <1>7, <1>w DEF WellLinked
<1>9. p \in Operands(k) /\ p \in With(k, "Set") /\ ValueAt(k, p) = ValueAt(k, q) /\ Before(p, q)
  <2>1. p \in Operands(h) /\ Before(p, q) /\ RoleAt(h, p) = "Set"
    BY <1>8 DEF With, Live
  <2>2. p \in Operands(k)
    BY <1>6, <1>7, <2>1
  <2> QED  BY <1>5, <1>7, <1>8, <2>1, <2>2 DEF With, Live
<1>10. \A r \in With(k, "Get") : r \in With(h, "Get") /\ ValueAt(h, r) = ValueAt(k, r)
  BY <1>5 DEF With
<1>11. Live(k, p, q)
  BY <1>5, <1>8, <1>9, <1>10 DEF Live
<1> QED  BY <1>9, <1>11

-----------------------------------------------------------------------------
(***************************************************************************)
(* Linking the operands of a node.                                         *)
(***************************************************************************)

\* What an operand does to the values of its type.
ValueStep(s, t, role, id) ==
    /\ IsValue(t) /\ id \in Nat
    /\ RenamesAvailable(s) => RenamesAvailable(t)
    /\ role = "Set" => /\ id = s.cur + 1 /\ t.cur = id
                       /\ get_random_input(t) = get_random_input(s) \cup {id}
                       /\ Len(t.ids) = Len(s.ids) + 1
    /\ role = "Get" => /\ id \in get_random_input(s) /\ t.cur = s.cur
                       /\ get_random_input(t) = get_random_input(s) \ {id}
                       /\ Len(t.ids) = Len(s.ids) - 1
    /\ role = "Pass" => t = s /\ (RenamesAvailable(s) => id \in get_random_input(s))

\* An operand is linked as ValueStep says, or the builder panics.
OpStep(x, st, v, role) ==
    LET s == get_state(st, v)
    IN  \/ /\ x.ok = TRUE
           /\ \E t : ValueStep(s, t, role, x.id) /\ x.st = InsertKey(st, v, t)
        \/ /\ x = Panic(st)
           /\ role \in {"Get", "Pass"}
           /\ RenamesAvailable(s) => Len(s.ids) = 0

\* The ids that can be sampled.
LEMMA SampledIds ==
    ASSUME NEW s, IsValue(s)
    PROVE  /\ DOMAIN s.index = get_random_input(s)
           /\ get_random_input(s) \subseteq Nat
           /\ get_random_input(s) \subseteq 1 .. s.cur
           /\ s.cur \in Nat /\ Len(s.ids) \in Nat
           /\ get_random_input(s) = {} => Len(s.ids) = 0
<1>1. DOMAIN s.index = get_random_input(s)
  BY DEF IsValue, IndexInverse
<1>2. get_random_input(s) \subseteq 1 .. s.cur /\ s.cur \in Nat /\ Len(s.ids) \in Nat
  BY DEF IsValue, get_random_input
<1>3. ASSUME Len(s.ids) # 0
      PROVE  get_random_input(s) # {}
  <2>1. 1 \in 1 .. Len(s.ids)
    BY <1>2, <1>3
  <2> QED  BY <2>1 DEF get_random_input
<1> QED  BY <1>1, <1>2, <1>3

\* Taking an available id.
LEMMA TakenStep ==
    ASSUME NEW st, NEW v, IsValue(get_state(st, v)), NEW id \in get_random_input(get_state(st, v))
    PROVE  Taken(st, v, id).ok = TRUE /\ OpStep(Taken(st, v, id), st, v, "Get")
<1> DEFINE s == get_state(st, v)
           t == take_new_input(s, id)
           x == Taken(st, v, id)
<1>1. id \in DOMAIN s.index /\ id \in Nat
  BY SampledIds
<1>2. x = [ok |-> TRUE, st |-> InsertKey(st, v, t), id |-> id]
  BY <1>1 DEF Taken, Linked
<1>3. ValueStep(s, t, "Get", id)
  <2> HIDE DEF s
  <2>1. IsValue(s)
    BY DEF s
  <2>2. RenamesAvailable(s) => RenamesAvailable(t)
    BY <1>1, <2>1, TakeRenames
  <2>3. /\ IsValue(t) /\ t.cur = s.cur
        /\ get_random_input(t) = get_random_input(s) \ {id}
        /\ id \in get_random_input(s)
        /\ Len(t.ids) = Len(s.ids) - 1
    BY <1>1, <2>1, TakeValue
  <2> HIDE DEF t
  <2> QED  BY <1>1, <2>2, <2>3 DEF ValueStep
<1> HIDE DEF t, x, s
<1>4. x.ok = TRUE /\ x.st = InsertKey(st, v, t) /\ x.id = id
  BY <1>2
<1> QED  BY <1>3, <1>4 DEF OpStep, s, x

\* Borrowing.
LEMMA PassStep ==
    ASSUME NEW st, NEW v, IsValue(get_state(st, v)), NEW id \in Nat,
           RenamesAvailable(get_state(st, v)) => id \in get_random_input(get_state(st, v))
    PROVE  OpStep(Linked(st, v, get_state(st, v), id), st, v, "Pass")
<1> DEFINE s == get_state(st, v)
           x == Linked(st, v, s, id)
<1>1. x.ok = TRUE /\ x.st = InsertKey(st, v, s) /\ x.id = id
  BY DEF Linked
<1>2. ValueStep(s, s, "Pass", id)
  BY DEF ValueStep
<1> HIDE DEF x
<1> QED  BY <1>1, <1>2 DEF OpStep, x

\* Offering.
LEMMA SetStep ==
    ASSUME NEW st, NEW v, NEW t,
           LET s == get_state(st, v)
           IN  /\ IsValue(s) /\ IsValue(t) /\ t.cur = s.cur + 1
               /\ get_random_input(t) = get_random_input(s) \cup {s.cur + 1}
               /\ Len(t.ids) = Len(s.ids) + 1
               /\ RenamesAvailable(s) => RenamesAvailable(t)
    PROVE  OpStep(Linked(st, v, t, get_state(st, v).cur + 1), st, v, "Set")
<1> DEFINE s == get_state(st, v)
           x == Linked(st, v, t, s.cur + 1)
<1>1. x.ok = TRUE /\ x.st = InsertKey(st, v, t) /\ x.id = s.cur + 1
  BY DEF Linked
<1>2. ValueStep(s, t, "Set", s.cur + 1)
  <2>1. s.cur + 1 \in Nat
    BY DEF IsValue
  <2> QED  BY <2>1 DEF ValueStep
<1> HIDE DEF x
<1> QED  BY <1>1, <1>2 DEF OpStep, x

\* random_op_val, the operands of a generated node.
LEMMA RandomStep ==
    ASSUME NEW st, NEW v, IsValue(get_state(st, v)), NEW role \in {"Get", "Pass", "Set"},
           NEW x \in random_op_val(st, role, v)
    PROVE  OpStep(x, st, v, role)
<1> DEFINE s == get_state(st, v)
           free == get_random_input(s)
<1>1. CASE role = "Set"
  <2>1. x = Linked(st, v, insert_new_id(s), s.cur + 1)
    BY <1>1 DEF random_op_val
  <2> QED  BY <1>1, <2>1, InsertNew, SetStep
<1>2. CASE role = "Get"
  <2>1. x \in OrPanic({Taken(st, v, y) : y \in free}, st)
    BY <1>2 DEF random_op_val
  <2>2. CASE free = {}
    <3>1. x = Panic(st)
      BY <2>1, <2>2 DEF OrPanic
    <3> QED  BY <1>2, <2>2, <3>1, SampledIds DEF OpStep
  <2>3. CASE free # {}
    <3>1. PICK y \in free : x = Taken(st, v, y)
      BY <2>1, <2>3 DEF OrPanic
    <3> QED  BY <1>2, <3>1, TakenStep
  <2> QED  BY <2>2, <2>3
<1>3. CASE role = "Pass"
  <2>1. x \in OrPanic({Linked(st, v, s, y) : y \in free}, st)
    BY <1>3 DEF random_op_val
  <2>2. CASE free = {}
    <3>1. x = Panic(st)
      BY <2>1, <2>2 DEF OrPanic
    <3> QED  BY <1>3, <2>2, <3>1, SampledIds DEF OpStep
  <2>3. CASE free # {}
    <3>1. PICK y \in free : x = Linked(st, v, s, y)
      BY <2>1, <2>3 DEF OrPanic
    <3>2. y \in Nat
      BY SampledIds
    <3> QED  BY <1>3, <3>1, <3>2, PassStep
  <2> QED  BY <2>2, <2>3
<1> QED  BY <1>1, <1>2, <1>3

\* rename_and_relink_op_val, the operands of a copied node.
LEMMA RenameStep ==
    ASSUME NEW st, NEW v, IsValue(get_state(st, v)), NEW role \in {"Get", "Pass", "Set"}, NEW old,
           NEW x \in rename_and_relink_op_val(st, role, v, old)
    PROVE  OpStep(x, st, v, role)
<1> DEFINE s == get_state(st, v)
           free == get_random_input(s)
           ids == get_old_available_input(s, old)
<1>0. /\ old \in DOMAIN s.o2n => ids = {s.o2n[old]} /\ s.o2n[old] \in Nat
      /\ old \notin DOMAIN s.o2n => ids = free
      /\ old \in DOMAIN s.o2n /\ RenamesAvailable(s) => s.o2n[old] \in free
  BY SampledIds DEF get_old_available_input, IsValue, RenamesAvailable
<1>1. CASE role = "Set"
  <2>1. x = Linked(st, v, insert_old_id(s, old), s.cur + 1)
    BY <1>1 DEF rename_and_relink_op_val
  <2> QED  BY <1>1, <2>1, InsertOld, SetStep
<1>2. CASE role = "Get"
  <2>1. x \in OrPanic({Taken(st, v, y) : y \in ids}, st)
    BY <1>2 DEF rename_and_relink_op_val
  <2>2. CASE ids = {}
    <3>1. x = Panic(st) /\ free = {}
      BY <1>0, <2>1, <2>2 DEF OrPanic
    <3> QED  BY <1>2, <3>1, SampledIds DEF OpStep
  <2>3. CASE ids # {}
    <3>1. PICK y \in ids : x = Taken(st, v, y)
      BY <2>1, <2>3 DEF OrPanic
    <3>2. CASE y \in free
      BY <1>2, <3>1, <3>2, TakenStep
    <3>3. CASE y \notin free
      <4>1. ~ RenamesAvailable(s) /\ y \notin DOMAIN s.index
        BY <1>0, <3>3, SampledIds
      <4>2. x = Panic(st)
        BY <3>1, <4>1 DEF Taken
      <4> QED  BY <1>2, <4>1, <4>2 DEF OpStep
    <3> QED  BY <3>2, <3>3
  <2> QED  BY <2>2, <2>3
<1>3. CASE role = "Pass"
  <2>1. x \in OrPanic({Linked(st, v, s, y) : y \in ids}, st)
    BY <1>3 DEF rename_and_relink_op_val
  <2>2. CASE ids = {}
    <3>1. x = Panic(st) /\ free = {}
      BY <1>0, <2>1, <2>2 DEF OrPanic
    <3> QED  BY <1>3, <3>1, SampledIds DEF OpStep
  <2>3. CASE ids # {}
    <3>1. PICK y \in ids : x = Linked(st, v, s, y)
      BY <2>1, <2>3 DEF OrPanic
    <3>2. y \in Nat /\ (RenamesAvailable(s) => y \in free)
      BY <1>0, SampledIds
    <3> QED  BY <1>3, <3>1, <3>2, PassStep
  <2> QED  BY <2>2, <2>3
<1> QED  BY <1>1, <1>2, <1>3

-----------------------------------------------------------------------------
(***************************************************************************)
(* Node types and the roles of their operands.                             *)
(***************************************************************************)

\* What is known of a specification.
LEMMA SetupFacts ==
    ASSUME setup \in Setups
    PROVE  /\ setup.nodes \in Seq(NodeSpecs) /\ Len(setup.nodes) \in Nat \ {0}
           /\ setup.max_ops \in Nat /\ setup.max_data \in Nat /\ setup.max_generate \in Nat
           /\ setup.placement \in {"none", "balanced", "aggressive"} /\ setup.biggest_data \in Nat
<1>1. /\ setup.nodes \in Seq(NodeSpecs) \ {<<>>}
      /\ setup.max_ops \in Nat /\ setup.max_data \in Nat /\ setup.max_generate \in Nat
      /\ setup.placement \in {"none", "balanced", "aggressive"} /\ setup.biggest_data \in Nat
  BY GraphBuilderAssumption
<1>2. Len(setup.nodes) \in Nat \ {0}
  <2>1. setup.nodes \in Seq(NodeSpecs) /\ setup.nodes # <<>>
    BY <1>1
  <2> QED  BY <2>1, EmptySeq, LenProperties
<1> QED  BY <1>1, <1>2

\* Every node type, and the snapshot node, has a NodeSpec.
LEMMA NodeFacts ==
    ASSUME setup \in Setups, NEW n \in NodeTypes \cup {SnapshotNode}
    PROVE  /\ get_node(n) \in NodeSpecs /\ n \in Nat
           /\ n \in NodeTypes => n # SnapshotNode /\ get_node(n) = setup.nodes[n]
           /\ size(n) = Len(get_node(n).inputs) + Len(get_node(n).passthroughs)
                          + Len(get_node(n).outputs)
           /\ size(n) \in Nat
<1>1. n \in NodeTypes => n # SnapshotNode /\ n \in Nat /\ setup.nodes[n] \in NodeSpecs
  BY SetupFacts DEF NodeTypes, SnapshotNode
<1>2. ASSUME n = SnapshotNode
      PROVE  get_node(n) \in NodeSpecs /\ n \in Nat
  <2>1. get_node(n) = [inputs |-> <<>>, passthroughs |-> <<>>, outputs |-> <<>>, data |-> {0}]
    BY <1>2 DEF get_node
  <2>2. <<>> \in Seq(ValueTypeIDs) /\ {0} \in (SUBSET Nat) \ {{}}
    OBVIOUS
  <2>3. n \in Nat
    BY <1>2 DEF SnapshotNode
  <2> QED  BY <2>1, <2>2, <2>3 DEF NodeSpecs
<1>3. get_node(n) \in NodeSpecs /\ n \in Nat
  BY <1>1, <1>2 DEF get_node
<1>4. n \in NodeTypes => n # SnapshotNode /\ get_node(n) = setup.nodes[n]
  BY <1>1 DEF get_node
<1>5. size(n) = Len(get_node(n).inputs) + Len(get_node(n).passthroughs) + Len(get_node(n).outputs)
  BY DEF size
<1>6. size(n) \in Nat
  <2>1. /\ get_node(n).inputs \in Seq(ValueTypeIDs) /\ get_node(n).passthroughs \in Seq(ValueTypeIDs)
        /\ get_node(n).outputs \in Seq(ValueTypeIDs)
    BY <1>3 DEF NodeSpecs
  <2>2. /\ Len(get_node(n).inputs) \in Nat /\ Len(get_node(n).passthroughs) \in Nat
        /\ Len(get_node(n).outputs) \in Nat
    BY <2>1, LenProperties
  <2>3. \A a, b, c \in Nat : a + b + c \in Nat
    OBVIOUS
  <2> HIDE DEF get_node
  <2>4. Len(get_node(n).inputs) + Len(get_node(n).passthroughs) + Len(get_node(n).outputs) \in Nat
    BY <2>2, <2>3, Zenon
  <2> QED  BY <1>5, <2>4, Zenon
<1> QED  BY <1>3, <1>4, <1>5, <1>6

\* The operands of a type: first what it takes, then what it borrows, then
\* what it offers.
LEMMA RoleFacts ==
    ASSUME setup \in Setups, NEW n \in NodeTypes \cup {SnapshotNode}, NEW j \in 1 .. size(n)
    PROVE  LET s == get_node(n)
           IN  /\ \/ j \in 1 .. Len(s.inputs) /\ Roles(n)[j] = <<"Get", s.inputs[j]>>
                  \/ j > Len(s.inputs) /\ \E k \in 1 .. Len(s.passthroughs) :
                         Roles(n)[j] = <<"Pass", s.passthroughs[k]>>
                  \/ j > Len(s.inputs) /\ \E k \in 1 .. Len(s.outputs) :
                         Roles(n)[j] = <<"Set", s.outputs[k]>>
               /\ Roles(n)[j][1] \in {"Get", "Pass", "Set"}
               /\ Roles(n)[j][2] \in ValueTypeIDs
<1> DEFINE s == get_node(n)
           A == [i \in DOMAIN s.inputs |-> <<"Get", s.inputs[i]>>]
           B == [i \in DOMAIN s.passthroughs |-> <<"Pass", s.passthroughs[i]>>]
           C == [i \in DOMAIN s.outputs |-> <<"Set", s.outputs[i]>>]
           a == Len(s.inputs)
           b == Len(s.passthroughs)
           c == Len(s.outputs)
           R == {"Get", "Pass", "Set"} \X ValueTypeIDs
<1>1. s \in NodeSpecs /\ size(n) = a + b + c
  BY NodeFacts
<1>2. /\ s.inputs \in Seq(ValueTypeIDs) /\ s.passthroughs \in Seq(ValueTypeIDs)
      /\ s.outputs \in Seq(ValueTypeIDs)
  BY <1>1 DEF NodeSpecs
<1>3. a \in Nat /\ b \in Nat /\ c \in Nat
  BY <1>2
<1>4. /\ \A i \in 1 .. a : s.inputs[i] \in ValueTypeIDs
      /\ \A i \in 1 .. b : s.passthroughs[i] \in ValueTypeIDs
      /\ \A i \in 1 .. c : s.outputs[i] \in ValueTypeIDs
      /\ DOMAIN s.inputs = 1 .. a /\ DOMAIN s.passthroughs = 1 .. b /\ DOMAIN s.outputs = 1 .. c
  BY <1>2
<1>5. Roles(n) = A \o B \o C
  BY DEF Roles
<1> HIDE DEF s, a, b, c
<1>6. /\ A \in Seq(R) /\ Len(A) = a /\ \A i \in 1 .. a : A[i] = <<"Get", s.inputs[i]>>
      /\ B \in Seq(R) /\ Len(B) = b /\ \A i \in 1 .. b : B[i] = <<"Pass", s.passthroughs[i]>>
      /\ C \in Seq(R) /\ Len(C) = c /\ \A i \in 1 .. c : C[i] = <<"Set", s.outputs[i]>>
  <2>1. A \in [1 .. a -> R] /\ B \in [1 .. b -> R] /\ C \in [1 .. c -> R]
    BY <1>4
  <2>2. /\ \A i \in 1 .. a : A[i] = <<"Get", s.inputs[i]>>
        /\ \A i \in 1 .. b : B[i] = <<"Pass", s.passthroughs[i]>>
        /\ \A i \in 1 .. c : C[i] = <<"Set", s.outputs[i]>>
    BY <1>4
  <2> HIDE DEF A, B, C, R
  <2> QED  BY <1>3, <2>1, <2>2
<1> HIDE DEF A, B, C, R
<1>7. /\ A \o B \in Seq(R) /\ Len(A \o B) = a + b
      /\ \A i \in 1 .. a + b : (A \o B)[i] = IF i <= a THEN A[i] ELSE B[i - a]
  BY <1>3, <1>6, ConcatProperties
<1>8. \A i \in 1 .. a + b + c : Roles(n)[i] = IF i <= a + b THEN (A \o B)[i] ELSE C[i - (a + b)]
  <2>1. A \o B \o C = (A \o B) \o C
    OBVIOUS
  <2> QED  BY <1>3, <1>5, <1>6, <1>7, <2>1, ConcatProperties
<1>9. j \in 1 .. a + b + c
  BY <1>1
<1>10. CASE j <= a
  <2>1. j \in 1 .. a /\ j \in 1 .. a + b /\ j <= a + b
    BY <1>3, <1>9, <1>10
  <2>2. Roles(n)[j] = <<"Get", s.inputs[j]>>
    BY <1>6, <1>7, <1>8, <1>9, <1>10, <2>1
  <2> QED  BY <1>4, <2>1, <2>2 DEF s, a
<1>11. CASE j > a /\ j <= a + b
  <2>1. j - a \in 1 .. b /\ j \in 1 .. a + b /\ ~ (j <= a)
    BY <1>3, <1>9, <1>11
  <2>2. Roles(n)[j] = <<"Pass", s.passthroughs[j - a]>>
    BY <1>6, <1>7, <1>8, <1>9, <1>11, <2>1
  <2> QED  BY <1>4, <1>11, <2>1, <2>2 DEF s, a, b
<1>12. CASE j > a + b
  <2>1. j - (a + b) \in 1 .. c /\ ~ (j <= a + b) /\ j > a
    BY <1>3, <1>9, <1>12
  <2>2. Roles(n)[j] = <<"Set", s.outputs[j - (a + b)]>>
    BY <1>6, <1>8, <1>9, <2>1
  <2> QED  BY <1>4, <2>1, <2>2 DEF s, a, c
<1> QED  BY <1>3, <1>9, <1>10, <1>11, <1>12

\* The values of type v that a node of type n needs from its j-th operand on.
Needs(n, v, j) ==
    Cardinality({i \in DOMAIN get_node(n).inputs : i > j /\ get_node(n).inputs[i] = v})
      + (IF \E i \in DOMAIN get_node(n).passthroughs : get_node(n).passthroughs[i] = v THEN 1 ELSE 0)

\* Before its first operand, that is what required_values counts.
LEMMA NeedsFirst ==
    ASSUME setup \in Setups, NEW n \in NodeTypes, NEW v
    PROVE  Needs(n, v, 0) = required_values(n, v)
<1> DEFINE s == get_node(n)
           I == {i \in DOMAIN s.inputs : s.inputs[i] = v}
           P == {i \in DOMAIN s.passthroughs : s.passthroughs[i] = v}
<1>1. s.inputs \in Seq(ValueTypeIDs) /\ s.passthroughs \in Seq(ValueTypeIDs)
  BY NodeFacts DEF NodeSpecs
<1>2. {i \in DOMAIN s.inputs : i > 0 /\ s.inputs[i] = v} = I
  <2> HIDE DEF s
  <2> QED  BY <1>1
<1>3. IsFiniteSet(P)
  <2>1. DOMAIN s.passthroughs = 1 .. Len(s.passthroughs) /\ Len(s.passthroughs) \in Nat
    BY <1>1
  <2>2. IsFiniteSet(1 .. Len(s.passthroughs))
    BY <2>1, FS_Interval
  <2> HIDE DEF s
  <2> QED  BY <2>1, <2>2, FS_Subset
<1>4. Cardinality(P) > 0 <=> P # {}
  <2>1. Cardinality(P) \in Nat
    BY <1>3, FS_CardinalityType
  <2>2. Cardinality(P) = 0 <=> P = {}
    BY <1>3, FS_EmptySet
  <2> HIDE DEF P
  <2> QED  BY <2>1, <2>2
<1> QED  BY <1>2, <1>4 DEF Needs, required_values, Occurrences

\* A taken input is needed no more.
LEMMA NeedsNext ==
    ASSUME setup \in Setups, NEW n \in NodeTypes, NEW j \in 1 .. size(n)
    PROVE  LET r == Roles(n)[j]
           IN  /\ \A v : Needs(n, v, j) \in Nat /\ Needs(n, v, j - 1) \in Nat
               /\ \A v : Needs(n, v, j - 1) = Needs(n, v, j) + (IF r = <<"Get", v>> THEN 1 ELSE 0)
               /\ r[1] \in {"Get", "Pass"} => Needs(n, r[2], j - 1) >= 1
<1> DEFINE s == get_node(n)
           r == Roles(n)[j]
           X(v, k) == {i \in DOMAIN s.inputs : i > k /\ s.inputs[i] = v}
           E(v) == IF \E i \in DOMAIN s.passthroughs : s.passthroughs[i] = v THEN 1 ELSE 0
<1>1. s.inputs \in Seq(ValueTypeIDs) /\ s.passthroughs \in Seq(ValueTypeIDs) /\ size(n) \in Nat
  BY NodeFacts DEF NodeSpecs
<1>2. \A v, k : Needs(n, v, k) = Cardinality(X(v, k)) + E(v) /\ E(v) \in {0, 1}
  BY DEF Needs
<1>d. /\ DOMAIN s.inputs = 1 .. Len(s.inputs) /\ Len(s.inputs) \in Nat
      /\ DOMAIN s.passthroughs = 1 .. Len(s.passthroughs) /\ j \in Nat \ {0}
  BY <1>1
<1>3. \A v, k : IsFiniteSet(X(v, k)) /\ Cardinality(X(v, k)) \in Nat
  <2>1. IsFiniteSet(1 .. Len(s.inputs))
    BY <1>d, FS_Interval
  <2>2. ASSUME NEW v, NEW k
        PROVE  IsFiniteSet(X(v, k)) /\ Cardinality(X(v, k)) \in Nat
    <3>1. X(v, k) \subseteq 1 .. Len(s.inputs)
      BY <1>d
    <3> HIDE DEF X
    <3>2. IsFiniteSet(X(v, k))
      BY <2>1, <3>1, FS_Subset
    <3> QED  BY <3>2, FS_CardinalityType
  <2> QED  BY <2>2
<1>4. /\ \/ j \in 1 .. Len(s.inputs) /\ r = <<"Get", s.inputs[j]>>
         \/ j > Len(s.inputs) /\ \E k \in 1 .. Len(s.passthroughs) : r = <<"Pass", s.passthroughs[k]>>
         \/ j > Len(s.inputs) /\ \E k \in 1 .. Len(s.outputs) : r = <<"Set", s.outputs[k]>>
  BY RoleFacts
<1> HIDE DEF s, r
<1>5. ASSUME NEW v
      PROVE  /\ Needs(n, v, j) \in Nat /\ Needs(n, v, j - 1) \in Nat
             /\ Needs(n, v, j - 1) = Needs(n, v, j) + (IF r = <<"Get", v>> THEN 1 ELSE 0)
  <2>1. CASE r = <<"Get", v>>
    <3>1. j \in 1 .. Len(s.inputs) /\ s.inputs[j] = v
      BY <1>4, <2>1
    <3>2. X(v, j - 1) = X(v, j) \cup {j} /\ j \notin X(v, j)
      BY <1>d, <3>1
    <3> HIDE DEF X
    <3>3. Cardinality(X(v, j - 1)) = Cardinality(X(v, j)) + 1
      BY <1>3, <3>2, FS_AddElement
    <3> HIDE DEF E
    <3> QED  BY <1>2, <1>3, <2>1, <3>3
  <2>2. CASE r # <<"Get", v>>
    <3>1. j \in DOMAIN s.inputs => s.inputs[j] # v
      BY <1>d, <1>4, <2>2
    <3>2. X(v, j - 1) = X(v, j)
      BY <1>d, <3>1
    <3> HIDE DEF X, E
    <3> QED  BY <1>2, <1>3, <2>2, <3>2
  <2> QED  BY <2>1, <2>2
<1>6. ASSUME r[1] \in {"Get", "Pass"}
      PROVE  Needs(n, r[2], j - 1) >= 1
  <2>1. CASE j \in 1 .. Len(s.inputs) /\ r = <<"Get", s.inputs[j]>>
    <3>1. r = <<"Get", r[2]>>
      BY <2>1
    <3> QED  BY <1>5, <3>1
  <2>2. CASE \E k \in 1 .. Len(s.passthroughs) : r = <<"Pass", s.passthroughs[k]>>
    <3>1. E(r[2]) = 1
      BY <1>d, <2>2
    <3> HIDE DEF X, E
    <3> QED  BY <1>2, <1>3, <3>1
  <2>3. ~ \E k \in 1 .. Len(s.outputs) : r = <<"Set", s.outputs[k]>>
    BY <1>6
  <2> QED  BY <1>4, <2>1, <2>2, <2>3
<1> QED  BY <1>5, <1>6 DEF r

-----------------------------------------------------------------------------
(***************************************************************************)
(* The state of the builder, and all the operands of a node.               *)
(***************************************************************************)

\* GraphState: every type met so far has its ValueState.
ValuesOK(st) == DOMAIN st \subseteq ValueTypeIDs /\ \A v \in DOMAIN st : IsValue(st[v])

\* No renaming outlives its value.
Renames(st) == \A v \in DOMAIN st : RenamesAvailable(st[v])

\* The available ids are those that graph g offers and does not take, and new
\* ids are unused.
Exact(g, st) ==
    \A v \in ValueTypeIDs : /\ get_random_input(get_state(st, v)) = Untaken(g, v)
                            /\ InUse(g, v, get_state(st, v).cur)

\* There are values for the operands of a node of type n behind the j-th.
Enough(st, n, j) == \A v \in ValueTypeIDs : Len(get_state(st, v).ids) >= Needs(n, v, j)

\* The ValueState of a type that was not met yet is a new one.
LEMMA StateOf ==
    ASSUME NEW st, ValuesOK(st), NEW v
    PROVE  IsValue(get_state(st, v)) /\ (Renames(st) => RenamesAvailable(get_state(st, v)))
BY NewValue DEF ValuesOK, Renames, get_state

\* The state with other values of one type.
LEMMA StateWith ==
    ASSUME NEW st, ValuesOK(st), NEW v \in ValueTypeIDs, NEW t, IsValue(t)
    PROVE  LET x == InsertKey(st, v, t)
           IN  /\ ValuesOK(x) /\ DOMAIN st \subseteq DOMAIN x
               /\ get_state(x, v) = t
               /\ \A w : w # v => get_state(x, w) = get_state(st, w)
               /\ Renames(st) /\ RenamesAvailable(t) => Renames(x)
<1> DEFINE x == InsertKey(st, v, t)
<1>1. DOMAIN x = DOMAIN st \cup {v} /\ x[v] = t /\ \A w \in DOMAIN st : w # v => x[w] = st[w]
  BY DEF InsertKey
<1> HIDE DEF x
<1>2. ValuesOK(x) /\ DOMAIN st \subseteq DOMAIN x
  BY <1>1 DEF ValuesOK
<1>3. get_state(x, v) = t /\ \A w : w # v => get_state(x, w) = get_state(st, w)
  BY <1>1 DEF get_state
<1>4. Renames(st) /\ RenamesAvailable(t) => Renames(x)
  BY <1>1 DEF Renames
<1> QED  BY <1>2, <1>3, <1>4 DEF x

\* What linking the first j operands of a node of type n has come to, for a
\* node that is appended to graph g.
Outcome(o, st, g, d, n, j) ==
    /\ o.ok \in BOOLEAN
    /\ o.ok => /\ o.ops \in Seq(Nat) /\ Len(o.ops) = j + 1 /\ o.ops[1] = n
               /\ ValuesOK(o.st) /\ DOMAIN st \subseteq DOMAIN o.st
               /\ Exact(g, st) => Exact(Plus(g, o.ops, d), o.st)
               /\ Renames(st) => Renames(o.st)
               /\ Renames(st) /\ Exact(g, st) /\ WellLinked(g) => WellLinked(Plus(g, o.ops, d))
    /\ Renames(st) /\ is_available(st, n) => o.ok /\ Enough(o.st, n, j)

\* What a node needs is a number, and none of the values it does not name.
LEMMA NeedsType ==
    ASSUME setup \in Setups, NEW n \in NodeTypes, NEW v
    PROVE  Needs(n, v, 0) \in Nat /\ (v \notin ValueTypes(n) => Needs(n, v, 0) = 0)
<1> DEFINE s == get_node(n)
           I == {i \in DOMAIN s.inputs : i > 0 /\ s.inputs[i] = v}
           E == IF \E i \in DOMAIN s.passthroughs : s.passthroughs[i] = v THEN 1 ELSE 0
<1>1. /\ s.inputs \in Seq(ValueTypeIDs) /\ s.passthroughs \in Seq(ValueTypeIDs)
      /\ s.outputs \in Seq(ValueTypeIDs)
  BY NodeFacts DEF NodeSpecs
<1>2. Needs(n, v, 0) = Cardinality(I) + E /\ E \in {0, 1}
  BY DEF Needs
<1>3. Cardinality(I) \in Nat
  <2>1. DOMAIN s.inputs = 1 .. Len(s.inputs) /\ Len(s.inputs) \in Nat
    BY <1>1
  <2>2. IsFiniteSet(1 .. Len(s.inputs))
    BY <2>1, FS_Interval
  <2>3. I \subseteq 1 .. Len(s.inputs)
    BY <2>1
  <2> HIDE DEF I
  <2> QED  BY <2>2, <2>3, FS_Subset, FS_CardinalityType
<1>4. ASSUME v \notin ValueTypes(n)
      PROVE  I = {} /\ E = 0
  <2> HIDE DEF s
  <2>1. ToSet(s.inputs \o s.passthroughs \o s.outputs) = ValueTypes(n)
    BY DEF ValueTypes, s
  <2> DEFINE a == s.inputs
             b == s.passthroughs
             c == s.outputs
  <2>a. a \in Seq(ValueTypeIDs) /\ b \in Seq(ValueTypeIDs) /\ c \in Seq(ValueTypeIDs)
    BY <1>1
  <2> HIDE DEF a, b, c
  <2>2. \A i \in DOMAIN a : a[i] \in ToSet(a \o b \o c)
    <3> TAKE i \in DOMAIN a
    <3>1. i \in DOMAIN (a \o b \o c) /\ (a \o b \o c)[i] = a[i]
      BY <2>a
    <3> QED  BY <3>1 DEF ToSet
  <2>3. \A i \in DOMAIN b : b[i] \in ToSet(a \o b \o c)
    <3> TAKE i \in DOMAIN b
    <3>1. i + Len(a) \in DOMAIN (a \o b \o c) /\ (a \o b \o c)[i + Len(a)] = b[i]
      BY <2>a
    <3> QED  BY <3>1 DEF ToSet
  <2> QED  BY <1>4, <2>1, <2>2, <2>3 DEF a, b, c
<1>5. Cardinality({}) = 0
  BY FS_EmptySet
<1> HIDE DEF I, E
<1>6. v \notin ValueTypes(n) => Needs(n, v, 0) = 0
  BY <1>2, <1>4, <1>5
<1> QED  BY <1>2, <1>3, <1>6

\* is_available looks at the types the node names; of the others it needs none.
LEMMA AvailableEnough ==
    ASSUME setup \in Setups, NEW n \in NodeTypes, NEW st, ValuesOK(st), is_available(st, n)
    PROVE  Enough(st, n, 0)
<1> SUFFICES ASSUME NEW v \in ValueTypeIDs
             PROVE  Len(get_state(st, v).ids) >= Needs(n, v, 0)
  BY DEF Enough
<1>1. Needs(n, v, 0) = required_values(n, v)
  BY NeedsFirst
<1>2. Len(get_state(st, v).ids) \in Nat
  BY StateOf, SampledIds
<1>3. CASE v \in ValueTypes(n)
  <2>1. CASE required_values(n, v) > 0
    BY <1>1, <1>3, <2>1 DEF is_available, num_available, get_state
  <2>2. CASE ~ (required_values(n, v) > 0)
    <3>1. required_values(n, v) \in Nat
      BY <1>1, NeedsType
    <3> QED  BY <1>1, <1>2, <2>2, <3>1
  <2> QED  BY <2>1, <2>2
<1>4. CASE v \notin ValueTypes(n)
  <2>1. Needs(n, v, 0) = 0
    BY <1>4, NeedsType
  <2> QED  BY <1>2, <2>1
<1> QED  BY <1>3, <1>4

\* One operand more: what it does to the graph.
LEMMA ExactStep ==
    ASSUME NEW g \in Seq(Nodes), NEW d \in Nat, NEW ops \in Seq(Nat), ops # <<>>,
           NEW st, ValuesOK(st), NEW t, NEW id,
           NEW role \in {"Get", "Pass", "Set"}, NEW v \in ValueTypeIDs,
           Roles(ops[1])[Len(ops)] = <<role, v>>,
           ValueStep(get_state(st, v), t, role, id),
           Exact(Plus(g, ops, d), st)
    PROVE  /\ Exact(Plus(g, Append(ops, id), d), InsertKey(st, v, t))
           /\ WellLinked(Plus(g, ops, d)) /\ RenamesAvailable(get_state(st, v))
                => WellLinked(Plus(g, Append(ops, id), d))
<1> DEFINE h == Plus(g, ops, d)
           k == Plus(g, Append(ops, id), d)
           q == <<Len(g) + 1, Len(ops) + 1>>
           x == InsertKey(st, v, t)
           s == get_state(st, v)
<1>1. IsValue(t) /\ id \in Nat
  BY DEF ValueStep
<1>2. OneMore(h, k, q) /\ RoleAt(k, q) = role /\ TypeAt(k, q) = v /\ ValueAt(k, q)[2] = id
  BY <1>1, PlusOperand
<1>3. get_state(x, v) = t /\ \A w : w # v => get_state(x, w) = get_state(st, w)
  BY <1>1, StateWith
<1>4. /\ get_random_input(s) = Untaken(h, v) /\ InUse(h, v, s.cur)
      /\ get_random_input(s) \subseteq 1 .. s.cur /\ s.cur \in Nat
  BY StateOf, SampledIds DEF Exact
<1>5. Exact(h, st)
  OBVIOUS
<1> HIDE DEF h, k, q, x
<1>6. ASSUME NEW w \in ValueTypeIDs, w # v
      PROVE  get_random_input(get_state(x, w)) = Untaken(k, w) /\ InUse(k, w, get_state(x, w).cur)
  <2>1. InUse(h, w, get_state(st, w).cur) /\ get_random_input(get_state(st, w)) = Untaken(h, w)
    BY <1>5 DEF Exact
  <2>2. Untaken(k, w) = Untaken(h, w)
    BY <1>2, <1>6, <2>1, OneMoreUntaken
  <2>3. InUse(k, w, get_state(st, w).cur)
    BY <1>2, <1>6, <2>1, OneMoreInUse
  <2>4. get_state(x, w) = get_state(st, w)
    BY <1>3, <1>6
  <2> QED  BY <2>1, <2>2, <2>3, <2>4
<1>7. get_random_input(t) = Untaken(k, v) /\ InUse(k, v, t.cur)
  <2> HIDE DEF s
  <2>0. ValueStep(s, t, role, id)
    BY DEF s
  <2>1. CASE role = "Set"
    <3>1. id = s.cur + 1 /\ t.cur = id /\ get_random_input(t) = get_random_input(s) \cup {id}
      BY <2>0, <2>1 DEF ValueStep
    <3>2. id \notin 1 .. s.cur /\ id \in 1 .. t.cur /\ 1 .. s.cur \subseteq 1 .. t.cur
      <4>1. \A c \in Nat : /\ c + 1 \notin 1 .. c /\ c + 1 \in 1 .. c + 1
                           /\ 1 .. c \subseteq 1 .. c + 1
        OBVIOUS
      <4>2. t.cur = s.cur + 1
        BY <3>1
      <4> QED  BY <1>4, <3>1, <4>1, <4>2
    <3>3. Untaken(k, v) = Untaken(h, v) \cup {id}
      BY <1>2, <1>4, <2>1, <3>2, OneMoreUntaken
    <3>4. InUse(k, v, t.cur)
      BY <1>2, <1>4, <3>2, OneMoreInUse
    <3> QED  BY <1>4, <3>1, <3>3, <3>4
  <2>2. CASE role = "Get"
    <3>1. id \in get_random_input(s) /\ t.cur = s.cur /\ get_random_input(t) = get_random_input(s) \ {id}
      BY <2>0, <2>2 DEF ValueStep
    <3>2. id \in 1 .. s.cur
      BY <1>4, <3>1
    <3>3. Untaken(k, v) = Untaken(h, v) \ {id}
      BY <1>2, <1>4, <2>2, OneMoreUntaken
    <3>4. InUse(k, v, s.cur)
      BY <1>2, <1>4, <3>2, OneMoreInUse
    <3> QED  BY <1>4, <3>1, <3>3, <3>4
  <2>3. CASE role = "Pass"
    <3>1. t = s
      BY <2>0, <2>3 DEF ValueStep
    <3>3. Untaken(k, v) = Untaken(h, v)
      BY <1>2, <1>4, <2>3, OneMoreUntaken
    <3>4. InUse(k, v, s.cur)
      BY <1>2, <1>4, <2>3, OneMoreInUse
    <3> QED  BY <1>4, <3>1, <3>3, <3>4
  <2> QED  BY <2>1, <2>2, <2>3
<1>8. Exact(k, x)
  BY <1>3, <1>6, <1>7 DEF Exact
<1>9. ASSUME WellLinked(h), RenamesAvailable(s)
      PROVE  WellLinked(k)
  <2>1. role \in {"Get", "Pass"} => id \in Untaken(h, v)
    BY <1>4, <1>9 DEF ValueStep
  <2> QED  BY <1>2, <1>9, <2>1, OneMoreLinked
<1> QED  BY <1>8, <1>9 DEF h, k, x

\* One operand more, or a panic for want of a value that is_available would
\* have missed.
LEMMA LinkOne ==
    ASSUME setup \in Setups, NEW n \in NodeTypes, NEW g \in Seq(Nodes), NEW d \in Nat,
           NEW st, ValuesOK(st), NEW frag, NEW j \in 1 .. size(n),
           NEW o, Outcome(o, st, g, d, n, j - 1), NEW y \in LinkNext(o, n, frag, j)
    PROVE  Outcome(y, st, g, d, n, j)
<1> DEFINE role == Roles(n)[j][1]
           v == Roles(n)[j][2]
<1>0. size(n) \in Nat /\ j \in Nat /\ j >= 1 /\ n \in NodeTypes \cup {SnapshotNode}
  <2>1. n \in NodeTypes \cup {SnapshotNode}
    OBVIOUS
  <2>2. size(n) \in Nat
    BY <2>1, NodeFacts
  <2> HIDE DEF NodeTypes
  <2> QED  BY <2>1, <2>2
<1>1. role \in {"Get", "Pass", "Set"} /\ v \in ValueTypeIDs /\ Roles(n)[j] = <<role, v>>
  BY <1>0, RoleFacts
<1>2. CASE ~ o.ok
  <2>1. y = o
    BY <1>2 DEF LinkNext
  <2> QED  BY <1>2, <2>1 DEF Outcome
<1>3. CASE o.ok
  <2>1. PICK x \in op_val(o.st, n, frag, j) :
           y = [ok |-> x.ok, st |-> x.st, ops |-> Append(o.ops, x.id)]
    BY <1>3 DEF LinkNext
  <2>2. /\ o.ops \in Seq(Nat) /\ Len(o.ops) = j /\ o.ops[1] = n
        /\ ValuesOK(o.st) /\ DOMAIN st \subseteq DOMAIN o.st
    BY <1>0, <1>3 DEF Outcome
  <2>3. IsValue(get_state(o.st, v)) /\ (Renames(o.st) => RenamesAvailable(get_state(o.st, v)))
    BY <2>2, StateOf
  <2> HIDE DEF role, v
  <2>4. OpStep(x, o.st, v, role)
    <3>1. CASE frag = <<>>
      <4>1. x \in random_op_val(o.st, role, v)
        BY <2>1, <3>1 DEF op_val, role, v
      <4> QED  BY <1>1, <2>3, <4>1, RandomStep
    <3>2. CASE frag # <<>>
      <4>1. x \in rename_and_relink_op_val(o.st, role, v, frag[j + 1])
        BY <2>1, <3>2 DEF op_val, role, v
      <4> QED  BY <1>1, <2>3, <4>1, RenameStep
    <3> QED  BY <3>1, <3>2
  <2>5. /\ Needs(n, v, j - 1) \in Nat
        /\ role \in {"Get", "Pass"} => Needs(n, v, j - 1) >= 1
        /\ \A w : Needs(n, w, j) \in Nat
        /\ \A w : Needs(n, w, j - 1) = Needs(n, w, j) + (IF <<role, v>> = <<"Get", w>> THEN 1 ELSE 0)
    BY <1>1, NeedsNext DEF role, v
  <2>6. CASE x.ok = TRUE /\ \E t : /\ ValueStep(get_state(o.st, v), t, role, x.id)
                                   /\ x.st = InsertKey(o.st, v, t)
    <3>1. PICK t : ValueStep(get_state(o.st, v), t, role, x.id) /\ x.st = InsertKey(o.st, v, t)
      BY <2>6
    <3>2. IsValue(t) /\ x.id \in Nat
      BY <3>1 DEF ValueStep
    <3>3. /\ ValuesOK(x.st) /\ DOMAIN o.st \subseteq DOMAIN x.st
          /\ get_state(x.st, v) = t
          /\ \A w : w # v => get_state(x.st, w) = get_state(o.st, w)
          /\ Renames(o.st) /\ RenamesAvailable(t) => Renames(x.st)
      BY <1>1, <2>2, <3>1, <3>2, StateWith
    <3>4. y.ok = TRUE /\ y.st = x.st /\ y.ops = Append(o.ops, x.id)
      BY <2>1, <2>6
    <3>5. y.ops \in Seq(Nat) /\ Len(y.ops) = j + 1 /\ y.ops[1] = n
      BY <1>0, <2>2, <3>2, <3>4, AppendProperties
    <3>6. Renames(o.st) => Renames(y.st)
      BY <2>3, <3>1, <3>3, <3>4 DEF ValueStep
    <3>7. o.ops # <<>> /\ Roles(o.ops[1])[Len(o.ops)] = <<role, v>>
      BY <1>0, <1>1, <2>2
    <3>8. ASSUME Exact(Plus(g, o.ops, d), o.st)
          PROVE  /\ Exact(Plus(g, y.ops, d), y.st)
                 /\ WellLinked(Plus(g, o.ops, d)) /\ Renames(o.st) => WellLinked(Plus(g, y.ops, d))
      <4>1. /\ Exact(Plus(g, Append(o.ops, x.id), d), InsertKey(o.st, v, t))
            /\ WellLinked(Plus(g, o.ops, d)) /\ RenamesAvailable(get_state(o.st, v))
                 => WellLinked(Plus(g, Append(o.ops, x.id), d))
        BY <1>1, <2>2, <3>1, <3>2, <3>7, <3>8, ExactStep
      <4> QED  BY <2>3, <3>1, <3>4, <4>1
    <3>9. ASSUME Enough(o.st, n, j - 1)
          PROVE  Enough(y.st, n, j)
      <4> SUFFICES ASSUME NEW w \in ValueTypeIDs
                   PROVE  Len(get_state(x.st, w).ids) >= Needs(n, w, j)
        BY <3>4 DEF Enough
      <4>1. Len(get_state(o.st, w).ids) >= Needs(n, w, j - 1) /\ Len(get_state(o.st, w).ids) \in Nat
        BY <2>2, <3>9, StateOf, SampledIds DEF Enough
      <4>2. CASE w # v
        BY <2>5, <3>3, <4>1, <4>2
      <4>3. CASE w = v
        <5>1. /\ role = "Set" => Len(t.ids) = Len(get_state(o.st, v).ids) + 1
              /\ role = "Get" => Len(t.ids) = Len(get_state(o.st, v).ids) - 1
              /\ role = "Pass" => t = get_state(o.st, v)
          BY <3>1 DEF ValueStep
        <5>2. get_state(x.st, w) = t
          BY <3>3, <4>3
        <5>3. /\ role = "Get" => Needs(n, w, j - 1) = Needs(n, w, j) + 1
              /\ role # "Get" => Needs(n, w, j - 1) = Needs(n, w, j)
          BY <2>5, <4>3
        <5>4. Needs(n, w, j) \in Nat
          BY <2>5
        <5>5. CASE role = "Set"
          BY <4>1, <4>3, <5>1, <5>2, <5>3, <5>4, <5>5
        <5>6. CASE role = "Get"
          <6>1. /\ Len(get_state(x.st, w).ids) = Len(get_state(o.st, w).ids) - 1
                /\ Needs(n, w, j - 1) = Needs(n, w, j) + 1
            BY <4>3, <5>1, <5>2, <5>3, <5>6
          <6>2. \A a, b, c, e : a \in Nat /\ b \in Nat /\ c = b + 1 /\ a >= c /\ e = a - 1 => e >= b
            OBVIOUS
          <6> QED  BY <4>1, <5>4, <6>1, <6>2
        <5>7. CASE role = "Pass"
          BY <4>1, <4>3, <5>1, <5>2, <5>3, <5>4, <5>7
        <5> QED  BY <1>1, <5>5, <5>6, <5>7
      <4> QED  BY <4>2, <4>3
    <3>10. DOMAIN st \subseteq DOMAIN y.st
      BY <2>2, <3>3, <3>4
    <3> QED  BY <1>3, <3>3, <3>4, <3>5, <3>6, <3>8, <3>9, <3>10 DEF Outcome
  <2>7. CASE /\ x = Panic(o.st) /\ role \in {"Get", "Pass"}
             /\ RenamesAvailable(get_state(o.st, v)) => Len(get_state(o.st, v).ids) = 0
    <3>1. y.ok = FALSE
      BY <2>1, <2>7 DEF Panic
    <3>2. ASSUME Renames(st), is_available(st, n)
          PROVE  FALSE
      <4>1. Enough(o.st, n, j - 1) /\ Renames(o.st)
        BY <1>3, <3>2 DEF Outcome
      <4>2. Len(get_state(o.st, v).ids) >= Needs(n, v, j - 1)
        BY <1>1, <4>1 DEF Enough
      <4>3. Len(get_state(o.st, v).ids) = 0
        BY <2>3, <2>7, <4>1
      <4> QED  BY <2>5, <2>7, <4>2, <4>3
    <3> QED  BY <3>1, <3>2 DEF Outcome
  <2> QED  BY <2>4, <2>6, <2>7 DEF OpStep
<1> QED  BY <1>2, <1>3

\* A set of natural numbers has a least element: induction, by least
\* counterexample.
LEMMA Least ==
    ASSUME NEW T \in SUBSET Nat, T # {}
    PROVE  \E x \in T : \A y \in T : x <= y
<1> DEFINE R == OpToRel(<, Nat)
<1>1. IsWellFoundedOn(R, Nat)
  BY NatLessThanWellFounded
<1>2. \A x, y \in Nat : x < y => <<x, y>> \in R
  BY DEF OpToRel
<1> HIDE DEF R
<1>3. \E x \in T : \A y \in T : ~ (<<y, x>> \in R)
  BY <1>1, WFMin
<1>4. PICK x \in T : \A y \in T : ~ (<<y, x>> \in R)
  BY <1>3
<1>5. \A y \in T : ~ (y < x)
  BY <1>2, <1>4
<1>6. \A y \in T : x <= y
  <2>1. \A y \in T : y \in Nat /\ x \in Nat
    OBVIOUS
  <2>2. \A a, b \in Nat : ~ (a < b) => b <= a
    OBVIOUS
  <2> QED BY <1>5, <2>1, <2>2
<1> QED BY <1>6

\* f is the function that LinkAll recurs on, for the first m operands.
LinksTo(f, st, n, frag, m) ==
    f = [j \in 0 .. m |-> IF j = 0 THEN {[ok |-> TRUE, st |-> st, ops |-> <<n>>]}
                          ELSE UNION {LinkNext(o, n, frag, j) : o \in f[j - 1]}]

\* LinkAll returns the last value of that function.
LEMMA LinkDef ==
    ASSUME NEW st, NEW n, NEW frag
    PROVE  LinkAll(st, n, frag) = (CHOOSE f : LinksTo(f, st, n, frag, size(n)))[size(n)]
BY Zenon DEF LinkAll, LinksTo

\* There is such a function.
LEMMA LinkExists ==
    ASSUME NEW st, NEW n, NEW frag, NEW m \in Nat
    PROVE  \E f : LinksTo(f, st, n, frag, m)
<1> DEFINE T == {k \in Nat : ~ \E f : LinksTo(f, st, n, frag, k)}
           first == {[ok |-> TRUE, st |-> st, ops |-> <<n>>]}
<1> SUFFICES ASSUME T # {}
             PROVE  FALSE
  OBVIOUS
<1>1. T \in SUBSET Nat
  OBVIOUS
<1>2. PICK k \in T : \A y \in T : k <= y
  BY <1>1, Least
<1>3. k \in Nat /\ ~ \E f : LinksTo(f, st, n, frag, k)
  BY <1>2
<1>d. \A f, i : LinksTo(f, st, n, frag, i) <=>
        f = [j \in 0 .. i |-> IF j = 0 THEN first ELSE UNION {LinkNext(o, n, frag, j) : o \in f[j - 1]}]
  BY DEF LinksTo
<1> HIDE DEF first
<1>4. CASE k = 0
  <2> DEFINE f == [j \in 0 .. k |-> first]
  <2>1. \A j \in 0 .. k : j = 0
    BY <1>4
  <2>2. f = [j \in 0 .. k |-> IF j = 0 THEN first
                              ELSE UNION {LinkNext(o, n, frag, j) : o \in f[j - 1]}]
    BY <2>1
  <2>3. LinksTo(f, st, n, frag, k)
    <3> HIDE DEF f
    <3> QED  BY <1>d, <2>2
  <2> QED  BY <1>3, <2>3
<1>5. CASE k > 0
  <2>1. k - 1 \in Nat /\ k - 1 \notin T
    BY <1>2, <1>3, <1>5
  <2>2. PICK f : LinksTo(f, st, n, frag, k - 1)
    BY <2>1
  <2> DEFINE g == [j \in 0 .. k |-> IF j = 0 THEN first
                                    ELSE UNION {LinkNext(o, n, frag, j) : o \in f[j - 1]}]
  <2>3. \A j \in 0 .. k - 1 : g[j] = f[j]
    <3>1. \A j \in 0 .. k - 1 : f[j] = IF j = 0 THEN first
                                       ELSE UNION {LinkNext(o, n, frag, j) : o \in f[j - 1]}
      <4>1. f = [j \in 0 .. k - 1 |-> IF j = 0 THEN first
                                      ELSE UNION {LinkNext(o, n, frag, j) : o \in f[j - 1]}]
        BY <2>2 DEF LinksTo, first
      <4> QED  BY <4>1
    <3>2. \A j \in 0 .. k - 1 : j \in 0 .. k
      BY <1>3
    <3> QED  BY <3>1, <3>2
  <2>4. \A j \in 0 .. k : j # 0 => g[j - 1] = f[j - 1]
    <3>1. \A j \in 0 .. k : j # 0 => j - 1 \in 0 .. k - 1
      BY <1>3
    <3> HIDE DEF g
    <3> QED BY <3>1, <2>3
  <2>5. g = [j \in 0 .. k |-> IF j = 0 THEN first
                              ELSE UNION {LinkNext(o, n, frag, j) : o \in g[j - 1]}]
    BY <2>4
  <2>6. LinksTo(g, st, n, frag, k)
    <3> HIDE DEF g
    <3> QED  BY <1>d, <2>5
  <2> QED  BY <1>3, <2>6
<1> QED  BY <1>3, <1>4, <1>5

\* Before its first operand a node leaves everything as it is.
LEMMA LinkFirst ==
    ASSUME setup \in Setups, NEW n \in NodeTypes, NEW g \in Seq(Nodes), NEW d \in Nat,
           NEW st, ValuesOK(st)
    PROVE  Outcome([ok |-> TRUE, st |-> st, ops |-> <<n>>], st, g, d, n, 0)
<1>1. n \in Nat
  BY NodeFacts
<1>2. SameOperands(g, Plus(g, <<n>>, d))
  BY <1>1, PlusType
<1>3. /\ WellLinked(g) => WellLinked(Plus(g, <<n>>, d))
      /\ Exact(g, st) => Exact(Plus(g, <<n>>, d), st)
  BY <1>2, SameGraph DEF Exact
<1>4. is_available(st, n) => Enough(st, n, 0)
  BY AvailableEnough
<1>5. <<n>> \in Seq(Nat) /\ Len(<<n>>) = 1 /\ <<n>>[1] = n
  BY <1>1
<1> QED  BY <1>3, <1>4, <1>5 DEF Outcome

\* All the operands of a node.
LEMMA LinkOutcome ==
    ASSUME setup \in Setups, NEW n \in NodeTypes, NEW g \in Seq(Nodes), NEW d \in Nat,
           NEW st, ValuesOK(st), NEW frag, NEW y \in LinkAll(st, n, frag)
    PROVE  /\ Outcome(y, st, g, d, n, size(n))
           /\ size(n) = 0 => y = [ok |-> TRUE, st |-> st, ops |-> <<n>>]
<1> DEFINE m == size(n)
           f == CHOOSE h : LinksTo(h, st, n, frag, m)
           T == {k \in 0 .. m : ~ \A o \in f[k] : Outcome(o, st, g, d, n, k)}
           first == {[ok |-> TRUE, st |-> st, ops |-> <<n>>]}
<1>1. m \in Nat
  BY NodeFacts
<1>2. y \in f[m]
  BY LinkDef
<1>3. LinksTo(f, st, n, frag, m)
  <2>1. \E h : LinksTo(h, st, n, frag, m)
    <3> HIDE DEF m
    <3> QED  BY <1>1, LinkExists
  <2> QED  BY <2>1
<1> HIDE DEF f, m
<1>4. /\ \A k \in 0 .. m : f[k] = IF k = 0 THEN first
                                  ELSE UNION {LinkNext(o, n, frag, k) : o \in f[k - 1]}
  <2> HIDE DEF first
  <2>1. f = [k \in 0 .. m |-> IF k = 0 THEN first ELSE UNION {LinkNext(o, n, frag, k) : o \in f[k - 1]}]
    BY <1>3 DEF LinksTo, first
  <2> QED  BY <2>1
<1>5. T = {}
  <2> SUFFICES ASSUME T # {}
               PROVE  FALSE
    OBVIOUS
  <2>1. T \in SUBSET Nat
    BY <1>1
  <2>2. PICK k \in T : \A z \in T : k <= z
    BY <2>1, Least
  <2>3. k \in 0 .. m /\ ~ \A o \in f[k] : Outcome(o, st, g, d, n, k)
    BY <2>2
  <2>4. CASE k = 0
    <3>1. f[k] = {[ok |-> TRUE, st |-> st, ops |-> <<n>>]}
      BY <1>4, <2>3, <2>4
    <3> QED  BY <2>3, <2>4, <3>1, LinkFirst
  <2>5. CASE k # 0
    <3>1. k - 1 \in 0 .. m /\ k \in 1 .. m /\ k - 1 \notin T
      BY <1>1, <2>2, <2>3, <2>5
    <3>2. \A o \in f[k - 1] : Outcome(o, st, g, d, n, k - 1)
      BY <3>1
    <3>3. f[k] = UNION {LinkNext(o, n, frag, k) : o \in f[k - 1]}
      BY <1>4, <2>3, <2>5
    <3>4. ASSUME NEW z \in f[k]
          PROVE  Outcome(z, st, g, d, n, k)
      <4>1. PICK o \in f[k - 1] : z \in LinkNext(o, n, frag, k)
        BY <3>3, <3>4
      <4>2. Outcome(o, st, g, d, n, k - 1)
        BY <3>2, <4>1
      <4> QED  BY <3>1, <4>1, <4>2, LinkOne DEF m
    <3> QED  BY <2>3, <3>4
  <2> QED  BY <2>4, <2>5
<1>6. m \in 0 .. m
  BY <1>1
<1>7. Outcome(y, st, g, d, n, m)
  BY <1>2, <1>5, <1>6
<1>8. m = 0 => y = [ok |-> TRUE, st |-> st, ops |-> <<n>>]
  BY <1>2, <1>4, <1>6
<1> QED  BY <1>7, <1>8 DEF m

-----------------------------------------------------------------------------
(***************************************************************************)
(* The inductive invariant. Its parts take the variables as parameters     *)
(* (but for the setup, which never changes).                               *)
(***************************************************************************)

\* Nodes of these types with some of their ops, at least the first.
PartNodes(types) ==
    {nd \in Nodes : /\ nd.ops[1] \in types
                    /\ Len(nd.ops) \in 1 .. 1 + size(nd.ops[1])
                    /\ nd.data \in get_node(nd.ops[1]).data}

\* Nodes with all their ops.
WholeNodes == {nd \in PartNodes(NodeTypes) : Len(nd.ops) = 1 + size(nd.ops[1])}

\* Work that can be laid out with a snapshot: an assertion only fails when it lies
\* behind what the guest executed.
WorksOf(s) == {w \in [kind : {"copy", "pick", "generate", "fail"}, checked : BOOLEAN,
                      node : Nodes, n : Nat] :
                 /\ w.kind \in {"copy", "pick"} => w.node \in WholeNodes
                 /\ w.kind = "fail" => Overrun(s)}

Works == WorksOf(snap)

\* The ops in front of every node of a graph, and behind the last.
OpsLayouts(g) == {f \in [0 .. Len(g) -> Nat] :
    f[0] = 0 /\ \A k \in 1 .. Len(g) : f[k] = f[k - 1] + Len(g[k].ops)}

\* The same of the data; every node was appended with room left.
DataLayouts(g) == {f \in [0 .. Len(g) -> Nat] :
    /\ f[0] = 0 /\ \A k \in 1 .. Len(g) : f[k] = f[k - 1] + g[k].data
    /\ \A k \in 0 .. Len(g) - 1 : f[k] < setup.max_data}

\* A graph lies in so many ops and at most so much data.
Laid(g, ops, data) ==
    /\ \E f \in OpsLayouts(g) : f[Len(g)] = ops
    /\ \E f \in DataLayouts(g) : f[Len(g)] <= data

\* The graphs of the queue.
Entries == {e \in [nodes : Seq(WholeNodes), ops_used : Nat] :
               /\ e.ops_used <= Len(e.nodes)
               /\ \E ops \in 0 .. setup.max_ops : Laid(e.nodes, ops, setup.max_data)}

\* The payload.
StorageOK(g) ==
    /\ g \in [nodes : Seq(Nodes), ops_i : Nat, data_i : Nat]
    /\ g.nodes \in Seq(PartNodes(NodeTypes \cup {SnapshotNode}))
    /\ g.ops_i <= setup.max_ops /\ g.data_i <= setup.max_data

\* The payload without the node that creates the snapshot.
GraphOK(g) == g.nodes \in Seq(PartNodes(NodeTypes)) /\ Laid(g.nodes, g.ops_i, g.data_i)

\* No node has an operand.
Plain == \A n \in NodeTypes : size(n) = 0

\* The builder's state and the graph it implies.
StateOK(st, g) ==
    /\ ValuesOK(st)
    /\ Plain => DOMAIN st = {}
    /\ Supported => Renames(st) /\ WellLinked(g.nodes)
    /\ g.ops_i < setup.max_ops => Exact(g.nodes, st)

\* No node of the graph is cut short.
RoomOK(nodes, ops, data) ==
    \A u \in Nat \ {0} : RoomFor(u) => u * ops <= data /\ nodes \in Seq(WholeNodes)

\* The prefix that a snapshot keeps in the payload.
Kept(s, g) == SubSeq(g.nodes, 1, s.prefix)

\* The prefix is still there, and its state belongs to it.
Behind(s, g, st) ==
    /\ s.prefix \in 0 .. Len(g.nodes) /\ s.skip_ops \in 0 .. g.ops_i /\ s.skip_data \in 0 .. g.data_i
    /\ Kept(s, g) \in Seq(PartNodes(NodeTypes))
    /\ Laid(Kept(s, g), s.skip_ops, s.skip_data)
    /\ RoomOK(Kept(s, g), s.skip_ops, s.skip_data)
    /\ ValuesOK(s.state) /\ DOMAIN s.state \subseteq DOMAIN st
    /\ s.skip_ops < setup.max_ops => Exact(Kept(s, g), s.state)
    /\ Supported => s.prefix = s.skip_nodes /\ Kept(s, g) = SubSeq(s.entry.nodes, 1, s.skip_nodes)

\* A snapshot that is being prepared, or that was created.
SnapOK(s) ==
    s # NoSnapshot =>
      /\ s = [entry |-> s.entry, skip_nodes |-> s.skip_nodes, skip_ops |-> s.skip_ops,
              skip_data |-> s.skip_data, prefix |-> s.prefix, state |-> s.state]
      /\ setup.placement # "none"
      /\ s.entry \in Entries
      /\ s.skip_nodes \in 0 .. Len(s.entry.nodes) - 1
      /\ setup.placement = "balanced" => ~ Overrun(s)

\* The prefix is copied from the nodes e of the entry, node by node: what is
\* there after k of them is not longer than in the entry, ...
PrefixFits(e, g, k) ==
    \E f \in OpsLayouts(e) : f[Len(e)] <= setup.max_ops /\ g.ops_i <= f[k]

\* ... and the same if all of them could be copied.
PrefixSame(e, g, k) ==
    /\ g.nodes = SubSeq(e, 1, k)
    /\ \E f \in DataLayouts(e) : g.data_i = f[k]

\* What is still to be copied: the nodes behind the k-th.
PrefixLeft(e, td, k) ==
    \A i \in 1 .. Len(td) : td[i] = Work("copy", FALSE, e[k + i], 0)

\* A prefix that is being copied.
PrefixOK(s, g, td) ==
    /\ s # NoSnapshot
    /\ Len(td) <= s.skip_nodes
    /\ PrefixLeft(s.entry.nodes, td, s.skip_nodes - Len(td))
    /\ PrefixFits(s.entry.nodes, g, s.skip_nodes - Len(td))
    /\ Supported => PrefixSame(s.entry.nodes, g, s.skip_nodes - Len(td))

\* The panics that are left.
Known(g, s) == (~ Roomy /\ ~ Iterable(g.nodes)) \/ Overrun(s)

\* The invariant.
Inv ==
    /\ setup \in Setups
    /\ phase \in {"idle", "build", "prefix", "panicked"}
    /\ StorageOK(storage)
    /\ StateOK(state, storage)
    /\ queue \in SUBSET Entries
    /\ todo \in Seq(Works) /\ (phase = "idle" => todo = <<>>)
    /\ SnapOK(snap)
    /\ phase \in {"build", "prefix"} =>
         GraphOK(storage) /\ RoomOK(storage.nodes, storage.ops_i, storage.data_i)
    /\ phase \in {"idle", "build"} /\ snap # NoSnapshot => Behind(snap, storage, state)
    /\ phase = "prefix" => PrefixOK(snap, storage, todo)
    /\ phase = "panicked" /\ Supported /\ Sourced => Known(storage, snap)

\* What only depends on the setup does not change with the other variables:
\* what nodes are,
LEMMA SameTypes ==
    ASSUME setup' = setup
    PROVE  /\ NodeTypes' = NodeTypes /\ Supported' = Supported
           /\ \A n : get_node(n)' = get_node(n) /\ size(n)' = size(n) /\ Roles(n)' = Roles(n)
           /\ Plain' = Plain /\ Roomy' = Roomy /\ Sourced' = Sourced
           /\ \A u : RoomFor(u)' = RoomFor(u)
<1>1. NodeTypes' = NodeTypes
  BY DEF NodeTypes
<1>2. \A n : get_node(n)' = get_node(n)
  BY DEF get_node
<1>3. \A n : size(n)' = size(n)
  BY <1>2 DEF size
<1>4. \A n : Roles(n)' = Roles(n)
  BY <1>2 DEF Roles
<1>5. Supported' = Supported /\ Plain' = Plain
  BY <1>1, <1>3 DEF Supported, Plain
<1>6. \A u : RoomFor(u)' = RoomFor(u)
  BY <1>1, <1>2, <1>3 DEF RoomFor
<1>7. Roomy' = Roomy /\ Sourced' = Sourced
  BY <1>1, <1>2, <1>6 DEF Roomy, Sourced
<1> QED  BY <1>1, <1>2, <1>3, <1>4, <1>5, <1>6, <1>7

\* what links a graph has,
LEMMA SameLinks ==
    ASSUME setup' = setup
    PROVE  /\ \A g : WellLinked(g)' = WellLinked(g)
           /\ \A g, st : Exact(g, st)' = Exact(g, st)
<1>1. \A g, p : RoleAt(g, p)' = RoleAt(g, p) /\ TypeAt(g, p)' = TypeAt(g, p)
  BY SameTypes DEF RoleAt, TypeAt
<1>2. \A g, p : ValueAt(g, p)' = ValueAt(g, p)
  BY <1>1 DEF ValueAt
<1>3. \A g, r : With(g, r)' = With(g, r)
  <2>1. \A g : Operands(g)' = Operands(g)
    BY DEF Operands
  <2> QED  BY <1>1, <2>1 DEF With
<1>4. \A g : WellLinked(g)' = WellLinked(g)
  BY <1>2, <1>3 DEF WellLinked, Live
<1>5. \A g, v : Untaken(g, v)' = Untaken(g, v)
  BY <1>1, <1>2, <1>3 DEF Untaken
<1>6. \A g, v, c : InUse(g, v, c)' = InUse(g, v, c)
  BY <1>1, <1>2, <1>3 DEF InUse
<1>7. \A g, st : Exact(g, st)' = Exact(g, st)
  BY <1>5, <1>6 DEF Exact
<1> QED  BY <1>4, <1>7

\* and the parts of the invariant.
LEMMA SameParts ==
    ASSUME setup' = setup
    PROVE  /\ \A t : PartNodes(t)' = PartNodes(t)
           /\ WholeNodes' = WholeNodes /\ Entries' = Entries
           /\ \A s : WorksOf(s)' = WorksOf(s)
           /\ \A g : StorageOK(g)' = StorageOK(g) /\ GraphOK(g)' = GraphOK(g)
           /\ \A st, g : StateOK(st, g)' = StateOK(st, g)
           /\ \A g, o, d : RoomOK(g, o, d)' = RoomOK(g, o, d)
           /\ \A s, g, st : Behind(s, g, st)' = Behind(s, g, st)
           /\ \A s : SnapOK(s)' = SnapOK(s)
           /\ \A s, g, td : PrefixOK(s, g, td)' = PrefixOK(s, g, td)
           /\ \A g, s : Known(g, s)' = Known(g, s)
<1>1. \A t : PartNodes(t)' = PartNodes(t)
  BY SameTypes DEF PartNodes
<1>2. WholeNodes' = WholeNodes
  BY <1>1, SameTypes DEF WholeNodes
<1>3. \A s : WorksOf(s)' = WorksOf(s)
  BY <1>2 DEF WorksOf, Overrun
<1>4. \A g : DataLayouts(g)' = DataLayouts(g)
  BY DEF DataLayouts
<1>5. \A g, o, d : Laid(g, o, d)' = Laid(g, o, d)
  BY <1>4 DEF Laid
<1>6. Entries' = Entries
  BY <1>2, <1>5 DEF Entries
<1>7. \A g : StorageOK(g)' = StorageOK(g) /\ GraphOK(g)' = GraphOK(g)
  BY <1>1, <1>5, SameTypes DEF StorageOK, GraphOK
<1>8. \A st, g : StateOK(st, g)' = StateOK(st, g)
  BY SameTypes, SameLinks DEF StateOK
<1>9. \A g, o, d : RoomOK(g, o, d)' = RoomOK(g, o, d)
  BY <1>2, SameTypes DEF RoomOK
<1>10. \A s, g, st : Behind(s, g, st)' = Behind(s, g, st)
  BY <1>1, <1>5, <1>9, SameTypes, SameLinks DEF Behind
<1>11. \A s : SnapOK(s)' = SnapOK(s)
  BY <1>6 DEF SnapOK, Overrun
<1>12. \A s, g, td : PrefixOK(s, g, td)' = PrefixOK(s, g, td)
  <2>1. \A e, g, k : PrefixFits(e, g, k)' = PrefixFits(e, g, k)
    BY DEF PrefixFits
  <2>2. \A e, g, k : PrefixSame(e, g, k)' = PrefixSame(e, g, k)
    BY <1>4 DEF PrefixSame
  <2>3. \A e, td, k : PrefixLeft(e, td, k)' = PrefixLeft(e, td, k)
    BY DEF PrefixLeft, Work
  <2> QED  BY <2>1, <2>2, <2>3, SameTypes DEF PrefixOK
<1>13. \A g, s : Known(g, s)' = Known(g, s)
  BY SameTypes DEF Known, Iterable, Overrun
<1> QED  BY <1>1, <1>2, <1>3, <1>6, <1>7, <1>8, <1>9, <1>10, <1>11, <1>12, <1>13

-----------------------------------------------------------------------------
(***************************************************************************)
(* Appending to the payload.                                               *)
(***************************************************************************)

\* The smaller of two numbers.
LEMMA MinTwo ==
    ASSUME NEW a \in Nat, NEW b \in Nat
    PROVE  Min({a, b}) = IF a <= b THEN a ELSE b
BY DEF Min

\* The first elements of a sequence.
LEMMA FirstOf ==
    ASSUME NEW S, NEW q \in Seq(S), NEW k \in 0 .. Len(q)
    PROVE  /\ SubSeq(q, 1, k) \in Seq(S) /\ Len(SubSeq(q, 1, k)) = k
           /\ \A i \in 1 .. k : SubSeq(q, 1, k)[i] = q[i]
<1>1. Len(q) \in Nat
  OBVIOUS
<1> QED  BY <1>1, SubSeqProperties

\* Sequences that begin alike.
LEMMA FirstSame ==
    ASSUME NEW S, NEW q \in Seq(S), NEW r \in Seq(S), NEW k \in 0 .. Len(q), k <= Len(r),
           \A i \in 1 .. k : q[i] = r[i]
    PROVE  SubSeq(q, 1, k) = SubSeq(r, 1, k)
<1>1. k \in 0 .. Len(r)
  OBVIOUS
<1>2. /\ SubSeq(q, 1, k) \in Seq(S) /\ Len(SubSeq(q, 1, k)) = k
      /\ \A i \in 1 .. k : SubSeq(q, 1, k)[i] = q[i]
  BY FirstOf
<1>3. /\ SubSeq(r, 1, k) \in Seq(S) /\ Len(SubSeq(r, 1, k)) = k
      /\ \A i \in 1 .. k : SubSeq(r, 1, k)[i] = r[i]
  BY <1>1, FirstOf
<1> DEFINE x == SubSeq(q, 1, k)
           y == SubSeq(r, 1, k)
<1>4. x \in Seq(S) /\ y \in Seq(S) /\ Len(x) = Len(y) /\ \A i \in 1 .. Len(x) : x[i] = y[i]
  BY <1>2, <1>3
<1> HIDE DEF x, y
<1>5. x = y
  BY <1>4, SeqEqual
<1> QED  BY <1>5 DEF x, y

\* All of a sequence.
LEMMA AllOf ==
    ASSUME NEW S, NEW q \in Seq(S)
    PROVE  SubSeq(q, 1, Len(q)) = q
<1>1. Len(q) \in 0 .. Len(q)
  OBVIOUS
<1> DEFINE x == SubSeq(q, 1, Len(q))
<1>2. x \in Seq(S) /\ Len(x) = Len(q) /\ \A i \in 1 .. Len(q) : x[i] = q[i]
  BY <1>1, FirstOf
<1> HIDE DEF x
<1>3. x = q
  BY <1>2, SeqEqual
<1> QED  BY <1>3 DEF x

\* What append does: a payload without ops only counts the data; otherwise the
\* node is there with the ops for which there was room.
Appends(a, g, ops, d) ==
    /\ a.data_i = g.data_i + d
    /\ \/ /\ g.ops_i = setup.max_ops
          /\ a = [nodes |-> g.nodes, ops_i |-> g.ops_i, data_i |-> g.data_i + d]
       \/ \E m \in 1 .. Len(ops) :
             /\ g.ops_i + m <= setup.max_ops
             /\ m = Len(ops) \/ g.ops_i + m = setup.max_ops
             /\ a = [nodes |-> Plus(g.nodes, SubSeq(ops, 1, m), d),
                     ops_i |-> g.ops_i + m, data_i |-> g.data_i + d]

\* append is what Appends says.
LEMMA AppendIs ==
    ASSUME setup \in Setups, NEW g \in [nodes : Seq(Nodes), ops_i : Nat, data_i : Nat],
           g.ops_i <= setup.max_ops, NEW ops \in Seq(Nat), Len(ops) >= 1, NEW d \in Nat
    PROVE  Appends(append(g, ops, d), g, ops, d)
<1> DEFINE c == setup.max_ops - g.ops_i
           m == Min({Len(ops), c})
           fits == SubSeq(ops, 1, m)
           a == append(g, ops, d)
<1>1. /\ setup.max_ops \in Nat /\ g.ops_i \in Nat /\ g.data_i \in Nat /\ Len(ops) \in Nat
      /\ c \in Nat
  BY SetupFacts
<1>2. m = IF Len(ops) <= c THEN Len(ops) ELSE c
  <2> HIDE DEF c
  <2> QED  BY <1>1, MinTwo
<1>3. a = [nodes |-> IF fits = <<>> THEN g.nodes ELSE Append(g.nodes, [ops |-> fits, data |-> d]),
           ops_i |-> g.ops_i + Len(fits), data_i |-> g.data_i + d]
  BY DEF append, ops_available
<1>4. m \in 0 .. Len(ops) /\ m <= c /\ (m = Len(ops) \/ m = c) /\ m \in Nat
  <2> HIDE DEF m, c
  <2> QED  BY <1>1, <1>2
<1> HIDE DEF m
<1>5. fits \in Seq(Nat) /\ Len(fits) = m
  BY <1>4, FirstOf
<1> HIDE DEF a, fits
<1>6. a.data_i = g.data_i + d
  BY <1>3
<1>7. CASE m = 0
  <2>1. fits = <<>> /\ g.ops_i + Len(fits) = g.ops_i
    BY <1>1, <1>5, <1>7, EmptySeq
  <2>2. c = 0
    BY <1>1, <1>4, <1>7
  <2>3. g.ops_i = setup.max_ops
    BY <1>1, <2>2
  <2>4. a = [nodes |-> g.nodes, ops_i |-> g.ops_i, data_i |-> g.data_i + d]
    BY <1>3, <2>1
  <2> QED  BY <1>6, <2>3, <2>4 DEF a, Appends
<1>8. CASE m # 0
  <2>1. fits # <<>> /\ m \in 1 .. Len(ops)
    BY <1>1, <1>4, <1>5, <1>8
  <2>2. g.ops_i + m <= setup.max_ops /\ (m = Len(ops) \/ g.ops_i + m = setup.max_ops)
    BY <1>1, <1>4
  <2>3. a = [nodes |-> Plus(g.nodes, fits, d), ops_i |-> g.ops_i + m, data_i |-> g.data_i + d]
    BY <1>3, <1>5, <2>1 DEF Plus
  <2> QED  BY <1>6, <2>1, <2>2, <2>3 DEF a, fits, Appends
<1> QED  BY <1>7, <1>8

\* The layout of a graph with one node more.
LEMMA LaidPlus ==
    ASSUME NEW g \in Seq(Nodes), NEW u \in Nat, NEW w \in Nat, Laid(g, u, w), w < setup.max_data,
           setup.max_data \in Nat, NEW ops \in Seq(Nat), NEW d \in Nat
    PROVE  Laid(Plus(g, ops, d), u + Len(ops), w + d)
<1> DEFINE h == Plus(g, ops, d)
           L == Len(g)
<1>1. /\ L \in Nat /\ Len(ops) \in Nat /\ Len(h) = L + 1
      /\ \A i \in 1 .. L : h[i] = g[i]
      /\ h[L + 1].ops = ops /\ h[L + 1].data = d
  <2>1. h[L + 1] = [ops |-> ops, data |-> d] /\ Len(h) = L + 1 /\ \A i \in 1 .. L : h[i] = g[i]
    BY PlusNodes
  <2> HIDE DEF h
  <2> QED  BY <2>1
<1>2. PICK f \in OpsLayouts(g) : f[L] = u
  BY DEF Laid
<1>3. PICK e \in DataLayouts(g) : e[L] <= w
  BY DEF Laid
<1>4. /\ f \in [0 .. L -> Nat] /\ f[0] = 0 /\ \A k \in 1 .. L : f[k] = f[k - 1] + Len(g[k].ops)
      /\ e \in [0 .. L -> Nat] /\ e[0] = 0 /\ \A k \in 1 .. L : e[k] = e[k - 1] + g[k].data
      /\ \A k \in 0 .. L - 1 : e[k] < setup.max_data
  BY DEF OpsLayouts, DataLayouts
<1> HIDE DEF h, L
<1> DEFINE F == [k \in 0 .. L + 1 |-> IF k = L + 1 THEN u + Len(ops) ELSE f[k]]
           E == [k \in 0 .. L + 1 |-> IF k = L + 1 THEN e[L] + d ELSE e[k]]
<1>5. /\ \A k \in 0 .. L : F[k] = f[k] /\ E[k] = e[k]
      /\ F[L + 1] = u + Len(ops) /\ E[L + 1] = e[L] + d
      /\ F \in [0 .. L + 1 -> Nat] /\ E \in [0 .. L + 1 -> Nat]
  <2>1. /\ L + 1 \in 0 .. L + 1 /\ \A k \in 0 .. L : k \in 0 .. L + 1 /\ k # L + 1
        /\ \A k \in 0 .. L + 1 : k # L + 1 => k \in 0 .. L
        /\ L \in 0 .. L
    BY <1>1
  <2>2. e[L] \in Nat /\ u + Len(ops) \in Nat /\ e[L] + d \in Nat
    BY <1>1, <1>4, <2>1
  <2> QED  BY <1>4, <2>1, <2>2
<1> HIDE DEF F, E
<1>6. F[0] = 0 /\ E[0] = 0
  BY <1>1, <1>4, <1>5
<1>7. ASSUME NEW k \in 1 .. L + 1
      PROVE  F[k] = F[k - 1] + Len(h[k].ops) /\ E[k] = E[k - 1] + h[k].data
  <2>1. CASE k = L + 1
    <3>1. k - 1 = L /\ L \in 0 .. L
      BY <1>1, <2>1
    <3> QED  BY <1>1, <1>2, <1>5, <2>1, <3>1
  <2>2. CASE k # L + 1
    <3>1. k \in 1 .. L /\ k \in 0 .. L /\ k - 1 \in 0 .. L
      BY <1>1, <2>2
    <3> QED  BY <1>1, <1>4, <1>5, <3>1
  <2> QED  BY <2>1, <2>2
<1>8. ASSUME NEW k \in 0 .. L
      PROVE  E[k] < setup.max_data
  <2>1. CASE k = L
    <3>1. e[L] \in Nat /\ L \in 0 .. L
      BY <1>1, <1>4
    <3>2. e[L] <= w
      BY <1>3 DEF L
    <3> QED  BY <1>5, <2>1, <3>1, <3>2
  <2>2. CASE k # L
    <3>1. k \in 0 .. L - 1
      BY <1>1, <2>2
    <3> QED  BY <1>4, <1>5, <3>1
  <2> QED  BY <2>1, <2>2
<1>9. L + 1 - 1 = L
  BY <1>1
<1>10. F \in OpsLayouts(h)
  BY <1>1, <1>5, <1>6, <1>7 DEF OpsLayouts
<1>11. E \in DataLayouts(h)
  BY <1>1, <1>5, <1>6, <1>7, <1>8, <1>9 DEF DataLayouts
<1>12. F[Len(h)] = u + Len(ops) /\ E[Len(h)] <= w + d
  <2>1. e[L] \in Nat
    BY <1>1, <1>4
  <2>2. e[L] <= w
    BY <1>3 DEF L
  <2> QED  BY <1>1, <1>5, <2>1, <2>2
<1> QED  BY <1>10, <1>11, <1>12 DEF Laid, h

\* The layout of a graph in a payload that counts more data than there is, and
\* of no graph.
LEMMA LaidMore ==
    ASSUME NEW g \in Seq(Nodes), NEW u, NEW w \in Nat, NEW x \in Nat, w <= x, Laid(g, u, w)
    PROVE  Laid(g, u, x)
<1>1. PICK e \in DataLayouts(g) : e[Len(g)] <= w
  BY DEF Laid
<1>2. e[Len(g)] \in Nat
  BY DEF DataLayouts
<1>3. e[Len(g)] <= x
  <2> DEFINE z == e[Len(g)]
  <2>1. z \in Nat /\ z <= w
    BY <1>1, <1>2
  <2> HIDE DEF z
  <2>2. z <= x
    BY <2>1
  <2> QED  BY <2>2 DEF z
<1> QED  BY <1>3 DEF Laid

\* The layout of no graph.
LEMMA LaidNone ==
    Laid(<<>>, 0, 0)
<1> DEFINE f == [k \in 0 .. 0 |-> 0]
           none == <<>>
<1>1. Len(none) = 0 /\ 1 .. 0 = {} /\ 0 .. 0 - 1 = {}
  OBVIOUS
<1>2. f \in [0 .. 0 -> Nat] /\ f[0] = 0
  OBVIOUS
<1> HIDE DEF f, none
<1>3. f \in OpsLayouts(none) /\ f \in DataLayouts(none)
  BY <1>1, <1>2 DEF OpsLayouts, DataLayouts
<1> QED  BY <1>1, <1>2, <1>3 DEF Laid, none

\* Sequences of part nodes and of whole nodes.
LEMMA NodeSeqs ==
    /\ PartNodes(NodeTypes) \subseteq PartNodes(NodeTypes \cup {SnapshotNode})
    /\ PartNodes(NodeTypes \cup {SnapshotNode}) \subseteq Nodes
    /\ PartNodes(NodeTypes) \subseteq Nodes
    /\ WholeNodes \subseteq PartNodes(NodeTypes) /\ WholeNodes \subseteq Nodes
    /\ \A q : /\ q \in Seq(PartNodes(NodeTypes)) =>
                   q \in Seq(PartNodes(NodeTypes \cup {SnapshotNode})) /\ q \in Seq(Nodes)
              /\ q \in Seq(WholeNodes) => q \in Seq(PartNodes(NodeTypes)) /\ q \in Seq(Nodes)
<1>1. /\ PartNodes(NodeTypes) \subseteq PartNodes(NodeTypes \cup {SnapshotNode})
      /\ PartNodes(NodeTypes \cup {SnapshotNode}) \subseteq Nodes
      /\ PartNodes(NodeTypes) \subseteq Nodes
      /\ WholeNodes \subseteq PartNodes(NodeTypes) /\ WholeNodes \subseteq Nodes
  BY DEF PartNodes, WholeNodes
<1>2. \A S, T : S \subseteq T => Seq(S) \subseteq Seq(T)
  OBVIOUS
<1> QED  BY <1>1, <1>2

\* A payload and a state that continue others.
Grown(g, a, st, x) ==
    /\ StorageOK(a) /\ GraphOK(a) /\ RoomOK(a.nodes, a.ops_i, a.data_i) /\ StateOK(x, a)
    /\ a.ops_i >= g.ops_i /\ a.data_i >= g.data_i
    /\ Len(a.nodes) >= Len(g.nodes) /\ \A i \in 1 .. Len(g.nodes) : a.nodes[i] = g.nodes[i]
    /\ DOMAIN st \subseteq DOMAIN x

\* A node of a type with its ops, or the first of them.
LEMMA CutNode ==
    ASSUME setup \in Setups, NEW n \in NodeTypes, NEW ops \in Seq(Nat), Len(ops) = 1 + size(n),
           ops[1] = n, NEW d \in get_node(n).data, NEW m \in 1 .. Len(ops)
    PROVE  LET nd == [ops |-> SubSeq(ops, 1, m), data |-> d]
           IN  /\ nd \in PartNodes(NodeTypes) /\ SubSeq(ops, 1, m) \in Seq(Nat)
               /\ Len(SubSeq(ops, 1, m)) = m /\ d \in Nat
               /\ m = Len(ops) => nd \in WholeNodes /\ SubSeq(ops, 1, m) = ops
<1> DEFINE cut == SubSeq(ops, 1, m)
           nd == [ops |-> cut, data |-> d]
<1>1. size(n) \in Nat /\ get_node(n) \in NodeSpecs /\ Len(ops) \in Nat /\ m \in Nat /\ m >= 1
  <2>1. size(n) \in Nat /\ get_node(n) \in NodeSpecs
    BY NodeFacts
  <2> QED  BY <2>1
<1>2. d \in Nat
  BY <1>1 DEF NodeSpecs
<1>3. cut \in Seq(Nat) /\ Len(cut) = m /\ \A i \in 1 .. m : cut[i] = ops[i]
  <2>1. m \in 0 .. Len(ops)
    BY <1>1
  <2> QED  BY <2>1, FirstOf
<1>4. cut[1] = n
  <2>1. 1 \in 1 .. m
    BY <1>1
  <2> QED  BY <1>3, <2>1
<1>5. m = Len(ops) => cut = ops
  BY AllOf
<1> HIDE DEF cut
<1>6. nd \in Nodes
  BY <1>2, <1>3 DEF Nodes
<1>7. nd.ops = cut /\ nd.data = d
  OBVIOUS
<1>8. m \in 1 .. 1 + size(n)
  OBVIOUS
<1> HIDE DEF nd
<1>9. nd \in PartNodes(NodeTypes)
  BY <1>3, <1>4, <1>6, <1>7, <1>8 DEF PartNodes
<1>10. m = Len(ops) => nd \in WholeNodes
  BY <1>3, <1>4, <1>7, <1>9 DEF WholeNodes
<1> QED  BY <1>2, <1>3, <1>5, <1>9, <1>10 DEF nd, cut

\* Room for the ops of a node that is appended with its data: if the payload ends
\* within it, there was no room.
LEMMA RoomLeft ==
    ASSUME NEW u \in Nat \ {0}, NEW i \in Nat, NEW m \in Nat, NEW N \in Nat, m <= N,
           NEW w \in Nat, NEW d \in Nat, NEW C \in Nat, NEW D \in Nat,
           u * i <= w, u * N <= d, w + d <= D, D <= u * C, m = N \/ i + m = C
    PROVE  m = N /\ u * (i + m) <= w + d
<1>1. u * (i + m) = u * i + u * m /\ u * i \in Nat /\ u * m \in Nat /\ u * N \in Nat
  OBVIOUS
<1>2. ASSUME m # N
      PROVE  FALSE
  <2>1. PICK k \in Nat : N = m + 1 + k
    <3>1. N - m - 1 \in Nat /\ N = m + 1 + (N - m - 1)
      BY <1>2
    <3> QED  BY <3>1
  <2>2. u * N = u * m + u + u * k /\ u * k \in Nat
    BY <2>1
  <2>3. u * C = u * i + u * m
    BY <1>1, <1>2
  <2> DEFINE x == u * i
             y == u * m
             z == u * k
             b == u * N
             c == u * C
  <2>4. /\ x \in Nat /\ y \in Nat /\ z \in Nat /\ b = y + u + z /\ c = x + y
        /\ x <= w /\ b <= d /\ w + d <= D /\ D <= c
    BY <1>1, <2>2, <2>3
  <2> HIDE DEF x, y, z, b, c
  <2> QED  BY <2>4
<1> DEFINE x == u * i
           y == u * N
<1>3. x \in Nat /\ y \in Nat /\ x <= w /\ y <= d /\ m = N /\ u * (i + m) = x + y
  BY <1>1, <1>2
<1> HIDE DEF x, y
<1> QED  BY <1>3

\* A node whose operands were linked is appended.
LEMMA AppendGrows ==
    ASSUME setup \in Setups, NEW g, NEW st, StorageOK(g), GraphOK(g), StateOK(st, g),
           RoomOK(g.nodes, g.ops_i, g.data_i),
           NEW n \in NodeTypes, NEW d \in get_node(n).data, NEW o, o.ok,
           Outcome(o, st, g.nodes, d, n, size(n)),
           size(n) = 0 => o.st = st,
           g.data_i < setup.max_data, g.data_i + d <= setup.max_data
    PROVE  Grown(g, append(g, o.ops, d), st, o.st)
<1> DEFINE a == append(g, o.ops, d)
           N == 1 + size(n)
<1>1. /\ o.ops \in Seq(Nat) /\ Len(o.ops) = N /\ o.ops[1] = n /\ size(n) \in Nat
      /\ ValuesOK(o.st) /\ DOMAIN st \subseteq DOMAIN o.st
      /\ Exact(g.nodes, st) => Exact(Plus(g.nodes, o.ops, d), o.st)
      /\ Renames(st) => Renames(o.st)
      /\ Renames(st) /\ Exact(g.nodes, st) /\ WellLinked(g.nodes)
           => WellLinked(Plus(g.nodes, o.ops, d))
  <2>1. size(n) \in Nat
    BY NodeFacts
  <2> QED  BY <2>1 DEF Outcome
<1>2. /\ setup.max_ops \in Nat /\ setup.max_data \in Nat /\ d \in Nat
      /\ g \in [nodes : Seq(Nodes), ops_i : Nat, data_i : Nat]
      /\ g.nodes \in Seq(PartNodes(NodeTypes)) /\ g.nodes \in Seq(Nodes)
      /\ g.ops_i \in Nat /\ g.data_i \in Nat /\ g.ops_i <= setup.max_ops
      /\ Laid(g.nodes, g.ops_i, g.data_i)
  <2>1. d \in Nat
    BY NodeFacts DEF NodeSpecs
  <2> QED  BY <2>1, SetupFacts, NodeSeqs DEF StorageOK, GraphOK
<1>3. /\ ValuesOK(st) /\ (Plain => DOMAIN st = {})
      /\ Supported => Renames(st) /\ WellLinked(g.nodes)
      /\ g.ops_i < setup.max_ops => Exact(g.nodes, st)
  BY DEF StateOK
<1>4. \A u \in Nat \ {0} : RoomFor(u) =>
        /\ u * N <= d /\ u * g.ops_i <= g.data_i /\ setup.max_data <= u * setup.max_ops
        /\ g.nodes \in Seq(WholeNodes)
  BY DEF RoomFor, RoomOK
<1>5. /\ a.data_i = g.data_i + d
      /\ \/ /\ g.ops_i = setup.max_ops
            /\ a = [nodes |-> g.nodes, ops_i |-> g.ops_i, data_i |-> g.data_i + d]
         \/ \E m \in 1 .. Len(o.ops) :
               /\ g.ops_i + m <= setup.max_ops
               /\ m = Len(o.ops) \/ g.ops_i + m = setup.max_ops
               /\ a = [nodes |-> Plus(g.nodes, SubSeq(o.ops, 1, m), d),
                       ops_i |-> g.ops_i + m, data_i |-> g.data_i + d]
  <2>1. Len(o.ops) >= 1
    BY <1>1
  <2>2. Appends(append(g, o.ops, d), g, o.ops, d)
    BY <1>1, <1>2, <2>1, AppendIs
  <2> QED  BY <2>2 DEF Appends
<1>6. (Plain => DOMAIN o.st = {}) /\ (Supported => Renames(o.st))
  BY <1>1, <1>3 DEF Plain
<1>7. g.data_i + d \in Nat /\ g.data_i <= g.data_i + d
  BY <1>2
<1> HIDE DEF a, N
<1>8. CASE /\ g.ops_i = setup.max_ops
           /\ a = [nodes |-> g.nodes, ops_i |-> g.ops_i, data_i |-> g.data_i + d]
  <2>1. a.nodes = g.nodes /\ a.ops_i = g.ops_i /\ a.data_i = g.data_i + d
    BY <1>8
  <2>2. a \in [nodes : Seq(Nodes), ops_i : Nat, data_i : Nat]
    BY <1>2, <1>7, <1>8
  <2>3. StorageOK(a)
    BY <1>2, <2>1, <2>2 DEF StorageOK
  <2>4. GraphOK(a)
    <3>1. Laid(g.nodes, g.ops_i, g.data_i + d)
      BY <1>2, <1>7, LaidMore
    <3> QED  BY <1>2, <2>1, <3>1 DEF GraphOK
  <2>5. \A u \in Nat \ {0} : ~ RoomFor(u)
    <3> SUFFICES ASSUME NEW u \in Nat \ {0}, RoomFor(u)
                 PROVE  FALSE
      OBVIOUS
    <3> DEFINE x == u * g.ops_i
    <3>1. x \in Nat /\ x <= g.data_i /\ setup.max_data <= x
      BY <1>2, <1>4, <1>8
    <3> HIDE DEF x
    <3> QED  BY <1>2, <3>1
  <2>6. StateOK(o.st, a)
    <3>1. ~ (a.ops_i < setup.max_ops)
      BY <1>2, <1>8, <2>1
    <3> QED  BY <1>1, <1>3, <1>6, <2>1, <3>1 DEF StateOK
  <2> QED  BY <1>1, <1>2, <1>7, <2>1, <2>3, <2>4, <2>5, <2>6 DEF Grown, RoomOK, a
<1>9. ASSUME NEW m \in 1 .. Len(o.ops), g.ops_i + m <= setup.max_ops,
             m = Len(o.ops) \/ g.ops_i + m = setup.max_ops,
             a = [nodes |-> Plus(g.nodes, SubSeq(o.ops, 1, m), d),
                  ops_i |-> g.ops_i + m, data_i |-> g.data_i + d]
      PROVE  Grown(g, a, st, o.st)
  <2> DEFINE cut == SubSeq(o.ops, 1, m)
             nd == [ops |-> cut, data |-> d]
             h == Plus(g.nodes, cut, d)
  <2>1. /\ nd \in PartNodes(NodeTypes) /\ cut \in Seq(Nat) /\ Len(cut) = m
        /\ m = Len(o.ops) => nd \in WholeNodes /\ cut = o.ops
    <3> DEFINE ops == o.ops
    <3>1. ops \in Seq(Nat) /\ Len(ops) = 1 + size(n) /\ ops[1] = n /\ m \in 1 .. Len(ops)
      BY <1>1 DEF N
    <3> HIDE DEF ops
    <3>2. LET x == [ops |-> SubSeq(ops, 1, m), data |-> d]
          IN  /\ x \in PartNodes(NodeTypes) /\ SubSeq(ops, 1, m) \in Seq(Nat)
              /\ Len(SubSeq(ops, 1, m)) = m /\ d \in Nat
              /\ m = Len(ops) => x \in WholeNodes /\ SubSeq(ops, 1, m) = ops
      BY <3>1, CutNode
    <3> QED  BY <3>2 DEF ops
  <2>2. m \in Nat /\ m >= 1
    BY <1>1 DEF N
  <2>3. a.nodes = h /\ a.ops_i = g.ops_i + m /\ a.data_i = g.data_i + d
    BY <1>9
  <2>4. h = Append(g.nodes, nd)
    BY DEF Plus
  <2> HIDE DEF nd, cut, h
  <2>5. /\ h \in Seq(Nodes) /\ Len(h) = Len(g.nodes) + 1 /\ Len(g.nodes) \in Nat
        /\ \A i \in 1 .. Len(g.nodes) : h[i] = g.nodes[i]
    <3>1. nd \in Nodes /\ g.nodes \in Seq(Nodes)
      BY <1>2, <2>1, NodeSeqs
    <3> QED  BY <2>4, <3>1, AppendProperties
  <2>6. h \in Seq(PartNodes(NodeTypes))
    BY <1>2, <2>1, <2>4, AppendProperties
  <2>7. g.nodes \in Seq(WholeNodes) /\ m = Len(o.ops) => h \in Seq(WholeNodes)
    BY <2>1, <2>4, AppendProperties
  <2>8. StorageOK(a)
    <3>1. a \in [nodes : Seq(Nodes), ops_i : Nat, data_i : Nat]
      <4>1. a = [nodes |-> h, ops_i |-> g.ops_i + m, data_i |-> g.data_i + d]
        BY <1>9 DEF h, cut
      <4>2. g.ops_i + m \in Nat
        BY <1>2, <2>2
      <4> QED  BY <1>7, <2>5, <4>1, <4>2
    <3> QED  BY <1>9, <2>3, <2>6, <3>1, NodeSeqs DEF StorageOK
  <2>9. GraphOK(a)
    <3>1. Laid(h, g.ops_i + Len(cut), g.data_i + d)
      BY <1>2, <2>1, LaidPlus DEF h
    <3> QED  BY <2>1, <2>3, <2>6, <3>1 DEF GraphOK
  <2>10. RoomOK(a.nodes, a.ops_i, a.data_i)
    <3> SUFFICES ASSUME NEW u \in Nat \ {0}, RoomFor(u)
                 PROVE  u * a.ops_i <= a.data_i /\ a.nodes \in Seq(WholeNodes)
      BY DEF RoomOK
    <3>1. /\ u * N <= d /\ u * g.ops_i <= g.data_i /\ setup.max_data <= u * setup.max_ops
          /\ g.nodes \in Seq(WholeNodes) /\ N \in Nat /\ m <= N
      BY <1>1, <1>4 DEF N
    <3>2. m = N /\ u * (g.ops_i + m) <= g.data_i + d
      <4> DEFINE i == g.ops_i
                 w == g.data_i
                 C == setup.max_ops
                 D == setup.max_data
      <4>1. /\ i \in Nat /\ w \in Nat /\ C \in Nat /\ D \in Nat /\ u * i <= w /\ w + d <= D
            /\ D <= u * C /\ (m = N \/ i + m = C)
        BY <1>1, <1>2, <1>9, <3>1
      <4> HIDE DEF i, w, C, D
      <4>2. m = N /\ u * (i + m) <= w + d
        BY <1>2, <2>2, <3>1, <4>1, RoomLeft
      <4> QED  BY <4>2 DEF i, w
    <3> QED  BY <1>1, <2>3, <2>7, <3>1, <3>2
  <2>11. g.ops_i < setup.max_ops
    BY <1>2, <1>9, <2>2
  <2>12. Supported => WellLinked(h)
    <3> SUFFICES ASSUME Supported
                 PROVE  WellLinked(h)
      OBVIOUS
    <3>1. WellLinked(Plus(g.nodes, o.ops, d))
      BY <1>1, <1>3, <2>11
    <3> QED  BY <1>1, <1>2, <3>1, CutLinked DEF h, cut
  <2>13. a.ops_i < setup.max_ops => Exact(h, o.st)
    <3> SUFFICES ASSUME a.ops_i < setup.max_ops
                 PROVE  Exact(h, o.st)
      OBVIOUS
    <3>1. g.ops_i + m < setup.max_ops
      BY <2>3
    <3>2. cut = o.ops
      BY <1>2, <1>9, <2>1, <2>2, <3>1
    <3> QED  BY <1>1, <1>3, <2>11, <3>2 DEF h
  <2>14. StateOK(o.st, a)
    BY <1>1, <1>6, <2>3, <2>12, <2>13 DEF StateOK
  <2>15. a.ops_i >= g.ops_i /\ a.data_i >= g.data_i /\ Len(a.nodes) >= Len(g.nodes)
    BY <1>2, <2>2, <2>3, <2>5
  <2> QED  BY <1>1, <2>3, <2>5, <2>8, <2>9, <2>10, <2>14, <2>15 DEF Grown
<1> QED  BY <1>5, <1>8, <1>9 DEF a

\* The prefix stays where it is.
LEMMA BehindGrown ==
    ASSUME NEW s, NEW g, NEW a, NEW st, NEW x, StorageOK(g), Behind(s, g, st), Grown(g, a, st, x)
    PROVE  Behind(s, a, x)
<1>1. /\ g.nodes \in Seq(Nodes) /\ a.nodes \in Seq(Nodes) /\ Len(g.nodes) \in Nat
      /\ g.ops_i \in Nat /\ a.ops_i \in Nat /\ g.data_i \in Nat /\ a.data_i \in Nat
      /\ Len(a.nodes) \in Nat
  <2>1. g.nodes \in Seq(Nodes) /\ a.nodes \in Seq(Nodes)
    BY DEF StorageOK, Grown
  <2> QED  BY <2>1, LenProperties DEF StorageOK, Grown
<1>2. s.prefix \in 0 .. Len(g.nodes) /\ s.skip_ops \in 0 .. g.ops_i /\ s.skip_data \in 0 .. g.data_i
  BY DEF Behind
<1>3. /\ Len(a.nodes) >= Len(g.nodes) /\ \A i \in 1 .. Len(g.nodes) : a.nodes[i] = g.nodes[i]
      /\ a.ops_i >= g.ops_i /\ a.data_i >= g.data_i
  BY DEF Grown
<1>4. s.prefix \in 0 .. Len(a.nodes) /\ s.skip_ops \in 0 .. a.ops_i /\ s.skip_data \in 0 .. a.data_i
  BY <1>1, <1>2, <1>3
<1>5. Kept(s, a) = Kept(s, g)
  <2> DEFINE p == s.prefix
             q == g.nodes
             r == a.nodes
  <2>1. p \in 0 .. Len(q) /\ p <= Len(r) /\ q \in Seq(Nodes) /\ r \in Seq(Nodes)
    BY <1>1, <1>2, <1>4
  <2>2. \A i \in 1 .. p : q[i] = r[i]
    BY <1>1, <1>2, <1>3
  <2> HIDE DEF p, q, r
  <2>3. SubSeq(q, 1, p) = SubSeq(r, 1, p)
    BY <2>1, <2>2, FirstSame
  <2> QED  BY <2>3 DEF Kept, p, q, r
<1>6. DOMAIN s.state \subseteq DOMAIN x
  BY DEF Behind, Grown
<1> QED  BY <1>4, <1>5, <1>6 DEF Behind

\* The invariant after a step, part by part.
LEMMA InvNext ==
    ASSUME Inv, setup' = setup, phase' \in {"idle", "build", "prefix", "panicked"},
           StorageOK(storage'), StateOK(state', storage'),
           queue' \in SUBSET Entries, todo' \in Seq(WorksOf(snap')), SnapOK(snap'),
           phase' = "idle" => todo' = <<>>,
           phase' \in {"build", "prefix"} =>
             GraphOK(storage') /\ RoomOK(storage'.nodes, storage'.ops_i, storage'.data_i),
           phase' \in {"idle", "build"} /\ snap' # NoSnapshot => Behind(snap', storage', state'),
           phase' = "prefix" => PrefixOK(snap', storage', todo'),
           phase' = "panicked" /\ Supported /\ Sourced => Known(storage', snap')
    PROVE  Inv'
<1>1. setup' \in Setups
  BY DEF Inv
<1>2. StorageOK(storage)' /\ StateOK(state, storage)' /\ SnapOK(snap)'
  BY SameParts
<1>3. (queue \in SUBSET Entries)' /\ (todo \in Seq(Works))'
  BY SameParts DEF Works
<1>4. (phase \in {"build", "prefix"} =>
         GraphOK(storage) /\ RoomOK(storage.nodes, storage.ops_i, storage.data_i))'
  BY SameParts
<1>5. (phase \in {"idle", "build"} /\ snap # NoSnapshot => Behind(snap, storage, state))'
  <2>1. NoSnapshot' = NoSnapshot
    BY DEF NoSnapshot, Empty
  <2> QED  BY <2>1, SameParts
<1>6. (phase = "prefix" => PrefixOK(snap, storage, todo))'
  BY SameParts
<1>7. (phase = "panicked" /\ Supported /\ Sourced => Known(storage, snap))'
  BY SameTypes, SameParts
<1> QED  BY <1>1, <1>2, <1>3, <1>4, <1>5, <1>6, <1>7 DEF Inv

\* The same for a step that leaves the snapshot alone.
LEMMA InvSame ==
    ASSUME Inv, setup' = setup, snap' = snap, phase' \in {"idle", "build", "prefix", "panicked"},
           StorageOK(storage'), StateOK(state', storage'),
           queue' \in SUBSET Entries, todo' \in Seq(Works),
           phase' = "idle" => todo' = <<>>,
           phase' \in {"build", "prefix"} =>
             GraphOK(storage') /\ RoomOK(storage'.nodes, storage'.ops_i, storage'.data_i),
           phase' \in {"idle", "build"} /\ snap # NoSnapshot => Behind(snap, storage', state'),
           phase' = "prefix" => PrefixOK(snap, storage', todo'),
           phase' = "panicked" /\ Supported /\ Sourced => Known(storage', snap)
    PROVE  Inv'
<1>1. SnapOK(snap') /\ todo' \in Seq(WorksOf(snap'))
  BY DEF Inv, Works
<1>2. /\ phase' \in {"idle", "build"} /\ snap' # NoSnapshot => Behind(snap', storage', state')
      /\ phase' = "prefix" => PrefixOK(snap', storage', todo')
      /\ phase' = "panicked" /\ Supported /\ Sourced => Known(storage', snap')
  OBVIOUS
<1> QED  BY <1>1, <1>2, InvNext

\* A panic leaves everything as it is.
LEMMA PanicStep ==
    ASSUME Inv, Panics, Supported /\ Sourced => Known(storage, snap)
    PROVE  Inv'
<1>1. /\ setup' = setup /\ state' = state /\ storage' = storage /\ queue' = queue
      /\ snap' = snap /\ todo' = todo /\ phase' = "panicked"
  BY DEF Panics
<1>2. /\ StorageOK(storage') /\ StateOK(state', storage')
      /\ queue' \in SUBSET Entries /\ todo' \in Seq(Works)
  BY <1>1 DEF Inv
<1>3. phase' = "panicked" /\ Supported /\ Sourced => Known(storage', snap)
  BY <1>1
<1> QED  BY <1>1, <1>2, <1>3, InvSame

\* A node is added, or nothing: the rest of the invariant.
LEMMA GrownStep ==
    ASSUME Inv, phase = "build", setup' = setup, queue' = queue, snap' = snap, phase' = phase,
           todo' \in Seq(Works), Grown(storage, storage', state, state')
    PROVE  Inv'
<1>1. /\ StorageOK(storage') /\ StateOK(state', storage')
      /\ GraphOK(storage') /\ RoomOK(storage'.nodes, storage'.ops_i, storage'.data_i)
  BY DEF Grown
<1>2. queue' \in SUBSET Entries /\ phase' = "build"
  BY DEF Inv
<1>3. snap # NoSnapshot => Behind(snap, storage', state')
  BY BehindGrown DEF Inv
<1> QED  BY <1>1, <1>2, <1>3, InvSame

\* The same for a step that adds nothing.
LEMMA GrownSame ==
    ASSUME Inv, phase = "build"
    PROVE  Grown(storage, storage, state, state)
<1>1. /\ StorageOK(storage) /\ StateOK(state, storage)
      /\ GraphOK(storage) /\ RoomOK(storage.nodes, storage.ops_i, storage.data_i)
  BY DEF Inv
<1>2. storage.nodes \in Seq(Nodes) /\ storage.ops_i \in Nat /\ storage.data_i \in Nat
  BY <1>1 DEF StorageOK
<1>3. Len(storage.nodes) \in Nat
  BY <1>2, LenProperties
<1> QED  BY <1>1, <1>2, <1>3 DEF Grown

-----------------------------------------------------------------------------
(***************************************************************************)
(* Starting a graph.                                                       *)
(***************************************************************************)

\* A graph without nodes, or without operands, is well linked and offers nothing.
LEMMA NoOperands ==
    ASSUME NEW g, Operands(g) = {}
    PROVE  WellLinked(g) /\ \A v, c : Untaken(g, v) = {} /\ InUse(g, v, c)
<1>1. \A role : With(g, role) = {}
  BY DEF With
<1> QED  BY <1>1 DEF WellLinked, Untaken, InUse

\* The nodes of a specification without values have one op.
LEMMA PlainNodes ==
    ASSUME setup \in Setups, Plain, NEW g \in Seq(PartNodes(NodeTypes \cup {SnapshotNode})),
           NEW i \in DOMAIN g
    PROVE  Len(g[i].ops) = 1 /\ size(g[i].ops[1]) = 0
<1>1. g[i] \in PartNodes(NodeTypes \cup {SnapshotNode})
  OBVIOUS
<1> DEFINE n == g[i].ops[1]
<1>2. n \in NodeTypes \cup {SnapshotNode} /\ Len(g[i].ops) \in 1 .. 1 + size(n)
  BY <1>1 DEF PartNodes
<1> HIDE DEF n
<1>3. size(n) = 0
  <2>1. CASE n \in NodeTypes
    BY <2>1 DEF Plain
  <2>2. CASE n = SnapshotNode
    <3>1. get_node(n) = [inputs |-> <<>>, passthroughs |-> <<>>, outputs |-> <<>>, data |-> {0}]
      BY <2>2 DEF get_node
    <3>2. size(n) = Len(<<>>) + Len(<<>>) + Len(<<>>)
      BY <3>1 DEF size
    <3> QED  BY <3>2
  <2> QED  BY <1>2, <2>1, <2>2
<1>4. \A k : k \in 1 .. 1 + 0 => k = 1
  OBVIOUS
<1> QED  BY <1>2, <1>3, <1>4 DEF n

\* A graph of a specification without values is well linked, and no node of it is
\* ever cut short.
LEMMA PlainLinked ==
    ASSUME setup \in Setups, Plain, NEW g \in Seq(PartNodes(NodeTypes \cup {SnapshotNode}))
    PROVE  WellLinked(g) /\ Iterable(g)
<1>1. ASSUME NEW i \in DOMAIN g
      PROVE  2 .. Len(g[i].ops) = {} /\ Len(g[i].ops) = 1 + size(g[i].ops[1])
  <2>1. Len(g[i].ops) = 1 /\ size(g[i].ops[1]) = 0
    BY PlainNodes
  <2>2. 2 .. 1 = {} /\ 1 = 1 + 0
    OBVIOUS
  <2> QED  BY <2>1, <2>2
<1>2. Operands(g) = {}
  BY <1>1, OperandIs
<1>3. Iterable(g)
  BY <1>1 DEF Iterable
<1> QED  BY <1>2, <1>3, NoOperands

\* GraphBuilder::start without a snapshot.
LEMMA StartEmpty ==
    ASSUME Inv, start(NoSnapshot)
    PROVE  /\ storage' = EmptyStorage
           /\ StorageOK(storage') /\ GraphOK(storage') /\ StateOK(state', storage')
           /\ RoomOK(storage'.nodes, storage'.ops_i, storage'.data_i)
<1> DEFINE none == <<>>
           g == EmptyStorage
<1>1. storage' = g /\ state' = GraphState_clear(state)
  <2>1. NoSnapshot.prefix = 0 /\ NoSnapshot.skip_ops = 0 /\ NoSnapshot.skip_data = 0
    BY DEF NoSnapshot
  <2>2. SubSeq(storage.nodes, 1, 0) = <<>>
    <3>1. storage.nodes \in Seq(Nodes)
      BY DEF Inv, StorageOK
    <3>2. Len(SubSeq(storage.nodes, 1, 0)) = 0 /\ SubSeq(storage.nodes, 1, 0) \in Seq(Nodes)
      <4> DEFINE q == storage.nodes
      <4>1. q \in Seq(Nodes) /\ 0 \in 0 .. Len(q)
        BY <3>1
      <4> HIDE DEF q
      <4>2. Len(SubSeq(q, 1, 0)) = 0 /\ SubSeq(q, 1, 0) \in Seq(Nodes)
        BY <4>1, FirstOf
      <4> QED  BY <4>2 DEF q
    <3> QED  BY <3>2, EmptySeq
  <2> QED  BY <2>1, <2>2 DEF start, truncate_to, EmptyStorage
<1>2. g.nodes = none /\ g.ops_i = 0 /\ g.data_i = 0 /\ g = [nodes |-> none, ops_i |-> 0, data_i |-> 0]
  BY DEF EmptyStorage
<1>3. /\ setup.max_ops \in Nat /\ setup.max_data \in Nat /\ setup \in Setups
      /\ ValuesOK(state) /\ (Plain => DOMAIN state = {})
  BY SetupFacts DEF Inv, StateOK
<1>4. \A S : none \in Seq(S)
  OBVIOUS
<1>5. Operands(none) = {}
  BY DEF Operands
<1>6. StorageOK(g)
  <2>1. g \in [nodes : Seq(Nodes), ops_i : Nat, data_i : Nat]
    BY <1>2, <1>4
  <2> QED  BY <1>2, <1>3, <1>4, <2>1 DEF StorageOK
<1>7. GraphOK(g) /\ RoomOK(g.nodes, g.ops_i, g.data_i)
  BY <1>2, <1>4, LaidNone DEF GraphOK, RoomOK
<1>8. StateOK(state', g)
  <2>1. DOMAIN state' = DOMAIN state /\ \A v \in DOMAIN state : state'[v] = clear(state[v])
    BY <1>1 DEF GraphState_clear
  <2>2. ValuesOK(state') /\ Renames(state')
    BY <1>3, <2>1, NewValue DEF ValuesOK, Renames
  <2>3. \A v : get_random_input(get_state(state', v)) = {}
    BY <2>1, NewValue DEF get_state
  <2>4. Exact(none, state') /\ WellLinked(none)
    BY <1>5, <2>3, NoOperands DEF Exact
  <2> HIDE DEF none, g
  <2> QED  BY <1>2, <1>3, <2>1, <2>2, <2>4 DEF StateOK
<1> QED  BY <1>1, <1>6, <1>7, <1>8

\* GraphBuilder::start behind a snapshot.
LEMMA StartBehind ==
    ASSUME Inv, snap # NoSnapshot, Behind(snap, storage, state),
           DOMAIN state \subseteq DOMAIN snap.state, start(snap)
    PROVE  /\ StorageOK(storage') /\ GraphOK(storage') /\ StateOK(state', storage')
           /\ RoomOK(storage'.nodes, storage'.ops_i, storage'.data_i)
           /\ Behind(snap, storage', state')
<1> DEFINE h == Kept(snap, storage)
           g == [nodes |-> h, ops_i |-> snap.skip_ops, data_i |-> snap.skip_data]
<1>1. storage' = g /\ state' = GraphState_reset_to(state, snap.state)
  BY DEF start, truncate_to, Kept
<1>2. /\ snap.prefix \in 0 .. Len(storage.nodes) /\ snap.skip_ops \in 0 .. storage.ops_i
      /\ snap.skip_data \in 0 .. storage.data_i
      /\ h \in Seq(PartNodes(NodeTypes))
      /\ Laid(h, snap.skip_ops, snap.skip_data)
      /\ RoomOK(h, snap.skip_ops, snap.skip_data)
      /\ ValuesOK(snap.state) /\ DOMAIN snap.state \subseteq DOMAIN state
      /\ snap.skip_ops < setup.max_ops => Exact(h, snap.state)
      /\ Supported => snap.prefix = snap.skip_nodes /\ h = SubSeq(snap.entry.nodes, 1, snap.skip_nodes)
  BY DEF Behind
<1>3. /\ setup.max_ops \in Nat /\ setup.max_data \in Nat /\ setup \in Setups
      /\ ValuesOK(state) /\ (Plain => DOMAIN state = {}) /\ setup.placement # "none"
      /\ storage.nodes \in Seq(Nodes) /\ storage.ops_i \in Nat /\ storage.data_i \in Nat
      /\ storage.ops_i <= setup.max_ops /\ storage.data_i <= setup.max_data
  BY SetupFacts DEF Inv, StateOK, StorageOK, SnapOK
<1>4. h \in Seq(PartNodes(NodeTypes \cup {SnapshotNode})) /\ h \in Seq(Nodes)
  BY <1>2, NodeSeqs
<1>5. Len(h) = snap.prefix /\ SubSeq(h, 1, snap.prefix) = h /\ snap.prefix \in Nat
  <2> DEFINE q == storage.nodes
             p == snap.prefix
  <2>1. q \in Seq(Nodes) /\ p \in 0 .. Len(q)
    BY <1>2, <1>3
  <2> HIDE DEF p, q
  <2>2. Len(SubSeq(q, 1, p)) = p
    BY <2>1, FirstOf
  <2>3. h = SubSeq(q, 1, p)
    BY DEF Kept, p, q
  <2> HIDE DEF h
  <2>4. SubSeq(h, 1, Len(h)) = h
    BY <1>4, AllOf
  <2>5. Len(h) = p
    BY <2>2, <2>3
  <2>6. p \in Nat
    BY <2>1
  <2> QED  BY <2>4, <2>5, <2>6 DEF p
<1> HIDE DEF h
<1>6. g.nodes = h /\ g.ops_i = snap.skip_ops /\ g.data_i = snap.skip_data
  OBVIOUS
<1>7. /\ snap.skip_ops \in Nat /\ snap.skip_data \in Nat
      /\ snap.skip_ops <= setup.max_ops /\ snap.skip_data <= setup.max_data
  BY <1>2, <1>3
<1>8. g \in [nodes : Seq(Nodes), ops_i : Nat, data_i : Nat]
  BY <1>4, <1>7
<1> HIDE DEF g
<1>9. StorageOK(g) /\ GraphOK(g) /\ RoomOK(g.nodes, g.ops_i, g.data_i)
  BY <1>2, <1>4, <1>6, <1>7, <1>8 DEF StorageOK, GraphOK
<1>10. /\ DOMAIN state' = DOMAIN state /\ DOMAIN state = DOMAIN snap.state
       /\ \A v \in DOMAIN state : state'[v] = reset_to(state[v], snap.state[v])
  BY <1>1, <1>2 DEF GraphState_reset_to
<1>11. \A v \in DOMAIN state : /\ IsValue(state'[v]) /\ state'[v].cur = snap.state[v].cur
                               /\ get_random_input(state'[v]) = get_random_input(snap.state[v])
  BY <1>2, <1>10, ResetValue DEF ValuesOK
<1>12. ValuesOK(state')
  BY <1>3, <1>10, <1>11 DEF ValuesOK
<1>13. Supported => Plain
  BY <1>3 DEF Supported, Plain
<1>14. Supported => Renames(state') /\ WellLinked(g.nodes)
  BY <1>3, <1>4, <1>6, <1>10, <1>13, PlainLinked DEF Renames
<1>15. g.ops_i < setup.max_ops => Exact(g.nodes, state')
  <2> SUFFICES ASSUME snap.skip_ops < setup.max_ops, NEW v \in ValueTypeIDs
               PROVE  /\ get_random_input(get_state(state', v)) = Untaken(h, v)
                      /\ InUse(h, v, get_state(state', v).cur)
    BY <1>6 DEF Exact
  <2>1. /\ get_random_input(get_state(snap.state, v)) = Untaken(h, v)
        /\ InUse(h, v, get_state(snap.state, v).cur)
    BY <1>2 DEF Exact
  <2>2. /\ get_random_input(get_state(state', v)) = get_random_input(get_state(snap.state, v))
        /\ get_state(state', v).cur = get_state(snap.state, v).cur
    BY <1>10, <1>11 DEF get_state
  <2> QED  BY <2>1, <2>2
<1>16. StateOK(state', g)
  BY <1>3, <1>10, <1>12, <1>14, <1>15 DEF StateOK
<1>17. Behind(snap, g, state')
  <2>1. Kept(snap, g) = h
    BY <1>5, <1>6 DEF Kept
  <2>2. /\ snap.prefix \in 0 .. Len(g.nodes) /\ snap.skip_ops \in 0 .. g.ops_i
        /\ snap.skip_data \in 0 .. g.data_i
    BY <1>5, <1>6, <1>7
  <2> QED  BY <1>2, <1>10, <2>1, <2>2 DEF Behind
<1> QED  BY <1>1, <1>9, <1>16, <1>17

\* What every operation that builds a graph begins with.
LEMMA BeginStep ==
    ASSUME Inv, NEW work \in Seq(Works), Begin(work)
    PROVE  Inv'
<1>1. phase = "idle" /\ SnapOK(snap) /\ queue \in SUBSET Entries
  BY DEF Begin, Inv
<1>2. snap # NoSnapshot => Behind(snap, storage, state) /\ setup.placement # "none"
  BY <1>1 DEF Inv, SnapOK
<1>3. CASE CanStart(snap)
  <2>1. /\ start(snap) /\ todo' = work /\ phase' = "build"
        /\ setup' = setup /\ queue' = queue /\ snap' = snap
    BY <1>3 DEF Begin
  <2>2. /\ StorageOK(storage') /\ GraphOK(storage') /\ StateOK(state', storage')
        /\ RoomOK(storage'.nodes, storage'.ops_i, storage'.data_i)
        /\ snap # NoSnapshot => Behind(snap, storage', state')
    <3>1. CASE snap = NoSnapshot
      BY <2>1, <3>1, StartEmpty
    <3>2. CASE snap # NoSnapshot
      <4>1. DOMAIN state \subseteq DOMAIN snap.state
        BY <1>3, <3>2 DEF CanStart
      <4> QED  BY <1>2, <2>1, <3>2, <4>1, StartBehind
    <3> QED  BY <3>1, <3>2
  <2>3. queue' \in SUBSET Entries /\ todo' \in Seq(Works)
    BY <1>1, <2>1
  <2> QED  BY <2>1, <2>2, <2>3, InvSame
<1>4. CASE ~ CanStart(snap)
  <2>1. Panics
    BY <1>4 DEF Begin
  <2>2. storage.ops_i \in Nat /\ storage.data_i \in Nat /\ (Plain => DOMAIN state = {})
    BY DEF Inv, StorageOK, StateOK
  <2>3. ~ Supported
    <3>1. SUFFICES ASSUME Supported
                   PROVE  CanStart(snap)
      BY <1>4
    <3>2. CASE snap = NoSnapshot
      <4>1. NoSnapshot.skip_ops = 0 /\ NoSnapshot.skip_data = 0
        BY DEF NoSnapshot
      <4> QED  BY <2>2, <3>2, <4>1 DEF CanStart
    <3>3. CASE snap # NoSnapshot
      <4>1. DOMAIN state = {}
        BY <1>2, <2>2, <3>1, <3>3 DEF Supported, Plain
      <4>2. snap.skip_ops \in 0 .. storage.ops_i /\ snap.skip_data \in 0 .. storage.data_i
        BY <1>2, <3>3 DEF Behind
      <4> QED  BY <2>2, <4>1, <4>2 DEF CanStart
    <3> QED  BY <3>2, <3>3
  <2> QED  BY <2>1, <2>3, PanicStep
<1> QED  BY <1>3, <1>4

-----------------------------------------------------------------------------
(***************************************************************************)
(* The work of the mutations copies whole nodes.                           *)
(***************************************************************************)

\* Copies of nodes.
LEMMA EachWorksOf ==
    ASSUME NEW kind \in {"copy", "pick"}, NEW checked \in BOOLEAN, NEW q \in Seq(WholeNodes), NEW s
    PROVE  /\ Each(kind, checked, q) \in Seq(WorksOf(s)) /\ Len(Each(kind, checked, q)) = Len(q)
           /\ \A i \in 1 .. Len(q) : Each(kind, checked, q)[i] = Work(kind, checked, q[i], 0)
<1>1. ASSUME NEW nd \in WholeNodes
      PROVE  Work(kind, checked, nd, 0) \in WorksOf(s)
  BY NodeSeqs DEF Work, WorksOf
<1>2. DOMAIN q = 1 .. Len(q) /\ Len(q) \in Nat /\ \A i \in 1 .. Len(q) : q[i] \in WholeNodes
  OBVIOUS
<1> DEFINE x == [i \in DOMAIN q |-> Work(kind, checked, q[i], 0)]
<1>3. x \in [1 .. Len(q) -> WorksOf(s)]
  BY <1>1, <1>2
<1>4. \A i \in 1 .. Len(q) : x[i] = Work(kind, checked, q[i], 0)
  BY <1>2
<1> HIDE DEF x
<1>5. x \in Seq(WorksOf(s)) /\ Len(x) = Len(q)
  BY <1>2, <1>3
<1> QED  BY <1>4, <1>5 DEF Each, x

\* The same with the snapshot there is.
LEMMA EachWorks ==
    ASSUME NEW kind \in {"copy", "pick"}, NEW checked \in BOOLEAN, NEW q \in Seq(WholeNodes)
    PROVE  Each(kind, checked, q) \in Seq(Works)
BY EachWorksOf DEF Works

\* The node that work without a node of its own carries.
LEMMA NoNodeIsNode ==
    NoNode \in Nodes
<1>1. SnapshotNode \in Nat
  BY DEF SnapshotNode
<1>2. <<SnapshotNode>> \in Seq(Nat)
  BY <1>1
<1> QED  BY <1>2 DEF NoNode, Nodes

\* Nodes to generate,
LEMMA GenerateWorks ==
    ASSUME NEW n \in Nat
    PROVE  Generate(n) \in Seq(Works)
<1>1. Work("generate", FALSE, NoNode, n) \in Works
  BY NoNodeIsNode DEF Work, Works, WorksOf
<1>2. \A w : w \in Works => <<w>> \in Seq(Works)
  OBVIOUS
<1> QED  BY <1>1, <1>2 DEF Generate

\* and assertions that fail.
LEMMA FailWorks ==
    ASSUME NEW checked \in BOOLEAN, Overrun(snap)
    PROVE  Fail(checked) \in Seq(Works)
<1>1. Work("fail", checked, NoNode, 0) \in Works
  BY NoNodeIsNode DEF Work, Works, WorksOf
<1> QED  BY <1>1 DEF Fail

\* take and skip.
LEMMA TakeNodes ==
    ASSUME NEW S, NEW q \in Seq(S), NEW k \in Nat
    PROVE  /\ take(q, k) \in Seq(S)
           /\ k <= Len(q) => take(q, k) = SubSeq(q, 1, k) /\ Len(take(q, k)) = k
<1>1. Len(q) \in Nat
  OBVIOUS
<1>2. Min({k, Len(q)}) = IF k <= Len(q) THEN k ELSE Len(q)
  BY <1>1, MinTwo
<1> DEFINE m == Min({k, Len(q)})
<1>3. m \in 0 .. Len(q) /\ (k <= Len(q) => m = k)
  BY <1>1, <1>2
<1> HIDE DEF m
<1>4. SubSeq(q, 1, m) \in Seq(S) /\ Len(SubSeq(q, 1, m)) = m
  BY <1>3, FirstOf
<1>5. take(q, k) = SubSeq(q, 1, m)
  BY DEF take, m
<1> QED  BY <1>3, <1>4, <1>5

\* skip leaves nodes of the same kind.
LEMMA SkipNodes ==
    ASSUME NEW S, NEW q \in Seq(S), NEW k \in 0 .. Len(q)
    PROVE  skip(q, k) \in Seq(S) /\ Len(skip(q, k)) = Len(q) - k
<1>1. Len(q) \in Nat /\ k + 1 \in 1 .. Len(q) + 1 /\ Len(q) \in (k + 1) - 1 .. Len(q)
  OBVIOUS
<1>2. SubSeq(q, k + 1, Len(q)) \in Seq(S) /\ Len(SubSeq(q, k + 1, Len(q))) = Len(q) - (k + 1) + 1
  <2> DEFINE a == k + 1
             b == Len(q)
  <2>1. a \in 1 .. Len(q) + 1 /\ b \in a - 1 .. Len(q)
    BY <1>1
  <2> HIDE DEF a, b
  <2>2. SubSeq(q, a, b) \in Seq(S) /\ Len(SubSeq(q, a, b)) = b - a + 1
    BY <2>1, SubSeqProperties
  <2> QED  BY <2>2 DEF a, b
<1>3. Len(q) - (k + 1) + 1 = Len(q) - k
  BY <1>1
<1> QED  BY <1>2, <1>3 DEF skip

\* A part of a graph.
LEMMA FragmentNodes ==
    ASSUME NEW S, NEW q \in Seq(S), NEW x \in Fragments(q)
    PROVE  x \in Seq(S) /\ Head(x) \in S /\ Tail(x) \in Seq(S)
<1>1. PICK a \in DOMAIN q, b \in DOMAIN q : a <= b /\ x = SubSeq(q, a, b)
  BY DEF Fragments
<1>2. Len(q) \in Nat /\ DOMAIN q = 1 .. Len(q)
  OBVIOUS
<1>3. a \in 1 .. Len(q) + 1 /\ b \in a - 1 .. Len(q) /\ b - a + 1 >= 1
  BY <1>1, <1>2
<1>4. x \in Seq(S) /\ Len(x) >= 1
  BY <1>1, <1>3, SubSeqProperties
<1> QED  BY <1>4

\* f is the function that FlattenSeq of the first n elements of s recurs on.
FlattensTo(f, s, n) == f = [i \in 1 .. n |-> IF i = 1 THEN s[i] ELSE f[i - 1] \o s[i]]

\* There is such a function.
LEMMA FlattenExists ==
    ASSUME NEW s, NEW n \in Nat
    PROVE  \E f : FlattensTo(f, s, n)
<1> DEFINE T == {k \in Nat : ~ \E f : FlattensTo(f, s, k)}
<1> SUFFICES ASSUME T # {}
             PROVE  FALSE
  OBVIOUS
<1>1. T \in SUBSET Nat
  OBVIOUS
<1>2. PICK k \in T : \A y \in T : k <= y
  BY <1>1, Least
<1>3. k \in Nat /\ ~ \E f : FlattensTo(f, s, k)
  BY <1>2
<1>4. CASE k = 0
  <2> DEFINE f == [i \in 1 .. k |-> s[i]]
  <2>1. FlattensTo(f, s, k)
    BY <1>4 DEF FlattensTo
  <2> QED  BY <1>3, <2>1
<1>5. CASE k > 0
  <2>1. k - 1 \in Nat /\ k - 1 \notin T
    BY <1>2, <1>3, <1>5
  <2>2. PICK f : FlattensTo(f, s, k - 1)
    BY <2>1
  <2> DEFINE g == [i \in 1 .. k |-> IF i = 1 THEN s[i] ELSE f[i - 1] \o s[i]]
  <2>3. \A i \in 1 .. k - 1 : g[i] = f[i]
    <3>1. \A i \in 1 .. k - 1 : f[i] = IF i = 1 THEN s[i] ELSE f[i - 1] \o s[i]
      BY <2>2 DEF FlattensTo
    <3>2. \A i \in 1 .. k - 1 : i \in 1 .. k
      BY <1>3
    <3> QED  BY <3>1, <3>2
  <2>4. \A i \in 1 .. k : i # 1 => i - 1 \in 1 .. k - 1 /\ g[i - 1] = f[i - 1]
    <3>1. \A i \in 1 .. k : i # 1 => i - 1 \in 1 .. k - 1
      BY <1>3
    <3> HIDE DEF g
    <3> QED BY <3>1, <2>3
  <2>5. FlattensTo(g, s, k)
    BY <2>4 DEF FlattensTo
  <2> QED  BY <1>3, <2>5
<1> QED  BY <1>3, <1>4, <1>5

\* Flattening sequences of elements of S gives a sequence of elements of S.
LEMMA FlattenType ==
    ASSUME NEW S, NEW n \in Nat, n # 0, NEW s, Len(s) = n, \A i \in 1 .. n : s[i] \in Seq(S)
    PROVE  FlattenSeq(s) \in Seq(S)
<1> DEFINE f == CHOOSE h : FlattensTo(h, s, n)
           T == {k \in 1 .. n : f[k] \notin Seq(S)}
<1>1. FlattenSeq(s) = f[n]
  <2>1. FlattenSeq(s) = (CHOOSE h : FlattensTo(h, s, Len(s)))[Len(s)]
    BY Zenon DEF FlattenSeq, FlattensTo
  <2> QED  BY <2>1
<1>2. FlattensTo(f, s, n)
  BY FlattenExists
<1> HIDE DEF f
<1>3. \A i \in 1 .. n : f[i] = IF i = 1 THEN s[i] ELSE f[i - 1] \o s[i]
  BY <1>2 DEF FlattensTo
<1>4. T = {}
  <2> SUFFICES ASSUME T # {}
               PROVE  FALSE
    OBVIOUS
  <2>1. T \in SUBSET Nat
    OBVIOUS
  <2>2. PICK k \in T : \A y \in T : k <= y
    BY <2>1, Least
  <2>3. k \in 1 .. n /\ f[k] \notin Seq(S)
    BY <2>2
  <2>4. k # 1 => k - 1 \in 1 .. n /\ k - 1 \notin T
    BY <2>2, <2>3
  <2>5. k # 1 => f[k - 1] \in Seq(S)
    BY <2>4
  <2>6. s[k] \in Seq(S) /\ f[k] = IF k = 1 THEN s[k] ELSE f[k - 1] \o s[k]
    BY <1>3, <2>3
  <2>7. \A a, b : a \in Seq(S) /\ b \in Seq(S) => a \o b \in Seq(S)
    OBVIOUS
  <2> QED  BY <2>3, <2>5, <2>6, <2>7
<1>5. n \in 1 .. n
  OBVIOUS
<1> QED  BY <1>1, <1>4, <1>5

\* An entry of the queue.
LEMMA EntryFacts ==
    ASSUME NEW e \in Entries
    PROVE  /\ e.nodes \in Seq(WholeNodes) /\ Len(e.nodes) \in Nat /\ e.nodes \in Seq(Nodes)
           /\ e.ops_used \in 0 .. Len(e.nodes)
           /\ \E ops \in 0 .. setup.max_ops : Laid(e.nodes, ops, setup.max_data)
<1>1. /\ e.nodes \in Seq(WholeNodes) /\ e.ops_used \in Nat /\ e.ops_used <= Len(e.nodes)
      /\ \E ops \in 0 .. setup.max_ops : Laid(e.nodes, ops, setup.max_data)
  BY DEF Entries
<1>2. Len(e.nodes) \in Nat
  BY <1>1, LenProperties
<1> QED  BY <1>1, <1>2, NodeSeqs

\* The larger of two numbers, of which one may be negative.
LEMMA MaxZero ==
    ASSUME NEW a \in Int, NEW b \in Nat, a <= b
    PROVE  Max({0, a}) \in Nat /\ Max({0, a}) <= b
BY DEF Max

\* A position is that of a node, unless the length wrapped.
LEMMA PositionFacts ==
    ASSUME NEW q, Len(q) \in Nat, NEW len \in Int, len <= Len(q), NEW pos \in Positions(q, len)
    PROVE  /\ pos \in 0 .. Len(q)
           /\ pos < len \/ pos = 0 \/ len < 0
<1> DEFINE L == Len(q)
           m == Max({0, len - 1})
<1>1. pos \in 0 .. (IF len < 0 THEN L ELSE m)
  BY DEF Positions
<1>2. L \in Nat /\ len - 1 \in Int /\ len - 1 <= L
  OBVIOUS
<1>3. m \in Nat /\ m <= L
  <2> DEFINE a == len - 1
  <2>1. a \in Int /\ a <= L
    BY <1>2
  <2> HIDE DEF a, L
  <2>2. Max({0, a}) \in Nat /\ Max({0, a}) <= L
    BY <1>2, <2>1, MaxZero
  <2> QED  BY <2>2 DEF a
<1>4. len >= 1 => m <= len - 1
  <2> SUFFICES ASSUME len >= 1
               PROVE  m <= len - 1
    OBVIOUS
  <2> DEFINE a == len - 1
  <2>1. a \in Int /\ a \in Nat /\ a <= a
    OBVIOUS
  <2> HIDE DEF a
  <2>2. Max({0, a}) <= a
    BY <2>1, MaxZero
  <2> QED  BY <2>2 DEF a
<1>5. len = 0 => m = 0
  <2> SUFFICES ASSUME len = 0
               PROVE  m = 0
    OBVIOUS
  <2> DEFINE a == len - 1
  <2>1. a \in Int /\ a <= 0
    OBVIOUS
  <2> HIDE DEF a
  <2>2. Max({0, a}) \in Nat /\ Max({0, a}) <= 0
    BY <2>1, MaxZero
  <2> QED  BY <2>2 DEF a
<1> HIDE DEF L, m
<1>6. pos \in 0 .. L /\ (pos < len \/ pos = 0 \/ len < 0)
  BY <1>1, <1>2, <1>3, <1>4, <1>5
<1> QED  BY <1>6 DEF L

\* A splice.
LEMMA SplicedWorks ==
    ASSUME NEW rest \in Seq(WholeNodes), NEW point \in Nat, point < Len(rest),
           NEW other \in Seq(WholeNodes), NEW fragment \in Fragments(other)
    PROVE  Spliced(rest, point, fragment) \in Seq(Works)
<1>0. \A a, b : a \in Seq(Works) /\ b \in Seq(Works) => a \o b \in Seq(Works)
  OBVIOUS
<1>1. Len(rest) \in Nat
  OBVIOUS
<1>2. point + 1 \in 0 .. Len(rest) /\ point + 1 \in 1 .. Len(rest)
  BY <1>1
<1> DEFINE x == <<Head(fragment)>>
           y == Tail(fragment)
           u == <<rest[point + 1]>>
           v == skip(rest, point + 1)
<1>3. x \in Seq(WholeNodes) /\ y \in Seq(WholeNodes)
  <2>1. Head(fragment) \in WholeNodes /\ Tail(fragment) \in Seq(WholeNodes)
    BY FragmentNodes
  <2> QED  BY <2>1
<1>4. u \in Seq(WholeNodes)
  <2>1. rest[point + 1] \in WholeNodes
    BY <1>2
  <2> QED  BY <2>1
<1>5. v \in Seq(WholeNodes)
  BY <1>2, SkipNodes
<1> DEFINE A == Each("copy", TRUE, x)
           B == Each("copy", FALSE, y)
           C == Each("copy", FALSE, u)
           D == Each("copy", TRUE, v)
<1>6. Spliced(rest, point, fragment) = ((A \o B) \o C) \o D
  BY DEF Spliced
<1> HIDE DEF x, y, u, v
<1>7. A \in Seq(Works) /\ B \in Seq(Works) /\ C \in Seq(Works) /\ D \in Seq(Works)
  BY <1>3, <1>4, <1>5, EachWorks
<1> HIDE DEF A, B, C, D
<1>8. A \o B \in Seq(Works)
  BY <1>0, <1>7
<1>9. (A \o B) \o C \in Seq(Works)
  BY <1>0, <1>7, <1>8
<1> QED  BY <1>0, <1>6, <1>7, <1>9

\* MutatorStrategy: whatever is chosen copies whole nodes and generates others,
\* and its assertions hold unless the snapshot lies behind what was executed.
LEMMA MutationWorks ==
    ASSUME Inv, NEW e \in Entries, NEW k \in 0 .. Len(e.nodes), NEW s, s.skip_nodes = k,
           e.ops_used < k => Overrun(snap), NEW work \in mutations(e, s)
    PROVE  work \in Seq(Works)
<1> DEFINE rest == skip(e.nodes, k)
           len == e.ops_used - k
<1>1. /\ e.nodes \in Seq(WholeNodes) /\ Len(e.nodes) \in Nat /\ e.ops_used \in 0 .. Len(e.nodes)
      /\ setup.max_generate \in Nat
  BY EntryFacts, SetupFacts DEF Inv
<1>2. /\ len \in Int /\ e.ops_used \in Nat /\ len <= Len(e.nodes) - k
      /\ len < 0 => Overrun(snap)
  BY <1>1
<1>3. rest \in Seq(WholeNodes) /\ len <= Len(rest) /\ Len(rest) \in Nat
  <2> DEFINE q == e.nodes
  <2>1. q \in Seq(WholeNodes) /\ k \in 0 .. Len(q) /\ len <= Len(q) - k
    BY <1>1, <1>2
  <2> HIDE DEF q, len
  <2>2. skip(q, k) \in Seq(WholeNodes) /\ Len(skip(q, k)) = Len(q) - k
    BY <2>1, SkipNodes
  <2>3. Len(skip(q, k)) \in Nat
    BY <2>2
  <2> QED  BY <2>1, <2>2, <2>3 DEF q
<1>4. \/ work \in generate
      \/ len # 0 /\ (work \in generate_tail(rest, len) \/ work \in mutate_data(rest, len)
                     \/ work \in splice_random(rest, e.ops_used) \/ work \in splice(rest, len)
                     \/ work \in repeat(rest, len))
  BY DEF mutations
<1>0. \A a, b : a \in Seq(Works) /\ b \in Seq(Works) => a \o b \in Seq(Works)
  OBVIOUS
<1> HIDE DEF rest, len
<1>5. CASE work \in generate
  <2>1. PICK n \in 1 .. setup.max_generate : work = Generate(n)
    BY <1>5 DEF generate
  <2> QED  BY <1>1, <2>1, GenerateWorks
<1>6. CASE work \in generate_tail(rest, len)
  <2> DEFINE F(n, m) == Each("copy", TRUE, take(rest, n)) \o Generate(m)
             N == IF len < 0 THEN {Len(rest)} ELSE 1 .. len
  <2>0. generate_tail(rest, len) = {F(n, m) : n \in N, m \in 1 .. setup.max_generate}
    BY DEF generate_tail
  <2>2. \A n \in N : n \in Nat
    BY <1>2, <1>3
  <2> HIDE DEF F, N
  <2>1. PICK n \in N, m \in 1 .. setup.max_generate : work = F(n, m)
    BY <1>6, <2>0
  <2>3. take(rest, n) \in Seq(WholeNodes)
    BY <1>3, <2>2, TakeNodes
  <2>4. Each("copy", TRUE, take(rest, n)) \in Seq(Works)
    BY <2>3, EachWorks
  <2>5. Generate(m) \in Seq(Works)
    BY <1>1, GenerateWorks
  <2> QED  BY <1>0, <2>1, <2>4, <2>5 DEF F
<1>7. CASE work \in mutate_data(rest, len)
  <2>1. work = Each("copy", TRUE, rest) \/ (len = -1 /\ work = Fail(TRUE))
    BY <1>7 DEF mutate_data
  <2>2. Each("copy", TRUE, rest) \in Seq(Works)
    BY <1>3, EachWorks
  <2>3. len = -1 => Fail(TRUE) \in Seq(Works)
    <3>1. 0 \in Nat /\ (len = -1 => Overrun(snap))
      BY <1>2
    <3> QED  BY <3>1, FailWorks
  <2> QED  BY <2>1, <2>2, <2>3
<1>8. CASE work \in splice_random(rest, e.ops_used)
  <2>1. work = Each("pick", TRUE, take(rest, e.ops_used))
    BY <1>8 DEF splice_random
  <2>2. take(rest, e.ops_used) \in Seq(WholeNodes)
    BY <1>2, <1>3, TakeNodes
  <2> QED  BY <2>1, <2>2, EachWorks
<1>9. CASE len # 0 /\ work \in splice(rest, len)
  <2> DEFINE A(point) == Each("copy", TRUE, take(rest, point))
             B(point, fragment) == IF point < Len(rest) THEN Spliced(rest, point, fragment)
                                   ELSE Fail(FALSE)
             F(point, fragment) == A(point) \o B(point, fragment)
             Q == UNION {Fragments(other.nodes) : other \in queue}
  <2>0. splice(rest, len) =
          UNION {{F(point, fragment) : fragment \in Q} : point \in Positions(rest, len)}
    BY DEF splice
  <2> HIDE DEF F, Q
  <2>1. PICK point \in Positions(rest, len), fragment \in Q : work = F(point, fragment)
    BY <1>9, <2>0
  <2>2. PICK other \in queue : fragment \in Fragments(other.nodes)
    BY <2>1 DEF Q
  <2>3. other.nodes \in Seq(WholeNodes)
    BY EntryFacts DEF Inv
  <2>4. point \in Nat /\ (point < Len(rest) \/ Overrun(snap))
    <3>1. point \in 0 .. Len(rest) /\ (point < len \/ point = 0 \/ len < 0)
      BY <1>2, <1>3, PositionFacts
    <3>2. len < 0 \/ len >= 1
      BY <1>2, <1>9
    <3> QED  BY <1>2, <1>3, <3>1, <3>2
  <2>5. take(rest, point) \in Seq(WholeNodes)
    BY <1>3, <2>4, TakeNodes
  <2>6. A(point) \in Seq(Works)
    BY <2>5, EachWorks
  <2>7. point < Len(rest) => Spliced(rest, point, fragment) \in Seq(Works)
    BY <1>3, <2>2, <2>3, <2>4, SplicedWorks
  <2>8. ~ point < Len(rest) => Fail(FALSE) \in Seq(Works)
    <3>1. 0 \in Nat
      OBVIOUS
    <3> QED  BY <2>4, <3>1, FailWorks
  <2>9. B(point, fragment) \in Seq(Works)
    BY <2>7, <2>8
  <2> HIDE DEF A, B
  <2> QED  BY <1>0, <2>1, <2>6, <2>9 DEF F
<1>10. CASE len # 0 /\ work \in repeat(rest, len)
  <2> DEFINE E(pos) == IF pos = Len(rest) THEN Fail(FALSE) ELSE <<>>
             F(pos, fragment, repeats) ==
               Each("copy", TRUE, take(rest, pos)) \o E(pos)
                 \o FlattenSeq([r \in 1 .. repeats |->
                                  Each("copy", TRUE, take(skip(rest, pos), fragment))])
                 \o Each("copy", TRUE, skip(rest, pos))
             G(pos) == {F(pos, fragment, repeats) :
                          fragment \in 2 .. MaxFragment, repeats \in 2 .. MaxRepeats}
  <2>0. repeat(rest, len) = UNION {G(pos) : pos \in Positions(rest, len - 1)}
    BY DEF repeat
  <2> HIDE DEF F, E
  <2>1. PICK pos \in Positions(rest, len - 1), fragment \in 2 .. MaxFragment, repeats \in 2 .. MaxRepeats :
           work = F(pos, fragment, repeats)
    <3> HIDE DEF G
    <3>1. PICK pos \in Positions(rest, len - 1) : work \in G(pos)
      BY <1>10, <2>0
    <3> QED  BY <3>1 DEF G
  <2>2. pos \in Nat /\ pos \in 0 .. Len(rest) /\ (pos = Len(rest) => Overrun(snap))
    <3> DEFINE b == len - 1
    <3>1. b \in Int /\ b <= Len(rest) /\ b = len - 1
      BY <1>2, <1>3
    <3>2. pos \in Positions(rest, b)
      BY <2>1
    <3> HIDE DEF b
    <3>3. pos \in 0 .. Len(rest) /\ (pos < b \/ pos = 0 \/ b < 0)
      BY <1>3, <3>1, <3>2, PositionFacts
    <3>4. len < 0 \/ len >= 1
      BY <1>2, <1>10
    <3>5. len >= 1 => pos < Len(rest)
      BY <1>2, <1>3, <3>1, <3>3
    <3> QED  BY <1>2, <1>3, <3>3, <3>4, <3>5
  <2>3. fragment \in Nat /\ repeats \in Nat /\ repeats # 0
    BY GraphBuilderAssumption
  <2>4. take(rest, pos) \in Seq(WholeNodes)
    BY <1>3, <2>2, TakeNodes
  <2>5. skip(rest, pos) \in Seq(WholeNodes)
    BY <1>3, <2>2, SkipNodes
  <2>6. take(skip(rest, pos), fragment) \in Seq(WholeNodes)
    BY <2>3, <2>5, TakeNodes
  <2>14. E(pos) \in Seq(Works)
    <3>1. 0 \in Nat /\ <<>> \in Seq(Works)
      OBVIOUS
    <3> QED  BY <2>2, <3>1, FailWorks DEF E
  <2> DEFINE A == Each("copy", TRUE, take(rest, pos))
             B == Each("copy", TRUE, take(skip(rest, pos), fragment))
             C == Each("copy", TRUE, skip(rest, pos))
             bs == [r \in 1 .. repeats |-> B]
  <2>7. A \in Seq(Works)
    BY <2>4, EachWorks
  <2>8. B \in Seq(Works)
    BY <2>6, EachWorks
  <2>9. C \in Seq(Works)
    BY <2>5, EachWorks
  <2>10. work = ((A \o E(pos)) \o FlattenSeq(bs)) \o C
    BY <2>1 DEF F
  <2> HIDE DEF A, B, C
  <2>11. Len(bs) = repeats /\ \A i \in 1 .. repeats : bs[i] \in Seq(Works)
    <3>1. bs \in [1 .. repeats -> Seq(Works)]
      BY <2>8
    <3> HIDE DEF bs
    <3> QED  BY <2>3, <3>1
  <2> HIDE DEF bs
  <2>12. FlattenSeq(bs) \in Seq(Works)
    BY <2>3, <2>11, FlattenType
  <2>15. A \o E(pos) \in Seq(Works)
    BY <1>0, <2>7, <2>14
  <2>13. (A \o E(pos)) \o FlattenSeq(bs) \in Seq(Works)
    BY <1>0, <2>12, <2>15
  <2> QED  BY <1>0, <2>9, <2>10, <2>13
<1> QED  BY <1>4, <1>5, <1>6, <1>7, <1>8, <1>9, <1>10

\* The minimiser copies what it does not drop.
LEMMA DropWorks ==
    ASSUME NEW q \in Seq(WholeNodes), NEW work \in drop_range(q)
    PROVE  work \in Seq(Works)
<1>1. Len(q) \in Nat
  OBVIOUS
<1> DEFINE F(from, to) == Each("copy", FALSE, take(q, from) \o skip(q, to))
<1>0. drop_range(q) = UNION {{F(from, to) : to \in from .. Len(q)} : from \in 0 .. Len(q)}
  BY DEF drop_range
<1> HIDE DEF F
<1>2. PICK from \in 0 .. Len(q) : \E to \in from .. Len(q) : work = F(from, to)
  BY <1>0
<1>7. PICK to \in from .. Len(q) : work = F(from, to)
  BY <1>2
<1>3. from \in Nat /\ to \in 0 .. Len(q)
  BY <1>1
<1>4. take(q, from) \in Seq(WholeNodes)
  BY <1>3, TakeNodes
<1>5. skip(q, to) \in Seq(WholeNodes)
  BY <1>3, SkipNodes
<1>6. take(q, from) \o skip(q, to) \in Seq(WholeNodes)
  BY <1>4, <1>5, ConcatProperties
<1> QED  BY <1>6, <1>7, EachWorks DEF F

\* So does the import of a seed file.
LEMMA ImportWorks ==
    ASSUME Inv, NEW q \in Imports[setup.name]
    PROVE  q \in Seq(WholeNodes)
<1>1. /\ q \in Seq([ops : Seq(Nat), data : Nat])
      /\ \A i \in DOMAIN q :
            LET n == q[i].ops[1]
                t == setup.nodes[n]
            IN  /\ q[i].ops # <<>> /\ n \in DOMAIN setup.nodes
                /\ Len(q[i].ops) = 1 + Len(t.inputs) + Len(t.passthroughs) + Len(t.outputs)
                /\ q[i].data \in t.data
  BY GraphBuilderAssumption DEF Inv
<1>2. q \in Seq(Nodes) /\ DOMAIN q = 1 .. Len(q)
  BY <1>1 DEF Nodes
<1>3. ASSUME NEW i \in 1 .. Len(q)
      PROVE  q[i] \in WholeNodes
  <2> DEFINE n == q[i].ops[1]
             t == setup.nodes[n]
  <2>1. /\ n \in DOMAIN setup.nodes /\ q[i].data \in t.data /\ q[i] \in Nodes
        /\ Len(q[i].ops) = 1 + Len(t.inputs) + Len(t.passthroughs) + Len(t.outputs)
    <3>1. i \in DOMAIN q /\ q[i] \in Nodes
      BY <1>2
    <3>2. /\ n \in DOMAIN setup.nodes /\ q[i].data \in t.data
          /\ Len(q[i].ops) = 1 + Len(t.inputs) + Len(t.passthroughs) + Len(t.outputs)
      BY <1>1, <3>1, Zenon
    <3> QED  BY <3>1, <3>2
  <2>2. n \in NodeTypes
    <3>1. DOMAIN setup.nodes = 1 .. Len(setup.nodes)
      BY SetupFacts DEF Inv
    <3> QED  BY <2>1, <3>1 DEF NodeTypes
  <2> HIDE DEF n
  <2>3. /\ get_node(n) = t /\ size(n) \in Nat /\ t \in NodeSpecs
        /\ size(n) = Len(t.inputs) + Len(t.passthroughs) + Len(t.outputs)
    BY <2>2, NodeFacts DEF Inv
  <2>4. Len(t.inputs) \in Nat /\ Len(t.passthroughs) \in Nat /\ Len(t.outputs) \in Nat
    BY <2>3, LenProperties DEF NodeSpecs
  <2> HIDE DEF t
  <2>5. Len(q[i].ops) = 1 + size(n)
    <3> DEFINE a == Len(t.inputs)
               b == Len(t.passthroughs)
               c == Len(t.outputs)
    <3>1. a \in Nat /\ b \in Nat /\ c \in Nat /\ size(n) = a + b + c
      BY <2>3, <2>4 DEF t
    <3>2. Len(q[i].ops) = 1 + a + b + c
      BY <2>1
    <3> HIDE DEF a, b, c
    <3>3. 1 + a + b + c = 1 + (a + b + c)
      BY <3>1
    <3> QED  BY <3>1, <3>2, <3>3
  <2>6. Len(q[i].ops) \in 1 .. 1 + size(n)
    <3>1. \A a \in Nat : 1 + a \in 1 .. 1 + a
      OBVIOUS
    <3> QED  BY <2>3, <2>5, <3>1
  <2> QED  BY <2>1, <2>2, <2>3, <2>5, <2>6 DEF WholeNodes, PartNodes, n
<1> QED  BY <1>2, <1>3

-----------------------------------------------------------------------------
(***************************************************************************)
(* The actions: mutations begin, snapshots come and go.                    *)
(***************************************************************************)

\* append_random, as the work of perform_gen.
LEMMA GenWorks ==
    ASSUME Inv, NEW work \in generate
    PROVE  work \in Seq(Works)
<1>1. PICK n \in 1 .. setup.max_generate : work = Generate(n)
  BY DEF generate
<1>2. setup.max_generate \in Nat
  BY SetupFacts DEF Inv
<1>3. n \in Nat
  BY <1>2
<1> QED  BY <1>1, <1>3, GenerateWorks

\* perform_gen, perform_havoc, perform_min and perform_import.
LEMMA PerformStep ==
    ASSUME Inv, PerformGen \/ PerformHavoc \/ PerformMin \/ PerformImport
    PROVE  Inv'
<1>0. queue \in SUBSET Entries /\ SnapOK(snap)
  BY DEF Inv
<1>1. CASE PerformGen
  <2>1. PICK work \in generate : Begin(work)
    BY <1>1 DEF PerformGen
  <2>2. work \in Seq(Works)
    BY <2>1, GenWorks
  <2> QED  BY <2>1, <2>2, BeginStep
<1>2. CASE PerformHavoc
  <2>0. PICK e \in (IF snap = NoSnapshot THEN queue ELSE {snap.entry}) :
           \E work \in mutations(e, snap) : Begin(work)
    BY <1>2 DEF PerformHavoc
  <2>1. PICK work \in mutations(e, snap) : Begin(work)
    BY <2>0
  <2>2. /\ e \in Entries /\ snap.skip_nodes \in 0 .. Len(e.nodes)
        /\ e.ops_used < snap.skip_nodes => Overrun(snap)
    <3>1. CASE snap = NoSnapshot
      <4>1. NoSnapshot.skip_nodes = 0 /\ e \in Entries
        BY <1>0, <2>0, <3>1 DEF NoSnapshot
      <4>2. e.ops_used \in Nat /\ Len(e.nodes) \in Nat
        BY <4>1, EntryFacts
      <4> QED  BY <3>1, <4>1, <4>2
    <3>2. CASE snap # NoSnapshot
      <4>1. e = snap.entry /\ e \in Entries /\ snap.skip_nodes \in 0 .. Len(e.nodes) - 1
        BY <1>0, <2>0, <3>2 DEF SnapOK
      <4>2. Len(e.nodes) \in Nat
        BY <4>1, EntryFacts
      <4> QED  BY <4>1, <4>2 DEF Overrun
    <3> QED  BY <3>1, <3>2
  <2>3. work \in Seq(Works)
    BY <2>1, <2>2, MutationWorks
  <2> QED  BY <2>1, <2>3, BeginStep
<1>3. CASE PerformMin
  <2>0. PICK e \in queue : \E work \in drop_range(e.nodes) : Begin(work)
    BY <1>3 DEF PerformMin
  <2>1. PICK work \in drop_range(e.nodes) : Begin(work)
    BY <2>0
  <2>2. e.nodes \in Seq(WholeNodes)
    BY <1>0, EntryFacts
  <2>3. work \in Seq(Works)
    BY <2>1, <2>2, DropWorks
  <2> QED  BY <2>1, <2>3, BeginStep
<1>4. CASE PerformImport
  <2>1. PICK nodes \in Imports[setup.name] : Begin(Each("copy", FALSE, nodes))
    BY <1>4 DEF PerformImport
  <2>2. nodes \in Seq(WholeNodes)
    BY ImportWorks
  <2>3. Each("copy", FALSE, nodes) \in Seq(Works)
    BY <2>2, EachWorks
  <2> QED  BY <2>1, <2>3, BeginStep
<1> QED  BY <1>1, <1>2, <1>3, <1>4

\* Every node of a graph takes ops.
LEMMA LayoutGrows ==
    ASSUME NEW e \in Seq(WholeNodes), NEW f \in OpsLayouts(e), NEW i \in 0 .. Len(e)
    PROVE  \A j \in 0 .. Len(e) : i < j => f[i] < f[j]
<1> DEFINE L == Len(e)
           T == {j \in 0 .. L : i < j /\ ~ (f[i] < f[j])}
<1>1. L \in Nat /\ f \in [0 .. L -> Nat] /\ \A k \in 1 .. L : f[k] = f[k - 1] + Len(e[k].ops)
  BY DEF OpsLayouts
<1>2. \A k \in 1 .. L : Len(e[k].ops) \in Nat /\ Len(e[k].ops) >= 1
  <2> TAKE k \in 1 .. L
  <2>1. e[k] \in WholeNodes
    OBVIOUS
  <2>2. e[k].ops \in Seq(Nat) /\ Len(e[k].ops) \in 1 .. 1 + size(e[k].ops[1])
    BY <2>1 DEF WholeNodes, PartNodes, Nodes
  <2>3. Len(e[k].ops) \in Nat
    BY <2>2, LenProperties
  <2> QED  BY <2>2, <2>3
<1> HIDE DEF L
<1>3. T = {}
  <2> SUFFICES ASSUME T # {}
               PROVE  FALSE
    OBVIOUS
  <2>1. T \in SUBSET Nat
    BY <1>1
  <2>2. PICK j \in T : \A y \in T : j <= y
    BY <2>1, Least
  <2>3. j \in 0 .. L /\ i < j /\ ~ (f[i] < f[j]) /\ i \in Nat /\ i \in 0 .. L
    BY <2>2 DEF L
  <2>4. j - 1 \in 0 .. L /\ j - 1 \notin T /\ j \in 1 .. L
    BY <1>1, <2>2, <2>3
  <2>5. f[j] = f[j - 1] + Len(e[j].ops) /\ Len(e[j].ops) \in Nat /\ Len(e[j].ops) >= 1
    BY <1>1, <1>2, <2>4
  <2>6. f[j - 1] \in Nat /\ f[i] \in Nat /\ f[j] \in Nat
    BY <1>1, <2>3, <2>4
  <2>7. CASE i = j - 1
    BY <2>3, <2>5, <2>6, <2>7
  <2>8. CASE i # j - 1
    <3>1. i < j - 1
      BY <2>3, <2>4, <2>8
    <3>2. f[i] < f[j - 1]
      BY <2>4, <3>1
    <3> QED  BY <2>3, <2>5, <2>6, <3>2
  <2> QED  BY <2>7, <2>8
<1> QED  BY <1>3 DEF L

\* prepare_snapshot begins to copy the prefix into an empty payload.
LEMMA PrepareStep ==
    ASSUME Inv, PrepareSnapshot
    PROVE  Inv'
<1>0. PICK entry \in queue : \E cutoff \in Cutoffs(entry) :
        /\ start(NoSnapshot)
        /\ todo' = Each("copy", FALSE, take(entry.nodes, cutoff))
        /\ snap' = [NoSnapshot EXCEPT !.entry = entry, !.skip_nodes = cutoff]
        /\ phase' = "prefix"
        /\ setup' = setup /\ queue' = queue
  BY DEF PrepareSnapshot
<1>1. PICK cutoff \in Cutoffs(entry) :
        /\ start(NoSnapshot)
        /\ todo' = Each("copy", FALSE, take(entry.nodes, cutoff))
        /\ snap' = [NoSnapshot EXCEPT !.entry = entry, !.skip_nodes = cutoff]
        /\ phase' = "prefix"
        /\ setup' = setup /\ queue' = queue
  BY <1>0
<1>2. /\ queue \in SUBSET Entries /\ setup \in Setups /\ setup.max_ops \in Nat
      /\ setup.placement \in {"none", "balanced", "aggressive"} /\ MinNodes \in Nat
  BY SetupFacts, GraphBuilderAssumption DEF Inv
<1> DEFINE e == entry.nodes
<1>3. /\ e \in Seq(WholeNodes) /\ Len(e) \in Nat /\ e \in Seq(Nodes)
      /\ entry.ops_used \in 0 .. Len(e)
      /\ \E ops \in 0 .. setup.max_ops : Laid(e, ops, setup.max_data)
  BY <1>1, <1>2, EntryFacts
<1>13. /\ setup.placement # "none" /\ cutoff \in 0 .. Len(e) - 1
       /\ setup.placement = "balanced" => ~ entry.ops_used < cutoff
  <2>1. CASE setup.placement = "none"
    BY <1>1, <2>1 DEF Cutoffs
  <2>2. CASE setup.placement = "balanced"
    <3>1. cutoff \in 0 .. entry.ops_used - 1
      BY <1>1, <2>2 DEF Cutoffs
    <3> QED  BY <1>3, <2>2, <3>1
  <2>3. CASE setup.placement = "aggressive"
    <3>1. cutoff \in MinNodes .. Len(e) - 1
      BY <1>1, <2>3 DEF Cutoffs
    <3> QED  BY <1>2, <1>3, <2>3, <3>1
  <2> QED  BY <1>2, <2>1, <2>2, <2>3
<1>4. cutoff \in Nat /\ cutoff <= Len(e) /\ cutoff \in 0 .. Len(e) /\ Len(e) >= 1
  BY <1>3, <1>13
<1>5. /\ snap' = [entry |-> entry, skip_nodes |-> cutoff, skip_ops |-> 0, skip_data |-> 0,
                  prefix |-> 0, state |-> Empty]
      /\ NoSnapshot.entry.nodes = <<>>
  BY <1>1 DEF NoSnapshot
<1>6. snap'.entry = entry /\ snap'.skip_nodes = cutoff
  BY <1>5
<1>7. snap' # NoSnapshot
  BY <1>4, <1>5, <1>6
<1>8. SnapOK(snap')
  BY <1>2, <1>5, <1>6, <1>13 DEF SnapOK, Overrun
<1>9. /\ storage' = EmptyStorage
      /\ StorageOK(storage') /\ GraphOK(storage') /\ StateOK(state', storage')
      /\ RoomOK(storage'.nodes, storage'.ops_i, storage'.data_i)
  BY <1>1, StartEmpty
<1>10. /\ todo' \in Seq(WorksOf(snap')) /\ Len(todo') = cutoff
       /\ \A i \in 1 .. cutoff : todo'[i] = Work("copy", FALSE, e[i], 0)
  <2> DEFINE t == take(e, cutoff)
  <2> HIDE DEF e
  <2>1. t \in Seq(WholeNodes) /\ t = SubSeq(e, 1, cutoff) /\ Len(t) = cutoff
    BY <1>3, <1>4, TakeNodes
  <2>2. \A i \in 1 .. cutoff : SubSeq(e, 1, cutoff)[i] = e[i]
    BY <1>3, <1>4, FirstOf
  <2>3. todo' = Each("copy", FALSE, t)
    BY <1>1 DEF e
  <2> HIDE DEF t
  <2>4. /\ Each("copy", FALSE, t) \in Seq(WorksOf(snap')) /\ Len(Each("copy", FALSE, t)) = Len(t)
        /\ \A i \in 1 .. Len(t) : Each("copy", FALSE, t)[i] = Work("copy", FALSE, t[i], 0)
    BY <2>1, EachWorksOf
  <2> QED  BY <2>1, <2>2, <2>3, <2>4
<1>11. PrefixOK(snap', storage', todo')
  <2> HIDE DEF e
  <2>0. snap'.entry.nodes = e
    BY <1>6 DEF e
  <2>1. snap'.skip_nodes - Len(todo') = 0
    BY <1>4, <1>6, <1>10
  <2>2. PrefixLeft(e, todo', 0)
    <3>1. \A i \in 1 .. cutoff : 0 + i = i
      BY <1>4
    <3> QED  BY <1>10, <3>1 DEF PrefixLeft
  <2>3. PICK ops \in 0 .. setup.max_ops : Laid(e, ops, setup.max_data)
    BY <1>3
  <2>4. storage'.ops_i = 0 /\ storage'.data_i = 0 /\ storage'.nodes = <<>>
    BY <1>9 DEF EmptyStorage
  <2>5. PrefixFits(e, storage', 0)
    <3>1. PICK f \in OpsLayouts(e) : f[Len(e)] = ops
      BY <2>3 DEF Laid
    <3>2. f[0] = 0 /\ ops <= setup.max_ops
      BY <1>2, <3>1 DEF OpsLayouts
    <3> QED  BY <2>4, <3>1, <3>2 DEF PrefixFits
  <2>6. PrefixSame(e, storage', 0)
    <3>1. PICK f \in DataLayouts(e) : f[Len(e)] <= setup.max_data
      BY <2>3 DEF Laid
    <3>2. f[0] = 0
      BY DEF DataLayouts
    <3>3. SubSeq(e, 1, 0) = <<>>
      <4>1. 0 \in 0 .. Len(e)
        BY <1>3
      <4>2. SubSeq(e, 1, 0) \in Seq(WholeNodes) /\ Len(SubSeq(e, 1, 0)) = 0
        BY <1>3, <4>1, FirstOf
      <4> QED  BY <4>2, EmptySeq
    <3> QED  BY <2>4, <3>2, <3>3 DEF PrefixSame
  <2>7. Len(todo') <= snap'.skip_nodes
    BY <1>4, <1>6, <1>10
  <2> QED  BY <1>7, <2>0, <2>1, <2>2, <2>5, <2>6, <2>7 DEF PrefixOK
<1>12. queue' \in SUBSET Entries
  BY <1>1, <1>2
<1> QED  BY <1>1, <1>8, <1>9, <1>10, <1>11, <1>12, InvNext

\* There is room for the node that creates the snapshot.
LEMMA RoomForSnapshot ==
    ASSUME Inv, phase = "prefix", todo = <<>>
    PROVE  storage.ops_i < setup.max_ops
<1> DEFINE e == snap.entry.nodes
           k == snap.skip_nodes
           L == Len(e)
<1>1. PrefixOK(snap, storage, todo) /\ snap # NoSnapshot /\ Len(todo) = 0
  BY DEF Inv, PrefixOK
<1>2. snap.entry \in Entries /\ k \in 0 .. L - 1
  BY <1>1 DEF Inv, SnapOK
<1>3. e \in Seq(WholeNodes) /\ L \in Nat
  BY <1>2, EntryFacts
<1>4. k \in 0 .. L /\ k < L /\ k - 0 = k /\ L \in 0 .. L
  BY <1>2, <1>3
<1>5. PICK f \in OpsLayouts(e) : f[L] <= setup.max_ops /\ storage.ops_i <= f[k]
  BY <1>1, <1>4 DEF PrefixOK, PrefixFits
<1>6. f[k] \in Nat /\ f[L] \in Nat
  BY <1>4 DEF OpsLayouts
<1> HIDE DEF e, k
<1>7. f[k] < f[L]
  BY <1>3, <1>4, LayoutGrows
<1>8. storage.ops_i \in Nat /\ setup.max_ops \in Nat
  BY SetupFacts DEF Inv, StorageOK
<1> HIDE DEF L
<1> QED  BY <1>5, <1>6, <1>7, <1>8

\* The node that creates the snapshot is appended to the prefix, and the state
\* that belongs to the prefix is kept.
LEMMA CreatedStep ==
    ASSUME Inv, SnapshotCreated
    PROVE  Inv'
<1> DEFINE g == storage
           ops == <<SnapshotNode>>
           h == Plus(g.nodes, ops, 0)
           a == [nodes |-> h, ops_i |-> g.ops_i + 1, data_i |-> g.data_i + 0]
<1>1. /\ phase = "prefix" /\ todo = <<>> /\ storage' = append(g, ops, 0) /\ phase' = "idle"
      /\ snap' \in {prepare_snapshot(snap, storage, state), NoSnapshot}
      /\ setup' = setup /\ state' = state /\ queue' = queue /\ todo' = todo
  BY DEF SnapshotCreated
<1>2. /\ g \in [nodes : Seq(Nodes), ops_i : Nat, data_i : Nat]
      /\ g.nodes \in Seq(PartNodes(NodeTypes)) /\ g.nodes \in Seq(Nodes)
      /\ g.nodes \in Seq(PartNodes(NodeTypes \cup {SnapshotNode}))
      /\ g.ops_i \in Nat /\ g.data_i \in Nat
      /\ g.ops_i <= setup.max_ops /\ g.data_i <= setup.max_data
      /\ Laid(g.nodes, g.ops_i, g.data_i) /\ RoomOK(g.nodes, g.ops_i, g.data_i)
      /\ setup \in Setups /\ setup.max_ops \in Nat
  BY <1>1, SetupFacts, NodeSeqs DEF Inv, StorageOK, GraphOK
<1>3. g.ops_i < setup.max_ops
  BY <1>1, RoomForSnapshot
<1>4. ops \in Seq(Nat) /\ Len(ops) = 1 /\ ops[1] = SnapshotNode /\ SnapshotNode \in Nat
  <2>1. SnapshotNode \in Nat
    BY DEF SnapshotNode
  <2> QED  BY <2>1
<1> HIDE DEF ops, g
<1>5. storage' = a
  <2>1. Appends(append(g, ops, 0), g, ops, 0)
    <3>1. Len(ops) >= 1 /\ 0 \in Nat
      BY <1>4
    <3> QED  BY <1>2, <1>4, <3>1, AppendIs
  <2>2. PICK m \in 1 .. Len(ops) :
          append(g, ops, 0) = [nodes |-> Plus(g.nodes, SubSeq(ops, 1, m), 0),
                               ops_i |-> g.ops_i + m, data_i |-> g.data_i + 0]
    BY <1>2, <1>3, <2>1 DEF Appends
  <2>3. m = 1 /\ SubSeq(ops, 1, 1) = ops
    <3>1. m = 1
      BY <1>4
    <3> QED  BY <1>4, <3>1, AllOf
  <2> QED  BY <1>1, <2>2, <2>3 DEF g
<1>6. a.nodes = h /\ a.ops_i = g.ops_i + 1 /\ a.data_i = g.data_i
  BY <1>2
<1>7. /\ h \in Seq(Nodes) /\ Len(h) = Len(g.nodes) + 1
      /\ \A i \in 1 .. Len(g.nodes) : h[i] = g.nodes[i]
      /\ Len(g.nodes) \in Nat
  <2> DEFINE q == g.nodes
  <2>1. q \in Seq(Nodes) /\ 0 \in Nat
    BY <1>2
  <2> HIDE DEF q
  <2>2. /\ Plus(q, ops, 0) \in Seq(Nodes) /\ Len(Plus(q, ops, 0)) = Len(q) + 1
        /\ \A i \in 1 .. Len(q) : Plus(q, ops, 0)[i] = q[i]
    <3> DEFINE nd == [ops |-> ops, data |-> 0]
    <3>1. nd \in Nodes
      BY <1>4 DEF Nodes
    <3>2. Plus(q, ops, 0) = Append(q, nd)
      BY DEF Plus
    <3> HIDE DEF nd
    <3> QED  BY <2>1, <3>1, <3>2, AppendProperties
  <2>3. Len(q) \in Nat
    BY <2>1
  <2> QED  BY <2>2, <2>3 DEF q
<1>8. h \in Seq(PartNodes(NodeTypes \cup {SnapshotNode}))
  <2> DEFINE nd == [ops |-> ops, data |-> 0]
  <2>1. nd \in Nodes /\ nd.ops = ops /\ nd.data = 0
    BY <1>4 DEF Nodes
  <2>2. size(SnapshotNode) \in Nat /\ 0 \in get_node(SnapshotNode).data
    <3>1. size(SnapshotNode) \in Nat
      BY <1>2, NodeFacts
    <3>2. 0 \in get_node(SnapshotNode).data
      BY DEF get_node
    <3> QED  BY <3>1, <3>2
  <2>3. Len(ops) \in 1 .. 1 + size(SnapshotNode)
    BY <1>4, <2>2
  <2> HIDE DEF nd
  <2>4. nd \in PartNodes(NodeTypes \cup {SnapshotNode})
    BY <1>4, <2>1, <2>2, <2>3 DEF PartNodes
  <2>5. h = Append(g.nodes, nd)
    BY DEF Plus, nd
  <2> HIDE DEF h
  <2> QED  BY <1>2, <2>4, <2>5, AppendProperties
<1>9. SameOperands(g.nodes, h)
  <2> DEFINE q == g.nodes
  <2>1. q \in Seq(Nodes) /\ 0 \in Nat
    BY <1>2
  <2> HIDE DEF q
  <2>2. SameOperands(q, Plus(q, <<SnapshotNode>>, 0))
    BY <1>4, <2>1, PlusType
  <2> QED  BY <2>2 DEF q, ops
<1> HIDE DEF h
<1>10. StorageOK(a)
  <2>1. a \in [nodes : Seq(Nodes), ops_i : Nat, data_i : Nat]
    BY <1>2, <1>7
  <2>2. g.ops_i + 1 <= setup.max_ops
    BY <1>2, <1>3
  <2> HIDE DEF a
  <2> QED  BY <1>2, <1>6, <1>8, <2>1, <2>2 DEF StorageOK
<1>11. /\ ValuesOK(state) /\ (Plain => DOMAIN state = {})
       /\ Supported => Renames(state) /\ WellLinked(g.nodes)
       /\ Exact(g.nodes, state)
  BY <1>3 DEF Inv, StateOK, g
<1>12. StateOK(state, a)
  <2>1. Supported => WellLinked(h)
    BY <1>9, <1>11, SameGraph
  <2>2. Exact(h, state)
    BY <1>9, <1>11, SameGraph DEF Exact
  <2> HIDE DEF a
  <2> QED  BY <1>6, <1>11, <2>1, <2>2 DEF StateOK
<1> HIDE DEF a
<1>13. PrefixOK(snap, storage, todo) /\ snap # NoSnapshot /\ SnapOK(snap)
  BY <1>1 DEF Inv, PrefixOK
<1>14. ASSUME snap' = prepare_snapshot(snap, storage, state)
       PROVE  Behind(snap', a, state) /\ SnapOK(snap')
  <2>1. /\ snap = [entry |-> snap.entry, skip_nodes |-> snap.skip_nodes, skip_ops |-> snap.skip_ops,
                   skip_data |-> snap.skip_data, prefix |-> snap.prefix, state |-> snap.state]
        /\ setup.placement # "none" /\ snap.entry \in Entries
        /\ snap.skip_nodes \in 0 .. Len(snap.entry.nodes) - 1
        /\ setup.placement = "balanced" => ~ snap.entry.ops_used < snap.skip_nodes
    BY <1>13 DEF SnapOK, Overrun
  <2>2. snap' = [entry |-> snap.entry, skip_nodes |-> snap.skip_nodes, skip_ops |-> g.ops_i,
                 skip_data |-> g.data_i, prefix |-> Len(g.nodes), state |-> state]
    <3> DEFINE x == snap.entry
               y == snap.skip_nodes
               u == snap.skip_ops
               v == snap.skip_data
               w == snap.prefix
               z == snap.state
    <3>1. snap = [entry |-> x, skip_nodes |-> y, skip_ops |-> u, skip_data |-> v, prefix |-> w, state |-> z]
      BY <2>1
    <3>2. snap' = [snap EXCEPT !.skip_ops = g.ops_i, !.skip_data = g.data_i,
                               !.prefix = Len(g.nodes), !.state = state]
      BY <1>14 DEF prepare_snapshot, g
    <3> HIDE DEF x, y, u, v, w, z
    <3>3. snap' = [entry |-> x, skip_nodes |-> y, skip_ops |-> g.ops_i,
                   skip_data |-> g.data_i, prefix |-> Len(g.nodes), state |-> state]
      BY <3>1, <3>2
    <3> QED  BY <3>3 DEF x, y
  <2>3. /\ snap'.entry = snap.entry /\ snap'.skip_nodes = snap.skip_nodes
        /\ snap'.skip_ops = g.ops_i /\ snap'.skip_data = g.data_i
        /\ snap'.prefix = Len(g.nodes) /\ snap'.state = state
    BY <2>2
  <2>4. SnapOK(snap')
    BY <2>1, <2>2, <2>3 DEF SnapOK, Overrun
  <2>5. Kept(snap', a) = g.nodes
    <3> DEFINE q == g.nodes
               k == Len(q)
    <3>1. q \in Seq(Nodes) /\ h \in Seq(Nodes) /\ k \in 0 .. Len(q) /\ k <= Len(h)
          /\ \A i \in 1 .. k : q[i] = h[i]
      BY <1>2, <1>7
    <3> HIDE DEF q
    <3>2. SubSeq(q, 1, k) = q
      BY <3>1, AllOf
    <3>3. SubSeq(q, 1, k) = SubSeq(h, 1, k)
      <4> HIDE DEF k
      <4> QED  BY <3>1, FirstSame
    <3> QED  BY <1>6, <2>3, <3>2, <3>3 DEF Kept, q
  <2>6. /\ snap'.prefix \in 0 .. Len(a.nodes) /\ snap'.skip_ops \in 0 .. a.ops_i
        /\ snap'.skip_data \in 0 .. a.data_i
    BY <1>2, <1>6, <1>7, <2>3
  <2>7. ASSUME Supported
        PROVE  /\ snap'.prefix = snap'.skip_nodes
               /\ g.nodes = SubSeq(snap'.entry.nodes, 1, snap'.skip_nodes)
    <3> DEFINE e == snap.entry.nodes
               k == snap.skip_nodes
    <3>1. e \in Seq(WholeNodes) /\ Len(e) \in Nat
      BY <2>1, EntryFacts
    <3>2. k \in 0 .. Len(e) /\ k - 0 = k
      BY <2>1, <3>1
    <3>3. Len(todo) = 0
      BY <1>1
    <3>4. g.nodes = SubSeq(e, 1, k)
      BY <1>13, <2>7, <3>2, <3>3 DEF PrefixOK, PrefixSame, g
    <3> HIDE DEF e, k
    <3>5. Len(SubSeq(e, 1, k)) = k
      BY <3>1, <3>2, FirstOf
    <3> QED  BY <2>3, <3>4, <3>5 DEF e, k
  <2>8. Behind(snap', a, state)
    BY <1>2, <1>11, <2>3, <2>5, <2>6, <2>7 DEF Behind
  <2> QED  BY <2>4, <2>8
<1>15. SnapOK(NoSnapshot)
  BY DEF SnapOK
<1>16. SnapOK(snap') /\ (snap' # NoSnapshot => Behind(snap', storage', state'))
  BY <1>1, <1>5, <1>14, <1>15
<1>17. queue' \in SUBSET Entries /\ todo' = <<>> /\ todo' \in Seq(WorksOf(snap'))
  BY <1>1 DEF Inv
<1> QED  BY <1>1, <1>5, <1>10, <1>12, <1>16, <1>17, InvNext

\* delete_snapshot.
LEMMA DeleteStep ==
    ASSUME Inv, DeleteSnapshot
    PROVE  Inv'
<1>1. /\ phase = "idle" /\ snap' = NoSnapshot /\ setup' = setup /\ state' = state
      /\ storage' = storage /\ queue' = queue /\ todo' = todo /\ phase' = phase
  BY DEF DeleteSnapshot
<1>2. SnapOK(snap')
  BY <1>1 DEF SnapOK
<1>3. /\ StorageOK(storage') /\ StateOK(state', storage')
      /\ queue' \in SUBSET Entries /\ todo' = <<>> /\ todo' \in Seq(WorksOf(snap'))
  BY <1>1 DEF Inv
<1> QED  BY <1>1, <1>2, <1>3, InvNext

-----------------------------------------------------------------------------
(***************************************************************************)
(* The work, node by node.                                                 *)
(***************************************************************************)

\* A payload that is not full has room for data.
LEMMA NotFull ==
    ASSUME setup \in Setups, NEW g, g.data_i \in Nat, ~ is_full(g)
    PROVE  g.data_i < setup.max_data
<1>1. setup.biggest_data \in Nat /\ setup.max_data \in Nat
  BY SetupFacts
<1>2. ~ (setup.biggest_data >= setup.max_data - g.data_i)
  BY DEF is_full, data_available, biggest_data
<1> QED  BY <1>1, <1>2

\* What is left of the work.
LEMMA WorkLeft ==
    ASSUME Inv, todo # <<>>
    PROVE  /\ Head(todo) \in Works /\ Tail(todo) \in Seq(Works) /\ Head(todo) = todo[1]
           /\ Len(todo) \in Nat /\ Len(todo) >= 1 /\ Len(Tail(todo)) = Len(todo) - 1
           /\ \A i \in 1 .. Len(todo) - 1 : Tail(todo)[i] = todo[i + 1]
<1>1. todo \in Seq(Works)
  BY DEF Inv
<1>2. Len(todo) \in Nat /\ Len(todo) >= 1
  BY <1>1, EmptySeq
<1>3. Head(todo) \in Works /\ Head(todo) = todo[1] /\ Tail(todo) \in Seq(Works)
  BY <1>1, <1>2
<1>4. Len(Tail(todo)) = Len(todo) - 1 /\ \A i \in 1 .. Len(todo) - 1 : Tail(todo)[i] = todo[i + 1]
  BY <1>1, <1>2, HeadTailProperties
<1> QED  BY <1>2, <1>3, <1>4

\* A node to copy is whole.
LEMMA NodeToCopy ==
    ASSUME Inv, NEW nd \in WholeNodes
    PROVE  /\ nd \in Nodes /\ nd.ops[1] \in NodeTypes /\ nd.data \in get_node(nd.ops[1]).data
           /\ nd.ops \in Seq(Nat) /\ nd.data \in Nat /\ Len(nd.ops) = 1 + size(nd.ops[1])
           /\ size(nd.ops[1]) \in Nat
<1>1. /\ nd \in Nodes /\ nd.ops[1] \in NodeTypes /\ nd.data \in get_node(nd.ops[1]).data
      /\ Len(nd.ops) = 1 + size(nd.ops[1])
  BY DEF WholeNodes, PartNodes
<1>2. nd.ops \in Seq(Nat) /\ nd.data \in Nat
  BY <1>1 DEF Nodes
<1>3. setup \in Setups
  BY DEF Inv
<1>4. size(nd.ops[1]) \in Nat
  BY <1>1, <1>3, NodeFacts
<1> QED  BY <1>1, <1>2, <1>4

\* A step that adds nothing to a graph.
LEMMA NothingStep ==
    ASSUME Inv, phase = "build", setup' = setup, queue' = queue, snap' = snap, phase' = phase,
           state' = state, storage' = storage, todo' \in Seq(Works)
    PROVE  Inv'
<1>1. Grown(storage, storage, state, state)
  BY GrownSame
<1>2. Grown(storage, storage', state, state')
  BY <1>1
<1> QED  BY <1>2, GrownStep

\* While a prefix is copied, the next node to copy is the one behind the k nodes
\* that were looked at, and it is not the last of its graph.
PrefixNext(e, k) ==
    /\ e \in Seq(WholeNodes) /\ Len(e) \in Nat /\ k \in Nat /\ k + 1 < Len(e)
    /\ Head(todo) = Work("copy", FALSE, e[k + 1], 0)
    /\ e[k + 1] \in WholeNodes
    /\ PrefixFits(e, storage, k)
    /\ Supported => Plain /\ PrefixSame(e, storage, k)

\* The prefix's next node.
LEMMA PrefixWork ==
    ASSUME Inv, phase = "prefix", todo # <<>>
    PROVE  PrefixNext(snap.entry.nodes, snap.skip_nodes - Len(todo))
<1> DEFINE e == snap.entry.nodes
           k == snap.skip_nodes - Len(todo)
<1>1. /\ snap # NoSnapshot /\ Len(todo) <= snap.skip_nodes /\ PrefixLeft(e, todo, k)
      /\ PrefixFits(e, storage, k) /\ (Supported => PrefixSame(e, storage, k))
  BY DEF Inv, PrefixOK
<1>2. setup.placement # "none" /\ snap.entry \in Entries /\ snap.skip_nodes \in 0 .. Len(e) - 1
  BY <1>1 DEF Inv, SnapOK
<1>3. e \in Seq(WholeNodes) /\ Len(e) \in Nat
  BY <1>2, EntryFacts
<1>4. Len(todo) \in Nat /\ Len(todo) >= 1 /\ Head(todo) = todo[1]
  BY WorkLeft
<1>5. k \in Nat /\ k + 1 < Len(e)
  <2> DEFINE L == Len(e)
             t == Len(todo)
             s == snap.skip_nodes
  <2>1. L \in Nat /\ t \in Nat /\ t >= 1 /\ t <= s /\ s \in 0 .. L - 1
    BY <1>1, <1>2, <1>3, <1>4
  <2> HIDE DEF L, t, s
  <2>2. s - t \in Nat /\ s - t + 1 < L
    BY <2>1
  <2> QED  BY <2>2 DEF L, t, s
<1>6. Head(todo) = Work("copy", FALSE, e[k + 1], 0)
  <2>1. \A i \in 1 .. Len(todo) : todo[i] = Work("copy", FALSE, e[k + i], 0)
    BY <1>1 DEF PrefixLeft
  <2>2. 1 \in 1 .. Len(todo)
    BY <1>4
  <2> HIDE DEF e, k
  <2> QED  BY <1>4, <2>1, <2>2
<1>7. Supported => Plain
  BY <1>2 DEF Supported, Plain
<1> HIDE DEF e, k
<1>8. e[k + 1] \in WholeNodes
  BY <1>3, <1>5
<1>9. PrefixNext(e, k)
  BY <1>1, <1>3, <1>5, <1>6, <1>7, <1>8 DEF PrefixNext
<1> QED  BY <1>9 DEF e, k

\* The prefix after that node.
LEMMA PrefixMoves ==
    ASSUME Inv, phase = "prefix", todo # <<>>, NEW g,
           PrefixFits(snap.entry.nodes, g, snap.skip_nodes - Len(todo) + 1),
           Supported => PrefixSame(snap.entry.nodes, g, snap.skip_nodes - Len(todo) + 1)
    PROVE  PrefixOK(snap, g, Tail(todo))
<1> DEFINE e == snap.entry.nodes
           s == snap.skip_nodes
           t == Len(todo)
           td == Tail(todo)
<1>1. snap # NoSnapshot /\ t <= s /\ PrefixLeft(e, todo, s - t)
  BY DEF Inv, PrefixOK
<1>2. PrefixNext(e, s - t)
  BY PrefixWork
<1>3. s - t \in Nat
  BY <1>2 DEF PrefixNext
<1>4. /\ t \in Nat /\ t >= 1 /\ Len(td) = t - 1
      /\ \A i \in 1 .. t - 1 : td[i] = todo[i + 1]
  BY WorkLeft
<1>5. snap.skip_nodes \in Nat
  BY <1>1, EntryFacts DEF Inv, SnapOK
<1>6. PrefixFits(e, g, s - t + 1) /\ (Supported => PrefixSame(e, g, s - t + 1))
  OBVIOUS
<1>7. s \in Nat
  BY <1>5
<1>8. \A i \in 1 .. t : todo[i] = Work("copy", FALSE, e[s - t + i], 0)
  BY <1>1 DEF PrefixLeft
<1> HIDE DEF e, s, t, td
<1>9. s - Len(td) = s - t + 1 /\ Len(td) <= s
  BY <1>1, <1>4, <1>7
<1>10. PrefixLeft(e, td, s - t + 1)
  <2> SUFFICES ASSUME NEW i \in 1 .. Len(td)
               PROVE  td[i] = Work("copy", FALSE, e[s - t + 1 + i], 0)
    BY DEF PrefixLeft
  <2>1. i \in 1 .. t - 1 /\ i + 1 \in 1 .. t /\ s - t + (i + 1) = s - t + 1 + i
    BY <1>4, <1>7
  <2>2. td[i] = todo[i + 1]
    BY <1>4, <2>1
  <2>3. todo[i + 1] = Work("copy", FALSE, e[s - t + (i + 1)], 0)
    BY <1>8, <2>1
  <2> QED  BY <2>1, <2>2, <2>3
<1>11. PrefixOK(snap, g, td)
  <2>1. Len(td) <= snap.skip_nodes /\ snap.skip_nodes - Len(td) = s - t + 1
    BY <1>9 DEF s
  <2> QED  BY <1>1, <1>6, <1>10, <2>1 DEF PrefixOK, e
<1> QED  BY <1>11 DEF td

\* A node type of size 0 has no operands.
LEMMA NoOps ==
    ASSUME setup \in Setups, NEW n \in NodeTypes, size(n) = 0
    PROVE  get_node(n).inputs = <<>> /\ get_node(n).passthroughs = <<>> /\ get_node(n).outputs = <<>>
<1> DEFINE s == get_node(n)
<1>1. s \in NodeSpecs /\ size(n) = Len(s.inputs) + Len(s.passthroughs) + Len(s.outputs)
  BY NodeFacts
<1>2. /\ s.inputs \in Seq(ValueTypeIDs) /\ s.passthroughs \in Seq(ValueTypeIDs)
      /\ s.outputs \in Seq(ValueTypeIDs)
  BY <1>1 DEF NodeSpecs
<1> HIDE DEF s
<1>3. Len(s.inputs) \in Nat /\ Len(s.passthroughs) \in Nat /\ Len(s.outputs) \in Nat
  BY <1>2, LenProperties
<1>4. Len(s.inputs) = 0 /\ Len(s.passthroughs) = 0 /\ Len(s.outputs) = 0
  <2>1. \A a, b, c \in Nat : a + b + c = 0 => a = 0 /\ b = 0 /\ c = 0
    OBVIOUS
  <2> QED  BY <1>1, <1>3, <2>1
<1>5. s.inputs = <<>> /\ s.passthroughs = <<>> /\ s.outputs = <<>>
  BY <1>2, <1>4, EmptySeq
<1> QED  BY <1>5 DEF s

\* A node that is left out of the prefix takes no ops; if the specification has
\* no values, none is left out.
LEMMA LeftOutPrefix ==
    ASSUME Inv, NEW e, NEW k, PrefixNext(e, k), ~ can_append_node(e[k + 1])
    PROVE  PrefixFits(e, storage, k + 1) /\ ~ Supported
<1>1. /\ e \in Seq(WholeNodes) /\ Len(e) \in Nat /\ k \in Nat /\ k + 1 < Len(e)
      /\ e[k + 1] \in WholeNodes /\ PrefixFits(e, storage, k)
      /\ Supported => Plain /\ PrefixSame(e, storage, k)
  BY DEF PrefixNext
<1>2. /\ k \in 0 .. Len(e) /\ k + 1 \in 0 .. Len(e) /\ k + 1 \in 1 .. Len(e) /\ (k + 1) - 1 = k
      /\ k < k + 1 /\ k + 1 \in 0 .. Len(e) - 1 /\ k + 1 \in Nat
  BY <1>1
<1>3. storage.ops_i \in Nat /\ storage.data_i \in Nat /\ setup \in Setups
  BY DEF Inv, StorageOK
<1> DEFINE nd == e[k + 1]
<1>4. /\ nd.ops[1] \in NodeTypes /\ nd.data \in Nat /\ Len(nd.ops) = 1 + size(nd.ops[1])
      /\ size(nd.ops[1]) \in Nat
  BY <1>1, NodeToCopy
<1>5. PrefixFits(e, storage, k + 1)
  <2>1. PICK f \in OpsLayouts(e) : f[Len(e)] <= setup.max_ops /\ storage.ops_i <= f[k]
    BY <1>1 DEF PrefixFits
  <2>2. f[k] < f[k + 1]
    BY <1>1, <1>2, LayoutGrows
  <2>3. f[k] \in Nat /\ f[k + 1] \in Nat
    BY <1>2 DEF OpsLayouts
  <2>4. storage.ops_i <= f[k + 1]
    BY <1>3, <2>1, <2>2, <2>3
  <2> QED  BY <2>1, <2>4 DEF PrefixFits
<1>6. ASSUME Supported
      PROVE  FALSE
  <2>1. Plain /\ size(nd.ops[1]) = 0
    BY <1>1, <1>4, <1>6 DEF Plain
  <2>2. PICK f \in DataLayouts(e) : storage.data_i = f[k]
    BY <1>1, <1>6 DEF PrefixSame
  <2>3. f[k + 1] = f[k] + nd.data /\ f[k + 1] < setup.max_data
    BY <1>2 DEF DataLayouts
  <2>4. can_append(storage, nd)
    BY <2>2, <2>3 DEF can_append
  <2>5. is_available(state, nd.ops[1])
    <3> DEFINE n == nd.ops[1]
               s == get_node(n)
    <3>1. s.inputs = <<>> /\ s.passthroughs = <<>> /\ s.outputs = <<>>
      BY <1>3, <1>4, <2>1, NoOps
    <3>2. ValueTypes(n) = {}
      <4>1. ToSet(<<>> \o <<>> \o <<>>) = {}
        BY DEF ToSet
      <4> QED  BY <3>1, <4>1 DEF ValueTypes
    <3> QED  BY <3>2 DEF is_available
  <2> QED  BY <2>4, <2>5 DEF can_append_node
<1> QED  BY <1>5, <1>6

\* A node that is left out.
LEMMA LeaveOutStep ==
    ASSUME Inv, LeaveOut
    PROVE  Inv'
<1>1. /\ phase \in {"build", "prefix"} /\ todo # <<>> /\ ~ can_append_node(Head(todo).node)
      /\ todo' = Tail(todo) /\ setup' = setup /\ queue' = queue /\ snap' = snap /\ phase' = phase
      /\ state' = state /\ storage' = storage
  BY DEF LeaveOut, Working, Proceed
<1>2. Tail(todo) \in Seq(Works)
  BY <1>1, WorkLeft
<1>3. CASE phase = "build"
  BY <1>1, <1>2, <1>3, NothingStep
<1>4. CASE phase = "prefix"
  <2> DEFINE e == snap.entry.nodes
             k == snap.skip_nodes - Len(todo)
  <2>1. PrefixNext(e, k)
    BY <1>1, <1>4, PrefixWork
  <2>2. Head(todo).node = e[k + 1]
    BY <2>1 DEF PrefixNext, Work
  <2>3. PrefixFits(e, storage, k + 1) /\ ~ Supported
    <3>1. ~ can_append_node(e[k + 1])
      BY <1>1, <2>2
    <3> HIDE DEF e, k
    <3> QED  BY <2>1, <3>1, LeftOutPrefix
  <2>4. PrefixOK(snap, storage, Tail(todo))
    BY <1>1, <1>4, <2>3, PrefixMoves
  <2>5. PrefixOK(snap, storage', todo')
    BY <1>1, <2>4
  <2>6. /\ StorageOK(storage') /\ StateOK(state', storage')
        /\ queue' \in SUBSET Entries /\ todo' \in Seq(Works) /\ phase' = "prefix"
        /\ GraphOK(storage') /\ RoomOK(storage'.nodes, storage'.ops_i, storage'.data_i)
    BY <1>1, <1>2, <1>4 DEF Inv
  <2> QED  BY <1>1, <2>5, <2>6, InvSame
<1> QED  BY <1>1, <1>3, <1>4

\* The prefix is copied unchecked: there is nothing to give up, and nothing else
\* to do.
LEMMA OnlyInBuild ==
    ASSUME Inv, phase \in {"build", "prefix"}, todo # <<>>,
           Head(todo).checked \/ Head(todo).kind # "copy"
    PROVE  phase = "build"
<1> SUFFICES ASSUME phase = "prefix"
             PROVE  FALSE
  OBVIOUS
<1> DEFINE e == snap.entry.nodes
           k == snap.skip_nodes - Len(todo)
<1>1. PrefixNext(e, k)
  BY PrefixWork
<1>2. Head(todo).checked = FALSE /\ Head(todo).kind = "copy"
  BY <1>1 DEF PrefixNext, Work
<1> QED  BY <1>2

\* The rest of a mutation is given up.
LEMMA GiveUpStep ==
    ASSUME Inv, GiveUp
    PROVE  Inv'
<1>1. /\ phase \in {"build", "prefix"} /\ todo # <<>> /\ Head(todo).checked
      /\ todo' = <<>> /\ setup' = setup /\ queue' = queue /\ snap' = snap /\ phase' = phase
      /\ state' = state /\ storage' = storage
  BY DEF GiveUp, Working, Proceed, Stop
<1>2. phase = "build"
  BY <1>1, OnlyInBuild
<1>3. todo' \in Seq(Works)
  BY <1>1
<1> QED  BY <1>1, <1>2, <1>3, NothingStep

\* An assertion fails.
LEMMA FailStep ==
    ASSUME Inv, FailAssert
    PROVE  Inv'
<1>1. todo # <<>> /\ Head(todo).kind = "fail" /\ Panics
  BY DEF FailAssert, Working
<1>2. Overrun(snap)
  BY <1>1, WorkLeft DEF Works, WorksOf
<1> QED  BY <1>1, <1>2, PanicStep DEF Known

\* apply_graph_node drops a node, or generates others for it.
LEMMA DropStep ==
    ASSUME Inv, DropNode
    PROVE  Inv'
<1>1. PICK n \in 0 .. setup.max_generate :
        todo' = (IF n = 0 THEN <<>> ELSE Generate(n)) \o Tail(todo)
  BY DEF DropNode, Proceed
<1>2. /\ phase \in {"build", "prefix"} /\ todo # <<>> /\ Head(todo).kind = "pick"
      /\ setup' = setup /\ queue' = queue /\ snap' = snap /\ phase' = phase
      /\ state' = state /\ storage' = storage
  BY DEF DropNode, Working, Proceed
<1>3. phase = "build"
  BY <1>2, OnlyInBuild
<1>4. n \in Nat
  BY <1>1, SetupFacts DEF Inv
<1>5. Tail(todo) \in Seq(Works)
  BY <1>2, WorkLeft
<1>6. todo' \in Seq(Works)
  <2> DEFINE h == IF n = 0 THEN <<>> ELSE Generate(n)
  <2>1. h \in Seq(Works)
    BY <1>4, GenerateWorks
  <2> HIDE DEF h
  <2>2. h \o Tail(todo) \in Seq(Works)
    BY <1>5, <2>1, ConcatProperties
  <2> QED  BY <1>1, <2>2 DEF h
<1> QED  BY <1>2, <1>3, <1>6, NothingStep

\* append_random ends.
LEMMA GenerateEndsStep ==
    ASSUME Inv, GenerateEnds
    PROVE  Inv'
<1>1. /\ phase \in {"build", "prefix"} /\ todo # <<>> /\ Head(todo).kind = "generate"
      /\ todo' = Tail(todo) /\ setup' = setup /\ queue' = queue /\ snap' = snap /\ phase' = phase
      /\ state' = state /\ storage' = storage
  BY DEF GenerateEnds, Working, Proceed
<1>2. phase = "build"
  BY <1>1, OnlyInBuild
<1>3. todo' \in Seq(Works)
  BY <1>1, WorkLeft
<1> QED  BY <1>1, <1>2, <1>3, NothingStep

\* A node whose values are there is linked, and the payload continues with it.
LEMMA LinkGrows ==
    ASSUME Inv, phase \in {"build", "prefix"}, NEW n \in NodeTypes, is_available(state, n),
           NEW d \in get_node(n).data, storage.data_i < setup.max_data,
           storage.data_i + d <= setup.max_data, NEW frag, NEW o \in LinkAll(state, n, frag)
    PROVE  /\ o.ok => Grown(storage, append(storage, o.ops, d), state, o.st)
           /\ ~ o.ok => ~ Supported
           /\ o.ok => o.ops \in Seq(Nat) /\ Len(o.ops) = 1 + size(n)
           /\ size(n) = 0 => o.ops = <<n>>
<1>1. /\ setup \in Setups /\ StorageOK(storage) /\ GraphOK(storage) /\ StateOK(state, storage)
      /\ RoomOK(storage.nodes, storage.ops_i, storage.data_i)
  BY DEF Inv
<1> DEFINE g == storage.nodes
<1>2. g \in Seq(Nodes) /\ ValuesOK(state) /\ (Supported => Renames(state))
  BY <1>1 DEF StorageOK, StateOK
<1>3. d \in Nat /\ size(n) \in Nat
  <2>1. get_node(n) \in NodeSpecs /\ size(n) \in Nat
    BY <1>1, NodeFacts
  <2> QED  BY <2>1 DEF NodeSpecs
<1> HIDE DEF g
<1>4. /\ Outcome(o, state, g, d, n, size(n))
      /\ size(n) = 0 => o = [ok |-> TRUE, st |-> state, ops |-> <<n>>]
  BY <1>1, <1>2, <1>3, LinkOutcome
<1>5. size(n) = 0 => o.st = state /\ o.ops = <<n>>
  BY <1>4
<1>6. ~ o.ok => ~ Supported
  BY <1>2, <1>4 DEF Outcome
<1>7. o.ok => o.ops \in Seq(Nat) /\ Len(o.ops) = 1 + size(n)
  BY <1>3, <1>4 DEF Outcome
<1>8. Outcome(o, state, storage.nodes, d, n, size(n))
  BY <1>4 DEF g
<1>9. ASSUME o.ok
      PROVE  Grown(storage, append(storage, o.ops, d), state, o.st)
  BY <1>1, <1>5, <1>8, <1>9, AppendGrows
<1> QED  BY <1>5, <1>6, <1>7, <1>9

\* The prefix with the next node.
LEMMA PrefixGrows ==
    ASSUME Inv, phase = "prefix", NEW e, NEW k, PrefixNext(e, k), NEW ops \in Seq(Nat),
           Len(ops) = 1 + size(e[k + 1].ops[1]),
           size(e[k + 1].ops[1]) = 0 => ops = <<e[k + 1].ops[1]>>
    PROVE  LET a == append(storage, ops, e[k + 1].data)
           IN  PrefixFits(e, a, k + 1) /\ (Supported => PrefixSame(e, a, k + 1))
<1> DEFINE nd == e[k + 1]
           n == nd.ops[1]
           d == nd.data
           a == append(storage, ops, d)
           g == storage
<1>1. /\ e \in Seq(WholeNodes) /\ Len(e) \in Nat /\ k \in Nat /\ k + 1 < Len(e)
      /\ nd \in WholeNodes /\ PrefixFits(e, g, k)
      /\ Supported => Plain /\ PrefixSame(e, g, k)
  BY DEF PrefixNext
<1>2. /\ k \in 0 .. Len(e) /\ k + 1 \in 0 .. Len(e) /\ k + 1 \in 1 .. Len(e) /\ (k + 1) - 1 = k
      /\ k < k + 1 /\ Len(e) \in 0 .. Len(e) /\ k + 1 \in Nat /\ k < Len(e)
  BY <1>1
<1>3. /\ g \in [nodes : Seq(Nodes), ops_i : Nat, data_i : Nat] /\ setup \in Setups
      /\ g.ops_i \in Nat /\ g.data_i \in Nat /\ g.ops_i <= setup.max_ops /\ setup.max_ops \in Nat
  BY SetupFacts DEF Inv, StorageOK
<1>4. /\ nd \in Nodes /\ n \in NodeTypes /\ d \in Nat /\ Len(nd.ops) = 1 + size(n) /\ size(n) \in Nat
      /\ nd.ops \in Seq(Nat)
  BY <1>1, NodeToCopy
<1>5. Len(ops) = Len(nd.ops) /\ Len(ops) \in Nat /\ Len(ops) >= 1 /\ Len(nd.ops) \in Nat
  BY <1>4
<1>6. size(n) = 0 => ops = <<n>>
  OBVIOUS
<1> HIDE DEF nd, n, d, g
<1>7. Appends(append(g, ops, d), g, ops, d)
  BY <1>3, <1>4, <1>5, AppendIs
<1>8. a = append(g, ops, d)
  BY DEF g
<1> HIDE DEF a
<1>9. a.data_i = g.data_i + d
  BY <1>7, <1>8 DEF Appends
<1>10. a.ops_i \in Nat /\ a.ops_i <= g.ops_i + Len(ops)
  <2>1. CASE a = [nodes |-> g.nodes, ops_i |-> g.ops_i, data_i |-> g.data_i + d]
    <3>1. a.ops_i = g.ops_i
      BY <2>1
    <3> QED  BY <1>3, <1>5, <3>1
  <2>2. CASE \E m \in 1 .. Len(ops) :
               a = [nodes |-> Plus(g.nodes, SubSeq(ops, 1, m), d),
                    ops_i |-> g.ops_i + m, data_i |-> g.data_i + d]
    <3>1. PICK m \in 1 .. Len(ops) :
               a = [nodes |-> Plus(g.nodes, SubSeq(ops, 1, m), d),
                    ops_i |-> g.ops_i + m, data_i |-> g.data_i + d]
      BY <2>2
    <3>2. a.ops_i = g.ops_i + m
      BY <3>1
    <3>3. m \in Nat /\ m <= Len(ops)
      BY <1>5
    <3> QED  BY <1>3, <1>5, <3>2, <3>3
  <2> QED  BY <1>7, <1>8, <2>1, <2>2 DEF Appends
<1>11. PICK f \in OpsLayouts(e) : f[Len(e)] <= setup.max_ops /\ g.ops_i <= f[k]
  BY <1>1 DEF PrefixFits
<1>12. /\ f[k] \in Nat /\ f[k + 1] \in Nat /\ f[Len(e)] \in Nat
       /\ f[k + 1] = f[k] + Len(nd.ops)
  BY <1>2 DEF OpsLayouts, nd
<1>13. PrefixFits(e, a, k + 1)
  <2>1. a.ops_i <= f[k + 1]
    BY <1>3, <1>5, <1>10, <1>11, <1>12
  <2> QED  BY <1>11, <2>1 DEF PrefixFits
<1>14. g.ops_i < setup.max_ops
  <2>1. f[k] < f[Len(e)]
    BY <1>1, <1>2, LayoutGrows
  <2> QED  BY <1>3, <1>11, <1>12, <2>1
<1>15. ASSUME Supported
       PROVE  PrefixSame(e, a, k + 1)
  <2>1. size(n) = 0 /\ ops = <<n>> /\ Len(ops) = 1
    BY <1>1, <1>4, <1>6, <1>15 DEF Plain
  <2>2. PICK m \in 1 .. Len(ops) :
          a = [nodes |-> Plus(g.nodes, SubSeq(ops, 1, m), d),
               ops_i |-> g.ops_i + m, data_i |-> g.data_i + d]
    BY <1>3, <1>7, <1>8, <1>14 DEF Appends
  <2>3. m = 1 /\ SubSeq(ops, 1, 1) = ops
    <3>1. m = 1
      BY <2>1
    <3> QED  BY <2>1, <3>1, AllOf
  <2>4. nd = [ops |-> ops, data |-> d]
    <3>1. Len(nd.ops) = 1 /\ nd.ops[1] = n /\ nd.ops \in Seq(Nat)
      BY <1>4, <2>1 DEF n
    <3>2. nd.ops = <<n>>
      <4> DEFINE x == nd.ops
      <4>1. x \in Seq(Nat) /\ Len(x) = 1 /\ x[1] = n
        BY <3>1
      <4> HIDE DEF x
      <4>2. x = <<n>>
        BY <4>1
      <4> QED  BY <4>2 DEF x
    <3>3. nd = [ops |-> nd.ops, data |-> nd.data]
      BY <1>4 DEF Nodes
    <3> QED  BY <2>1, <3>2, <3>3 DEF d
  <2>5. a.nodes = Append(g.nodes, nd)
    BY <2>2, <2>3, <2>4 DEF Plus
  <2>6. g.nodes = SubSeq(e, 1, k) /\ \E y \in DataLayouts(e) : g.data_i = y[k]
    BY <1>1, <1>15 DEF PrefixSame
  <2>7. Append(SubSeq(e, 1, k), e[k + 1]) = SubSeq(e, 1, k + 1)
    <3> DEFINE x == SubSeq(e, 1, k)
               y == SubSeq(e, 1, k + 1)
               z == Append(x, e[k + 1])
    <3>1. x \in Seq(WholeNodes) /\ Len(x) = k /\ \A i \in 1 .. k : x[i] = e[i]
      BY <1>1, <1>2, FirstOf
    <3>2. y \in Seq(WholeNodes) /\ Len(y) = k + 1 /\ \A i \in 1 .. k + 1 : y[i] = e[i]
      BY <1>1, <1>2, FirstOf
    <3>3. e[k + 1] \in WholeNodes
      BY <1>1 DEF nd
    <3> HIDE DEF x, y
    <3>4. z \in Seq(WholeNodes) /\ Len(z) = k + 1 /\ z[k + 1] = e[k + 1]
          /\ \A i \in 1 .. k : z[i] = x[i]
      BY <3>1, <3>3, AppendProperties
    <3> HIDE DEF z
    <3>5. \A i \in 1 .. k + 1 : z[i] = y[i]
      BY <1>1, <3>1, <3>2, <3>4
    <3>6. z = y
      BY <3>2, <3>4, <3>5, SeqEqual
    <3> QED  BY <3>6 DEF x, y, z
  <2>8. a.nodes = SubSeq(e, 1, k + 1)
    BY <2>5, <2>6, <2>7 DEF nd
  <2>9. PICK y \in DataLayouts(e) : g.data_i = y[k]
    BY <2>6
  <2>10. y[k + 1] = y[k] + d
    BY <1>2 DEF DataLayouts, d, nd
  <2> QED  BY <1>9, <2>8, <2>9, <2>10 DEF PrefixSame
<1> QED  BY <1>13, <1>15 DEF a, d, nd

\* append_node, in a graph and in a prefix.
LEMMA AppendNodeStep ==
    ASSUME Inv, AppendNode
    PROVE  Inv'
<1> DEFINE nd == Head(todo).node
           n == nd.ops[1]
           d == nd.data
<1>1. /\ phase \in {"build", "prefix"} /\ todo # <<>> /\ Head(todo).kind \in {"copy", "pick"}
      /\ can_append_node(nd)
      /\ Appended(append_slice(state, nd), d, Tail(todo))
  BY DEF AppendNode, Working
<1>2. nd \in WholeNodes /\ Tail(todo) \in Seq(Works)
  BY <1>1, WorkLeft DEF Works, WorksOf
<1>3. /\ n \in NodeTypes /\ d \in get_node(n).data /\ d \in Nat
      /\ Len(nd.ops) = 1 + size(n) /\ size(n) \in Nat
  BY <1>2, NodeToCopy
<1>4. is_available(state, n) /\ storage.data_i + d < setup.max_data
  BY <1>1 DEF can_append_node, can_append
<1>5. storage.data_i \in Nat /\ setup.max_data \in Nat
  BY SetupFacts DEF Inv, StorageOK
<1>6. storage.data_i < setup.max_data /\ storage.data_i + d <= setup.max_data
  <2> HIDE DEF d
  <2> QED  BY <1>3, <1>4, <1>5
<1>7. PICK o \in LinkAll(state, n, nd.ops) :
        IF o.ok THEN /\ state' = o.st
                     /\ storage' = append(storage, o.ops, d)
                     /\ Proceed(Tail(todo))
        ELSE Panics
  BY <1>1 DEF Appended, append_slice
<1>8. /\ o.ok => Grown(storage, append(storage, o.ops, d), state, o.st)
      /\ ~ o.ok => ~ Supported
      /\ o.ok => o.ops \in Seq(Nat) /\ Len(o.ops) = 1 + size(n)
      /\ size(n) = 0 => o.ops = <<n>>
  <2> HIDE DEF n, d, nd
  <2> QED  BY <1>1, <1>3, <1>4, <1>6, <1>7, LinkGrows
<1>9. CASE ~ o.ok
  BY <1>7, <1>8, <1>9, PanicStep
<1>10. CASE o.ok
  <2>1. /\ state' = o.st /\ storage' = append(storage, o.ops, d)
        /\ todo' = Tail(todo) /\ setup' = setup /\ queue' = queue /\ snap' = snap /\ phase' = phase
    BY <1>7, <1>10 DEF Proceed
  <2>2. Grown(storage, storage', state, state')
    BY <1>8, <1>10, <2>1
  <2>3. todo' \in Seq(Works)
    BY <1>2, <2>1
  <2>4. CASE phase = "build"
    BY <2>1, <2>2, <2>3, <2>4, GrownStep
  <2>5. CASE phase = "prefix"
    <3> DEFINE e == snap.entry.nodes
               k == snap.skip_nodes - Len(todo)
    <3>1. PrefixNext(e, k)
      BY <1>1, <2>5, PrefixWork
    <3>2. nd = e[k + 1]
      BY <3>1 DEF PrefixNext, Work
    <3>3. PrefixFits(e, storage', k + 1) /\ (Supported => PrefixSame(e, storage', k + 1))
      <4>1. /\ Len(o.ops) = 1 + size(e[k + 1].ops[1])
            /\ size(e[k + 1].ops[1]) = 0 => o.ops = <<e[k + 1].ops[1]>>
            /\ storage' = append(storage, o.ops, e[k + 1].data)
        BY <1>8, <1>10, <2>1, <3>2
      <4> HIDE DEF e, k, nd
      <4> QED  BY <1>8, <1>10, <2>5, <3>1, <4>1, PrefixGrows
    <3>4. PrefixOK(snap, storage', Tail(todo))
      BY <1>1, <2>5, <3>3, PrefixMoves
    <3>5. PrefixOK(snap, storage', todo') /\ phase' = "prefix"
      BY <2>1, <2>5, <3>4
    <3>6. /\ StorageOK(storage') /\ StateOK(state', storage')
          /\ GraphOK(storage') /\ RoomOK(storage'.nodes, storage'.ops_i, storage'.data_i)
      BY <2>2 DEF Grown
    <3>7. queue' \in SUBSET Entries
      BY <2>1 DEF Inv
    <3> QED  BY <2>1, <2>3, <3>5, <3>6, <3>7, InvSame
  <2> QED  BY <1>1, <2>4, <2>5
<1> QED  BY <1>9, <1>10

\* A node type that takes and borrows nothing is always available.
LEMMA SourceAvailable ==
    ASSUME Sourced
    PROVE  pick_available_type # {}
<1>1. PICK n \in NodeTypes : get_node(n).inputs = <<>> /\ get_node(n).passthroughs = <<>>
  BY DEF Sourced
<1>2. \A v : Occurrences(v, <<>>) = 0
  <2> TAKE v
  <2> DEFINE none == <<>>
  <2>1. {i \in DOMAIN none : none[i] = v} = {}
    OBVIOUS
  <2> QED  BY <2>1, FS_EmptySet DEF Occurrences
<1>3. \A v : required_values(n, v) = 0
  BY <1>1, <1>2 DEF required_values
<1>4. is_available(state, n)
  BY <1>3 DEF is_available
<1> QED  BY <1>4 DEF pick_available_type

\* append_random_node.
LEMMA AppendRandomStep ==
    ASSUME Inv, AppendRandomNode
    PROVE  Inv'
<1>1. /\ phase \in {"build", "prefix"} /\ todo # <<>> /\ Head(todo).kind = "generate"
      /\ Head(todo).n > 0 /\ ~ is_full(storage)
  BY DEF AppendRandomNode, Working
<1>2. phase = "build"
  BY <1>1, OnlyInBuild
<1>3. setup \in Setups /\ storage.data_i \in Nat /\ setup.max_data \in Nat
  BY SetupFacts DEF Inv, StorageOK
<1>4. storage.data_i < setup.max_data
  BY <1>1, <1>3, NotFull
<1>5. Generated \in Seq(Works)
  <2> DEFINE h == Head(todo)
             w == [h EXCEPT !.n = @ - 1]
  <2>1. h \in Works /\ Tail(todo) \in Seq(Works) /\ h.kind = "generate" /\ h.n > 0
    BY <1>1, WorkLeft
  <2>2. h \in [kind : {"copy", "pick", "generate", "fail"}, checked : BOOLEAN, node : Nodes, n : Nat]
    BY <2>1 DEF Works, WorksOf
  <2>3. w \in [kind : {"copy", "pick", "generate", "fail"}, checked : BOOLEAN, node : Nodes, n : Nat]
        /\ w.kind = "generate"
    <3> HIDE DEF h
    <3> QED  BY <2>1, <2>2
  <2> HIDE DEF w
  <2>4. w \in Works
    BY <2>3 DEF Works, WorksOf
  <2>5. <<w>> \in Seq(Works)
    BY <2>4
  <2>6. <<w>> \o Tail(todo) \in Seq(Works)
    BY <2>1, <2>5, ConcatProperties
  <2> QED  BY <2>6 DEF Generated, w
<1>6. CASE pick_available_type = {}
  <2>1. Panics
    BY <1>6 DEF AppendRandomNode
  <2>2. ~ Sourced
    BY <1>6, SourceAvailable
  <2> QED  BY <2>1, <2>2, PanicStep
<1>7. CASE pick_available_type # {}
  <2>1. PICK n \in pick_available_type :
          IF can_generate_node(n)
          THEN \E data \in {x \in get_node(n).data : x <= data_available(storage)} :
                 Appended(append_random_ops(state, n), data, Generated)
          ELSE Proceed(Generated) /\ UNCHANGED <<state, storage>>
    BY <1>7 DEF AppendRandomNode
  <2>2. n \in NodeTypes /\ is_available(state, n)
    BY DEF pick_available_type
  <2>3. CASE ~ can_generate_node(n)
    <3>1. /\ todo' = Generated /\ setup' = setup /\ queue' = queue /\ snap' = snap
          /\ phase' = phase /\ state' = state /\ storage' = storage
      BY <2>1, <2>3 DEF Proceed
    <3> QED  BY <1>2, <1>5, <3>1, NothingStep
  <2>4. CASE can_generate_node(n)
    <3>1. PICK d \in {x \in get_node(n).data : x <= data_available(storage)} :
             Appended(append_random_ops(state, n), d, Generated)
      BY <2>1, <2>4
    <3>2. d \in get_node(n).data /\ d \in Nat /\ storage.data_i + d <= setup.max_data
      <4>1. get_node(n) \in NodeSpecs
        BY <1>3, <2>2, NodeFacts
      <4>2. d \in get_node(n).data /\ d <= setup.max_data - storage.data_i
        BY DEF data_available
      <4>3. d \in Nat
        BY <4>1, <4>2 DEF NodeSpecs
      <4> QED  BY <1>3, <4>2, <4>3
    <3>3. PICK o \in LinkAll(state, n, <<>>) :
            IF o.ok THEN /\ state' = o.st
                         /\ storage' = append(storage, o.ops, d)
                         /\ Proceed(Generated)
            ELSE Panics
      BY <3>1 DEF Appended, append_random_ops
    <3>4. /\ o.ok => Grown(storage, append(storage, o.ops, d), state, o.st)
          /\ ~ o.ok => ~ Supported
      BY <1>2, <1>4, <2>2, <3>2, <3>3, LinkGrows
    <3>5. CASE ~ o.ok
      BY <3>3, <3>4, <3>5, PanicStep
    <3>6. CASE o.ok
      <4>1. /\ state' = o.st /\ storage' = append(storage, o.ops, d)
            /\ todo' = Generated /\ setup' = setup /\ queue' = queue /\ snap' = snap
            /\ phase' = phase
        BY <3>3, <3>6 DEF Proceed
      <4>2. Grown(storage, storage', state, state')
        BY <3>4, <3>6, <4>1
      <4> QED  BY <1>2, <1>5, <4>1, <4>2, GrownStep
    <3> QED  BY <3>5, <3>6
  <2> QED  BY <2>3, <2>4
<1> QED  BY <1>6, <1>7

\* The graph is forgotten.
LEMMA FinishStep ==
    ASSUME Inv, Finish
    PROVE  Inv'
<1>1. /\ phase = "build" /\ phase' = "idle" /\ setup' = setup /\ state' = state
      /\ storage' = storage /\ snap' = snap /\ todo = <<>> /\ todo' = todo /\ queue' = queue
  BY DEF Finish
<1>2. /\ StorageOK(storage') /\ StateOK(state', storage')
      /\ queue' \in SUBSET Entries /\ todo' \in Seq(Works)
      /\ snap # NoSnapshot => Behind(snap, storage', state')
  BY <1>1 DEF Inv
<1> QED  BY <1>1, <1>2, InvSame

\* The graphs that can be iterated over are those of whole nodes.
LEMMA IterableWhole ==
    ASSUME NEW q \in Seq(PartNodes(NodeTypes))
    PROVE  Iterable(q) <=> q \in Seq(WholeNodes)
<1>1. Len(q) \in Nat /\ DOMAIN q = 1 .. Len(q) /\ \A i \in 1 .. Len(q) : q[i] \in PartNodes(NodeTypes)
  OBVIOUS
<1>2. ASSUME Iterable(q)
      PROVE  q \in Seq(WholeNodes)
  <2>1. \A i \in 1 .. Len(q) : q[i] \in WholeNodes
    BY <1>1, <1>2 DEF Iterable, WholeNodes
  <2> QED  BY <1>1, <2>1, SeqDef
<1>3. ASSUME q \in Seq(WholeNodes)
      PROVE  Iterable(q)
  <2>1. \A i \in 1 .. Len(q) : q[i] \in WholeNodes
    BY <1>3
  <2> QED  BY <1>1, <2>1 DEF Iterable, WholeNodes
<1> QED  BY <1>2, <1>3

\* The graph is added to the queue.
LEMMA KeepStep ==
    ASSUME Inv, Keep
    PROVE  Inv'
<1> DEFINE q == storage.nodes
<1>1. phase = "build"
  BY DEF Keep
<1>2. /\ q \in Seq(PartNodes(NodeTypes)) /\ Laid(q, storage.ops_i, storage.data_i)
      /\ RoomOK(q, storage.ops_i, storage.data_i) /\ q \in Seq(Nodes)
      /\ storage.ops_i \in Nat /\ storage.data_i \in Nat
      /\ storage.ops_i <= setup.max_ops /\ storage.data_i <= setup.max_data
      /\ setup.max_ops \in Nat /\ setup.max_data \in Nat
  BY <1>1, SetupFacts DEF Inv, StorageOK, GraphOK
<1>3. CASE ~ Iterable(q)
  <2>1. Panics
    BY <1>3 DEF Keep
  <2>2. ~ Roomy
    BY <1>2, <1>3, IterableWhole DEF RoomOK, Roomy
  <2> QED  BY <1>3, <2>1, <2>2, PanicStep DEF Known
<1>4. CASE Iterable(q)
  <2>1. /\ phase' = "idle" /\ setup' = setup /\ state' = state /\ storage' = storage
        /\ snap' = snap /\ todo = <<>> /\ todo' = todo
        /\ \E used \in OpsUsed(q) : queue' = queue \cup {[nodes |-> q, ops_used |-> used]}
    BY <1>4 DEF Keep
  <2>2. PICK used \in 0 .. Len(q) : queue' = queue \cup {[nodes |-> q, ops_used |-> used]}
    BY <2>1 DEF OpsUsed
  <2>3. Len(q) \in Nat /\ used \in Nat /\ used <= Len(q) /\ q \in Seq(WholeNodes)
    <3>1. Len(q) \in Nat
      BY <1>2, LenProperties
    <3> QED  BY <1>2, <1>4, <2>2, <3>1, IterableWhole
  <2>4. [nodes |-> q, ops_used |-> used] \in Entries
    <3> HIDE DEF q
    <3>1. Laid(q, storage.ops_i, setup.max_data)
      <4> DEFINE w == storage.data_i
                 u == storage.ops_i
                 x == setup.max_data
      <4>1. w \in Nat /\ x \in Nat /\ w <= x /\ Laid(q, u, w)
        BY <1>2
      <4> HIDE DEF w, u, x
      <4>2. Laid(q, u, x)
        BY <1>2, <4>1, LaidMore
      <4> QED  BY <4>2 DEF u, x
    <3>2. storage.ops_i \in 0 .. setup.max_ops
      BY <1>2
    <3> DEFINE y == [nodes |-> q, ops_used |-> used]
    <3>3. y.nodes = q /\ y.ops_used = used /\ y \in [nodes : Seq(WholeNodes), ops_used : Nat]
      BY <2>3
    <3> HIDE DEF y
    <3>4. y \in Entries
      BY <2>3, <3>1, <3>2, <3>3 DEF Entries
    <3> QED  BY <3>4 DEF y
  <2>5. queue' \in SUBSET Entries
    BY <2>2, <2>4 DEF Inv
  <2>6. /\ StorageOK(storage') /\ StateOK(state', storage')
        /\ todo' \in Seq(Works)
        /\ snap # NoSnapshot => Behind(snap, storage', state')
    BY <1>1, <2>1 DEF Inv
  <2> QED  BY <2>1, <2>5, <2>6, InvSame
<1> QED  BY <1>3, <1>4

-----------------------------------------------------------------------------
(***************************************************************************)
(* The invariant, and what follows from it.                                *)
(***************************************************************************)

\* The invariant holds at the start,
LEMMA InitInv ==
    Init => Inv
<1> SUFFICES ASSUME Init
             PROVE  Inv
  OBVIOUS
<1> DEFINE none == <<>>
           g == EmptyStorage
<1>1. /\ setup \in Setups /\ state = Empty /\ storage = g /\ queue = {} /\ snap = NoSnapshot
      /\ todo = none /\ phase = "idle"
  BY DEF Init
<1>2. g.nodes = none /\ g.ops_i = 0 /\ g.data_i = 0 /\ g = [nodes |-> none, ops_i |-> 0, data_i |-> 0]
  BY DEF EmptyStorage
<1>3. \A S : none \in Seq(S)
  OBVIOUS
<1>4. Operands(none) = {}
  BY DEF Operands
<1>5. StorageOK(g)
  <2>1. g \in [nodes : Seq(Nodes), ops_i : Nat, data_i : Nat]
    BY <1>2, <1>3
  <2>2. setup.max_ops \in Nat /\ setup.max_data \in Nat
    BY <1>1, SetupFacts
  <2> QED  BY <1>2, <1>3, <2>1, <2>2 DEF StorageOK
<1>6. StateOK(state, g)
  <2>1. DOMAIN state = {}
    BY <1>1 DEF Empty
  <2>2. ValuesOK(state) /\ Renames(state)
    BY <2>1 DEF ValuesOK, Renames
  <2>3. \A v : get_random_input(get_state(state, v)) = {}
    BY <2>1, NewValue DEF get_state
  <2>4. Exact(none, state) /\ WellLinked(none)
    BY <1>4, <2>3, NoOperands DEF Exact
  <2> HIDE DEF none, g
  <2> QED  BY <1>2, <2>1, <2>2, <2>4 DEF StateOK
<1>7. SnapOK(NoSnapshot)
  BY DEF SnapOK
<1>8. todo \in Seq(Works)
  BY <1>1, <1>3
<1>9. todo = <<>>
  BY <1>1
<1> HIDE DEF g, none
<1> QED  BY <1>1, <1>5, <1>6, <1>7, <1>8, <1>9 DEF Inv

\* and every step preserves it.
LEMMA NextInv ==
    Inv /\ [Next]_vars => Inv'
<1> SUFFICES ASSUME Inv, [Next]_vars
             PROVE  Inv'
  OBVIOUS
<1>1. CASE PerformGen \/ PerformHavoc \/ PerformMin \/ PerformImport
  BY <1>1, PerformStep
<1>2. CASE PrepareSnapshot
  BY <1>2, PrepareStep
<1>3. CASE SnapshotCreated
  BY <1>3, CreatedStep
<1>4. CASE DeleteSnapshot
  BY <1>4, DeleteStep
<1>5. CASE GiveUp \/ FailAssert
  BY <1>5, GiveUpStep, FailStep
<1>6. CASE AppendNode
  BY <1>6, AppendNodeStep
<1>7. CASE LeaveOut
  BY <1>7, LeaveOutStep
<1>8. CASE DropNode
  BY <1>8, DropStep
<1>9. CASE GenerateEnds
  BY <1>9, GenerateEndsStep
<1>10. CASE AppendRandomNode
  BY <1>10, AppendRandomStep
<1>11. CASE Finish
  BY <1>11, FinishStep
<1>12. CASE Keep
  BY <1>12, KeepStep
<1>13. CASE UNCHANGED vars
  <2>1. /\ setup' = setup /\ state' = state /\ storage' = storage /\ queue' = queue
        /\ snap' = snap /\ todo' = todo /\ phase' = phase
    BY <1>13 DEF vars
  <2>2. /\ StorageOK(storage') /\ StateOK(state', storage')
        /\ queue' \in SUBSET Entries /\ todo' \in Seq(Works) /\ (phase' = "idle" => todo' = <<>>)
        /\ phase' \in {"idle", "build", "prefix", "panicked"}
    BY <2>1 DEF Inv
  <2>3. /\ phase' \in {"build", "prefix"} =>
             GraphOK(storage') /\ RoomOK(storage'.nodes, storage'.ops_i, storage'.data_i)
        /\ phase' \in {"idle", "build"} /\ snap # NoSnapshot => Behind(snap, storage', state')
        /\ phase' = "prefix" => PrefixOK(snap, storage', todo')
    BY <2>1 DEF Inv
  <2>4. phase' = "panicked" /\ Supported /\ Sourced => Known(storage', snap)
    BY <2>1 DEF Inv
  <2> QED  BY <2>1, <2>2, <2>3, <2>4, InvSame
<1> QED  BY <1>1, <1>2, <1>3, <1>4, <1>5, <1>6, <1>7, <1>8, <1>9, <1>10, <1>11, <1>12, <1>13
         DEF Next

\* The invariant holds.
THEOREM Invariance ==
    Spec => []Inv
BY InitInv, NextInv, PTL DEF Spec

\* Nodes of a payload, and of a graph of the queue.
LEMMA NodesIn ==
    ASSUME NEW q \in Seq(PartNodes(NodeTypes \cup {SnapshotNode}))
    PROVE  NodeIn(q)
<1>1. \A i \in DOMAIN q : q[i] \in PartNodes(NodeTypes \cup {SnapshotNode})
  OBVIOUS
<1> QED  BY <1>1 DEF NodeIn, PartNodes

\* Every variable has its type: ids are in range, nodes have a type of the
\* specification with at most its ops and data of a length it allows, the payload
\* has no more ops than there are, and there is a node of the entry behind a snapshot.
THEOREM TypeCorrect ==
    Spec => []TypeOK
<1>1. Inv => TypeOK
  <2> SUFFICES ASSUME Inv
               PROVE  TypeOK
    OBVIOUS
  <2>1. \A v \in DOMAIN state : state[v].cur \in Nat /\ state[v].ids \in Seq(1 .. state[v].cur)
    BY DEF Inv, StateOK, ValuesOK, IsValue
  <2>2. storage.nodes \in Seq(PartNodes(NodeTypes \cup {SnapshotNode}))
    BY DEF Inv, StorageOK
  <2>3. NodeIn(storage.nodes)
    BY <2>2, NodesIn
  <2>4. storage.ops_i \in 0 .. setup.max_ops
    BY SetupFacts DEF Inv, StorageOK
  <2>5. ASSUME NEW entry \in queue
        PROVE  NodeIn(entry.nodes) /\ entry.ops_used \in 0 .. Len(entry.nodes)
    <3>1. entry \in Entries
      BY DEF Inv
    <3>2. entry.nodes \in Seq(WholeNodes) /\ entry.ops_used \in 0 .. Len(entry.nodes)
      BY <3>1, EntryFacts
    <3>3. entry.nodes \in Seq(PartNodes(NodeTypes \cup {SnapshotNode}))
      BY <3>2, NodeSeqs
    <3> QED  BY <3>2, <3>3, NodesIn
  <2>6. snap # NoSnapshot => snap.skip_nodes \in 0 .. Len(snap.entry.nodes) - 1
    BY DEF Inv, SnapOK
  <2>7. setup \in Setups /\ phase \in {"idle", "build", "prefix", "panicked"}
    BY DEF Inv
  <2> QED  BY <2>1, <2>3, <2>4, <2>5, <2>6, <2>7 DEF TypeOK
<1> QED  BY <1>1, Invariance, PTL

\* The vector, its index and the renamings of every type agree, so that
\* take_new_input removes the id it was asked for and no renaming outlives its
\* value.
THEOREM ValuesAgree ==
    Spec => []ValuesConsistent
<1>1. Inv => ValuesConsistent
  BY DEF Inv, StateOK, ValuesOK, Renames, IsValue, ValuesConsistent
<1> QED  BY <1>1, Invariance, PTL

\* While the payload has ops left, the ids the builder offers are those the graph
\* in the payload offers and does not take: through clear, reset_to, renaming and
\* every taken input.
THEOREM AvailableIsExact ==
    Spec => []AvailableExact
<1>1. Inv => AvailableExact
  <2> SUFFICES ASSUME Inv, storage.ops_i < setup.max_ops, NEW v \in DOMAIN state
               PROVE  get_random_input(state[v]) = Untaken(storage.nodes, v)
    BY DEF AvailableExact
  <2>1. Exact(storage.nodes, state) /\ v \in ValueTypeIDs
    BY DEF Inv, StateOK, ValuesOK
  <2> QED  BY <2>1 DEF Exact, get_state
<1> QED  BY <1>1, Invariance, PTL

\* Every value a node takes or borrows was offered by an earlier node and has not
\* been taken since, also in a graph that ran out of ops.
THEOREM LinksAreValid ==
    Spec => []LinksValid
<1>1. Inv => LinksValid
  BY DEF Inv, StateOK, LinksValid
<1> QED  BY <1>1, Invariance, PTL

\* Data never outgrows its half of the payload, and behind a prefix there is
\* always an op for the node that creates the snapshot.
THEOREM PayloadHasRoom ==
    Spec => []PayloadFits
<1>1. Inv => PayloadFits
  <2> SUFFICES ASSUME Inv
               PROVE  PayloadFits
    OBVIOUS
  <2>1. /\ storage.data_i <= setup.max_data /\ storage.ops_i \in Nat
        /\ setup.max_ops \in Nat
    BY SetupFacts DEF Inv, StorageOK
  <2>2. phase = "prefix" /\ todo = <<>> => storage.ops_i < setup.max_ops
    BY RoomForSnapshot
  <2>3. phase = "prefix" /\ todo = <<>> => setup.max_ops - storage.ops_i >= 1
    BY <2>1, <2>2
  <2> QED  BY <2>1, <2>3 DEF PayloadFits, ops_available
<1> QED  BY <1>1, Invariance, PTL

\* In a specification that is supported, the payload behind a snapshot begins with
\* exactly the nodes of the entry that were executed before it, whatever was
\* built on it since.
THEOREM PrefixStays ==
    Spec => [](Supported => PrefixIsInput)
<1>1. Inv => (Supported => PrefixIsInput)
  <2> SUFFICES ASSUME Inv, Supported, phase \in {"idle", "build"}, snap # NoSnapshot
               PROVE  /\ snap.prefix = snap.skip_nodes
                      /\ take(storage.nodes, snap.skip_nodes) = take(snap.entry.nodes, snap.skip_nodes)
    BY DEF PrefixIsInput
  <2> DEFINE k == snap.skip_nodes
             q == storage.nodes
             e == snap.entry.nodes
  <2>1. /\ Behind(snap, storage, state) /\ snap.entry \in Entries
        /\ k \in 0 .. Len(e) - 1
    BY DEF Inv, SnapOK
  <2>2. /\ snap.prefix = k /\ k \in 0 .. Len(q)
        /\ SubSeq(q, 1, k) = SubSeq(e, 1, k)
    BY <2>1 DEF Behind, Kept
  <2>3. e \in Seq(Nodes) /\ Len(e) \in Nat
    BY <2>1, EntryFacts
  <2>4. q \in Seq(Nodes)
    BY DEF Inv, StorageOK
  <2>5. Len(q) \in Nat
    BY <2>4, LenProperties
  <2>6. k \in Nat /\ k <= Len(q) /\ k <= Len(e)
    BY <2>1, <2>2, <2>3, <2>5
  <2> HIDE DEF k, q, e
  <2>7. take(q, k) = SubSeq(q, 1, k)
    BY <2>4, <2>6, TakeNodes
  <2>8. take(e, k) = SubSeq(e, 1, k)
    BY <2>3, <2>6, TakeNodes
  <2> QED  BY <2>2, <2>7, <2>8 DEF k, q, e
<1> QED  BY <1>1, Invariance, PTL

\* A specification without values has a node type that needs none.
LEMMA PlainSourced ==
    ASSUME setup \in Setups, Plain
    PROVE  Sourced
<1>1. 1 \in NodeTypes
  BY SetupFacts DEF NodeTypes
<1>2. size(1) = 0
  BY <1>1 DEF Plain
<1>3. get_node(1).inputs = <<>> /\ get_node(1).passthroughs = <<>>
  BY <1>1, <1>2, NoOps
<1> QED  BY <1>1, <1>3 DEF Sourced

\* Only aggressive placement puts a snapshot behind what the guest executed.
LEMMA AggressiveOverruns ==
    ASSUME Inv, Overrun(snap)
    PROVE  setup.placement = "aggressive"
<1>1. snap # NoSnapshot
  BY DEF Overrun, NoSnapshot
<1>2. setup.placement # "none" /\ setup.placement # "balanced"
  BY <1>1 DEF Inv, SnapOK
<1> QED  BY <1>2, SetupFacts DEF Inv

\* While it builds a graph the fuzzing thread panics only at a node that was cut
\* short when the payload ran out of ops, or in a mutation of an entry whose
\* snapshot lies behind what the guest executed.
THEOREM OnlyKnownPanics ==
    Spec => []NoPanic
<1>1. Inv => NoPanic
  BY DEF Inv, NoPanic, Known
<1> QED  BY <1>1, Invariance, PTL

\* In a specification without values, such as those of packets, and where the data
\* of a payload is full before its ops are and a node type needs no value, only
\* the second is left, and only aggressive placement leads to it: with balanced
\* placement, and without snapshots, the fuzzing thread never panics.
THEOREM OnlyAggressivePanics ==
    Spec => [](/\ Supported /\ phase = "panicked"
               /\ Plain \/ (Roomy /\ Sourced)
               => setup.placement = "aggressive" /\ Overrun(snap))
<1>1. Inv => (/\ Supported /\ phase = "panicked"
              /\ Plain \/ (Roomy /\ Sourced)
              => setup.placement = "aggressive" /\ Overrun(snap))
  <2> SUFFICES ASSUME Inv, Plain \/ (Roomy /\ Sourced), Supported, phase = "panicked"
               PROVE  setup.placement = "aggressive" /\ Overrun(snap)
    OBVIOUS
  <2>1. CASE Roomy /\ Sourced
    <3>1. Overrun(snap)
      BY <2>1 DEF Inv, Known
    <3> QED  BY <3>1, AggressiveOverruns
  <2>2. CASE Plain
    <3>1. setup \in Setups /\ storage.nodes \in Seq(PartNodes(NodeTypes \cup {SnapshotNode}))
      BY DEF Inv, StorageOK
    <3>2. Iterable(storage.nodes) /\ Sourced
      BY <2>2, <3>1, PlainLinked, PlainSourced
    <3>3. Overrun(snap)
      BY <3>2 DEF Inv, Known
    <3> QED  BY <3>3, AggressiveOverruns
  <2> QED  BY <2>1, <2>2
<1> QED  BY <1>1, Invariance, PTL
=============================================================================
