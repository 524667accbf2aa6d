------------------------ MODULE VehicleStore_proofs ------------------------
(***************************************************************************)
(* Proofs about VehicleStore for all sets of vessel types, columns, values *)
(* and requests.                                                           *)
(***************************************************************************)
EXTENDS VehicleStore, FiniteSetTheorems, TLAPS

\* Only a forced POST updates; a DELETE that answered 204 is done, and one
\* that has found a vehicle knows its type.
Checked ==
    /\ \A p \in Posts : post[p].pc = "update" => ~Unforced(p)
    /\ \A d \in Deletes :
         /\ delete[d].pc = "found" => delete[d].type \in Types
         /\ delete[d].code = 204 => delete[d].pc = "done"

TypeInv == TypeOK /\ Checked

\* The rows that are written satisfy the constraints of the table.
LEMMA RowsWritten ==
    ASSUME NEW b \in Body
    PROVE  /\ Required \subseteq DOMAIN b.given => NewRow(b.given) \in Row
           /\ \A row \in Row : Merged(row, b.given) \in Row
<1>1. PICK S \in SUBSET Fields : b.given \in [S -> Values]
  BY DEF Body
<1>2. DOMAIN b.given = S /\ \A f \in S : b.given[f] \in Values
  BY <1>1
<1>3. ASSUME Required \subseteq DOMAIN b.given
      PROVE  NewRow(b.given) \in Row
  <2>1. NewRow(b.given) \in [Fields -> Values \cup {Null}]
    BY <1>2 DEF NewRow
  <2>2. \A f \in Required : NewRow(b.given)[f] = b.given[f]
    BY <1>2, <1>3, RequiredAssumption DEF NewRow, RequiredAssumption
  <2> QED
    BY <1>2, <1>3, <2>1, <2>2, NullAssumption DEF Row
<1>4. ASSUME NEW row \in Row
      PROVE  Merged(row, b.given) \in Row
  <2>1. Merged(row, b.given) \in [Fields -> Values \cup {Null}]
    BY <1>2 DEF Merged, Row
  <2>2. \A f \in Required :
          \/ f \in S /\ Merged(row, b.given)[f] = b.given[f]
          \/ Merged(row, b.given)[f] = row[f]
    BY <1>2, RequiredAssumption DEF Merged, RequiredAssumption
  <2>3. \A f \in Required : Merged(row, b.given)[f] # Null
    BY <1>2, <2>2, NullAssumption DEF Row
  <2> QED
    BY <2>1, <2>3 DEF Row
<1> QED
  BY <1>3, <1>4

LEMMA AnswerPostType ==
    ASSUME TypeOK, NEW p \in Posts, NEW code \in PostCode,
           AnswerPost(p, code)
    PROVE  /\ post' \in [Posts -> PostState]
           /\ post'[p].pc = "done" /\ post'[p].code = code
           /\ \A q \in Posts : q # p => post'[q] = post[q]
           /\ \A q \in Posts : post'[q].body = post[q].body
<1> DEFINE s == [post[p] EXCEPT !.pc = "done", !.code = code]
<1>1. post[p] \in PostState
  BY DEF TypeOK
<1>2. s \in PostState /\ s.pc = "done" /\ s.code = code /\ s.body = post[p].body
  BY <1>1 DEF PostState
<1>3. post' = [post EXCEPT ![p] = s]
  BY DEF AnswerPost, TypeOK
<1> HIDE DEF s
<1> QED
  BY <1>2, <1>3 DEF TypeOK, PostState

LEMMA GotoPostType ==
    ASSUME TypeOK, NEW p \in Posts, NEW pc \in {"update", "create"},
           GotoPost(p, pc)
    PROVE  /\ post' \in [Posts -> PostState]
           /\ post'[p].pc = pc /\ post'[p].code = post[p].code
           /\ \A q \in Posts : q # p => post'[q] = post[q]
           /\ \A q \in Posts : post'[q].body = post[q].body
<1> DEFINE s == [post[p] EXCEPT !.pc = pc]
<1>1. post[p] \in PostState
  BY DEF TypeOK
<1>2. s \in PostState /\ s.pc = pc /\ s.code = post[p].code
        /\ s.body = post[p].body
  BY <1>1 DEF PostState
<1>3. post' = [post EXCEPT ![p] = s]
  BY DEF GotoPost, TypeOK
<1> HIDE DEF s
<1> QED
  BY <1>2, <1>3 DEF TypeOK, PostState

LEMMA InitType == Init => TypeInv
<1> SUFFICES ASSUME Init PROVE TypeInv
  OBVIOUS
<1>1. TypeOK
  BY DEF Init, TypeOK, PostState, PostCode, DeleteState, DeleteCode
<1>2. Checked
  BY NullAssumption DEF Init, Checked
<1> QED
  BY <1>1, <1>2 DEF TypeInv

\* What the steps of a POST do to its answer and to the table.
LEMMA PostCheckEffect ==
    ASSUME TypeInv, NEW p \in Posts, PostCheck(p)
    PROVE  /\ TypeInv' /\ UNCHANGED <<vehicle, delete>>
           /\ post'[p].code = post[p].code \/ post'[p].code # 200
           /\ \A q \in Posts : q # p => post'[q] = post[q]
           /\ \A q \in Posts : post'[q].body = post[q].body
<1>0. TypeOK /\ UNCHANGED <<vehicle, delete>>
  BY DEF TypeInv, PostCheck
<1>1. \/ \E code \in {400, 406} : AnswerPost(p, code)
      \/ GotoPost(p, "create")
      \/ ~Unforced(p) /\ GotoPost(p, "update")
  BY DEF PostCheck, Unforced
<1>2. /\ post' \in [Posts -> PostState]
      /\ post'[p].code = post[p].code \/ post'[p].code # 200
      /\ \A q \in Posts : q # p => post'[q] = post[q]
      /\ \A q \in Posts : post'[q].body = post[q].body
      /\ post'[p].pc = "update" => ~Unforced(p)
  BY <1>0, <1>1, AnswerPostType, GotoPostType DEF PostCode
<1>3. TypeOK'
  BY <1>0, <1>2 DEF TypeOK, PostState
<1>4. Checked'
  BY <1>0, <1>2 DEF TypeInv, Checked, Unforced
<1> QED
  BY <1>0, <1>2, <1>3, <1>4 DEF TypeInv

LEMMA PostUpdateEffect ==
    ASSUME TypeInv, NEW p \in Posts, PostUpdate(p)
    PROVE  /\ TypeInv' /\ UNCHANGED delete /\ ~Unforced(p)
           /\ \A x \in Types : vehicle'[x] = Null <=> vehicle[x] = Null
           /\ \A q \in Posts : q # p => post'[q] = post[q]
           /\ \A q \in Posts : post'[q].body = post[q].body
<1> DEFINE x == post[p].body.vessel_type
           given == post[p].body.given
<1>0. /\ TypeOK /\ post[p].pc = "update" /\ UNCHANGED delete /\ ~Unforced(p)
      /\ post[p].body \in Body /\ x \in Types
  BY DEF TypeInv, TypeOK, Checked, PostUpdate, PostState, Body
<1>1. /\ post' \in [Posts -> PostState]
      /\ post'[p].pc = "done"
      /\ \A q \in Posts : q # p => post'[q] = post[q]
      /\ \A q \in Posts : post'[q].body = post[q].body
  BY <1>0, AnswerPostType DEF PostUpdate, PostCode
<1>2. \A row \in Row : Merged(row, given) \in Row
  BY <1>0, RowsWritten
<1>3. Null \notin Row
  BY NullAssumption DEF Row
<1>4. /\ vehicle[x] = Null => vehicle' = vehicle
      /\ vehicle[x] # Null =>
            vehicle' = [vehicle EXCEPT ![x] = Merged(vehicle[x], given)]
  BY DEF PostUpdate
<1> HIDE DEF x, given
<1>5. /\ vehicle' \in [Types -> Row \cup {Null}]
      /\ \A y \in Types : vehicle'[y] = Null <=> vehicle[y] = Null
  BY <1>0, <1>2, <1>3, <1>4 DEF TypeOK
<1>6. TypeOK'
  BY <1>0, <1>1, <1>5 DEF TypeOK
<1>7. Checked'
  BY <1>0, <1>1 DEF TypeInv, Checked, Unforced
<1> QED
  BY <1>0, <1>1, <1>5, <1>6, <1>7 DEF TypeInv

LEMMA PostCreateEffect ==
    ASSUME TypeInv, NEW p \in Posts, PostCreate(p)
    PROVE  /\ TypeInv' /\ UNCHANGED delete
           /\ \/ UNCHANGED vehicle /\ post'[p].code = 500
              \/ /\ vehicle[post[p].body.vessel_type] = Null
                 /\ vehicle'[post[p].body.vessel_type] # Null
                 /\ \A x \in Types : x # post[p].body.vessel_type =>
                       vehicle'[x] = vehicle[x]
           /\ \A q \in Posts : q # p => post'[q] = post[q]
           /\ \A q \in Posts : post'[q].body = post[q].body
<1> DEFINE x == post[p].body.vessel_type
           given == post[p].body.given
<1>0. /\ TypeOK /\ UNCHANGED delete
      /\ post[p].body \in Body /\ x \in Types
  BY DEF TypeInv, TypeOK, Checked, PostCreate, PostState, Body
<1>1. /\ post' \in [Posts -> PostState]
      /\ post'[p].pc = "done"
      /\ \A q \in Posts : q # p => post'[q] = post[q]
      /\ \A q \in Posts : post'[q].body = post[q].body
  BY <1>0, AnswerPostType DEF PostCreate, PostCode
<1>2. Null \notin Row
  BY NullAssumption DEF Row
<1>3. \/ UNCHANGED vehicle /\ AnswerPost(p, 500)
      \/ /\ vehicle[x] = Null /\ Required \subseteq DOMAIN given
         /\ vehicle' = [vehicle EXCEPT ![x] = NewRow(given)]
  BY DEF PostCreate
<1>4. \/ UNCHANGED vehicle /\ post'[p].code = 500
      \/ /\ vehicle[x] = Null /\ NewRow(given) \in Row
         /\ vehicle' = [vehicle EXCEPT ![x] = NewRow(given)]
  BY <1>0, <1>3, RowsWritten, AnswerPostType DEF PostCode
<1>5. TypeOK'
  BY <1>0, <1>1, <1>4 DEF TypeOK
<1>6. Checked'
  BY <1>0, <1>1 DEF TypeInv, Checked, Unforced
<1>7. \/ UNCHANGED vehicle /\ post'[p].code = 500
      \/ /\ vehicle[x] = Null /\ vehicle'[x] # Null
         /\ \A y \in Types : y # x => vehicle'[y] = vehicle[y]
  BY <1>0, <1>2, <1>4 DEF TypeOK
<1> QED
  BY <1>0, <1>1, <1>5, <1>6, <1>7 DEF TypeInv

\* A DELETE that finds its vehicle, and one that deletes it.
LEMMA DeleteEffect ==
    ASSUME TypeInv, NEW d \in Deletes, DeleteFind(d) \/ DeleteRow(d)
    PROVE  /\ TypeInv' /\ UNCHANGED post /\ delete[d].code # 204
           /\ \A e \in Deletes : e # d => delete'[e] = delete[e]
           /\ \/ UNCHANGED vehicle /\ delete'[d].code # 204
              \/ /\ vehicle' = [vehicle EXCEPT ![delete[d].type] = Null]
                 /\ delete'[d].type = delete[d].type /\ delete'[d].code = 204
<1>0. TypeOK /\ UNCHANGED post /\ delete[d] \in DeleteState
  BY DEF TypeInv, TypeOK, DeleteFind, DeleteRow
<1>1. delete[d].code # 204
  BY DEF TypeInv, Checked, DeleteFind, DeleteRow
<1>2. CASE DeleteFind(d)
  <2>1. PICK x \in Types :
          \/ delete' = [delete EXCEPT ![d] =
                          [pc |-> "found", type |-> x, code |-> Null]]
          \/ delete' = [delete EXCEPT ![d] =
                          [pc |-> "done", type |-> x, code |-> 404]]
    BY <1>2, ZenonT(40) DEF DeleteFind
  <2>2. /\ [pc |-> "found", type |-> x, code |-> Null] \in DeleteState
        /\ [pc |-> "done", type |-> x, code |-> 404] \in DeleteState
    BY DEF DeleteState, DeleteCode
  <2>3. delete' \in [Deletes -> DeleteState]
    BY <1>0, <2>1, <2>2 DEF TypeOK
  <2>4. /\ delete'[d].type = x /\ delete'[d].code # 204
        /\ \A e \in Deletes : e # d => delete'[e] = delete[e]
    BY <1>0, <2>1, NullAssumption DEF TypeOK
  <2>5. UNCHANGED vehicle
    BY <1>2 DEF DeleteFind
  <2> QED
    BY <1>0, <1>1, <2>3, <2>4, <2>5 DEF TypeInv, TypeOK, Checked, Unforced
<1>3. CASE DeleteRow(d)
  <2> DEFINE s == [delete[d] EXCEPT !.pc = "done", !.code = 204]
  <2>1. delete' = [delete EXCEPT ![d] = s]
    BY <1>0, <1>3 DEF DeleteRow, TypeOK
  <2>2. /\ s \in DeleteState /\ s.type = delete[d].type
        /\ s.pc = "done" /\ s.code = 204
    <3>1. 204 \in DeleteCode
      BY DEF DeleteCode
    <3> QED
      BY <1>0, <3>1 DEF DeleteState
  <2> HIDE DEF s
  <2>3. vehicle' = [vehicle EXCEPT ![delete[d].type] = Null]
    BY <1>3 DEF DeleteRow
  <2>4. TypeOK'
    BY <1>0, <2>1, <2>2, <2>3 DEF TypeOK
  <2>5. Checked'
    BY <1>0, <2>1, <2>2 DEF TypeInv, TypeOK, Checked, Unforced
  <2> QED
    BY <1>0, <1>1, <2>1, <2>2, <2>3, <2>4, <2>5 DEF TypeInv, TypeOK
<1> QED
  BY <1>2, <1>3

LEMMA NextType == TypeInv /\ [Next]_vars => TypeInv'
<1> SUFFICES ASSUME TypeInv, [Next]_vars PROVE TypeInv'
  OBVIOUS
<1>1. ASSUME UNCHANGED vars PROVE TypeInv'
  BY <1>1 DEF vars, TypeInv, TypeOK, Checked, Unforced
<1> QED
  BY <1>1, PostCheckEffect, PostUpdateEffect, PostCreateEffect, DeleteEffect
     DEF Next

\* Whatever the requests interleave, a stored vehicle satisfies the NOT NULL
\* columns of the table, and each request keeps its types (models.py:42-66).
THEOREM TypeCorrect == Spec => []TypeOK
<1>1. TypeInv => TypeOK
  BY DEF TypeInv
<1> QED
  BY <1>1, InitType, NextType, PTL DEF Spec

----------------------------------------------------------------------------
(* How many vehicles of a type the answers have promised *)

Created(x) ==
    {p \in Posts :
       post[p].body.vessel_type = x /\ Unforced(p) /\ post[p].code = 200}
Deleted(x) == {d \in Deletes : delete[d].type = x /\ delete[d].code = 204}
Present(x) == IF vehicle[x] = Null THEN 0 ELSE 1

\* Finitely many requests have been answered at any moment, however many may
\* arrive.
CountInv ==
    \A x \in Types :
        /\ IsFiniteSet(Created(x)) /\ IsFiniteSet(Deleted(x))
        /\ Cardinality(Created(x)) <= Cardinality(Deleted(x)) + Present(x)

LEMMA InitCount == Init => CountInv
<1> SUFFICES ASSUME Init, NEW x \in Types
             PROVE  /\ IsFiniteSet(Created(x)) /\ IsFiniteSet(Deleted(x))
                    /\ Cardinality(Created(x))
                         <= Cardinality(Deleted(x)) + Present(x)
  BY DEF CountInv
<1>1. Created(x) = {} /\ Deleted(x) = {} /\ Present(x) = 0
  BY NullAssumption DEF Init, Created, Deleted, Present
<1> QED
  BY <1>1, FS_EmptySet

\* A step that answers no creation and deletes nothing, one that inserts the
\* row of one type, and one that deletes one.
LEMMA CountQuiet ==
    ASSUME CountInv, NEW x \in Types, Created(x)' \subseteq Created(x),
           Deleted(x)' = Deleted(x), Present(x)' = Present(x)
    PROVE  /\ IsFiniteSet(Created(x))' /\ IsFiniteSet(Deleted(x))'
           /\ Cardinality(Created(x))' <= Cardinality(Deleted(x))' + Present(x)'
<1>1. /\ IsFiniteSet(Created(x)) /\ IsFiniteSet(Deleted(x))
      /\ Cardinality(Created(x)) <= Cardinality(Deleted(x)) + Present(x)
  BY DEF CountInv
<1>2. IsFiniteSet(Created(x)') /\ Cardinality(Created(x)') <= Cardinality(Created(x))
  BY <1>1, FS_Subset
<1>3. /\ Cardinality(Created(x)') \in Nat /\ Cardinality(Created(x)) \in Nat
      /\ Cardinality(Deleted(x)) \in Nat /\ Present(x) \in Nat
  BY <1>1, <1>2, FS_CardinalityType DEF Present
<1> QED
  BY <1>1, <1>2, <1>3

LEMMA CountInserted ==
    ASSUME CountInv, NEW x \in Types, NEW p,
           Created(x)' \subseteq Created(x) \cup {p},
           Deleted(x)' = Deleted(x), Present(x) = 0, Present(x)' = 1
    PROVE  /\ IsFiniteSet(Created(x))' /\ IsFiniteSet(Deleted(x))'
           /\ Cardinality(Created(x))' <= Cardinality(Deleted(x))' + Present(x)'
<1>1. /\ IsFiniteSet(Created(x)) /\ IsFiniteSet(Deleted(x))
      /\ Cardinality(Created(x)) <= Cardinality(Deleted(x))
      /\ Cardinality(Created(x)) \in Nat /\ Cardinality(Deleted(x)) \in Nat
  BY FS_CardinalityType DEF CountInv
<1>2. /\ IsFiniteSet(Created(x) \cup {p})
      /\ Cardinality(Created(x) \cup {p}) <= Cardinality(Created(x)) + 1
  <2>1. CASE p \in Created(x)
    <3>1. Created(x) \cup {p} = Created(x)
      BY <2>1
    <3>2. Cardinality(Created(x) \cup {p}) = Cardinality(Created(x))
      BY <3>1
    <3>3. IsFiniteSet(Created(x) \cup {p})
      BY <1>1, <3>1
    <3> QED
      BY <1>1, <3>2, <3>3
  <2>2. CASE p \notin Created(x)
    <3>1. /\ IsFiniteSet(Created(x) \cup {p})
          /\ Cardinality(Created(x) \cup {p}) = Cardinality(Created(x)) + 1
      BY <1>1, <2>2, FS_AddElement
    <3> QED
      BY <1>1, <3>1
  <2> QED
    BY <2>1, <2>2
<1>3. /\ IsFiniteSet(Created(x)')
      /\ Cardinality(Created(x)') <= Cardinality(Created(x) \cup {p})
  BY <1>2, FS_Subset
<1>4. /\ Cardinality(Created(x)') \in Nat
      /\ Cardinality(Created(x) \cup {p}) \in Nat
  BY <1>2, <1>3, FS_CardinalityType
<1> QED
  BY <1>1, <1>2, <1>3, <1>4

LEMMA CountDeleted ==
    ASSUME CountInv, NEW x \in Types, NEW d, d \notin Deleted(x),
           Created(x)' = Created(x), Deleted(x)' = Deleted(x) \cup {d},
           Present(x)' = 0
    PROVE  /\ IsFiniteSet(Created(x))' /\ IsFiniteSet(Deleted(x))'
           /\ Cardinality(Created(x))' <= Cardinality(Deleted(x))' + Present(x)'
<1>1. /\ IsFiniteSet(Created(x)) /\ IsFiniteSet(Deleted(x))
      /\ Cardinality(Created(x)) <= Cardinality(Deleted(x)) + Present(x)
      /\ Cardinality(Created(x)) \in Nat /\ Cardinality(Deleted(x)) \in Nat
      /\ Present(x) \in {0, 1}
  BY FS_CardinalityType DEF CountInv, Present
<1>2. /\ IsFiniteSet(Deleted(x) \cup {d})
      /\ Cardinality(Deleted(x) \cup {d}) = Cardinality(Deleted(x)) + 1
  BY <1>1, FS_AddElement
<1> QED
  BY <1>1, <1>2

\* Each step changes the count of at most one type.
LEMMA PostCount ==
    ASSUME TypeInv, CountInv, NEW p \in Posts, NEW x \in Types,
           PostCheck(p) \/ PostUpdate(p) \/ PostCreate(p)
    PROVE  /\ IsFiniteSet(Created(x))' /\ IsFiniteSet(Deleted(x))'
           /\ Cardinality(Created(x))' <= Cardinality(Deleted(x))' + Present(x)'
<1>0. post[p].body.vessel_type \in Types
  BY DEF TypeInv, TypeOK, PostState, Body
<1>1. CASE PostCheck(p)
  <2>1. /\ UNCHANGED <<vehicle, delete>>
        /\ post'[p].code = post[p].code \/ post'[p].code # 200
        /\ \A q \in Posts : q # p => post'[q] = post[q]
        /\ \A q \in Posts : post'[q].body = post[q].body
    BY <1>1, PostCheckEffect
  <2>2. Created(x)' \subseteq Created(x)
    BY <2>1 DEF Created, Unforced
  <2>3. Deleted(x)' = Deleted(x) /\ Present(x)' = Present(x)
    BY <2>1 DEF Deleted, Present
  <2> QED
    BY <2>2, <2>3, CountQuiet
<1>2. CASE PostUpdate(p)
  <2>1. /\ UNCHANGED delete /\ ~Unforced(p)
        /\ vehicle'[x] = Null <=> vehicle[x] = Null
        /\ \A q \in Posts : q # p => post'[q] = post[q]
        /\ \A q \in Posts : post'[q].body = post[q].body
    BY <1>2, PostUpdateEffect
  <2>2. Created(x)' \subseteq Created(x)
    BY <2>1 DEF Created, Unforced
  <2>3. Deleted(x)' = Deleted(x) /\ Present(x)' = Present(x)
    BY <2>1 DEF Deleted, Present
  <2> QED
    BY <2>2, <2>3, CountQuiet
<1>3. CASE PostCreate(p)
  <2>1. /\ UNCHANGED delete
        /\ \/ UNCHANGED vehicle /\ post'[p].code = 500
           \/ /\ vehicle[post[p].body.vessel_type] = Null
              /\ vehicle'[post[p].body.vessel_type] # Null
              /\ x # post[p].body.vessel_type => vehicle'[x] = vehicle[x]
        /\ \A q \in Posts : q # p => post'[q] = post[q]
        /\ \A q \in Posts : post'[q].body = post[q].body
    BY <1>3, PostCreateEffect
  <2>2. Deleted(x)' = Deleted(x)
    BY <2>1 DEF Deleted
  <2>3. ASSUME UNCHANGED vehicle, post'[p].code = 500
        PROVE  Created(x)' \subseteq Created(x) /\ Present(x)' = Present(x)
    BY <2>1, <2>3 DEF Created, Unforced, Present
  <2>4. ASSUME x # post[p].body.vessel_type, vehicle'[x] = vehicle[x]
        PROVE  Created(x)' \subseteq Created(x) /\ Present(x)' = Present(x)
    BY <2>1, <2>4 DEF Created, Unforced, Present
  <2>5. ASSUME x = post[p].body.vessel_type, vehicle[x] = Null, vehicle'[x] # Null
        PROVE  /\ Created(x)' \subseteq Created(x) \cup {p}
               /\ Present(x) = 0 /\ Present(x)' = 1
    BY <2>1, <2>5 DEF Created, Unforced, Present
  <2> QED
    BY <2>1, <2>2, <2>3, <2>4, <2>5, CountQuiet, CountInserted
<1> QED
  BY <1>1, <1>2, <1>3

LEMMA DeleteCount ==
    ASSUME TypeInv, CountInv, NEW d \in Deletes, NEW x \in Types,
           DeleteFind(d) \/ DeleteRow(d)
    PROVE  /\ IsFiniteSet(Created(x))' /\ IsFiniteSet(Deleted(x))'
           /\ Cardinality(Created(x))' <= Cardinality(Deleted(x))' + Present(x)'
<1>1. /\ UNCHANGED post /\ delete[d].code # 204
      /\ \A e \in Deletes : e # d => delete'[e] = delete[e]
      /\ \/ UNCHANGED vehicle /\ delete'[d].code # 204
         \/ /\ vehicle' = [vehicle EXCEPT ![delete[d].type] = Null]
            /\ delete'[d].type = delete[d].type /\ delete'[d].code = 204
  BY DeleteEffect
<1>2. Created(x)' = Created(x)
  BY <1>1 DEF Created, Unforced
<1>3. ASSUME UNCHANGED vehicle, delete'[d].code # 204
      PROVE  Deleted(x)' = Deleted(x) /\ Present(x)' = Present(x)
  BY <1>1, <1>3 DEF Deleted, Present
<1>4. ASSUME vehicle' = [vehicle EXCEPT ![delete[d].type] = Null],
             delete'[d].type = delete[d].type, delete'[d].code = 204,
             delete[d].type # x
      PROVE  Deleted(x)' = Deleted(x) /\ Present(x)' = Present(x)
  <2>1. vehicle'[x] = vehicle[x]
    BY <1>4 DEF TypeInv, TypeOK
  <2> QED
    BY <1>1, <1>4, <2>1 DEF Deleted, Present
<1>5. ASSUME vehicle' = [vehicle EXCEPT ![delete[d].type] = Null],
             delete'[d].type = delete[d].type, delete'[d].code = 204,
             delete[d].type = x
      PROVE  /\ Deleted(x)' = Deleted(x) \cup {d} /\ d \notin Deleted(x)
             /\ Present(x)' = 0
  <2>1. vehicle'[x] = Null
    BY <1>5 DEF TypeInv, TypeOK
  <2>2. Present(x)' = 0 /\ d \notin Deleted(x)
    BY <1>1, <2>1 DEF Deleted, Present
  <2>3. Deleted(x)' = Deleted(x) \cup {d}
    BY <1>1, <1>5 DEF Deleted
  <2> QED
    BY <2>2, <2>3
<1> QED
  BY <1>1, <1>2, <1>3, <1>4, <1>5, CountQuiet, CountDeleted

LEMMA CountStep == TypeInv /\ CountInv /\ [Next]_vars => CountInv'
<1> SUFFICES ASSUME TypeInv, CountInv, [Next]_vars, NEW x \in Types
             PROVE  /\ IsFiniteSet(Created(x))' /\ IsFiniteSet(Deleted(x))'
                    /\ Cardinality(Created(x))'
                         <= Cardinality(Deleted(x))' + Present(x)'
  BY DEF CountInv
<1>1. ASSUME UNCHANGED vars
      PROVE  /\ Created(x)' = Created(x) /\ Deleted(x)' = Deleted(x)
             /\ Present(x)' = Present(x)
  BY <1>1 DEF vars, Created, Deleted, Present, Unforced
<1> QED
  BY <1>1, CountQuiet, PostCount, DeleteCount DEF Next

\* For each vessel type there are never more answers of 200 to unforced POSTs
\* than vehicles that were deleted and the one that is there
\* (views.py:142-175).
THEOREM CreationsAreCounted == Spec => []EachCreationCounts
<1>1. CountInv => EachCreationCounts
  <2>1. ASSUME CountInv, NEW x \in Types
        PROVE  Cardinality(Created(x)) <= Cardinality(Deleted(x)) + Present(x)
    BY <2>1 DEF CountInv
  <2> QED
    BY <2>1, Zenon DEF EachCreationCounts, Created, Deleted, Present
<1> QED
  BY <1>1, InitType, NextType, InitCount, CountStep, PTL DEF Spec

----------------------------------------------------------------------------
(* What may change a stored vehicle *)

ForcedChange(x, f) ==
    \E p \in Posts : /\ post[p].pc = "update" /\ ~Unforced(p)
                     /\ post[p].body.vessel_type = x
                     /\ f \in DOMAIN post[p].body.given
                     /\ vehicle'[x][f] = post[p].body.given[f]

LEMMA UpdateChanges ==
    ASSUME TypeInv, NEW p \in Posts, PostUpdate(p), NEW x \in Types,
           NEW f \in Fields, vehicle[x] # Null, vehicle'[x][f] # vehicle[x][f]
    PROVE  ForcedChange(x, f)
<1>1. /\ post[p].pc = "update" /\ ~Unforced(p)
      /\ vehicle \in [Types -> Row \cup {Null}]
  BY DEF TypeInv, TypeOK, Checked, PostUpdate
<1>2. post[p].body.vessel_type = x
  BY <1>1 DEF PostUpdate
<1>3. vehicle'[x] = Merged(vehicle[x], post[p].body.given)
  BY <1>1, <1>2 DEF PostUpdate
<1>4. /\ f \in DOMAIN post[p].body.given
      /\ vehicle'[x][f] = post[p].body.given[f]
  BY <1>3 DEF Merged
<1> QED
  BY <1>1, <1>2, <1>4 DEF ForcedChange

\* A stored vehicle changes only by a forced POST, and only in the fields of
\* its body, however the look for the vehicle and the INSERT of other POSTs
\* are interleaved with it (views.py:148-161).
THEOREM StoredFieldsAreForced == Spec => OnlyForcedFieldsChange
<1> DEFINE Kept == \A x \in Types :
                     vehicle[x] # Null /\ vehicle'[x] # Null =>
                       \A f \in Fields : vehicle'[x][f] # vehicle[x][f] =>
                                           ForcedChange(x, f)
<1>1. TypeInv /\ [Next]_vars => [Kept]_vars
  <2> SUFFICES ASSUME TypeInv, Next, NEW x \in Types,
                      vehicle[x] # Null, vehicle'[x] # Null,
                      NEW f \in Fields, vehicle'[x][f] # vehicle[x][f]
               PROVE  ForcedChange(x, f)
    OBVIOUS
  <2>1. ASSUME NEW p \in Posts, PostCheck(p) PROVE FALSE
    BY <2>1 DEF PostCheck
  <2>2. ASSUME NEW p \in Posts, PostUpdate(p) PROVE ForcedChange(x, f)
    BY <2>2, UpdateChanges
  <2>3. ASSUME NEW p \in Posts, PostCreate(p) PROVE FALSE
    BY <2>3, PostCreateEffect
  <2>4. ASSUME NEW d \in Deletes, DeleteFind(d) PROVE FALSE
    BY <2>4 DEF DeleteFind
  <2>5. ASSUME NEW d \in Deletes, DeleteRow(d) PROVE FALSE
    BY <2>5 DEF DeleteRow, TypeInv, TypeOK
  <2> QED
    BY <2>1, <2>2, <2>3, <2>4, <2>5 DEF Next, vars
<1>2. [Kept]_vars <=>
        [\A x \in Types :
           vehicle[x] # Null /\ vehicle'[x] # Null =>
             \A f \in Fields : vehicle'[x][f] # vehicle[x][f] =>
                \E p \in Posts : /\ post[p].pc = "update" /\ ~Unforced(p)
                                 /\ post[p].body.vessel_type = x
                                 /\ f \in DOMAIN post[p].body.given
                                 /\ vehicle'[x][f] = post[p].body.given[f]]_vars
  BY DEF ForcedChange
<1> QED
  BY <1>1, <1>2, InitType, NextType, PTL DEF Spec, OnlyForcedFieldsChange

=============================================================================
