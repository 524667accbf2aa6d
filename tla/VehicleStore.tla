---------------------------- MODULE VehicleStore ----------------------------
(***************************************************************************)
(* The vehicles that POST /api/vehicle creates or, when forced, updates    *)
(* and that DELETE /api/vehicle/<type> removes (route_api/views.py), by    *)
(* concurrent web threads.  Each request looks for the vehicle first and   *)
(* acts later, on a table that others have changed since.                  *)
(***************************************************************************)
EXTENDS Integers, FiniteSets

CONSTANTS
    Types,      \* vessel types, the primary key
    Fields,     \* the other columns of Vehicle
    Required,   \* those that may not be NULL
    Values,     \* what a field may hold
    Posts,      \* POST requests, one web thread each
    Deletes,    \* DELETE requests, one web thread each
    Null

ASSUME NullAssumption == /\ Null \notin Values \cup Types \cup Nat
                         /\ Null \notin [Fields -> Values \cup {Null}]

ASSUME RequiredAssumption == Required \subseteq Fields

VARIABLES
    vehicle,    \* the row of each type, or Null
    post,       \* local state of each POST
    delete      \* local state of each DELETE

vars == <<vehicle, post, delete>>

\* The fields that a body leaves out become Null in a new row.
Row == {row \in [Fields -> Values \cup {Null}] : \A f \in Required : row[f] # Null}

\* `force` is force_properties: absent, present and falsy, or truthy.
Body == [vessel_type : Types, given : UNION {[S -> Values] : S \in SUBSET Fields},
         force : {"absent", "false", "true"}]

PostCode == {Null, 200, 400, 406, 500}
DeleteCode == {Null, 204, 404}

PostState == [pc : {"ready", "update", "create", "done"}, body : Body,
              code : PostCode]
DeleteState == [pc : {"ready", "found", "done"}, type : Types \cup {Null},
                code : DeleteCode]

TypeOK ==
    /\ vehicle \in [Types -> Row \cup {Null}]
    /\ post \in [Posts -> PostState]
    /\ delete \in [Deletes -> DeleteState]

Init ==
    /\ vehicle = [x \in Types |-> Null]
    /\ post \in [Posts -> [pc : {"ready"}, body : Body, code : {Null}]]
    /\ delete = [d \in Deletes |-> [pc |-> "ready", type |-> Null, code |-> Null]]

----------------------------------------------------------------------------
(* POST /api/vehicle *)

AnswerPost(p, code) ==
    post' = [post EXCEPT ![p].pc = "done", ![p].code = code]

GotoPost(p, pc) == post' = [post EXCEPT ![p].pc = pc]

\* validate_vessel_config may refuse any body; then the vehicle is looked for.
PostCheck(p) ==
    /\ post[p].pc = "ready"
    /\ LET stored == vehicle[post[p].body.vessel_type] # Null
           forced == post[p].body.force = "true"
       IN  \/ AnswerPost(p, 400)
           \/ stored /\ ~forced /\ AnswerPost(p, 406)
           \/ stored /\ forced /\ GotoPost(p, "update")
           \/ ~stored /\ GotoPost(p, "create")
    /\ UNCHANGED <<vehicle, delete>>

\* A mutant: the fields that the body leaves out are reset.
Replaced(row, given) ==
    [f \in Fields |-> IF f \in DOMAIN given THEN given[f] ELSE Null]

Merged(row, given) ==
    [f \in Fields |-> IF f \in DOMAIN given THEN given[f] ELSE row[f]]

\* QuerySet.update answers 200 also when the row is gone and none is updated.
PostUpdate(p) ==
    /\ post[p].pc = "update"
    /\ LET x == post[p].body.vessel_type
       IN  vehicle' = IF vehicle[x] = Null THEN vehicle
                      ELSE [vehicle EXCEPT ![x] = Merged(@, post[p].body.given)]
    /\ AnswerPost(p, 200)
    /\ UNCHANGED delete

\* A mutant: the fields that the body leaves out do not exist.
NewRowOfBody(given) == given

NewRow(given) ==
    [f \in Fields |-> IF f \in DOMAIN given THEN given[f] ELSE Null]

\* A mutant: update_or_create.
PostUpsert(p) ==
    /\ post[p].pc = "create"
    /\ vehicle' = [vehicle EXCEPT ![post[p].body.vessel_type] =
                      NewRow(post[p].body.given)]
    /\ AnswerPost(p, 200)
    /\ UNCHANGED delete

\* Vehicle.objects.create(**data): a body that has force_properties, whatever
\* its value, is refused with TypeError; a type that has a row by now, or a
\* required column without a value, with IntegrityError.
PostCreate(p) ==
    /\ post[p].pc = "create"
    /\ LET body == post[p].body
           accepted == /\ body.force = "absent"
                       /\ vehicle[body.vessel_type] = Null
                       /\ Required \subseteq DOMAIN body.given
       IN  \/ /\ accepted
              /\ vehicle' = [vehicle EXCEPT ![body.vessel_type] = NewRow(body.given)]
              /\ AnswerPost(p, 200)
           \/ /\ ~accepted
              /\ AnswerPost(p, 500)
              /\ UNCHANGED vehicle
    /\ UNCHANGED delete

----------------------------------------------------------------------------
(* DELETE /api/vehicle/<type> *)

DeleteFind(d) ==
    /\ delete[d].pc = "ready"
    /\ \E x \in Types :
        delete' = [delete EXCEPT ![d] =
            IF vehicle[x] # Null
            THEN [pc |-> "found", type |-> x, code |-> Null]
            ELSE [pc |-> "done", type |-> x, code |-> 404]]
    /\ UNCHANGED <<vehicle, post>>

DeleteRow(d) ==
    /\ delete[d].pc = "found"
    /\ vehicle' = [vehicle EXCEPT ![delete[d].type] = Null]
    /\ delete' = [delete EXCEPT ![d].pc = "done", ![d].code = 204]
    /\ UNCHANGED post

Answered == /\ \A p \in Posts : post[p].pc = "done"
            /\ \A d \in Deletes : delete[d].pc = "done"

Next == \/ \E p \in Posts : PostCheck(p) \/ PostUpdate(p) \/ PostCreate(p)
        \/ \E d \in Deletes : DeleteFind(d) \/ DeleteRow(d)
        \/ Answered /\ UNCHANGED vars

Spec == Init /\ [][Next]_vars

----------------------------------------------------------------------------
(* Properties *)

Unforced(p) == post[p].body.force # "true"

\* A vessel type is unique, and a second request to create it is an error: an
\* answer of 200 to a POST that does not force means that this POST made the
\* vehicle.  For one type there are no more of them than vehicles that were
\* deleted, and the one that is there (views.py:142-175).
EachCreationCounts ==
    \A x \in Types :
        LET of(p) == post[p].body.vessel_type = x
            created == {p \in Posts : of(p) /\ Unforced(p) /\ post[p].code = 200}
            deleted == {d \in Deletes : delete[d].type = x /\ delete[d].code = 204}
        IN  Cardinality(created)
              <= Cardinality(deleted) + (IF vehicle[x] = Null THEN 0 ELSE 1)

\* A stored vehicle changes only by a forced POST, and then only in the
\* fields of its body; no POST that does not force touches it, however its
\* look for the vehicle and its INSERT are interleaved with others
\* (views.py:148-161).
OnlyForcedFieldsChange ==
    [][\A x \in Types :
         vehicle[x] # Null /\ vehicle'[x] # Null =>
            \A f \in Fields : vehicle'[x][f] # vehicle[x][f] =>
                \E p \in Posts : /\ post[p].pc = "update" /\ ~Unforced(p)
                                 /\ post[p].body.vessel_type = x
                                 /\ f \in DOMAIN post[p].body.given
                                 /\ vehicle'[x][f] = post[p].body.given[f]]_vars

=============================================================================
