-------------------------- MODULE GoMediatorProofs --------------------------
(***************************************************************************)
(* Theorems about GoMediator, for any number of requests served at the     *)
(* same time, any schemas and any maximum of a type id.                    *)
(***************************************************************************)
EXTENDS GoMediator, TLAPS

\* After the SDL call of a create: the assignment to err and its tests.
TestPcs == {"nil?", "exists?", "mismatch?", "other"}

\* The answer of a request that its handler never sees.
Refusals == {0, 400, 422, 501}

-----------------------------------------------------------------------------
(***************************************************************************)
(* What the steps do to the requests.                                      *)
(***************************************************************************)

\* The operations, listed.
LEMMA OperationsListed ==
  Operations =
    {"GetHealthcheck", "GetAllPolicyTypes", "GetPolicyType",
     "CreatePolicyType", "DeletePolicyType", "GetAllInstancesForType",
     "GetPolicyInstance", "GetPolicyInstanceStatus",
     "CreateOrReplacePolicyInstance", "DeletePolicyInstance", "DataDelivery"}
BY DEF Operations, Responses

\* The codes that the handlers, and what runs before them, answer with.
LEMMA CodesUsed == {200, 201, 503} \cup Refusals \subseteq Codes
<1>1. /\ "GetAllPolicyTypes" \in Operations
      /\ "CreatePolicyType" \in Operations
  BY OperationsListed
<1>2. /\ Responses["GetAllPolicyTypes"] = {200, 503}
      /\ Responses["CreatePolicyType"] = {201, 400, 503}
  BY DEF Responses, GetAllPolicyTypesResponses, CreatePolicyTypeResponses
<1>3. {200, 201, 503} \subseteq Declared
  BY <1>1, <1>2 DEF Declared
<1> QED
  BY <1>3 DEF Codes, Refusals

\* Binding accepts the parameters, or refuses them with 400 or 422.
LEMMA RouteCodes ==
  ASSUME NEW r, NEW op \in Operations
  PROVE  Route(r)[op] \in {0, 400, 422}
<1>1. /\ TypeIdError(r) \in {0, 422}
      /\ JsonError(r) \in {0, 400}
      /\ SchemaError(r) \in {0, 400, 422}
  BY DEF TypeIdError, JsonError, SchemaError
<1> QED
  BY <1>1, OperationsListed
  DEF Route, BindGetHealthcheck, BindGetAllPolicyTypes, BindGetPolicyType,
      BindCreatePolicyType, BindDeletePolicyType, BindGetAllInstancesForType,
      BindGetPolicyInstance, BindGetPolicyInstanceStatus,
      BindCreateOrReplacePolicyInstance, BindDeletePolicyInstance,
      BindDataDelivery, First

\* A request that reaches its handler has a valid type id, and a create has a
\* body that is valid too.
LEMMA RouteAccepts ==
  ASSUME NEW r, NEW op \in Implemented, Route(r)[op] = 0
  PROVE  /\ op # "GetAllPolicyTypes" => r.raw \in PolicyTypes
         /\ op = "CreatePolicyType" => r.body \notin {"garbage", "invalid"}
BY DEF Implemented, Route, BindGetPolicyType, BindCreatePolicyType, First,
       TypeIdError, SchemaError, JsonError, PolicyTypes

\* A request is refused ...
Refused(s) ==
  \E op \in Operations \ {"GetAllPolicyTypes"}, code \in Refusals :
    Refuse(s, op, code)

\* ... or its handler is called, with parameters that were accepted.
CallOf(op, t, schema, id, alone) ==
  [Free EXCEPT !.pc = op, !.op = op, !.schema = schema, !.t = t, !.id = id,
               !.alone = alone]

Overlapped(op, x) == op = "CreatePolicyType" /\ Creating(x)

Called(s, op, t, schema, id) ==
  /\ op # "GetAllPolicyTypes" => t \in PolicyTypes
  /\ op = "CreatePolicyType" => schema \in Schemas
  /\ req' = [x \in Slots |->
               IF x = s
               THEN CallOf(op, t, schema, id,
                           \A y \in Slots \ {s} : ~Creating(y))
               ELSE [req[x] EXCEPT !.alone = @ /\ ~Overlapped(op, x)]]
  /\ UNCHANGED <<types, err>>

\* The two outcomes of an arrival.
LEMMA ArriveEffect ==
  ASSUME NEW s \in Slots, Arrive(s)
  PROVE  /\ req[s].pc \in {"free", "done"}
         /\ \/ Refused(s)
            \/ \E op \in Implemented, t \in 0..MaxTypeId,
                  schema \in Schemas \cup {None}, id \in 0..(MaxTypeId + 1) :
                 Called(s, op, t, schema, id)
<1>1. PICK op \in Operations, r \in Calls, schema \in Schemas \cup {None},
           id \in 0..(MaxTypeId + 1) :
        /\ op = "CreatePolicyType" /\ r.body = "object" => schema \in Schemas
        /\ ServeHTTP(s, op, r, schema, id)
  BY MaxTypeIdAssumption DEF Arrive
<1>2. req[s].pc \in {"free", "done"}
  BY <1>1 DEF ServeHTTP
<1>3. CASE Route(r)[op] # 0
  <2>1. Route(r)[op] \in Refusals
    BY RouteCodes DEF Refusals
  <2>2. op # "GetAllPolicyTypes"
    BY <1>3 DEF Route, BindGetAllPolicyTypes
  <2>3. Refuse(s, op, Route(r)[op])
    BY <1>1, <1>3 DEF ServeHTTP
  <2> QED
    BY <1>2, <2>1, <2>2, <2>3 DEF Refused
<1>4. CASE Route(r)[op] = 0 /\ (op \notin Implemented \/ NoBody(op, r))
  <2>1. Refuse(s, op, 501) \/ Refuse(s, op, 0)
    BY <1>1, <1>4 DEF ServeHTTP
  <2>2. op # "GetAllPolicyTypes"
    BY <1>4 DEF Implemented, NoBody
  <2> QED
    BY <1>2, <2>1, <2>2 DEF Refused, Refusals
<1>5. CASE Route(r)[op] = 0 /\ op \in Implemented /\ ~NoBody(op, r)
  <2> DEFINE t == IF op = "GetAllPolicyTypes" THEN 0 ELSE r.raw
  <2>1. r.body \in Bodies
    BY DEF Calls
  <2>2. /\ op # "GetAllPolicyTypes" => t \in PolicyTypes
        /\ op = "CreatePolicyType" => schema \in Schemas
    BY <1>1, <1>5, <2>1, RouteAccepts DEF NoBody, Bodies
  <2>3. t \in 0..MaxTypeId
    BY <2>2, MaxTypeIdAssumption DEF PolicyTypes
  <2>4. /\ req' = [x \in Slots |->
               IF x = s
               THEN [Free EXCEPT !.pc = op, !.op = op, !.schema = schema,
                       !.t = t, !.id = id,
                       !.alone = {y \in Slots \ {s} : Creating(y)} = {}]
               ELSE [req[x] EXCEPT
                       !.alone = @ /\ ~(/\ op = "CreatePolicyType"
                                        /\ x \in {y \in Slots \ {s} : Creating(y)})]]
        /\ UNCHANGED <<types, err>>
    BY <1>1, <1>5 DEF ServeHTTP
  <2>5. ({y \in Slots \ {s} : Creating(y)} = {}) = (\A y \in Slots \ {s} : ~Creating(y))
    OBVIOUS
  <2>6. \A x \in Slots \ {s} :
          (/\ op = "CreatePolicyType"
           /\ x \in {y \in Slots \ {s} : Creating(y)}) = Overlapped(op, x)
    BY DEF Overlapped
  <2>7. [Free EXCEPT !.pc = op, !.op = op, !.schema = schema, !.t = t, !.id = id,
               !.alone = {y \in Slots \ {s} : Creating(y)} = {}]
         = CallOf(op, t, schema, id, \A y \in Slots \ {s} : ~Creating(y))
    BY <2>5 DEF CallOf
  <2>8. \A x \in Slots \ {s} :
          [req[x] EXCEPT
             !.alone = @ /\ ~(/\ op = "CreatePolicyType"
                              /\ x \in {y \in Slots \ {s} : Creating(y)})]
          = [req[x] EXCEPT !.alone = @ /\ ~Overlapped(op, x)]
    BY <2>6
  <2>9. Called(s, op, t, schema, id)
    BY <2>2, <2>4, <2>7, <2>8 DEF Called
  <2> QED
    BY <1>2, <1>5, <2>3, <2>9
<1> QED
  BY <1>3, <1>4, <1>5

-----------------------------------------------------------------------------
(***************************************************************************)
(* Types.                                                                  *)
(***************************************************************************)

\* The initial state is well typed.
LEMMA InitType == Init => TypeOK
<1>1. 0 \in Codes
  BY CodesUsed DEF Refusals
<1> QED
  BY <1>1, MaxTypeIdAssumption DEF Init, TypeOK, Free, Requests, Errors

Payloads == Schemas \cup {None} \cup SUBSET PolicyTypes

Pcs == Implemented \cup {"free", "done", "assign"} \cup TestPcs

\* A request stays one when a member is given a value of its set ...
LEMMA MemberType ==
  \A r \in Requests :
    /\ \A v \in Pcs : [r EXCEPT !.pc = v] \in Requests
    /\ \A v \in Operations \cup {"none"} : [r EXCEPT !.op = v] \in Requests
    /\ \A v \in 0..MaxTypeId : [r EXCEPT !.t = v] \in Requests
    /\ \A v \in Schemas \cup {None} : [r EXCEPT !.schema = v] \in Requests
    /\ \A v \in 0..(MaxTypeId + 1) : [r EXCEPT !.id = v] \in Requests
    /\ \A v \in Errors : [r EXCEPT !.res = v] \in Requests
    /\ \A v \in Codes : [r EXCEPT !.code = v] \in Requests
    /\ \A v \in Payloads : [r EXCEPT !.payload = v] \in Requests
    /\ \A v \in BOOLEAN : [r EXCEPT !.stored = v] \in Requests
    /\ \A v \in BOOLEAN : [r EXCEPT !.alone = v] \in Requests
BY DEF Requests, Pcs, TestPcs, Payloads

\* ... and so do the requests.
LEMMA MembersType ==
  \A q \in [Slots -> Requests], s \in Slots :
    /\ \A v \in Pcs : [q EXCEPT ![s].pc = v] \in [Slots -> Requests]
    /\ \A v \in Schemas \cup {None} : [q EXCEPT ![s].schema = v] \in [Slots -> Requests]
    /\ \A v \in 0..(MaxTypeId + 1) : [q EXCEPT ![s].id = v] \in [Slots -> Requests]
    /\ \A v \in Errors : [q EXCEPT ![s].res = v] \in [Slots -> Requests]
    /\ \A v \in Codes : [q EXCEPT ![s].code = v] \in [Slots -> Requests]
    /\ \A v \in Payloads : [q EXCEPT ![s].payload = v] \in [Slots -> Requests]
    /\ \A v \in BOOLEAN : [q EXCEPT ![s].stored = v] \in [Slots -> Requests]
BY DEF Requests, Pcs, TestPcs, Payloads

LEMMA ReadType ==
  \A q \in [Slots -> Requests], s \in Slots, code \in Codes, res \in Errors,
     payload \in Payloads :
    [q EXCEPT ![s].pc = "done", ![s].code = code, ![s].res = res,
              ![s].payload = payload] \in [Slots -> Requests]
<1> TAKE q \in [Slots -> Requests], s \in Slots, code \in Codes, res \in Errors,
         payload \in Payloads
<1>1. "done" \in Pcs
  BY DEF Pcs
<1>2. [q EXCEPT ![s].pc = "done", ![s].code = code] \in [Slots -> Requests]
  BY <1>1, MembersType
<1> QED
  BY <1>2, MembersType

LEMMA FreeType == Free \in Requests
<1>1. 0 \in Codes
  BY CodesUsed DEF Refusals
<1> QED
  BY <1>1, MaxTypeIdAssumption DEF Free, Requests, Errors

\* A call record is a request.
LEMMA CallType ==
  \A op \in Implemented, t \in 0..MaxTypeId, schema \in Schemas \cup {None},
     id \in 0..(MaxTypeId + 1), alone \in BOOLEAN :
    CallOf(op, t, schema, id, alone) \in Requests
<1>1. \A op \in Implemented : op \in Pcs /\ op \in Operations \cup {"none"}
  BY OperationsListed DEF Implemented, Pcs
<1> QED
  BY <1>1, FreeType, MemberType DEF CallOf

\* What the SDL calls of the two reads do.
LEMMA GetAllEffect ==
  ASSUME TypeOK, NEW s \in Slots, NEW ok \in BOOLEAN, GetAllPolicyType(s, ok)
  PROVE  /\ req' \in [Slots -> Requests]
         /\ \A x \in Slots \ {s} : req'[x] = req[x]
         /\ req'[s].pc = "done" /\ req'[s].op = req[s].op /\ req'[s].code = 200
         /\ \/ req'[s].payload = {}
            \/ req'[s].payload = {t \in PolicyTypes : types[t] # None}
<1> DEFINE listed == IF ok THEN {t \in PolicyTypes : types[t] # None} ELSE {}
           res == IF ok THEN "nil" ELSE "sdl"
           code == 200
<1>1. code \in Codes /\ res \in Errors /\ listed \in Payloads
  BY CodesUsed DEF Errors, Payloads
<1>2. req' = [req EXCEPT ![s].pc = "done", ![s].code = code, ![s].res = res,
                         ![s].payload = listed]
  BY DEF GetAllPolicyType
<1> HIDE DEF listed, res, code
<1>3. req' \in [Slots -> Requests]
  <2>1. req \in [Slots -> Requests]
    BY DEF TypeOK
  <2> QED
    BY <1>1, <1>2, <2>1, ReadType, Zenon
<1>4. /\ \A x \in Slots \ {s} : req'[x] = req[x]
      /\ req'[s].pc = "done" /\ req'[s].op = req[s].op /\ req'[s].code = code
      /\ req'[s].payload = listed
  BY <1>2 DEF TypeOK, Requests
<1> QED
  BY <1>3, <1>4 DEF listed, code

LEMMA GetEffect ==
  ASSUME TypeOK, NEW s \in Slots, NEW ok \in BOOLEAN, GetPolicyType(s, ok)
  PROVE  /\ req' \in [Slots -> Requests]
         /\ \A x \in Slots \ {s} : req'[x] = req[x]
         /\ req'[s].pc = "done" /\ req'[s].op = req[s].op /\ req'[s].t = req[s].t
         /\ req'[s].code \in {0, 200}
         /\ req'[s].payload \in {None, types[req[s].t]}
<1> DEFINE found == IF ok THEN types[req[s].t] ELSE None
           res == IF ok THEN "nil" ELSE "sdl"
           code == IF found \in Unquotable THEN 0 ELSE 200
           payload == IF found \in Unquotable THEN None ELSE found
<1>1. found \in Schemas \cup {None} /\ found \in {None, types[req[s].t]}
  BY DEF GetPolicyType, At, TypeOK
<1>2. code \in Codes /\ res \in Errors /\ payload \in Payloads
  BY <1>1, CodesUsed DEF Refusals, Errors, Payloads
<1>3. req' = [req EXCEPT ![s].pc = "done", ![s].code = code, ![s].res = res,
                         ![s].payload = payload]
  BY DEF GetPolicyType
<1>6. code \in {0, 200} /\ payload \in {None, types[req[s].t]}
  BY <1>1
<1> HIDE DEF payload, code, res
<1>4. req' \in [Slots -> Requests]
  <2>1. req \in [Slots -> Requests]
    BY DEF TypeOK
  <2> QED
    BY <1>2, <1>3, <2>1, ReadType, Zenon
<1>5. /\ \A x \in Slots \ {s} : req'[x] = req[x]
      /\ req'[s].pc = "done" /\ req'[s].op = req[s].op /\ req'[s].t = req[s].t
      /\ req'[s].code = code /\ req'[s].payload = payload
  BY <1>3 DEF TypeOK, Requests
<1> QED
  BY <1>4, <1>5, <1>6

\* What the SDL call of a create does to its request.
LEMMA CreateEffect ==
  ASSUME TypeOK, NEW s \in Slots, NEW ok \in BOOLEAN, CreatePolicyType(s, ok)
  PROVE  /\ req' \in [Slots -> Requests]
         /\ \A x \in Slots \ {s} : req'[x] = req[x]
         /\ req'[s].pc = "assign" /\ req'[s].op = req[s].op
         /\ req'[s].alone = req[s].alone
         /\ req'[s].stored <=> req'[s].res = "nil"
         /\ \/ UNCHANGED types
            \/ /\ types[req[s].t] = None
               /\ types' = [types EXCEPT ![req[s].t] = req[s].schema]
<1> DEFINE res == IF req[s].id # req[s].t THEN "mismatch"
                  ELSE IF ~ok THEN "sdl"
                  ELSE IF types[req[s].t] # None THEN "exists"
                  ELSE "nil"
           stored == res = "nil"
<1>1. "assign" \in Pcs /\ res \in Errors /\ stored \in BOOLEAN
  BY DEF Pcs, Errors
<1>2. req' = [req EXCEPT ![s].pc = "assign", ![s].res = res, ![s].stored = stored]
  BY DEF CreatePolicyType
<1>3. \/ UNCHANGED types
      \/ /\ types[req[s].t] = None
         /\ types' = [types EXCEPT ![req[s].t] = req[s].schema]
  BY DEF CreatePolicyType
<1> HIDE DEF res
<1>4. req' \in [Slots -> Requests]
  BY <1>1, <1>2, MembersType DEF TypeOK
<1>5. /\ \A x \in Slots \ {s} : req'[x] = req[x]
      /\ req'[s].pc = "assign" /\ req'[s].op = req[s].op
      /\ req'[s].alone = req[s].alone
      /\ req'[s].res = res /\ req'[s].stored = stored
  BY <1>2 DEF TypeOK, Requests
<1> QED
  BY <1>3, <1>4, <1>5

\* What the other steps of a create do: the program counter moves on ...
LEMMA MoveEffect ==
  ASSUME TypeOK, NEW s \in Slots, NEW pc \in TestPcs,
         req' = [req EXCEPT ![s].pc = pc]
  PROVE  /\ req' \in [Slots -> Requests]
         /\ \A x \in Slots \ {s} : req'[x] = req[x]
         /\ req'[s].pc = pc /\ req'[s].op = req[s].op
         /\ req'[s].alone = req[s].alone
         /\ req'[s].stored = req[s].stored /\ req'[s].res = req[s].res
<1>1. req' \in [Slots -> Requests]
  BY MembersType DEF TypeOK, Pcs
<1> QED
  BY <1>1 DEF TypeOK, Requests

\* ... or the request is answered.
LEMMA AnswerEffect ==
  ASSUME TypeOK, NEW s \in Slots, NEW code \in Codes, Answer(s, code)
  PROVE  /\ req' \in [Slots -> Requests]
         /\ \A x \in Slots \ {s} : req'[x] = req[x]
         /\ req'[s].pc = "done" /\ req'[s].op = req[s].op /\ req'[s].code = code
         /\ req'[s].stored = req[s].stored /\ req'[s].res = req[s].res
<1>1. "done" \in Pcs /\ None \in Schemas \cup {None} /\ 0 \in 0..(MaxTypeId + 1)
  BY MaxTypeIdAssumption DEF Pcs
<1>2. req' \in [Slots -> Requests]
  <2>1. [req EXCEPT ![s].pc = "done", ![s].code = code] \in [Slots -> Requests]
    BY <1>1, MembersType DEF TypeOK
  <2> QED
    BY <1>1, <2>1, MembersType DEF Answer
<1> QED
  BY <1>2 DEF TypeOK, Answer, Requests

\* Steps preserve the types.
LEMMA NextType ==
  ASSUME TypeOK, [Next]_vars
  PROVE  TypeOK'
<1>1. CASE UNCHANGED vars
  BY <1>1 DEF TypeOK, vars
<1>2. ASSUME NEW s \in Slots, Arrive(s)
      PROVE  TypeOK'
  <2>1. ASSUME NEW op \in Operations, NEW code \in Refusals, Refuse(s, op, code)
        PROVE  TypeOK'
    <3>1. "done" \in Pcs /\ code \in Codes /\ op \in Operations \cup {"none"}
      BY CodesUsed DEF Pcs
    <3>2. [Free EXCEPT !.pc = "done", !.op = op, !.code = code] \in Requests
      BY <3>1, FreeType, MemberType
    <3> QED
      BY <2>1, <3>2 DEF Refuse, TypeOK, Free
  <2>2. ASSUME NEW op \in Implemented, NEW t \in 0..MaxTypeId,
               NEW schema \in Schemas \cup {None}, NEW id \in 0..(MaxTypeId + 1),
               Called(s, op, t, schema, id)
        PROVE  TypeOK'
    <3>1. CallOf(op, t, schema, id, \A y \in Slots \ {s} : ~Creating(y)) \in Requests
      BY CallType
    <3>2. ASSUME NEW x \in Slots
          PROVE  [req[x] EXCEPT !.alone = @ /\ ~Overlapped(op, x)] \in Requests
      <4>1. req[x] \in Requests /\ (req[x].alone /\ ~Overlapped(op, x)) \in BOOLEAN
        BY DEF TypeOK
      <4> QED
        BY <4>1, MemberType
    <3>3. req' \in [Slots -> Requests]
      BY <2>2, <3>1, <3>2 DEF Called
    <3>4. \A x \in Slots \ {s} : req'[x].pc = req[x].pc /\ req'[x].t = req[x].t
      BY <2>2 DEF Called, TypeOK, Requests
    <3>5. req'[s].pc = op /\ req'[s].t = t
      BY <2>2 DEF Called, CallOf, Free
    <3>6. \A x \in Slots : req'[x].pc \in {"GetPolicyType", "CreatePolicyType"} =>
                           req'[x].t \in PolicyTypes
      BY <2>2, <3>4, <3>5 DEF TypeOK, Called
    <3> QED
      BY <2>2, <3>3, <3>6 DEF TypeOK, Called
  <2> QED
    BY <1>2, <2>1, <2>2, ArriveEffect DEF Refused
<1>3. ASSUME NEW s \in Slots, Step(s)
      PROVE  TypeOK'
  <2>1. ASSUME req' \in [Slots -> Requests],
               \A x \in Slots \ {s} : req'[x] = req[x],
               req'[s].pc \notin {"GetPolicyType", "CreatePolicyType"},
               types' \in [PolicyTypes -> Schemas \cup {None}], err' \in Errors
        PROVE  TypeOK'
    BY <2>1 DEF TypeOK
  <2>2. ASSUME NEW ok \in BOOLEAN, GetAllPolicyType(s, ok)
        PROVE  TypeOK'
    <3>1. req' \in [Slots -> Requests] /\ req'[s].pc = "done"
          /\ \A x \in Slots \ {s} : req'[x] = req[x]
      BY <2>2, GetAllEffect
    <3> QED
      BY <2>1, <2>2, <3>1 DEF GetAllPolicyType, TypeOK
  <2>3. ASSUME NEW ok \in BOOLEAN, GetPolicyType(s, ok)
        PROVE  TypeOK'
    <3>1. req' \in [Slots -> Requests] /\ req'[s].pc = "done"
          /\ \A x \in Slots \ {s} : req'[x] = req[x]
      BY <2>3, GetEffect
    <3> QED
      BY <2>1, <2>3, <3>1 DEF GetPolicyType, TypeOK
  <2>4. ASSUME NEW ok \in BOOLEAN, CreatePolicyType(s, ok)
        PROVE  TypeOK'
    <3>1. types' \in [PolicyTypes -> Schemas \cup {None}]
      BY <2>4, CreateEffect DEF TypeOK, Requests
    <3> QED
      BY <2>1, <2>4, <3>1, CreateEffect DEF CreatePolicyType, TypeOK
  <2>5. CASE AssignErr(s)
    <3>1. err' \in Errors
      BY <2>5 DEF AssignErr, TypeOK, Requests
    <3> QED
      BY <2>1, <2>5, <3>1, MoveEffect DEF AssignErr, TypeOK, TestPcs
  <2>6. ASSUME NEW pc \in TestPcs, req' = [req EXCEPT ![s].pc = pc],
               UNCHANGED <<types, err>>
        PROVE  TypeOK'
    BY <2>1, <2>6, MoveEffect DEF TestPcs, TypeOK
  <2>7. ASSUME NEW code \in Codes, Answer(s, code), UNCHANGED <<types, err>>
        PROVE  TypeOK'
    BY <2>1, <2>7, AnswerEffect DEF TypeOK
  <2>8. CASE ErrIsNil(s) \/ IsTypeAlready(s) \/ IsTypeMismatch(s) \/ ServiceUnavailable(s)
    <3>1. 201 \in Codes /\ 400 \in Codes /\ 503 \in Codes
      BY CodesUsed DEF Refusals
    <3> QED
      BY <2>6, <2>7, <2>8, <3>1
      DEF ErrIsNil, IsTypeAlready, IsTypeMismatch, ServiceUnavailable, TestErr, TestPcs
  <2> QED
    BY <1>3, <2>2, <2>3, <2>4, <2>5, <2>8 DEF Step
<1> QED
  BY <1>1, <1>2, <1>3 DEF Next

\* The types of the variables; every type is read and stored under an id
\* between 1 and the maximum (validatePolicyTypeID of the parameters),
\* whatever path and body say.
THEOREM TypeCorrect == Spec => []TypeOK
<1> QED
  BY InitType, NextType, PTL DEF Spec

-----------------------------------------------------------------------------
(***************************************************************************)
(* The inductive invariant.                                                *)
(***************************************************************************)

\* Where a request is tells which operation it is; a create has its body
\* until it is stored.
FlowInv ==
  \A s \in Slots :
    /\ req[s].pc = "free" => req[s].op = "none"
    /\ req[s].pc \in Implemented => req[s].op = req[s].pc
    /\ req[s].pc \in {"assign"} \cup TestPcs => req[s].op = "CreatePolicyType"
    /\ req[s].pc = "CreatePolicyType" => req[s].schema \in Schemas

\* AnswersStayTrue, about types that there can be.
StayInv ==
  \A s \in Slots :
    /\ Done(s, "GetPolicyType") /\ req[s].payload # None =>
         req[s].t \in PolicyTypes /\ types[req[s].t] = req[s].payload
    /\ Done(s, "GetAllPolicyTypes") =>
         \A t \in req[s].payload : t \in PolicyTypes /\ types[t] # None

\* What err can be at a test, given how the tests before it went.
Tested(pc, e) ==
  /\ pc \in {"exists?", "mismatch?", "other"} => e # "nil"
  /\ pc \in {"mismatch?", "other"} => e # "exists"
  /\ pc = "other" => e # "mismatch"

\* A create stored its type if and only if its own SDL call said so; while
\* no other create overlaps it, err is what that call said.
AloneInv ==
  \A s \in Slots :
    /\ req[s].pc \in {"assign"} \cup TestPcs =>
         (req[s].stored <=> req[s].res = "nil")
    /\ req[s].alone /\ Creating(s) => \A x \in Slots \ {s} : ~Creating(x)
    /\ req[s].alone /\ req[s].pc \in TestPcs =>
         err = req[s].res /\ Tested(req[s].pc, err)
    /\ req[s].alone => RightAnswer(s)

-----------------------------------------------------------------------------
(***************************************************************************)
(* Steps, seen from the invariant.                                         *)
(***************************************************************************)
LEMMA RefuseEffect ==
  ASSUME TypeOK, NEW s \in Slots, NEW op \in Operations, NEW code \in Refusals,
         Refuse(s, op, code)
  PROVE  /\ \A x \in Slots \ {s} : req'[x] = req[x]
         /\ req'[s].pc = "done" /\ req'[s].op = op /\ req'[s].code = code
         /\ req'[s].payload = None /\ req'[s].alone = FALSE
         /\ UNCHANGED <<types, err>>
BY DEF Refuse, Free, TypeOK

LEMMA CalledEffect ==
  ASSUME TypeOK, NEW s \in Slots, NEW op \in Implemented, NEW t, NEW schema,
         NEW id, Called(s, op, t, schema, id)
  PROVE  /\ \A x \in Slots \ {s} :
              /\ req'[x].pc = req[x].pc /\ req'[x].op = req[x].op
              /\ req'[x].t = req[x].t /\ req'[x].schema = req[x].schema
              /\ req'[x].res = req[x].res /\ req'[x].code = req[x].code
              /\ req'[x].payload = req[x].payload
              /\ req'[x].stored = req[x].stored
              /\ req'[x].alone =>
                   req[x].alone /\ ~(op = "CreatePolicyType" /\ Creating(x))
         /\ req'[s].pc = op /\ req'[s].op = op /\ req'[s].schema = schema
         /\ req'[s].alone => \A y \in Slots \ {s} : ~Creating(y)
         /\ op = "CreatePolicyType" => schema \in Schemas
         /\ UNCHANGED <<types, err>>
<1>1. ASSUME NEW x \in Slots \ {s}
      PROVE  /\ req'[x].pc = req[x].pc /\ req'[x].op = req[x].op
             /\ req'[x].t = req[x].t /\ req'[x].schema = req[x].schema
             /\ req'[x].res = req[x].res /\ req'[x].code = req[x].code
             /\ req'[x].payload = req[x].payload
             /\ req'[x].stored = req[x].stored
             /\ req'[x].alone = (req[x].alone /\ ~Overlapped(op, x))
  BY DEF Called, TypeOK, Requests
<1>2. /\ req'[s].pc = op /\ req'[s].op = op /\ req'[s].schema = schema
      /\ req'[s].alone = (\A y \in Slots \ {s} : ~Creating(y))
  BY DEF Called, CallOf, Free
<1> QED
  BY <1>1, <1>2 DEF Called, Overlapped

\* The answer of a step, if it is one.
StepAnswer(s) ==
  \/ /\ req[s].op = "GetAllPolicyTypes"
     /\ req'[s].code = 200
     /\ \/ req'[s].payload = {}
        \/ req'[s].payload = {t \in PolicyTypes : types[t] # None}
  \/ /\ req[s].op = "GetPolicyType"
     /\ req'[s].code \in {0, 200}
     /\ req'[s].t = req[s].t /\ req[s].t \in PolicyTypes
     /\ req'[s].payload \in {None, types[req[s].t]}
  \/ /\ req[s].op = "CreatePolicyType"
     /\ req'[s].code \in {201, 400, 503}

LEMMA StepEffect ==
  ASSUME TypeOK, FlowInv, NEW s \in Slots, Step(s)
  PROVE  /\ \A x \in Slots \ {s} : req'[x] = req[x]
         /\ req'[s].op = req[s].op
         /\ \/ /\ req'[s].pc \in {"assign"} \cup TestPcs
               /\ req[s].op = "CreatePolicyType"
            \/ /\ req'[s].pc = "done" /\ StepAnswer(s) /\ UNCHANGED types
<1>1. ASSUME NEW ok \in BOOLEAN, GetAllPolicyType(s, ok)
      PROVE  req[s].op = "GetAllPolicyTypes" /\ UNCHANGED types
  BY <1>1 DEF GetAllPolicyType, At, FlowInv, Implemented
<1>2. ASSUME NEW ok \in BOOLEAN, GetPolicyType(s, ok)
      PROVE  req[s].op = "GetPolicyType" /\ UNCHANGED types /\ req[s].t \in PolicyTypes
  BY <1>2 DEF GetPolicyType, At, FlowInv, Implemented, TypeOK
<1>3. ASSUME NEW ok \in BOOLEAN, CreatePolicyType(s, ok)
      PROVE  req[s].op = "CreatePolicyType"
  BY <1>3 DEF CreatePolicyType, At, FlowInv, Implemented
<1>4. ASSUME NEW pc \in TestPcs, req' = [req EXCEPT ![s].pc = pc],
             req[s].op = "CreatePolicyType"
      PROVE  /\ \A x \in Slots \ {s} : req'[x] = req[x]
             /\ req'[s].op = req[s].op
             /\ req'[s].pc \in {"assign"} \cup TestPcs
  BY <1>4, MoveEffect
<1>5. ASSUME NEW code \in {201, 400, 503}, Answer(s, code), UNCHANGED types,
             req[s].op = "CreatePolicyType"
      PROVE  /\ \A x \in Slots \ {s} : req'[x] = req[x]
             /\ req'[s].op = req[s].op
             /\ req'[s].pc = "done" /\ StepAnswer(s) /\ UNCHANGED types
  <2>1. code \in Codes
    BY CodesUsed DEF Refusals
  <2> QED
    BY <1>5, <2>1, AnswerEffect DEF StepAnswer
<1>6. CASE AssignErr(s)
  BY <1>4, <1>6 DEF AssignErr, At, FlowInv, TestPcs
<1>7. CASE ErrIsNil(s)
  BY <1>4, <1>5, <1>7 DEF ErrIsNil, TestErr, At, FlowInv, TestPcs
<1>8. CASE IsTypeAlready(s)
  BY <1>4, <1>5, <1>8 DEF IsTypeAlready, TestErr, At, FlowInv, TestPcs
<1>9. CASE IsTypeMismatch(s)
  BY <1>4, <1>5, <1>9 DEF IsTypeMismatch, TestErr, At, FlowInv, TestPcs
<1>10. CASE ServiceUnavailable(s)
  BY <1>5, <1>10 DEF ServiceUnavailable, At, FlowInv, TestPcs
<1>11. CASE \E ok \in BOOLEAN : GetAllPolicyType(s, ok)
  BY <1>1, <1>11, GetAllEffect DEF StepAnswer
<1>12. CASE \E ok \in BOOLEAN : GetPolicyType(s, ok)
  BY <1>2, <1>12, GetEffect DEF StepAnswer
<1>13. CASE \E ok \in BOOLEAN : CreatePolicyType(s, ok)
  BY <1>3, <1>13, CreateEffect
<1> QED
  BY <1>6, <1>7, <1>8, <1>9, <1>10, <1>11, <1>12, <1>13 DEF Step

\* A type that is stored stays as it is.
LEMMA TypesStay ==
  ASSUME TypeOK, NEW s \in Slots, Step(s), NEW t \in PolicyTypes, types[t] # None
  PROVE  types'[t] = types[t]
<1>1. ASSUME NEW ok \in BOOLEAN, CreatePolicyType(s, ok)
      PROVE  types'[t] = types[t]
  BY <1>1, CreateEffect DEF TypeOK
<1> QED
  BY <1>1
  DEF Step, GetAllPolicyType, GetPolicyType, AssignErr, ErrIsNil, IsTypeAlready,
      IsTypeMismatch, TestErr, ServiceUnavailable

-----------------------------------------------------------------------------
(***************************************************************************)
(* Steps preserve the invariant.                                           *)
(***************************************************************************)
LEMMA FlowNext ==
  ASSUME TypeOK, FlowInv, [Next]_vars
  PROVE  FlowInv'
<1>1. CASE UNCHANGED vars
  BY <1>1 DEF FlowInv, vars
<1>2. ASSUME NEW s \in Slots, Arrive(s)
      PROVE  FlowInv'
  <2>1. ASSUME NEW op \in Operations, NEW code \in Refusals, Refuse(s, op, code)
        PROVE  FlowInv'
    <3>1. /\ \A x \in Slots \ {s} : req'[x] = req[x]
          /\ req'[s].pc = "done"
      BY <2>1, RefuseEffect
    <3> QED
      BY <3>1 DEF FlowInv, Implemented, TestPcs
  <2>2. ASSUME NEW op \in Implemented, NEW t, NEW schema, NEW id,
               Called(s, op, t, schema, id)
        PROVE  FlowInv'
    BY <2>2, CalledEffect DEF FlowInv, Implemented, TestPcs
  <2> QED
    BY <1>2, <2>1, <2>2, ArriveEffect DEF Refused
<1>3. ASSUME NEW s \in Slots, Step(s)
      PROVE  FlowInv'
  BY <1>3, StepEffect DEF FlowInv, Implemented, TestPcs
<1> QED
  BY <1>1, <1>2, <1>3 DEF Next

LEMMA StayNext ==
  ASSUME TypeOK, FlowInv, StayInv, [Next]_vars
  PROVE  StayInv'
<1>1. CASE UNCHANGED vars
  BY <1>1 DEF StayInv, Done, vars
<1>2. ASSUME NEW s \in Slots, Arrive(s)
      PROVE  StayInv'
  <2>1. ASSUME NEW op \in Operations \ {"GetAllPolicyTypes"},
               NEW code \in Refusals, Refuse(s, op, code)
        PROVE  StayInv'
    <3>1. /\ \A x \in Slots \ {s} : req'[x] = req[x]
          /\ req'[s].pc = "done" /\ req'[s].op = op /\ req'[s].code = code
          /\ req'[s].payload = None /\ UNCHANGED types
      BY <2>1, RefuseEffect
    <3> QED
      BY <3>1 DEF StayInv, Done
  <2>2. ASSUME NEW op \in Implemented, NEW t, NEW schema, NEW id,
               Called(s, op, t, schema, id)
        PROVE  StayInv'
    BY <2>2, CalledEffect DEF StayInv, Done, Implemented
  <2> QED
    BY <1>2, <2>1, <2>2, ArriveEffect DEF Refused
<1>3. ASSUME NEW s \in Slots, Step(s)
      PROVE  StayInv'
  <2>1. ASSUME NEW x \in Slots \ {s}
        PROVE  /\ Done(x, "GetPolicyType")' /\ req'[x].payload # None =>
                    req'[x].t \in PolicyTypes /\ types'[req'[x].t] = req'[x].payload
               /\ Done(x, "GetAllPolicyTypes")' =>
                    \A t \in req'[x].payload : t \in PolicyTypes /\ types'[t] # None
    <3>1. req'[x] = req[x]
      BY <1>3, StepEffect
    <3>2. Done(x, "GetPolicyType") /\ req[x].payload # None => types[req[x].t] # None
      BY DEF StayInv, TypeOK, Requests
    <3> QED
      BY <1>3, <3>1, <3>2, TypesStay DEF StayInv, Done
  <2>2. /\ Done(s, "GetPolicyType")' /\ req'[s].payload # None =>
             req'[s].t \in PolicyTypes /\ types'[req'[s].t] = req'[s].payload
        /\ Done(s, "GetAllPolicyTypes")' =>
             \A t \in req'[s].payload : t \in PolicyTypes /\ types'[t] # None
    BY <1>3, StepEffect DEF StepAnswer, Done, TestPcs
  <2> QED
    BY <2>1, <2>2 DEF StayInv
<1> QED
  BY <1>1, <1>2, <1>3 DEF Next

\* Only the creates of other requests can take err away from a create.
LEMMA AloneNext ==
  ASSUME TypeOK, FlowInv, AloneInv, [Next]_vars
  PROVE  AloneInv'
<1>1. CASE UNCHANGED vars
  BY <1>1 DEF AloneInv, Creating, RightAnswer, Done, vars
<1>2. ASSUME NEW s \in Slots, Arrive(s)
      PROVE  AloneInv'
  <2>1. ~Creating(s)
    BY <1>2, ArriveEffect DEF Creating, FlowInv
  <2>2. ASSUME NEW op \in Operations, NEW code \in Refusals, Refuse(s, op, code)
        PROVE  AloneInv'
    <3>1. /\ \A x \in Slots \ {s} : req'[x] = req[x]
          /\ req'[s].pc = "done" /\ req'[s].alone = FALSE
          /\ UNCHANGED <<types, err>>
      BY <2>2, RefuseEffect
    <3> QED
      BY <2>1, <3>1 DEF AloneInv, Creating, RightAnswer, Done, TestPcs
  <2>3. ASSUME NEW op \in Implemented, NEW t, NEW schema, NEW id,
               Called(s, op, t, schema, id)
        PROVE  AloneInv'
    <3>1. \A x \in Slots \ {s} :
            /\ req'[x].pc = req[x].pc /\ req'[x].op = req[x].op
            /\ req'[x].t = req[x].t /\ req'[x].res = req[x].res
            /\ req'[x].code = req[x].code /\ req'[x].stored = req[x].stored
            /\ req'[x].alone =>
                 req[x].alone /\ ~(op = "CreatePolicyType" /\ Creating(x))
      BY <2>3, CalledEffect
    <3>2. /\ req'[s].pc = op /\ req'[s].op = op /\ UNCHANGED err
          /\ req'[s].alone => \A y \in Slots \ {s} : ~Creating(y)
      BY <2>3, CalledEffect
    <3>3. \A x \in Slots \ {s} : Creating(x)' <=> Creating(x)
      BY <3>1 DEF Creating
    <3>4. Creating(s)' => op = "CreatePolicyType"
      BY <3>2 DEF Creating
    <3>5. ASSUME NEW x \in Slots \ {s}
          PROVE  /\ req'[x].pc \in {"assign"} \cup TestPcs =>
                      (req'[x].stored <=> req'[x].res = "nil")
                 /\ req'[x].alone /\ Creating(x)' => \A y \in Slots \ {x} : ~Creating(y)'
                 /\ req'[x].alone /\ req'[x].pc \in TestPcs =>
                      err' = req'[x].res /\ Tested(req'[x].pc, err')
                 /\ req'[x].alone => RightAnswer(x)'
      BY <3>1, <3>2, <3>3, <3>4 DEF AloneInv, RightAnswer, Done
    <3>6. /\ req'[s].pc \notin {"assign", "done"} \cup TestPcs
          /\ req'[s].alone /\ Creating(s)' => \A y \in Slots \ {s} : ~Creating(y)'
      BY <3>2, <3>3 DEF Implemented, TestPcs
    <3> QED
      BY <3>5, <3>6 DEF AloneInv, RightAnswer, Done
  <2> QED
    BY <1>2, <2>2, <2>3, ArriveEffect DEF Refused
<1>3. ASSUME NEW s \in Slots, Step(s)
      PROVE  AloneInv'
  <2>1. /\ \A x \in Slots \ {s} : req'[x] = req[x]
        /\ req'[s].op = req[s].op
    BY <1>3, StepEffect
  <2>2. req[s].pc # "done"
    BY <1>3 DEF Step, GetAllPolicyType, GetPolicyType, CreatePolicyType,
                AssignErr, ErrIsNil, IsTypeAlready, IsTypeMismatch, TestErr,
                ServiceUnavailable, At
  <2>3. \A x \in Slots : Creating(x)' => Creating(x)
    BY <2>1, <2>2 DEF Creating
  <2>4. ASSUME NEW x \in Slots \ {s}, req[x].alone, req[x].pc \in TestPcs
        PROVE  UNCHANGED err
    <3>1. Creating(x)
      BY <2>4 DEF Creating, FlowInv, TestPcs
    <3>2. ~Creating(s)
      BY <2>4, <3>1 DEF AloneInv
    <3>3. ~AssignErr(s)
      BY <3>2 DEF AssignErr, At, Creating, FlowInv
    <3> QED
      BY <1>3, <3>3
      DEF Step, GetAllPolicyType, GetPolicyType, CreatePolicyType, ErrIsNil,
          IsTypeAlready, IsTypeMismatch, TestErr, ServiceUnavailable
  <2>5. ASSUME NEW x \in Slots \ {s}
        PROVE  /\ req'[x].pc \in {"assign"} \cup TestPcs =>
                    (req'[x].stored <=> req'[x].res = "nil")
               /\ req'[x].alone /\ Creating(x)' => \A y \in Slots \ {x} : ~Creating(y)'
               /\ req'[x].alone /\ req'[x].pc \in TestPcs =>
                    err' = req'[x].res /\ Tested(req'[x].pc, err')
               /\ req'[x].alone => RightAnswer(x)'
    BY <2>1, <2>3, <2>4 DEF AloneInv, RightAnswer, Done
  <2> DEFINE Own ==
        /\ req'[s].pc \in {"assign"} \cup TestPcs =>
             (req'[s].stored <=> req'[s].res = "nil")
        /\ req'[s].alone => req[s].alone
        /\ req'[s].alone /\ req'[s].pc \in TestPcs =>
             err' = req'[s].res /\ Tested(req'[s].pc, err')
        /\ req'[s].alone => RightAnswer(s)'
  <2>6. SUFFICES Own
    <3>1. Own => (req'[s].alone /\ Creating(s)' => \A y \in Slots \ {s} : ~Creating(y)')
      BY <2>3 DEF AloneInv
    <3> QED
      BY <2>5, <3>1 DEF AloneInv
  <2>7. CASE \E ok \in BOOLEAN : GetAllPolicyType(s, ok)
    <3>1. req[s].op = "GetAllPolicyTypes"
      BY <2>7 DEF GetAllPolicyType, At, FlowInv, Implemented
    <3>2. req'[s].pc = "done"
      BY <2>7, GetAllEffect
    <3>3. req'[s].alone = req[s].alone
      BY <2>7 DEF GetAllPolicyType, TypeOK, Requests
    <3> QED
      BY <2>1, <3>1, <3>2, <3>3 DEF TestPcs, RightAnswer, Done
  <2>8. CASE \E ok \in BOOLEAN : GetPolicyType(s, ok)
    <3>1. req[s].op = "GetPolicyType"
      BY <2>8 DEF GetPolicyType, At, FlowInv, Implemented
    <3>2. req'[s].pc = "done"
      BY <2>8, GetEffect
    <3>3. req'[s].alone = req[s].alone
      BY <2>8 DEF GetPolicyType, TypeOK, Requests
    <3> QED
      BY <2>1, <3>1, <3>2, <3>3 DEF TestPcs, RightAnswer, Done
  <2>9. CASE \E ok \in BOOLEAN : CreatePolicyType(s, ok)
    BY <2>9, CreateEffect DEF TestPcs, RightAnswer, Done
  <2>10. CASE AssignErr(s)
    <3>1. "nil?" \in TestPcs
      BY DEF TestPcs
    <3>2. /\ req'[s].pc = "nil?" /\ req'[s].alone = req[s].alone
          /\ req'[s].stored = req[s].stored /\ req'[s].res = req[s].res
          /\ err' = req[s].res /\ req[s].pc = "assign"
      BY <2>10, <3>1, MoveEffect DEF AssignErr, At
    <3> QED
      BY <3>1, <3>2 DEF AloneInv, Tested, RightAnswer, Done
  <2>11. ASSUME NEW pc \in TestPcs, NEW next \in TestPcs, NEW value,
                At(s, pc), err # value, req' = [req EXCEPT ![s].pc = next],
                UNCHANGED err,
                Tested(pc, err) => Tested(next, err)
         PROVE  Own
    <3>1. /\ req'[s].pc = next /\ req'[s].alone = req[s].alone
          /\ req'[s].stored = req[s].stored /\ req'[s].res = req[s].res
      BY <2>11, MoveEffect
    <3> QED
      BY <2>11, <3>1 DEF AloneInv, At, RightAnswer, Done, TestPcs
  <2>12. ASSUME NEW pc \in TestPcs, NEW code \in Codes, At(s, pc), Answer(s, code),
                Tested(pc, err) => (code = 201 <=> err = "nil")
                                   /\ (code = 503 <=> err = "sdl")
         PROVE  Own
    <3>1. /\ req'[s].pc = "done" /\ req'[s].code = code
          /\ req'[s].stored = req[s].stored /\ req'[s].res = req[s].res
      BY <2>12, AnswerEffect
    <3>2. req'[s].alone = req[s].alone
      BY <2>12 DEF Answer, TypeOK, Requests
    <3> QED
      BY <2>12, <3>1, <3>2 DEF AloneInv, At, RightAnswer, Done, TestPcs
  <2>codes. 201 \in Codes /\ 400 \in Codes /\ 503 \in Codes
    BY CodesUsed DEF Refusals
  <2>13. CASE ErrIsNil(s)
    BY <2>codes, <2>11, <2>12, <2>13 DEF ErrIsNil, TestErr, TestPcs, Tested
  <2>14. CASE IsTypeAlready(s)
    BY <2>codes, <2>11, <2>12, <2>14 DEF IsTypeAlready, TestErr, TestPcs, Tested
  <2>15. CASE IsTypeMismatch(s)
    BY <2>codes, <2>11, <2>12, <2>15 DEF IsTypeMismatch, TestErr, TestPcs, Tested
  <2>16. CASE ServiceUnavailable(s)
    <3>1. err \in Errors
      BY DEF TypeOK
    <3> QED
      BY <2>codes, <2>12, <2>16, <3>1 DEF ServiceUnavailable, TestPcs, Tested, Errors
  <2> QED
    BY <1>3, <2>7, <2>8, <2>9, <2>10, <2>13, <2>14, <2>15, <2>16 DEF Step
<1> QED
  BY <1>1, <1>2, <1>3 DEF Next

-----------------------------------------------------------------------------
(***************************************************************************)
(* Theorems.                                                               *)
(***************************************************************************)
IInv == TypeOK /\ FlowInv /\ StayInv /\ AloneInv

\* The invariant is inductive.
LEMMA Inductive == Spec => []IInv
<1>1. Init => IInv
  <2> SUFFICES ASSUME Init PROVE IInv
    OBVIOUS
  <2>1. \A s \in Slots : req[s].pc = "free" /\ req[s].op = "none" /\ req[s].alone = FALSE
    BY DEF Init, Free
  <2> QED
    BY <2>1, InitType
    DEF IInv, FlowInv, StayInv, AloneInv, Done, Creating, RightAnswer,
        Implemented, TestPcs
<1>2. IInv /\ [Next]_vars => IInv'
  BY NextType, FlowNext, StayNext, AloneNext DEF IInv
<1> QED
  BY <1>1, <1>2, PTL DEF Spec

\* What a GET has answered stays true, whatever requests and SDL errors
\* follow it (resthooks.go 59-157).
THEOREM ReadsStayTrue == Spec => []AnswersStayTrue
<1>1. IInv => AnswersStayTrue
  BY DEF IInv, StayInv, AnswersStayTrue
<1> QED
  BY <1>1, Inductive, PTL

\* A create that no other create overlaps is answered from its own result,
\* although err is shared (restful.go 46, 59-66).
THEOREM AloneAnsweredRight == Spec => []AloneRightAnswer
<1>1. IInv => AloneRightAnswer
  BY DEF IInv, AloneInv, AloneRightAnswer
<1> QED
  BY <1>1, Inductive, PTL

\* The port implements the registry of policy types: a type is stored where
\* there is none and never changes after that (resthooks.go 133-157).
THEOREM ImplementsRegistry == Spec => RegistrySpec
<1>1. Init => Registry!Init
  BY DEF Init, Registry!Init, NoInstances, Registry!Keys
<1>2. ASSUME IInv, [Next]_vars
      PROVE  [Registry!Next]_(Registry!vars)
  <2>1. UNCHANGED NoInstances
    BY DEF NoInstances
  <2>2. ASSUME UNCHANGED types
        PROVE  [Registry!Next]_(Registry!vars)
    BY <2>1, <2>2 DEF Registry!vars
  <2>3. ASSUME NEW s \in Slots, NEW ok \in BOOLEAN, CreatePolicyType(s, ok)
        PROVE  [Registry!Next]_(Registry!vars)
    <3>1. CASE UNCHANGED types
      BY <2>2, <3>1
    <3>2. CASE /\ types[req[s].t] = None
               /\ types' = [types EXCEPT ![req[s].t] = req[s].schema]
      <4>1. req[s].t \in PolicyTypes /\ req[s].schema \in Schemas
        BY <1>2, <2>3 DEF CreatePolicyType, At, IInv, TypeOK, FlowInv
      <4>2. Registry!CreateType(req[s].t, req[s].schema)
        BY <2>1, <3>2 DEF Registry!CreateType
      <4> QED
        BY <4>1, <4>2 DEF Registry!Next
    <3> QED
      BY <1>2, <2>3, <3>1, <3>2, CreateEffect DEF IInv
  <2>4. ASSUME NEW s \in Slots, Arrive(s)
        PROVE  UNCHANGED types
    BY <2>4, ArriveEffect DEF Refused, Refuse, Called
  <2>5. CASE UNCHANGED vars
    BY <2>2, <2>5 DEF vars
  <2>6. ASSUME NEW s \in Slots, Step(s)
        PROVE  [Registry!Next]_(Registry!vars)
    BY <2>2, <2>3, <2>6
    DEF Step, GetAllPolicyType, GetPolicyType, AssignErr, ErrIsNil,
        IsTypeAlready, IsTypeMismatch, TestErr, ServiceUnavailable
  <2> QED
    BY <1>2, <2>2, <2>4, <2>5, <2>6 DEF Next
<1> QED
  BY <1>1, <1>2, Inductive, PTL DEF Spec, RegistrySpec, Registry!Spec
=============================================================================
