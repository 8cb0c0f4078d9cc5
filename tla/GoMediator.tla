----------------------------- MODULE GoMediator -----------------------------
(***************************************************************************)
(* The Go port of the mediator (src/a1-go): the operations of the          *)
(* generated REST API, of which three are implemented, with the handlers   *)
(* of pkg/restful and the SDL calls of pkg/resthooks.                      *)
(*                                                                         *)
(* net/http serves every request in a goroutine of its own, so handlers    *)
(* interleave between any two SDL calls and between any two accesses to    *)
(* the variable err, which the create handler does not declare but shares  *)
(* with all its calls (restful.go 46, 59-66).  A read or write of err is   *)
(* taken to be atomic.  SDL calls may fail at any time.                    *)
(*                                                                         *)
(* The debug line resthooks.go 125 names a variable that is not declared;  *)
(* it is read as if it were not there.                                     *)
(***************************************************************************)
EXTENDS Naturals

CONSTANTS
  MaxTypeId,   \* the maximum of a policy type id, 2147483647 in the code
  Schemas,     \* bodies of policy types, as their JSON text
  Unquotable,  \* those whose text has a back quote in it
  None, NotInt,
  Slots        \* bound: requests served at the same time

\* The ids that a path may have; the id that a body says has no bounds.
PolicyTypes == 1..MaxTypeId

ASSUME MaxTypeIdAssumption == MaxTypeId \in Nat \ {0}
ASSUME SchemasAssumption == Unquotable \subseteq Schemas /\ None \notin Schemas
ASSUME NotIntAssumption == NotInt \notin Nat

VARIABLES types,  \* SDL a1.policy_type.<t>: the schema, or None
          err,    \* the variable of setupHandler
          req     \* the requests being served, or answered last

vars == <<types, err, req>>

Errors == {"nil", "exists", "mismatch", "sdl"}

Free == [pc |-> "free", op |-> "none", t |-> 0, schema |-> None, id |-> 0,
         res |-> "nil", code |-> 0, payload |-> None, stored |-> FALSE,
         alone |-> FALSE]

\* setupHandler: err is nil after the embedded specification was loaded.
Init ==
  /\ types = [t \in PolicyTypes |-> None]
  /\ err = "nil"
  /\ req = [s \in Slots |-> Free]

-----------------------------------------------------------------------------
(***************************************************************************)
(* BindRequest: the code of the error with which the parameters of a       *)
(* request are refused, or 0.                                              *)
(***************************************************************************)
Bodies == {"none", "garbage", "invalid", "object"}
Calls == [raw : 0..(MaxTypeId + 1) \cup {NotInt}, body : Bodies]

\* Bug: the minimum of a type id is 0.
TypeIdError_FromZero(r) == IF r.raw \in 0..MaxTypeId THEN 0 ELSE 422

\* ConvertInt64, MinimumInt and MaximumInt.
TypeIdError(r) == IF r.raw \in PolicyTypes THEN 0 ELSE 422

\* A body that is there is parsed ...
JsonError(r) == IF r.body = "garbage" THEN 400 ELSE 0

\* ... and one of a policy type has to have the required members.
SchemaError(r) == IF r.body = "invalid" THEN 422 ELSE JsonError(r)

First(a, b) == IF a # 0 THEN a ELSE b

BindGetHealthcheck(r) == 0
BindGetAllPolicyTypes(r) == 0
BindGetPolicyType(r) == TypeIdError(r)
BindCreatePolicyType(r) == First(SchemaError(r), TypeIdError(r))
BindDeletePolicyType(r) == TypeIdError(r)
BindGetAllInstancesForType(r) == TypeIdError(r)
BindGetPolicyInstance(r) == TypeIdError(r)
BindGetPolicyInstanceStatus(r) == TypeIdError(r)
BindCreateOrReplacePolicyInstance(r) == First(JsonError(r), TypeIdError(r))
BindDeletePolicyInstance(r) == TypeIdError(r)
BindDataDelivery(r) == JsonError(r)

-----------------------------------------------------------------------------
(***************************************************************************)
(* The responses that the generated API has for each operation.            *)
(***************************************************************************)
GetHealthcheckResponses == {200}
GetAllPolicyTypesResponses == {200, 503}
GetPolicyTypeResponses == {200, 404, 503}
CreatePolicyTypeResponses == {201, 400, 503}
DeletePolicyTypeResponses == {204, 400, 404, 503}
GetAllInstancesForTypeResponses == {200, 503}
GetPolicyInstanceResponses == {200, 404, 503}
GetPolicyInstanceStatusResponses == {200, 404, 503}
CreateOrReplacePolicyInstanceResponses == {202, 400, 404, 503}
DeletePolicyInstanceResponses == {202, 404, 503}
DataDeliveryResponses == {200, 404}

-----------------------------------------------------------------------------
(***************************************************************************)
(* Routing.                                                                *)
(***************************************************************************)

\* initHandlerCache: the routes.
Route(r) ==
  [GetHealthcheck |-> BindGetHealthcheck(r),
   GetAllPolicyTypes |-> BindGetAllPolicyTypes(r),
   GetPolicyType |-> BindGetPolicyType(r),
   CreatePolicyType |-> BindCreatePolicyType(r),
   DeletePolicyType |-> BindDeletePolicyType(r),
   GetAllInstancesForType |-> BindGetAllInstancesForType(r),
   GetPolicyInstance |-> BindGetPolicyInstance(r),
   GetPolicyInstanceStatus |-> BindGetPolicyInstanceStatus(r),
   CreateOrReplacePolicyInstance |-> BindCreateOrReplacePolicyInstance(r),
   DeletePolicyInstance |-> BindDeletePolicyInstance(r),
   DataDelivery |-> BindDataDelivery(r)]

Responses ==
  [GetHealthcheck |-> GetHealthcheckResponses,
   GetAllPolicyTypes |-> GetAllPolicyTypesResponses,
   GetPolicyType |-> GetPolicyTypeResponses,
   CreatePolicyType |-> CreatePolicyTypeResponses,
   DeletePolicyType |-> DeletePolicyTypeResponses,
   GetAllInstancesForType |-> GetAllInstancesForTypeResponses,
   GetPolicyInstance |-> GetPolicyInstanceResponses,
   GetPolicyInstanceStatus |-> GetPolicyInstanceStatusResponses,
   CreateOrReplacePolicyInstance |-> CreateOrReplacePolicyInstanceResponses,
   DeletePolicyInstance |-> DeletePolicyInstanceResponses,
   DataDelivery |-> DataDeliveryResponses]

Operations == DOMAIN Responses

\* The handlers that setupHandler installs; NewA1API answers the rest 501.
Implemented == {"GetAllPolicyTypes", "GetPolicyType", "CreatePolicyType"}

Creating(s) == req[s].op = "CreatePolicyType" /\ req[s].pc # "done"

\* The handler returns its responder; the body of the request is dropped.
Answer(s, code) ==
  req' = [req EXCEPT ![s].pc = "done", ![s].code = code,
                     ![s].schema = None, ![s].id = 0]

\* A request that is answered before its handler runs.
Refuse(s, op, code) ==
  /\ req' = [req EXCEPT ![s] = [Free EXCEPT !.pc = "done", !.op = op,
                                            !.code = code]]
  /\ UNCHANGED <<types, err>>

\* A create without a body: Body is nil, and *params.Body panics.
NoBody(op, r) == op = "CreatePolicyType" /\ r.body = "none"

\* ServeHTTP of the operation: bind the parameters, call the handler, which
\* runs up to its first SDL call.  A policy type says its own id.
ServeHTTP(s, op, r, schema, id) ==
  /\ req[s].pc \in {"free", "done"}
  /\ \/ Route(r)[op] # 0 /\ Refuse(s, op, Route(r)[op])
     \/ /\ Route(r)[op] = 0 /\ op \notin Implemented
        /\ Refuse(s, op, 501)
     \/ Route(r)[op] = 0 /\ NoBody(op, r) /\ Refuse(s, op, 0)
     \/ /\ Route(r)[op] = 0 /\ op \in Implemented /\ ~NoBody(op, r)
        /\ LET others == {x \in Slots \ {s} : Creating(x)}
               call == [Free EXCEPT !.pc = op, !.op = op, !.schema = schema,
                          !.t = IF op = "GetAllPolicyTypes" THEN 0 ELSE r.raw,
                          !.id = id, !.alone = others = {}]
           IN  req' = [x \in Slots |->
                         IF x = s THEN call
                         ELSE [req[x] EXCEPT
                                 !.alone = @ /\ ~(/\ op = "CreatePolicyType"
                                                  /\ x \in others)]]
        /\ UNCHANGED <<types, err>>

-----------------------------------------------------------------------------
(***************************************************************************)
(* resthooks.go, and what restful.go makes of it.                          *)
(***************************************************************************)
At(s, pc) == req[s].pc = pc

\* GetAllPolicyType: an SDL error is logged and the list is empty.
GetAllPolicyType(s, ok) ==
  /\ At(s, "GetAllPolicyTypes")
  /\ req' = [req EXCEPT
       ![s].pc = "done", ![s].code = 200,
       ![s].res = IF ok THEN "nil" ELSE "sdl",
       ![s].payload = IF ok THEN {t \in PolicyTypes : types[t] # None} ELSE {}]
  /\ UNCHANGED <<types, err>>

\* GetPolicyType: an absent type and an SDL error are both a nil payload; the
\* text of a present one is put between back quotes and unquoted, and the
\* panic if that fails ends the request without an answer.
GetPolicyType(s, ok) ==
  LET found == IF ok THEN types[req[s].t] ELSE None IN
  /\ At(s, "GetPolicyType")
  /\ req' = [req EXCEPT
       ![s].pc = "done",
       ![s].code = IF found \in Unquotable THEN 0 ELSE 200,
       ![s].res = IF ok THEN "nil" ELSE "sdl",
       ![s].payload = IF found \in Unquotable THEN None ELSE found]
  /\ UNCHANGED <<types, err>>

\* Bug: the type is written whether or not it exists.
CreatePolicyType_Set(s, ok) ==
  LET t == req[s].t IN
  /\ At(s, "CreatePolicyType")
  /\ types' = IF ok THEN [types EXCEPT ![t] = req[s].schema] ELSE types
  /\ req' = [req EXCEPT ![s].pc = "assign",
                        ![s].res = IF ok THEN "nil" ELSE "sdl",
                        ![s].stored = ok]
  /\ UNCHANGED err

\* CreatePolicyType: the mismatch is found before the atomic SetIfNotExists.
CreatePolicyType(s, ok) ==
  LET t == req[s].t
      res == IF req[s].id # t THEN "mismatch"
             ELSE IF ~ok THEN "sdl"
             ELSE IF types[t] # None THEN "exists"
             ELSE "nil" IN
  /\ At(s, "CreatePolicyType")
  /\ types' = IF res = "nil" THEN [types EXCEPT ![t] = req[s].schema]
              ELSE types
  /\ req' = [req EXCEPT ![s].pc = "assign", ![s].res = res,
                        ![s].stored = res = "nil"]
  /\ UNCHANGED err

\* err = r.rh.CreatePolicyType(...)
AssignErr(s) ==
  /\ At(s, "assign")
  /\ err' = req[s].res
  /\ req' = [req EXCEPT ![s].pc = "nil?"]
  /\ UNCHANGED types

\* One test of err: the answer if it holds, or the next test.
TestErr(s, pc, value, code, next) ==
  /\ At(s, pc)
  /\ \/ err = value /\ Answer(s, code)
     \/ err # value /\ req' = [req EXCEPT ![s].pc = next]
  /\ UNCHANGED <<types, err>>

ErrIsNil(s) == TestErr(s, "nil?", "nil", 201, "exists?")

\* Bug: a mismatch is not tested for.
IsTypeAlready_Only(s) == TestErr(s, "exists?", "exists", 400, "other")

IsTypeAlready(s) == TestErr(s, "exists?", "exists", 400, "mismatch?")
IsTypeMismatch(s) == TestErr(s, "mismatch?", "mismatch", 400, "other")

\* None of the tests: ServiceUnavailable.
ServiceUnavailable(s) ==
  At(s, "other") /\ Answer(s, 503) /\ UNCHANGED <<types, err>>

Step(s) ==
  \/ \E ok \in BOOLEAN : \/ GetAllPolicyType(s, ok)
                         \/ GetPolicyType(s, ok)
                         \/ CreatePolicyType(s, ok)
  \/ AssignErr(s) \/ ErrIsNil(s) \/ IsTypeAlready(s) \/ IsTypeMismatch(s)
  \/ ServiceUnavailable(s)

\* The operations that take a body.
WithBody ==
  {"CreatePolicyType", "CreateOrReplacePolicyInstance", "DataDelivery"}

\* A valid body of a create has a schema and a type id, of any value.
Arrive(s) ==
  \E op \in Operations, r \in Calls :
    /\ op \notin WithBody => r.body = "none"
    /\ IF op = "CreatePolicyType" /\ r.body = "object"
       THEN \E schema \in Schemas, id \in 0..(MaxTypeId + 1) :
              ServeHTTP(s, op, r, schema, id)
       ELSE ServeHTTP(s, op, r, None, 0)

Next == \E s \in Slots : Arrive(s) \/ Step(s)

Spec == Init /\ [][Next]_vars

-----------------------------------------------------------------------------
(***************************************************************************)
(* Properties.                                                             *)
(***************************************************************************)
Done(s, op) == req[s].pc = "done" /\ req[s].op = op

\* The codes of answers: those of the operations, of parameters that are
\* refused, of what is not implemented, and 0 for a connection that is closed
\* without an answer.
Declared == UNION {Responses[op] : op \in Operations}
Codes == Declared \cup {0, 400, 422, 501}

\* A request: where its handler is, its parameters, what SDL returned, and the
\* answer.
Requests ==
  [pc : Implemented \cup {"free", "done", "assign", "nil?", "exists?",
                          "mismatch?", "other"},
   op : Operations \cup {"none"}, t : 0..MaxTypeId,
   schema : Schemas \cup {None}, id : 0..(MaxTypeId + 1), res : Errors,
   code : Codes,
   payload : Schemas \cup {None} \cup SUBSET PolicyTypes,
   stored : BOOLEAN, alone : BOOLEAN]

\* Every variable has its type; types are read and stored under valid ids only.
TypeOK ==
  /\ types \in [PolicyTypes -> Schemas \cup {None}]
  /\ err \in Errors
  /\ req \in [Slots -> Requests]
  /\ \A s \in Slots : req[s].pc \in {"GetPolicyType", "CreatePolicyType"} =>
                       req[s].t \in PolicyTypes

\* The right answer to a create: 201 if and only if this request stored the
\* type, 503 if and only if SDL failed.
RightAnswer(s) ==
  Done(s, "CreatePolicyType") /\ req[s].t # 0 =>
    /\ req[s].code = 201 <=> req[s].stored
    /\ req[s].code = 503 <=> req[s].res = "sdl"

\* A create that no other create overlaps is answered right (restful.go
\* 57-68).
AloneRightAnswer == \A s \in Slots : req[s].alone => RightAnswer(s)

\* What a GET has answered stays true as long as nobody deletes types, which
\* the port cannot do, however creates and SDL errors come in between: a
\* schema that was returned is the one that is stored, and so are the types
\* that were listed (resthooks.go 59-157).
AnswersStayTrue ==
  \A s \in Slots :
    /\ Done(s, "GetPolicyType") /\ req[s].payload # None =>
         types[req[s].t] = req[s].payload
    /\ Done(s, "GetAllPolicyTypes") =>
         \A t \in req[s].payload : types[t] # None

\* The Go port implements the registry of types that the Python mediator
\* implements; it has no instances (resthooks.go 133-157).
NoInstances == [k \in PolicyTypes \X {} |-> None]
Registry == INSTANCE PolicyRegistry
              WITH Instances <- {}, Bodies <- {}, inst <- NoInstances,
                   Conforms <- [s \in Schemas |-> {}]
RegistrySpec == Registry!Spec

-----------------------------------------------------------------------------
(***************************************************************************)
(* What the repository says and the code does not do.                      *)
(***************************************************************************)

\* Every create is answered right (api/swagger.yaml 107: "policy type
\* successfully created").
CreateRightAnswer == \A s \in Slots : RightAnswer(s)
=============================================================================
