------------------------------- MODULE SdlKeys -------------------------------
(***************************************************************************)
(* The keys under which data.py keeps its data in the one namespace of     *)
(* SDL, and the searches by prefix that take the place of tables:          *)
(*                                                                         *)
(*   a1.policy_type.<type>             a1.policy_instance.<type>.<inst>    *)
(*   a1.policy_inst_metadata.<type>.<inst>                                 *)
(*   a1.policy_handler.<type>.<inst>.<handler>                             *)
(*                                                                         *)
(* A key is a sequence of characters, with the text of the family as the   *)
(* first.  A type id is a sequence of digits; ids of instances ("any       *)
(* string", openapi.yaml 370) and handlers may hold dots, but not the text *)
(* of a family, so that the split of a key at its prefix gives two parts,  *)
(* and none of the characters * ? [ of a glob: SDL looks for prefix*.      *)
(*                                                                         *)
(* One step is one SDL call that writes, or reads what a later write rests *)
(* on.  The web server is serial and alone writes types and adds           *)
(* instances, so the calls for a type are one step; its PUTs and DELETEs   *)
(* of instances, the delete threads and the rmr loop interleave.           *)
(***************************************************************************)
EXTENDS Naturals, Sequences, FiniteSets, SequencesExt

CONSTANTS Chars,                             \* the characters of ids
          PolicyTypes, Instances, Handlers,  \* sets of ids
          Threads,                           \* delete threads at one time
          MaxUsed                            \* instances that are ever stored

Families == {"type.", "instance.", "metadata.", "handler."}

ASSUME CharsAssumption == "." \in Chars /\ Chars \cap Families = {}
ASSUME IdsAssumption ==
  /\ PolicyTypes \subseteq Seq(Chars \ {"."})
  /\ Instances \cup Handlers \subseteq Seq(Chars)
ASSUME ThreadsAssumption == "web" \notin Threads

Procs == {"web"} \cup Threads

VARIABLES db,        \* the keys in SDL
          pc,        \* the next SDL call of the web server and of each thread
          at,        \* its type and instance
          keys,      \* the keys that _clear_handlers found and has to delete
          hand,      \* the status that the rmr loop is about to write, if any
          types,     \* history: the types that were stored and not deleted
          stored,    \* history: the instances that were stored and not removed
          reported,  \* history: the statuses written for an instance and not
                     \* deleted since by a clearing of that instance
          used       \* history: the instances that were ever stored

control == <<pc, at, keys, hand>>
vars == <<db, control, types, stored, reported, used>>

TYPE_PREFIX == <<"type.">>
INSTANCE_PREFIX == <<"instance.">>
METADATA_PREFIX == <<"metadata.">>
HANDLER_PREFIX == <<"handler.">>
Dot == <<".">>

TypeKey(t) == TYPE_PREFIX \o t
InstanceKey(t, i) == INSTANCE_PREFIX \o t \o Dot \o i
MetadataKey(t, i) == METADATA_PREFIX \o t \o Dot \o i

HandlerPrefix(t, i) == HANDLER_PREFIX \o t \o Dot \o i \o Dot
HandlerKey(t, i, h) == HandlerPrefix(t, i) \o h

\* SDL.find_and_get
Find(prefix) == {k \in db : IsPrefix(prefix, k)}

\* k.split(prefix)[1]
Split(prefix, k) == SubSeq(k, Len(prefix) + 1, Len(k))

GetTypeList == {Split(TYPE_PREFIX, k) : k \in Find(TYPE_PREFIX)}

\* Bug: the prefix of a type does not end in a dot.
GetInstanceList_NoDot(t) ==
  LET prefix == INSTANCE_PREFIX \o t
  IN  {Split(prefix \o Dot, k) : k \in Find(prefix)}

GetInstanceList(t) ==
  LET prefix == INSTANCE_PREFIX \o t \o Dot
  IN  {Split(prefix, k) : k \in Find(prefix)}

\* Bug: the prefix of an instance does not end in a dot.
GetStatuses_NoDot(t, i) == Find(HANDLER_PREFIX \o t \o Dot \o i)

GetStatuses(t, i) == Find(HANDLER_PREFIX \o t \o Dot \o i \o Dot)

\* What _clear_handlers deletes.
HandlersOf(t, i) == Find(HandlerPrefix(t, i))

-----------------------------------------------------------------------------
Init ==
  /\ db = {} /\ types = {} /\ stored = {} /\ reported = {} /\ used = {}
  /\ pc = [p \in Procs |-> "idle"]
  /\ at = [p \in Procs |-> <<>>]
  /\ keys = [p \in Procs |-> {}]
  /\ hand = {}

StoreType(t) ==
  /\ pc["web"] = "idle"
  /\ TypeKey(t) \notin db
  /\ db' = db \cup {TypeKey(t)}
  /\ types' = types \cup {t}
  /\ UNCHANGED <<control, stored, reported, used>>

DeleteType(t) ==
  /\ pc["web"] = "idle"
  /\ TypeKey(t) \in db /\ GetInstanceList(t) = {}
  /\ db' = db \ {TypeKey(t)}
  /\ types' = types \ {t}
  /\ UNCHANGED <<control, stored, reported, used>>

\* p goes on with call c for an instance.
Go(p, c, t, i) ==
  /\ pc' = [pc EXCEPT ![p] = c]
  /\ at' = [at EXCEPT ![p] = <<t, i>>]

\* p has made the last call of its operation.
Finish(p) ==
  /\ pc' = [pc EXCEPT ![p] = "idle"]
  /\ at' = [at EXCEPT ![p] = <<>>]

\* _clear_handlers: the keys are found, then deleted one by one; a status
\* written in between under one of these keys is deleted with it.
FindHandlers(p, t, i) ==
  /\ pc[p] = "find" /\ at[p] = <<t, i>>
  /\ keys' = [keys EXCEPT ![p] = HandlersOf(t, i)]
  /\ Go(p, "write", t, i)
  /\ UNCHANGED <<db, hand, types, stored, reported, used>>

ClearHandler(p, t, i) ==
  /\ pc[p] = "write" /\ at[p] = <<t, i>>
  /\ \E k \in keys[p] :
       /\ db' = db \ {k}
       /\ keys' = [keys EXCEPT ![p] = @ \ {k}]
       /\ reported' = {r \in reported :
            ~(r[1] = t /\ r[2] = i /\ HandlerKey(t, i, r[3]) = k)}
  /\ UNCHANGED <<pc, at, hand, types, stored, used>>

\* store_policy_instance: the statuses are cleared if the instance exists.
StoreInstance(t, i) ==
  /\ pc["web"] = "idle"
  /\ TypeKey(t) \in db
  /\ Cardinality(used \cup {<<t, i>>}) <= MaxUsed
  /\ Go("web", IF InstanceKey(t, i) \in db THEN "find" ELSE "write", t, i)
  /\ UNCHANGED <<db, keys, hand, types, stored, reported, used>>

SetInstance(t, i) ==
  /\ pc["web"] = "write" /\ at["web"] = <<t, i>> /\ keys["web"] = {}
  /\ db' = db \cup {InstanceKey(t, i)}
  /\ stored' = stored \cup {<<t, i>>}
  /\ used' = used \cup {<<t, i>>}
  /\ Go("web", "metadata", t, i)
  /\ UNCHANGED <<keys, hand, types, reported>>

SetMetadata(t, i) ==
  /\ pc["web"] = "metadata" /\ at["web"] = <<t, i>>
  /\ db' = db \cup {MetadataKey(t, i)}
  /\ Finish("web")
  /\ UNCHANGED <<keys, hand, types, stored, reported, used>>

\* delete_policy_instance: the metadata says that it is deleted, then a
\* thread is started unless the instance has gone meanwhile.
DeletePolicyInstance(t, i) ==
  /\ pc["web"] = "idle"
  /\ {TypeKey(t), InstanceKey(t, i), MetadataKey(t, i)} \subseteq db
  /\ Go("web", "mark", t, i)
  /\ UNCHANGED <<db, keys, hand, types, stored, reported, used>>

MarkDeleted(t, i) ==
  /\ pc["web"] = "mark" /\ at["web"] = <<t, i>>
  /\ db' = db \cup {MetadataKey(t, i)}
  /\ Go("web", "launch", t, i)
  /\ UNCHANGED <<keys, hand, types, stored, reported, used>>

StartThread(p, t, i) ==
  /\ pc["web"] = "launch" /\ at["web"] = <<t, i>> /\ InstanceKey(t, i) \in db
  /\ pc[p] = "idle"
  /\ pc' = [pc EXCEPT !["web"] = "idle", ![p] = "check"]
  /\ at' = [at EXCEPT !["web"] = <<>>, ![p] = <<t, i>>]
  /\ UNCHANGED <<db, keys, hand, types, stored, reported, used>>

NoThread(t, i) ==
  /\ pc["web"] = "launch" /\ at["web"] = <<t, i>> /\ InstanceKey(t, i) \notin db
  /\ Finish("web")
  /\ UNCHANGED <<db, keys, hand, types, stored, reported, used>>

\* _delete_after: a check, the sleep, then statuses, instance and metadata.
DeleteAfter(p, t, i) ==
  /\ pc[p] = "check" /\ at[p] = <<t, i>>
  /\ \/ InstanceKey(t, i) \in db /\ Go(p, "find", t, i)
     \/ InstanceKey(t, i) \notin db /\ Finish(p)
  /\ UNCHANGED <<db, keys, hand, types, stored, reported, used>>

RemoveInstance(p, t, i) ==
  /\ pc[p] = "write" /\ at[p] = <<t, i>> /\ keys[p] = {}
  /\ db' = db \ {InstanceKey(t, i)}
  /\ stored' = stored \ {<<t, i>>}
  /\ Go(p, "metadata", t, i)
  /\ UNCHANGED <<keys, hand, types, reported, used>>

RemoveMetadata(p, t, i) ==
  /\ pc[p] = "metadata" /\ at[p] = <<t, i>>
  /\ db' = db \ {MetadataKey(t, i)}
  /\ Finish(p)
  /\ UNCHANGED <<keys, hand, types, stored, reported, used>>

\* set_policy_instance_status: the check, then the write, whatever happened
\* to the instance meanwhile.
CheckStatus(t, i, h) ==
  /\ hand = {} /\ TypeKey(t) \in db /\ InstanceKey(t, i) \in db
  /\ hand' = {<<t, i, h>>}
  /\ UNCHANGED <<db, pc, at, keys, types, stored, reported, used>>

SetPolicyInstanceStatus(t, i, h) ==
  /\ <<t, i, h>> \in hand
  /\ hand' = {}
  /\ db' = db \cup {HandlerKey(t, i, h)}
  /\ reported' = reported \cup {<<t, i, h>>}
  /\ UNCHANGED <<pc, at, keys, types, stored, used>>

Next ==
  \E t \in PolicyTypes :
    \/ StoreType(t) \/ DeleteType(t)
    \/ \E i \in Instances :
         \/ StoreInstance(t, i) \/ SetInstance(t, i) \/ SetMetadata(t, i)
         \/ DeletePolicyInstance(t, i) \/ MarkDeleted(t, i) \/ NoThread(t, i)
         \/ \E p \in Procs : FindHandlers(p, t, i) \/ ClearHandler(p, t, i)
         \/ \E p \in Threads :
              \/ StartThread(p, t, i) \/ DeleteAfter(p, t, i)
              \/ RemoveInstance(p, t, i) \/ RemoveMetadata(p, t, i)
         \/ \E h \in Handlers : CheckStatus(t, i, h) \/ SetPolicyInstanceStatus(t, i, h)

Spec == Init /\ [][Next]_vars

-----------------------------------------------------------------------------
(***************************************************************************)
(* Properties.                                                             *)
(***************************************************************************)

\* The lists found by prefix are those of the types and instances stored,
\* also if one type id is the beginning of another and whatever dots are in
\* the ids of instances (data.py 109-116, 157-163).
ListsExact ==
  /\ GetTypeList = types
  /\ \A t \in PolicyTypes :
       GetInstanceList(t) = {i \in Instances : <<t, i>> \in stored}

\* One id continues the other after a dot.
Dotted(i, j) == IsPrefix(i \o Dot, j) \/ IsPrefix(j \o Dot, i)

\* The statuses found for an instance are those an xApp reported for it that
\* no clearing of this instance has deleted since, whatever PUTs, delete
\* threads and status writes of other instances happen in between (data.py
\* 100-126, 270-277), unless an instance of the same type was stored whose id
\* and its own are the same up to a dot.  Then one's statuses are also the
\* other's, and a PUT of one clears both.
StatusesExact ==
  \A t \in PolicyTypes, i \in Instances :
    (\A j \in Instances : Dotted(i, j) => <<t, j>> \notin used) =>
      GetStatuses(t, i) = {HandlerKey(t, i, h) : h \in
                             {x \in Handlers : <<t, i, x>> \in reported}}
==============================================================================
