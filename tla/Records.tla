------------------------------- MODULE Records -------------------------------
(***************************************************************************)
(* The record classes of a generated client: one for each model, and the   *)
(* partial types that create_partial() makes of a model while the client   *)
(* is generated.  A class is represented by the specs of its fields, which *)
(* are `__prisma_fields__` of the slim and msgspec backends and say the    *)
(* same as the annotations of the pydantic one.                            *)
(***************************************************************************)
EXTENDS Naturals, SequencesExt

CONSTANTS
  None,       \* Python's None
  Datamodel,  \* Datamodel[m][f]: [type, relation, list, required]
  Partials    \* the create_partial() calls of the partial type generator, in order

Models == DOMAIN Datamodel

ScalarTag ==
  [String |-> "str", Int |-> "int", BigInt |-> "bigint", Float |-> "float", Boolean |-> "bool",
   DateTime |-> "datetime", Json |-> "json", Bytes |-> "base64", Decimal |-> "decimal"]

SlimBaseSpec(field) ==
  CASE field.relation                  -> field.type
    [] field.type \in DOMAIN ScalarTag -> ScalarTag[field.type]
    [] OTHER                           -> "enum"

\* No relation is ever required: a record need not have been asked for it.
SlimSpec(field) ==
  [of |-> SlimBaseSpec(field), relation |-> field.relation, list |-> field.list,
   opt |-> ~field.required \/ field.relation]

AllModelFields == [m \in Models |-> [f \in DOMAIN Datamodel[m] |-> SlimSpec(Datamodel[m][f])]]
ModelFields(m) == AllModelFields[m]
RelationalFields(m) == {f \in DOMAIN Datamodel[m] : Datamodel[m][f].relation}

-----------------------------------------------------------------------------
(* Partial types.  A call has a name, the model it is from, four sets of   *)
(* fields (or None), the retargeted relations and exclude_relational_fields.*)

Given(set) == IF set = None THEN {} ELSE set

\* The fields before exclude_relational_fields.
Chosen(call) ==
  IF Given(call.include) # {} THEN call.include
  ELSE DOMAIN Datamodel[call.from] \ Given(call.exclude)

Kept(call) ==
  Chosen(call) \ (IF call.scalarsOnly THEN RelationalFields(call.from) ELSE {})

PartialRefused(call, created) ==
  \/ call.name \in created
  \/ call.include # None /\ (call.exclude # None \/ call.scalarsOnly)
  \/ Given(call.required) \cap Given(call.optional) # {}
  \/ call.scalarsOnly /\ DOMAIN call.relations # {}
  \/ ~(Given(call.include) \cup Given(call.exclude) \subseteq DOMAIN Datamodel[call.from])
  \/ ~(Given(call.required) \cup Given(call.optional) \subseteq Chosen(call))
  \/ ~(DOMAIN call.relations \subseteq RelationalFields(call.from) \cap Kept(call))
  \/ \E f \in DOMAIN call.relations : call.relations[f] \notin created

PartialFields(call) ==
  [f \in Kept(call) |->
     [ModelFields(call.from)[f] EXCEPT
        !.of  = IF f \in DOMAIN call.relations THEN call.relations[f] ELSE @,
        !.opt = (@ \/ f \in Given(call.optional)) /\ f \notin Given(call.required)]]

\* The calls that succeed, in their order.
Created ==
  FoldLeft(LAMBDA kept, call : IF PartialRefused(call, {c.name : c \in kept}) THEN kept ELSE kept \cup {call},
           {}, Partials)

PartialNames == {call.name : call \in Created}
Classes      == Models \cup PartialNames
PartialCall(name) == CHOOSE call \in Created : call.name = name

\* __prisma_model__ and __prisma_fields__ of a class.
ModelOf(class) == IF class \in Models THEN class ELSE PartialCall(class).from

AllFields ==
  [class \in Classes |-> IF class \in Models THEN ModelFields(class) ELSE PartialFields(PartialCall(class))]
Fields(class)      == AllFields[class]
ScalarNames(class) == {f \in DOMAIN Fields(class) : ~Fields(class)[f].relation}
=============================================================================
