----------------------------- MODULE SchemaTypes -----------------------------
(***************************************************************************)
(* tsType of generate-types.mjs: the TypeScript type of a JSON Schema, and *)
(* what the two mean: which JSON values are valid, which inhabit the type. *)
(* A JSON value and a type are records whose one field says what they are. *)
(***************************************************************************)
EXTENDS Schemas

CONSTANT Components  \* components.schemas: from names to schemas

(* Of a number only whether it is whole.                                   *)
IsA(value, type) ==
  IF type = "integer" THEN Has(value, "number") /\ value.number = "whole"
                      ELSE Has(value, type)

RECURSIVE Valid(_, _)
Valid(value, schema) ==
  /\ Has(schema, "ref") => Valid(value, Components[schema.ref])
  /\ Has(schema, "const") => value = schema.const
  /\ Has(schema, "enum") => value \in schema.enum
  /\ Has(schema, "allOf") =>
       \A i \in DOMAIN schema.allOf : Valid(value, schema.allOf[i])
  /\ Has(schema, "anyOf") =>
       \E i \in DOMAIN schema.anyOf : Valid(value, schema.anyOf[i])
  /\ Has(schema, "type") => \E type \in schema.type : IsA(value, type)
  /\ Has(value, "array") /\ Has(schema, "items") =>
       \A i \in DOMAIN value.array : Valid(value.array[i], schema.items)
  /\ Has(value, "object") =>
       LET properties == Keyword(schema, "properties", NoProperties)
           extra == DOMAIN value.object \ DOMAIN properties
       IN /\ Keyword(schema, "required", {}) \subseteq DOMAIN value.object
          /\ \A n \in DOMAIN value.object \ extra :
               Valid(value.object[n], properties[n])
          /\ Has(schema, "additionalProperties") =>
               IF Has(schema.additionalProperties, "false") THEN extra = {}
               ELSE \A n \in extra : Valid(value.object[n],
                                           schema.additionalProperties)

-----------------------------------------------------------------------------
RECURSIVE TsType(_)

(* Mutant: the index signature does not accept what is declared.           *)
NarrowObjectType(schema) ==
  LET properties == Keyword(schema, "properties", NoProperties) IN
    [fields |-> [n \in DOMAIN properties |-> TsType(properties[n])],
     required |-> Keyword(schema, "required", {}) \intersect DOMAIN properties,
     index |-> IF Has(schema, "additionalProperties")
                 THEN TsType(schema.additionalProperties) ELSE Unknown]

(* fields and the type of all others.  { } is Record<string, unknown>, or  *)
(* Record<string, never> where the schema is closed.                       *)
ObjectType(schema) ==
  LET properties == Keyword(schema, "properties", NoProperties)
      extra == Keyword(schema, "additionalProperties", NoProperties)
  IN [fields |-> [n \in DOMAIN properties |-> TsType(properties[n])],
      required |-> Keyword(schema, "required", {}) \intersect DOMAIN properties,
      index |-> IF DOMAIN properties # {} THEN Unknown
                ELSE IF Has(extra, "false") THEN [union |-> <<>>]
                ELSE TsType(extra)]

TypeNamed(type, schema) ==
  CASE type \in {"integer", "number"} -> [basic |-> "number"]
    [] type \in {"string", "boolean", "null"} -> [basic |-> type]
    [] type = "array" -> [list |-> TsType(Keyword(schema, "items", NoProperties))]
    [] type = "object" -> ObjectType(schema)

EachType(parts) == [i \in DOMAIN parts |-> TsType(parts[i])]

(* The first keyword that says something, in this order.                   *)
TsType(schema) ==
  IF Has(schema, "ref") THEN [name |-> schema.ref]
  ELSE IF Has(schema, "const") THEN [literals |-> {schema.const}]
  ELSE IF Has(schema, "enum") THEN [literals |-> schema.enum]
  ELSE IF Has(schema, "allOf") THEN [intersection |-> EachType(schema.allOf)]
  ELSE IF Has(schema, "anyOf") THEN [union |-> EachType(schema.anyOf)]
  ELSE IF Has(schema, "type")
    THEN [union |-> [type \in schema.type |-> TypeNamed(type, schema)]]
  ELSE IF Has(schema, "properties") THEN ObjectType(schema)
  ELSE Unknown

RECURSIVE Inhabits(_, _)
Inhabits(value, type) ==
  CASE Has(type, "unknown") -> TRUE
    [] Has(type, "name") -> Inhabits(value, TsType(Components[type.name]))
    [] Has(type, "literals") -> value \in type.literals
    [] Has(type, "basic") -> Has(value, type.basic)
    [] Has(type, "intersection") ->
         \A i \in DOMAIN type.intersection : Inhabits(value, type.intersection[i])
    [] Has(type, "union") ->
         \E i \in DOMAIN type.union : Inhabits(value, type.union[i])
    [] Has(type, "list") ->
         Has(value, "array") /\ \A i \in DOMAIN value.array :
                                  Inhabits(value.array[i], type.list)
    [] Has(type, "fields") ->
         /\ Has(value, "object")
         /\ type.required \subseteq DOMAIN value.object
         /\ \A n \in DOMAIN value.object :
              /\ Inhabits(value.object[n], type.index)
              /\ n \in DOMAIN type.fields =>
                   Inhabits(value.object[n], type.fields[n])
=============================================================================
