------------------------------- MODULE Schemas -------------------------------
(***************************************************************************)
(* JSON Schemas as generate-types.mjs handles them without looking into    *)
(* them.  A schema is a function from the keywords it has (ref, const,     *)
(* enum, allOf, anyOf, type, items, properties, required,                  *)
(* additionalProperties) to their values; type is the set of names it      *)
(* lists, ref a name.                                                      *)
(***************************************************************************)

Has(schema, keyword) == keyword \in DOMAIN schema
Keyword(schema, keyword, default) ==
  IF Has(schema, keyword) THEN schema[keyword] ELSE default

Unknown == [unknown |-> TRUE]
NoProperties == [n \in {} |-> Unknown]

(* A success envelope always has data, whatever the document says.         *)
RequireEnvelopeData(schema) ==
  IF Has(schema, "ref") \/ "data" \notin DOMAIN Keyword(schema, "properties", NoProperties)
    THEN schema
    ELSE [k \in DOMAIN schema \union {"required"} |->
            IF k = "required" THEN Keyword(schema, k, {}) \union {"data"}
                              ELSE schema[k]]
=============================================================================
