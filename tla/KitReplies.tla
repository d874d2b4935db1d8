------------------------------ MODULE KitReplies ------------------------------
(***************************************************************************)
(* The types of the replies in the packages Kit releases, against what the *)
(* documents they were generated from allow.                               *)
(***************************************************************************)
EXTENDS Kit, SchemaTypes

CONSTANTS
  Samples,         \* schemas of data in the replies of new operations
  SampleValues     \* JSON values

(* "An unsupported construct becomes unknown rather than a wrong type":    *)
(* whatever the document allows in data has the type the package gives it. *)
(* A schema with properties and no type is the exception: it allows what   *)
(* is no object, and its type does not.                                    *)
DataHasItsType(package) ==
  \A id \in DOMAIN Samples \intersect DOMAIN package.schema.response :
    \A value \in SampleValues :
      LET reply == [object |-> [data |-> value]] IN
        /\ Valid(reply, Documents[package.snapshot][id].response)
        /\ Has(Samples[id], "properties") /\ ~Has(Samples[id], "type")
             => Has(value, "object")
        => Inhabits(reply, TsType(package.schema.response[id]))
DataInhabitsType == [][Release => DataHasItsType(released')]_vars
===============================================================================
