---- MODULE MCValidationPool ----
(* Two workers, three validations by one schema, which rejects two of them. *)
EXTENDS ValidationPool
CONSTANT k1
MCKeyOf == <<k1, k1, k1>>
MCVerdict == <<"valid", "invalid", "invalid">>
====
