------------------------------ MODULE GsonValue ------------------------------
(***************************************************************************)
(* JSON values as Python has them.  A value is a pair of its type and its   *)
(* content, a string a sequence of atoms, <<"lit", x>> for text and         *)
(* <<"ref", k>> for "{k}".  Numbers, booleans and null are of type "other". *)
(***************************************************************************)
Str(atoms) == <<"str", atoms>>
List(items) == <<"list", items>>
Dict(f) == <<"dict", f>>
None == <<"other", "null">>

Type(j) == j[1]
Val(j) == j[2]
IsDict(j) == Type(j) = "dict"
Keys(j) == DOMAIN Val(j)
Has(j, k) == IsDict(j) /\ k \in Keys(j)
Without(j, ks) == Dict([k \in Keys(j) \ ks |-> Val(j)[k]])
With(j, k, v) ==
    Dict([i \in Keys(j) \cup {k} |-> IF i = k THEN v ELSE Val(j)[i]])

\* union.py of two objects: Both is what it makes of what both of them have.
Overlay(a, b, Both(_, _)) ==
    Dict([k \in Keys(a) \cup Keys(b) |->
             IF ~Has(b, k) THEN Val(a)[k]
             ELSE IF Has(a, k) THEN Both(Val(a)[k], Val(b)[k]) ELSE Val(b)[k]])

=============================================================================
