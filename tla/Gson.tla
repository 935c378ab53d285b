-------------------------------- MODULE Gson --------------------------------
(***************************************************************************)
(* The JSON operations all configuration goes through                      *)
(* (hcp/python/gson/): union, paths, and the expansion of variables.        *)
(*                                                                         *)
(* What a Python dict remembers of the order of its keys is a parameter of  *)
(* expansion.                                                              *)
(***************************************************************************)
EXTENDS GsonValue, Naturals, Sequences, SequencesExt

-----------------------------------------------------------------------------
(* union.py, with the options that all its callers leave alone *)

RECURSIVE Union(_, _)
Union(a, b) ==
    IF IsDict(a) /\ IsDict(b)
    THEN Overlay(a, b, Union)
    ELSE IF Type(a) = "list" /\ Type(b) = "list" THEN List(Val(a) \o Val(b))
    ELSE b

-----------------------------------------------------------------------------
(* path.py, on paths that exist but for their last step *)

RECURSIVE PathGet(_, _)
PathGet(j, path) == IF path = <<>> THEN j ELSE PathGet(Val(j)[Head(path)], Tail(path))

RECURSIVE PathSet(_, _, _)
PathSet(j, path, v) ==
    IF path = <<>> THEN v
    ELSE With(j, Head(path), IF Len(path) = 1 THEN v
                             ELSE PathSet(Val(j)[Head(path)], Tail(path), v))

\* Mutant: the new value always goes on top.
PathUnionOver(j, path, v, underlay) ==
    LET last == path[Len(path)]
        parent == PathGet(j, Front(path))
        old == IF path = <<>> THEN j
               ELSE IF Has(parent, last) THEN Val(parent)[last] ELSE None
    IN IF j = None THEN v ELSE PathSet(j, path, Union(old, v))

\* The register's whole value is what is united with nothing, and what is missing
\* at the end of a path counts as null.
PathUnion(j, path, v, underlay) ==
    LET last == path[Len(path)]
        parent == PathGet(j, Front(path))
        old == IF path = <<>> THEN j
               ELSE IF Has(parent, last) THEN Val(parent)[last] ELSE None
    IN IF j = None THEN v
       ELSE PathSet(j, path, IF underlay THEN Union(v, old) ELSE Union(old, v))

-----------------------------------------------------------------------------
(* expander.py: an environment is a function from names to values *)

\* s.replace('{k}', v)
Replace(s, k, v) ==
    FoldLeft(LAMBDA acc, a : acc \o IF a = <<"ref", k>> THEN v ELSE <<a>>, <<>>, s)

\* One pass over the environment: a string replaces its name anywhere, another
\* value only a string that is nothing but its name, and then the pass is over.
ExpandStr(s, env, order) ==
    LET step(acc, k) ==
            IF Type(acc) # "str" \/ k \notin DOMAIN env THEN acc
            ELSE IF Type(env[k]) = "str" THEN Str(Replace(Val(acc), k, Val(env[k])))
            ELSE IF Val(acc) = <<<<"ref", k>>>> THEN env[k]
            ELSE acc
    IN FoldLeft(step, Str(s), order)

MergeEnv(env, vars) == [k \in DOMAIN env \cup Keys(vars) |->
                           IF k \in Keys(vars) THEN Val(vars)[k] ELSE env[k]]

RECURSIVE Expand(_, _, _)
RECURSIVE ExpandVars(_, _, _)

\* Mutant: a single pass.
ExpandVarsOnce(vars, env, order) == Expand(vars, MergeEnv(env, vars), order)

\* Passes until nothing changes.
ExpandVars(vars, env, order) ==
    LET next == Expand(vars, MergeEnv(env, vars), order)
    IN IF next = vars THEN vars ELSE ExpandVars(next, env, order)

\* The variables of an object are expanded first, with those around it and with
\* each other; then all the rest of it.  (Keys hold no variables.)
Expand(j, env, order) ==
    CASE Type(j) = "str" -> ExpandStr(Val(j), env, order)
      [] Type(j) = "list" ->
            List([i \in DOMAIN Val(j) |-> Expand(Val(j)[i], env, order)])
      [] IsDict(j) ->
            IF Has(j, "vars") /\ Val(j)["vars"] \notin {None, Dict(<<>>)}
            THEN LET vars == ExpandVars(Val(j)["vars"], env, order)
                     env2 == MergeEnv(env, vars)
                 IN Dict([k \in Keys(j) |-> IF k = "vars" THEN vars
                                            ELSE Expand(Val(j)[k], env2, order)])
            ELSE Dict([k \in Keys(j) \ {"vars"} |-> Expand(Val(j)[k], env, order)])
      [] OTHER -> j

=============================================================================
