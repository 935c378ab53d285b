------------------------------- MODULE Lifting -------------------------------
(***************************************************************************)
(* How a launcher makes one list of stanzas of a configuration in which     *)
(* stanzas are nested in others, under 'toplevel', to any depth             *)
(* (hcp/python/hcp/tool/launcher.py): in passes over the names that are     *)
(* there when a pass begins, in whatever order the dict yields them, until  *)
(* a pass has found nothing to lift.                                       *)
(***************************************************************************)
EXTENDS GsonValue

CONSTANT Clash(_, _)   \* what union makes of two stanzas of the same name

VARIABLES
    given,     \* the stanzas as the configuration has them
    config,    \* the stanzas, as far as they are lifted
    left,      \* the names that it still comes by in this pass
    popped,    \* popped_toplevel
    lifted     \* history: the stanzas, each with its name, that others were
               \* lifted from, as they were

lifting == <<given, config, left, popped, lifted>>

LiftInit ==
    /\ config = given
    /\ left = {} /\ popped = TRUE /\ lifted = {}

Pass ==
    /\ left = {} /\ popped
    /\ left' = Keys(config)
    /\ popped' = FALSE
    /\ UNCHANGED <<given, config, lifted>>

ComeBy(k) ==
    /\ k \in left
    /\ left' = left \ {k}
    /\ LET s == Val(config)[k]
       IN \/ /\ Has(s, "toplevel")
             /\ config' = Overlay(With(config, k, Without(s, {"toplevel"})),
                                  Val(s)["toplevel"], Clash)
             /\ popped' = TRUE
             /\ lifted' = lifted \cup {<<k, s>>}
          \/ /\ ~Has(s, "toplevel")
             /\ UNCHANGED <<config, popped, lifted>>
    /\ UNCHANGED given

LiftSpec == LiftInit /\ [][Pass \/ \E k \in left : ComeBy(k)]_lifting

-----------------------------------------------------------------------------

Pairs(j) == {<<k, Val(j)[k]>> : k \in Keys(j)}
Nested(p) == IF Has(p[2], "toplevel") THEN Pairs(Val(p[2])["toplevel"]) ELSE {}
Bare(p) == IF Has(p[2], "toplevel") THEN Without(p[2], {"toplevel"}) ELSE p[2]

\* The stanzas that are given, and those nested in what was lifted from.
Known == Pairs(given) \cup UNION {Nested(p) : p \in lifted}

\* Whichever stanzas the launcher comes by first, it ends with all that the
\* configuration has, however deeply nested, each with its own content and under its
\* own name, and with nothing else (launcher.py's loop over 'toplevel').
AllLifted ==
    left = {} /\ ~popped =>
        /\ \A p \in Known : Has(p[2], "toplevel") => p \in lifted
        /\ lifted \subseteq Known
        /\ Pairs(config) = {<<p[1], Bare(p)>> : p \in Known}

=============================================================================
