---------------------------- MODULE LauncherProofs ----------------------------
(***************************************************************************)
(* What a launcher guarantees for any configuration, however many services  *)
(* it has and however they end: that it has all of its stanzas (Lifting),   *)
(* the order in which it starts them and what it ends with (Launcher); and  *)
(* what those who ask it for a health check or to run a command can rely on, *)
(* whatever their number (WatchLoop).                                       *)
(***************************************************************************)
EXTENDS Lifting, Launcher, WatchLoop, FiniteSetTheorems, TLAPS

(* Making one list of the stanzas *)

\* Of stanzas, each with its name: each name is one stanza's, wherever it is nested,
\* and what is nested under 'toplevel' is an object, and nested there alone.
Separate(All) ==
    /\ Pairs(given) \subseteq All
    /\ \A p \in All :
          /\ Has(p[2], "toplevel") => IsDict(Val(p[2])["toplevel"])
          /\ Nested(p) \subseteq All
          /\ Nested(p) \cap Pairs(given) = {}
          /\ \A q \in All :
                /\ p[1] = q[1] => p = q
                /\ p # q => Nested(p) \cap Nested(q) = {}

\* So it is of a configuration's: no two stanzas of it have one name.
Distinct == \E All : Separate(All)

\* The configuration has the stanzas that it is known to have, and no other, and of
\* each what is not lifted from it.
ConfigOK ==
    /\ IsDict(config)
    /\ \A p \in Known :
          /\ p[1] \in Keys(config)
          /\ Val(config)[p[1]] = IF p \in lifted THEN Bare(p) ELSE p[2]
    /\ \A k \in Keys(config) : \E p \in Known : p[1] = k

\* A pass that has lifted nothing so far has come by nothing to lift.
PassOK ==
    /\ popped \in BOOLEAN
    /\ left \subseteq Keys(config)
    /\ ~popped => \A k \in Keys(config) \ left : ~Has(Val(config)[k], "toplevel")

LiftedOK == lifted \subseteq {p \in Known : Has(p[2], "toplevel")}

LiftInv ==
    /\ \E All : Separate(All) /\ lifted \subseteq All
    /\ LiftedOK
    /\ ConfigOK
    /\ PassOK

LEMMA PairsAre ==
    ASSUME NEW j
    PROVE  /\ \A p \in Pairs(j) : p[1] \in Keys(j) /\ Val(j)[p[1]] = p[2]
           /\ \A k \in Keys(j) : \E p \in Pairs(j) : p[1] = k
<1>1. \A p \in Pairs(j) : p[1] \in Keys(j) /\ Val(j)[p[1]] = p[2]
  BY DEF Pairs
<1>2. ASSUME NEW k \in Keys(j)
      PROVE  \E p \in Pairs(j) : p[1] = k
  <2>1. <<k, Val(j)[k]>> \in Pairs(j)
    BY DEF Pairs
  <2>2. QED
    BY <2>1
<1>3. QED
  BY <1>1, <1>2

\* Every stanza that is known is one of those that are separate, and is a name with
\* what it names.
LEMMA KnownAreSeparate ==
    ASSUME NEW All, Separate(All), lifted \subseteq All, NEW p \in Known
    PROVE  p \in All /\ p = <<p[1], p[2]>>
<1>1. \A j : \A q \in Pairs(j) : q = <<q[1], q[2]>>
  BY DEF Pairs
<1>2. Pairs(given) \subseteq All /\ \A q \in All : Nested(q) \subseteq All
  BY DEF Separate
<1>3. \A q : \A r \in Nested(q) : r = <<r[1], r[2]>>
  BY <1>1 DEF Nested
<1>4. CASE p \in Pairs(given)
  BY <1>1, <1>2, <1>4
<1>5. CASE p \in UNION {Nested(q) : q \in lifted}
  BY <1>2, <1>3, <1>5
<1>6. QED
  BY <1>4, <1>5 DEF Known

LEMMA BareHasNone ==
    ASSUME NEW p
    PROVE  ~Has(Bare(p), "toplevel")
BY DEF Bare, Has, Without, Dict, Keys, Val, Type, IsDict

\* Laying over the configuration what is nested in a stanza of it adds names, and
\* changes nothing else than that stanza, if no name of it is there yet.
LEMMA OverlayAdds ==
    ASSUME NEW c, NEW k \in Keys(c), NEW s, NEW t, IsDict(c), IsDict(t),
           Keys(t) \cap Keys(c) = {},
           NEW d, d = Overlay(With(c, k, s), t, Clash)
    PROVE  /\ IsDict(d) /\ Keys(d) = Keys(c) \cup Keys(t)
           /\ \A i \in Keys(c) : Val(d)[i] = IF i = k THEN s ELSE Val(c)[i]
           /\ \A i \in Keys(t) : Val(d)[i] = Val(t)[i]
BY DEF Overlay, With, Dict, Keys, Val, Type, IsDict, Has

LEMMA LiftInitHasInv ==
    ASSUME Distinct, LiftInit, IsDict(given)
    PROVE  LiftInv
<1> USE DEF LiftInit
<1>1. \E All : Separate(All) /\ lifted \subseteq All
  BY DEF Distinct
<1>2. Known = Pairs(given)
  BY DEF Known
<1>3. \A p \in Known : p[1] \in Keys(config) /\ Val(config)[p[1]] = p[2]
  BY <1>2, PairsAre
<1>4. \A k \in Keys(config) : \E p \in Known : p[1] = k
  BY <1>2, PairsAre
<1>5. ConfigOK
  BY <1>3, <1>4 DEF ConfigOK
<1>6. QED
  BY <1>1, <1>5 DEF LiftInv, LiftedOK, PassOK

LEMMA PassKeepsInv ==
    ASSUME LiftInv, Pass
    PROVE  LiftInv'
<1> USE DEF Pass
<1>1. UNCHANGED <<Known, config, lifted>>
  BY DEF Known, Pairs
<1>2. \E All : Separate(All)' /\ lifted' \subseteq All
  BY DEF LiftInv, Separate, Pairs
<1>3. ConfigOK' /\ LiftedOK' /\ PassOK'
  BY <1>1 DEF LiftInv, LiftedOK, ConfigOK, PassOK
<1>4. QED
  BY <1>2, <1>3 DEF LiftInv

\* What the launcher comes by is a stanza that it knows, and that it has not lifted
\* from if there is something to lift.
LEMMA ComesByKnown ==
    ASSUME LiftInv, NEW k \in left, Has(Val(config)[k], "toplevel")
    PROVE  <<k, Val(config)[k]>> \in Known \ lifted
<1>1. k \in Keys(config)
  BY DEF LiftInv, PassOK
<1>2. PICK p \in Known : p[1] = k
  BY <1>1 DEF LiftInv, ConfigOK
<1>3. p \notin lifted
  BY <1>2, BareHasNone DEF LiftInv, ConfigOK
<1>4. Val(config)[k] = p[2]
  BY <1>2, <1>3 DEF LiftInv, ConfigOK
<1>5. p = <<p[1], p[2]>>
  BY KnownAreSeparate DEF LiftInv
<1>6. QED
  BY <1>2, <1>3, <1>4, <1>5

\* No name that is lifted from a stanza for the first time is there yet.
LEMMA LiftedAreNew ==
    ASSUME LiftInv, NEW p \in Known \ lifted, NEW r \in Nested(p)
    PROVE  r \notin Known /\ r[1] \notin Keys(config)
<1>1. PICK All : Separate(All) /\ lifted \subseteq All
  BY DEF LiftInv
<1>2. p \in All /\ r \in All
  BY <1>1, KnownAreSeparate DEF Separate
<1>3. r \notin Known
  BY <1>1, <1>2 DEF Known, Separate
<1>4. ASSUME r[1] \in Keys(config)
      PROVE  FALSE
  <2>1. PICK q \in Known : q[1] = r[1]
    BY <1>4 DEF LiftInv, ConfigOK
  <2>2. q \in All
    BY <1>1, KnownAreSeparate
  <2>3. q = r
    BY <1>1, <1>2, <2>1, <2>2 DEF Separate
  <2>4. QED
    BY <1>3, <2>1, <2>3
<1>5. QED
  BY <1>3, <1>4

LEMMA LiftKeepsInv ==
    ASSUME LiftInv, NEW k \in left, ComeBy(k), Has(Val(config)[k], "toplevel")
    PROVE  LiftInv'
<1> DEFINE s == Val(config)[k]
           p == <<k, s>>
           t == Val(s)["toplevel"]
<1>1. /\ UNCHANGED given /\ popped' = TRUE /\ left' = left \ {k}
      /\ config' = Overlay(With(config, k, Without(s, {"toplevel"})), t, Clash)
      /\ lifted' = lifted \cup {p}
  BY DEF ComeBy
<1>2. p \in Known \ lifted /\ k \in Keys(config)
  BY ComesByKnown DEF LiftInv, PassOK
<1>3. PICK All : Separate(All) /\ lifted \subseteq All
  BY DEF LiftInv
<1>4. p \in All
  BY <1>2, <1>3, KnownAreSeparate
<1>5. Separate(All)' /\ lifted' \subseteq All
  BY <1>1, <1>3, <1>4 DEF Separate, Pairs
<1>6. Nested(p) = Pairs(t) /\ Bare(p) = Without(s, {"toplevel"})
  BY DEF Nested, Bare
<1>7. Known' = Known \cup Pairs(t)
  BY <1>1, <1>6 DEF Known, Pairs
<1>8. \A r \in Pairs(t) : r \notin Known /\ r[1] \notin Keys(config)
  BY <1>2, <1>6, LiftedAreNew
<1>9. Keys(t) \cap Keys(config) = {}
  BY <1>8, PairsAre
<1>10. IsDict(config) /\ IsDict(t)
  BY <1>3, <1>4 DEF LiftInv, ConfigOK, Separate
<1>11. /\ IsDict(config)' /\ Keys(config)' = Keys(config) \cup Keys(t)
       /\ \A i \in Keys(config) :
             Val(config)'[i] = IF i = k THEN Bare(p) ELSE Val(config)[i]
       /\ \A i \in Keys(t) : Val(config)'[i] = Val(t)[i]
  BY <1>1, <1>2, <1>6, <1>9, <1>10, OverlayAdds
<1>12. LiftedOK'
  BY <1>1, <1>2, <1>7 DEF LiftInv, LiftedOK
<1>13. ASSUME NEW q \in Known'
       PROVE  /\ q[1] \in Keys(config)'
              /\ Val(config)'[q[1]] = IF q \in lifted' THEN Bare(q) ELSE q[2]
  <2>1. CASE q \in Pairs(t)
    <3>1. q[1] \in Keys(t) /\ Val(t)[q[1]] = q[2]
      BY <2>1, PairsAre
    <3>2. q \notin lifted'
      BY <1>1, <1>2, <1>8, <2>1 DEF LiftInv, LiftedOK
    <3>3. QED
      BY <1>11, <3>1, <3>2
  <2>2. CASE q \in Known /\ q = p
    BY <1>1, <1>2, <1>11, <2>2
  <2>3. CASE q \in Known /\ q # p
    <3>1. q[1] # k
      BY <1>3, <1>4, <2>3, KnownAreSeparate DEF Separate
    <3>2. /\ q[1] \in Keys(config)
          /\ Val(config)[q[1]] = IF q \in lifted THEN Bare(q) ELSE q[2]
      BY <2>3 DEF LiftInv, ConfigOK
    <3>3. QED
      BY <1>1, <1>11, <2>3, <3>1, <3>2
  <2>4. QED
    BY <1>7, <2>1, <2>2, <2>3
<1>14. ASSUME NEW i \in Keys(config)'
       PROVE  \E q \in Known' : q[1] = i
  BY <1>7, <1>11, PairsAre DEF LiftInv, ConfigOK
<1>15. ConfigOK'
  BY <1>11, <1>13, <1>14 DEF ConfigOK
<1>16. PassOK'
  BY <1>1, <1>11 DEF LiftInv, PassOK
<1>17. QED
  BY <1>5, <1>12, <1>15, <1>16 DEF LiftInv

LEMMA PassByKeepsInv ==
    ASSUME LiftInv, NEW k \in left, ComeBy(k), ~Has(Val(config)[k], "toplevel")
    PROVE  LiftInv'
<1>1. UNCHANGED <<given, config, popped, lifted>> /\ left' = left \ {k}
  BY DEF ComeBy
<1>2. UNCHANGED <<Known, Keys(config)>>
  BY <1>1 DEF Known, Pairs
<1>3. \E All : Separate(All)' /\ lifted' \subseteq All
  BY <1>1 DEF LiftInv, Separate, Pairs
<1>4. ConfigOK' /\ LiftedOK'
  BY <1>1, <1>2 DEF LiftInv, LiftedOK, ConfigOK
<1>5. PassOK'
  BY <1>1 DEF LiftInv, PassOK
<1>6. QED
  BY <1>3, <1>4, <1>5 DEF LiftInv

\* Whatever the launcher comes by first, and whatever it makes of two stanzas of one
\* name: when no two of the configuration's have one, wherever they are nested, it
\* ends with each of them under its name, without what was lifted from it, and with
\* nothing else.
THEOREM AllAreLifted ==
    LiftSpec /\ IsDict(given) /\ Distinct => []AllLifted
<1>1. LiftInit /\ IsDict(given) /\ Distinct => LiftInv
  BY LiftInitHasInv
<1>2. LiftInv /\ [Pass \/ \E k \in left : ComeBy(k)]_lifting => LiftInv'
  <2> SUFFICES ASSUME LiftInv, [Pass \/ \E k \in left : ComeBy(k)]_lifting
               PROVE  LiftInv'
    OBVIOUS
  <2>1. CASE UNCHANGED lifting
    <3>1. UNCHANGED <<given, config, left, popped, lifted>>
      BY <2>1 DEF lifting
    <3>2. UNCHANGED Known
      BY <3>1 DEF Known, Pairs
    <3>3. \E All : Separate(All)' /\ lifted' \subseteq All
      BY <3>1 DEF LiftInv, Separate, Pairs
    <3>4. ConfigOK' /\ LiftedOK' /\ PassOK'
      BY <3>1, <3>2 DEF LiftInv, LiftedOK, ConfigOK, PassOK
    <3>5. QED
      BY <3>3, <3>4 DEF LiftInv
  <2>2. QED
    BY <2>1, PassKeepsInv, LiftKeepsInv, PassByKeepsInv
<1>3. LiftInv => AllLifted
  <2> SUFFICES ASSUME LiftInv, left = {}, ~popped
               PROVE  /\ \A p \in Known : Has(p[2], "toplevel") => p \in lifted
                      /\ lifted \subseteq Known
                      /\ Pairs(config) = {<<p[1], Bare(p)>> : p \in Known}
    BY DEF AllLifted
  <2>1. \A k \in Keys(config) : ~Has(Val(config)[k], "toplevel")
    BY DEF LiftInv, PassOK
  <2>2. \A p \in Known : Has(p[2], "toplevel") => p \in lifted
    BY <2>1 DEF LiftInv, ConfigOK
  <2>3. \A p \in Known : p[1] \in Keys(config) /\ Val(config)[p[1]] = Bare(p)
    BY <2>2 DEF LiftInv, ConfigOK, Bare
  <2>4. \A k \in Keys(config) : \E p \in Known : p[1] = k
    BY DEF LiftInv, ConfigOK
  <2>5. Pairs(config) = {<<p[1], Bare(p)>> : p \in Known}
    BY <2>3, <2>4 DEF Pairs
  <2>6. QED
    BY <2>2, <2>5 DEF LiftInv, LiftedOK
<1>4. QED
  BY <1>1, <1>2, <1>3, PTL DEF LiftSpec

-----------------------------------------------------------------------------
(* Starting and ending the services *)

LauncherTypeOK ==
    /\ conf \in Configs
    /\ proc \in [Service -> {"none", "running"} \cup Outcome]
    /\ made \in [Service -> BOOLEAN]
    /\ pc \in {"start", "block", "added", "announce", "wait", "teardown", "ended", "crashed"}
    /\ at \in Nat \ {0}

\* Nothing is left to wait for in the start of service r.
IsUp(r) ==
    /\ conf.stanza[r].block = "exit" => Exited(r)
    /\ conf.stanza[r].block = "file" => Exited(r) \/ made[r]

\* Services are started in order, each when those before it are up.
StartOK ==
    /\ \A s, r \in Service : r < s /\ proc[s] # "none" => proc[r] # "none" /\ IsUp(r)
    /\ pc \in {"start", "block", "added"} =>
          /\ at \in Service
          /\ \A s \in Service : s < at => proc[s] # "none" /\ IsUp(s)
          /\ \A s \in Service : s > at => proc[s] = "none"
    /\ pc = "start" => proc[at] = "none"
    /\ pc \in {"block", "added"} => proc[at] # "none"
    /\ pc = "added" => IsUp(at)

\* The launcher's result is none, or that of the service it is to be of, which has
\* ended.  The services that are torn down have ended, and gave the result.
ResultOK ==
    /\ code # "none" => conf.result # 0 /\ Exited(conf.result) /\ code = proc[conf.result]
    /\ pc = "teardown" =>
          \A s \in Service : s < at =>
              Exited(s) /\ (s = conf.result => code = proc[s])

LauncherInv == LauncherTypeOK /\ StartOK /\ ResultOK /\ EndsAsConfigured

LEMMA ConfIs ==
    ASSUME LauncherTypeOK
    PROVE  /\ conf.stanza \in Seq(Stanza) /\ Len(conf.stanza) \in Nat \ {0}
           /\ Service = 1..Len(conf.stanza)
           /\ conf.result \in 0..Len(conf.stanza)
<1>1. Config(conf)
  BY LauncherAssumption DEF LauncherTypeOK
<1>2. QED
  BY <1>1 DEF Config, Service

LEMMA LauncherInitHasInv ==
    ASSUME LauncherInit
    PROVE  LauncherInv
<1> USE DEF LauncherInit
<1>1. LauncherTypeOK
  BY DEF LauncherTypeOK
<1>2. 1 \in Service
  BY <1>1, ConfIs
<1>3. StartOK
  BY <1>1, <1>2, ConfIs DEF StartOK
<1>4. ResultOK /\ EndsAsConfigured
  BY DEF ResultOK, EndsAsConfigured
<1>5. QED
  BY <1>1, <1>3, <1>4 DEF LauncherInv

\* The end of a process is final, and so is the file that one makes: what is up
\* stays up.
LEMMA UpIsStable ==
    ASSUME LauncherTypeOK, conf' = conf,
           \A s \in Service : Exited(s) => proc'[s] = proc[s],
           \A s \in Service : made[s] => made'[s]
    PROVE  \A s \in Service : IsUp(s) => IsUp(s)'
BY DEF IsUp, Exited, Service

\* A step of the launcher that starts nothing and ends nothing.
LEMMA WaitKeepsInv ==
    ASSUME LauncherInv, UNCHANGED <<conf, proc, made>>,
           pc \notin {"teardown", "ended"},
           pc' \in {"announce", "wait", "crashed"} \/ (pc' = "teardown" /\ at' = 1),
           at' \in Nat \ {0},
           \/ code' = code
           \/ conf.result \in Service /\ Exited(conf.result) /\ code' = proc[conf.result]
    PROVE  LauncherInv'
<1> USE DEF LauncherInv
<1>1. LauncherTypeOK'
  BY DEF LauncherTypeOK, Service
<1>2. StartOK'
  BY DEF StartOK, IsUp, Exited, Service
<1>3. ResultOK'
  <2>1. \A s \in Service : s \in Nat /\ s >= 1
    BY ConfIs
  <2>2. conf.result \in Service => conf.result # 0
    BY <2>1
  <2>3. code' # "none" => conf.result # 0 /\ Exited(conf.result) /\ code' = proc[conf.result]
    BY <2>2 DEF ResultOK
  <2>4. pc' = "teardown" => \A s \in Service : ~(s < at')
    BY <2>1
  <2>5. QED
    BY <2>3, <2>4 DEF ResultOK, Exited, Service
<1>4. EndsAsConfigured'
  BY DEF EndsAsConfigured
<1>5. QED
  BY <1>1, <1>2, <1>3, <1>4

LEMMA IsExitingIs ==
    ASSUME LauncherTypeOK, NEW S \in SUBSET Service, IsExiting(S)
    PROVE  \/ code' = code
           \/ conf.result \in Service /\ Exited(conf.result) /\ code' = proc[conf.result]
BY DEF IsExiting, Dropped

LEMMA LauncherStepKeepsInv ==
    ASSUME LauncherInv, LauncherStep
    PROVE  LauncherInv'
<1> USE DEF LauncherInv
<1>1. CASE Exec
  <2>1. /\ pc = "start" /\ at \in Service /\ proc[at] = "none"
        /\ UNCHANGED <<conf, made, at, code>>
        /\ proc' = [proc EXCEPT ![at] = "running"]
        /\ pc' = IF conf.stanza[at].block = "no" THEN "added" ELSE "block"
    BY <1>1 DEF Exec, StartOK
  <2>2. LauncherTypeOK'
    BY <2>1 DEF LauncherTypeOK, Service
  <2>3. \A s \in Service : s # at => proc'[s] = proc[s]
    BY <2>1 DEF LauncherTypeOK
  <2>4. proc'[at] = "running"
    BY <2>1 DEF LauncherTypeOK
  <2>5. \A s \in Service : IsUp(s) => IsUp(s)'
    BY <2>1, <2>3, UpIsStable DEF Exited, Outcome
  <2>6. StartOK'
    <3>1. Service' = Service /\ at' = at /\ \A s \in Service : s \in Nat
      BY <2>1, ConfIs DEF Service
    <3>2. pc' = "added" => IsUp(at)'
      BY <2>1 DEF IsUp
    <3>3. \A s \in Service : s < at => proc'[s] # "none" /\ IsUp(s)'
      BY <2>1, <2>3, <2>5, <3>1 DEF StartOK
    <3>4. \A s \in Service : s > at => proc'[s] = "none"
      BY <2>1, <2>3, <3>1 DEF StartOK
    <3>5. at \in Nat
      BY DEF LauncherTypeOK
    <3>6. \A s, r \in Service : r < s /\ proc'[s] # "none" => proc'[r] # "none" /\ IsUp(r)'
      BY <2>4, <3>1, <3>3, <3>4, <3>5
    <3>7. QED
      BY <2>1, <2>4, <3>1, <3>2, <3>3, <3>4, <3>6 DEF StartOK
  <2>7. ResultOK'
    BY <2>1, <2>3 DEF ResultOK, Exited, Outcome, Service
  <2>8. EndsAsConfigured'
    BY <2>1 DEF EndsAsConfigured
  <2>9. QED
    BY <2>2, <2>6, <2>7, <2>8
<1>2. CASE Block
  <2>1. /\ pc = "block" /\ pc' = "added" /\ UNCHANGED <<conf, proc, made, at, code>>
        /\ Exited(at) \/ (conf.stanza[at].block = "file" /\ made[at])
    BY <1>2 DEF Block
  <2>2. LauncherTypeOK'
    BY <2>1 DEF LauncherTypeOK, Service
  <2>3. IsUp(at)
    BY <2>1 DEF IsUp
  <2>4. StartOK'
    BY <2>1, <2>3 DEF StartOK, IsUp, Exited, Service
  <2>5. QED
    BY <2>1, <2>2, <2>4 DEF ResultOK, EndsAsConfigured, Exited, Service
<1>3. CASE AddService
  <2>1. /\ pc = "added" /\ UNCHANGED <<conf, proc, made>> /\ IsExiting(Added)
        /\ \/ at < Len(conf.stanza) /\ pc' = "start" /\ at' = at + 1
           \/ pc' = "announce" /\ at' = at
    BY <1>3 DEF AddService
  <2>2. Added \in SUBSET Service
    BY DEF Added
  <2>3. CASE pc' = "announce" /\ at' = at
    BY <2>1, <2>2, <2>3, IsExitingIs, WaitKeepsInv DEF LauncherTypeOK
  <2>4. CASE at < Len(conf.stanza) /\ pc' = "start" /\ at' = at + 1
    <3>1. LauncherTypeOK'
      BY <2>1, <2>4 DEF LauncherTypeOK, Service
    <3>2. at' \in Service /\ Service' = Service /\ at \in Nat /\ \A s \in Service : s \in Nat
      BY <2>1, <2>4, ConfIs DEF LauncherTypeOK, Service
    <3>3. StartOK'
      <4>1. \A s \in Service : s < at + 1 => s < at \/ s = at
        BY <3>2
      <4>2. \A s \in Service : s > at + 1 => s > at
        BY <3>2
      <4>3. at + 1 > at
        BY <3>2
      <4>4. \A s \in Service : IsUp(s)' = IsUp(s)
        BY <2>1 DEF IsUp, Exited
      <4>5. QED
        BY <2>1, <2>4, <3>2, <4>1, <4>2, <4>3, <4>4 DEF StartOK
    <3>4. ResultOK' /\ EndsAsConfigured'
      <4>1. \A s \in Service : s # 0
        BY ConfIs
      <4>2. QED
        BY <2>1, <2>2, <2>4, <4>1, IsExitingIs
           DEF ResultOK, EndsAsConfigured, Exited, Service
    <3>5. QED
      BY <3>1, <3>3, <3>4
  <2>5. QED
    BY <2>1, <2>3, <2>4
<1>4. CASE Announce
  BY <1>4, WaitKeepsInv DEF Announce, LauncherTypeOK
<1>5. CASE Watch
  <2>1. Added \in SUBSET Service
    BY DEF Added
  <2>2. QED
    BY <1>5, <2>1, IsExitingIs, WaitKeepsInv DEF Watch, Teardown, LauncherTypeOK
<1>6. CASE ExecRaises \/ Foreground \/ ForegroundTimeout
  BY <1>6, WaitKeepsInv DEF ExecRaises, Foreground, ForegroundTimeout, Teardown, LauncherTypeOK
<1>7. CASE Terminate
  BY <1>7 DEF Terminate, launcher, LauncherTypeOK, StartOK, ResultOK, EndsAsConfigured,
     IsUp, Exited, Service
<1>8. CASE TornDown
  <2>1. /\ pc = "teardown" /\ at \in Service /\ Exited(at)
        /\ code' = IF at = conf.result THEN proc[at] ELSE code
        /\ at' = at + 1 /\ UNCHANGED <<conf, proc, made, pc>>
    BY <1>8 DEF TornDown, Added
  <2>2. LauncherTypeOK' /\ StartOK' /\ EndsAsConfigured'
    BY <2>1 DEF LauncherTypeOK, StartOK, EndsAsConfigured, IsUp, Exited, Service
  <2>3. ResultOK'
    <3>1. \A s \in Service : s \in Nat \ {0}
      BY ConfIs
    <3>2. \A s \in Service : s < at + 1 => s < at \/ s = at
      BY <2>1, <3>1
    <3>3. QED
      BY <2>1, <3>1, <3>2 DEF ResultOK, Exited, Service
  <2>4. QED
    BY <2>2, <2>3
<1>9. CASE End
  <2>1. /\ pc = "teardown" /\ at \notin Added /\ pc' = "ended"
        /\ UNCHANGED <<conf, proc, made, at, code>>
    BY <1>9 DEF End
  <2>2. LauncherTypeOK' /\ StartOK' /\ ResultOK'
    BY <2>1 DEF LauncherTypeOK, StartOK, ResultOK, IsUp, Exited, Service
  <2>3. \A s \in Service : s >= at => proc[s] = "none"
    <3>1. at \in Service => proc[at] = "none"
      BY <2>1 DEF Added
    <3>2. at \in Nat \ {0} /\ Service = 1..Len(conf.stanza)
      BY ConfIs DEF LauncherTypeOK
    <3>3. \A s \in Service : s >= at => at \in Service /\ (s = at \/ at < s)
      BY <3>2, ConfIs
    <3>4. QED
      BY <3>1, <3>3 DEF StartOK
  <2>4. \A s \in Service : s < at \/ s >= at
    BY ConfIs DEF LauncherTypeOK
  <2>5. \A s \in Service : proc[s] # "running"
    BY <2>1, <2>3, <2>4 DEF ResultOK, Exited, Outcome
  <2>6. conf.result # 0 => code = proc[conf.result]
    <3>1. SUFFICES ASSUME conf.result # 0
                   PROVE  code = proc[conf.result]
      OBVIOUS
    <3>2. conf.result \in Service
      BY <3>1, ConfIs
    <3>3. QED
      BY <2>1, <2>3, <2>4, <3>2 DEF ResultOK, Exited, Outcome
  <2>7. QED
    BY <2>1, <2>2, <2>5, <2>6 DEF EndsAsConfigured, Service
<1>10. QED
  BY <1>1, <1>2, <1>3, <1>4, <1>5, <1>6, <1>7, <1>8, <1>9 DEF LauncherStep

LEMMA ServiceStepKeepsInv ==
    ASSUME LauncherInv, NEW s \in Service, Exits(s) \/ Fails(s) \/ Makes(s)
    PROVE  LauncherInv'
<1> USE DEF LauncherInv
<1>1. UNCHANGED <<conf, pc, at, code>>
  BY DEF Exits, Fails, Makes, launcher
<1>2. CASE Exits(s) \/ Fails(s)
  <2>1. PICK o \in Outcome : proc' = [proc EXCEPT ![s] = o]
    BY <1>2 DEF Exits, Fails, Outcome
  <2>2. made' = made /\ proc[s] = "running" /\ pc # "ended"
    BY <1>2 DEF Exits, Fails, EndsAsConfigured
  <2>3. LauncherTypeOK'
    BY <1>1, <2>1, <2>2 DEF LauncherTypeOK, Service
  <2>4. \A r \in Service : /\ Exited(r) => proc'[r] = proc[r]
                           /\ proc'[r] = "none" <=> proc[r] = "none"
    BY <2>1, <2>2 DEF LauncherTypeOK, Exited, Outcome
  <2>5. \A r \in Service : IsUp(r) => IsUp(r)'
    BY <1>1, <2>2, <2>4, UpIsStable
  <2>6. StartOK'
    BY <1>1, <2>4, <2>5 DEF StartOK, Service
  <2>7. ResultOK'
    <3>1. conf.result # 0 => conf.result \in Service
      BY ConfIs
    <3>2. QED
      BY <1>1, <2>4, <3>1 DEF ResultOK, Exited, Service
  <2>8. QED
    BY <1>1, <2>2, <2>3, <2>6, <2>7 DEF EndsAsConfigured
<1>3. CASE Makes(s)
  <2>1. made' = [made EXCEPT ![s] = TRUE] /\ proc' = proc
    BY <1>3 DEF Makes
  <2>2. LauncherTypeOK' /\ \A r \in Service : made[r] => made'[r]
    BY <1>1, <2>1 DEF LauncherTypeOK, Service
  <2>3. \A r \in Service : IsUp(r) => IsUp(r)'
    BY <1>1, <2>1, <2>2, UpIsStable
  <2>4. StartOK' /\ ResultOK' /\ EndsAsConfigured'
    BY <1>1, <2>1, <2>3 DEF StartOK, ResultOK, EndsAsConfigured, Exited, Service
  <2>5. QED
    BY <2>2, <2>4
<1>4. QED
  BY <1>2, <1>3

LEMMA LauncherIsOK == LauncherSpec => []LauncherInv
<1>1. LauncherInv /\ [LauncherNext]_lvars => LauncherInv'
  <2> SUFFICES ASSUME LauncherInv, [LauncherNext]_lvars
               PROVE  LauncherInv'
    OBVIOUS
  <2>1. CASE UNCHANGED lvars
    BY <2>1 DEF lvars, launcher, LauncherInv, LauncherTypeOK, StartOK, ResultOK,
       EndsAsConfigured, IsUp, Exited, Service
  <2>2. QED
    BY <2>1, LauncherStepKeepsInv, ServiceStepKeepsInv DEF LauncherNext
<1>2. QED
  BY <1>1, LauncherInitHasInv, PTL DEF LauncherSpec

\* For any configuration, and however its services end and whenever their files
\* appear: a service is started only when those before it are up, a 'setup' service
\* having ended, and a file that is blocked on being there unless its maker is gone.
THEOREM ServicesStartInOrder == LauncherSpec => []StartsInOrder
<1>1. LauncherInv => StartsInOrder
  BY DEF LauncherInv, StartOK, StartsInOrder, IsUp
<1>2. QED
  BY <1>1, LauncherIsOK, PTL

\* For any configuration: a launcher that ends leaves no service of its own running,
\* wherever the start or the wait was cut short, and its result is that of the
\* 'result_from' service.
THEOREM LauncherEndsAsConfigured == LauncherSpec => []EndsAsConfigured
<1>1. LauncherInv => EndsAsConfigured
  BY DEF LauncherInv
<1>2. QED
  BY <1>1, LauncherIsOK, PTL

-----------------------------------------------------------------------------
(* The launcher's way to its end: the safety half of DroppedEndsLauncher *)

\* How far the launcher is: in its life, and with the service at hand.
Phase == CASE pc \in {"start", "block", "added"} -> 0 [] pc = "announce" -> 1
           [] pc = "wait" -> 2 [] pc = "teardown" -> 3 [] OTHER -> 4

Within == CASE pc = "block" -> 1
            [] pc = "added" -> 2
            [] pc = "teardown" /\ at \in Added /\ Exited(at) -> 2
            [] pc = "teardown" /\ at \in Added /\ ~Exited(at) /\ at \in termed -> 1
            [] OTHER -> 0

Further ==
    \/ Phase' > Phase
    \/ Phase' = Phase /\ at' > at
    \/ Phase' = Phase /\ at' = at /\ Within' > Within

\* A step of the launcher brings it further, but for a look around that finds no
\* service that has dropped; and no service ever takes it back.
LauncherGetsOn ==
    [][/\ LauncherStep =>
             Further \/ (Watch /\ UNCHANGED <<pc, at>> /\ ~\E s \in Added : Dropped(s))
       /\ Further \/ UNCHANGED <<Phase, at, Within>>]_lvars

\* It goes through its services once in each phase.
AtBounded == at \in 1..Len(conf.stanza) + 1

LEMMA AtStep ==
    ASSUME LauncherInv, AtBounded, [LauncherNext]_lvars
    PROVE  AtBounded'
<1> USE DEF LauncherInv
<1>1. Service = 1..Len(conf.stanza) /\ Len(conf.stanza) \in Nat \ {0}
  BY ConfIs
<1>2. conf' = conf
  BY DEF LauncherNext, LauncherStep, Exec, ExecRaises, Block, AddService, Announce, Watch, Foreground,
         ForegroundTimeout, Terminate, TornDown, End, Exits, Fails, Makes, lvars
<1>3. CASE AddService
  <2>1. at \in Service
    BY <1>3 DEF AddService, StartOK
  <2>2. QED
    BY <1>1, <1>2, <1>3, <2>1 DEF AddService, AtBounded
<1>4. CASE TornDown
  BY <1>1, <1>2, <1>4 DEF TornDown, Added, AtBounded
<1>5. CASE at' = at \/ at' = 1
  BY <1>1, <1>2, <1>5 DEF AtBounded
<1>6. QED
  BY <1>3, <1>4, <1>5
     DEF LauncherNext, LauncherStep, Exec, ExecRaises, Block, Announce, Watch, Foreground, Teardown,
         ForegroundTimeout, Terminate, End, Exits, Fails, Makes, launcher, lvars

\* The launcher's place is among its services, or behind the last of them.
THEOREM LauncherStaysInBounds == LauncherSpec => []AtBounded
<1>1. LauncherInit => AtBounded
  <2> SUFFICES ASSUME LauncherInit PROVE AtBounded
    OBVIOUS
  <2>1. Len(conf.stanza) \in Nat \ {0}
    BY LauncherInitHasInv, ConfIs DEF LauncherInv
  <2>2. QED
    BY <2>1 DEF LauncherInit, AtBounded
<1>2. QED
  BY <1>1, AtStep, LauncherIsOK, PTL DEF LauncherSpec

LEMMA PhaseIs ==
    ASSUME LauncherTypeOK
    PROVE  Phase \in 0..4 /\ Within \in 0..2 /\ at \in Nat
BY DEF LauncherTypeOK, Phase, Within

LEMMA StepIsFurther ==
    ASSUME LauncherInv, LauncherStep
    PROVE  Further \/ (/\ Watch /\ UNCHANGED <<pc, at>> /\ UNCHANGED <<Phase, Within>>
                       /\ ~\E s \in Added : Dropped(s))
<1> USE DEF LauncherInv
<1>0. Phase \in 0..4 /\ Within \in 0..2 /\ at \in Nat
  BY PhaseIs
<1>1. CASE Exec \/ Block
  <2>1. at' = at /\ Phase = 0 /\ Phase' = 0
    BY <1>1 DEF Exec, Block, Phase
  <2>2. Within' > Within
    BY <1>1 DEF Exec, Block, Within
  <2>3. QED
    BY <2>1, <2>2 DEF Further
<1>2. CASE AddService
  <2>1. CASE pc' = "announce"
    BY <1>2, <2>1 DEF AddService, Further, Phase
  <2>2. CASE pc' = "start" /\ at' = at + 1
    BY <1>0, <1>2, <2>2 DEF AddService, Further, Phase
  <2>3. QED
    BY <1>2, <2>1, <2>2 DEF AddService
<1>3. CASE Announce
  BY <1>3 DEF Announce, Further, Phase
<1>4. CASE Watch
  <2>1. CASE exiting'
    BY <1>4, <2>1 DEF Watch, Teardown, Further, Phase
  <2>2. CASE ~exiting'
    <3>1. UNCHANGED <<pc, at>> /\ pc = "wait" /\ ~\E s \in Added : Dropped(s)
      BY <1>4, <2>2 DEF Watch, IsExiting
    <3>2. UNCHANGED <<Phase, Within>>
      BY <3>1 DEF Phase, Within
    <3>3. QED
      BY <1>4, <3>1, <3>2
  <2>3. QED
    BY <2>1, <2>2
<1>5. CASE ExecRaises \/ Foreground \/ ForegroundTimeout
  BY <1>5 DEF ExecRaises, Foreground, ForegroundTimeout, Teardown, Further, Phase
<1>6. CASE Terminate
  <2>1. Within = 0 /\ Within' = 1
    BY <1>6 DEF Terminate, launcher, Within, Added, Exited, Outcome, Service
  <2>2. at' = at /\ Phase' = Phase
    BY <1>6 DEF Terminate, launcher, Phase
  <2>3. QED
    BY <2>1, <2>2 DEF Further
<1>7. CASE TornDown
  <2>1. at' = at + 1 /\ Phase = 3 /\ Phase' = 3
    BY <1>7 DEF TornDown, Phase
  <2>2. QED
    BY <1>0, <2>1 DEF Further
<1>8. CASE End
  BY <1>8 DEF End, Further, Phase
<1>9. QED
  BY <1>1, <1>2, <1>3, <1>4, <1>5, <1>6, <1>7, <1>8 DEF LauncherStep

LEMMA ServiceKeepsPlace ==
    ASSUME LauncherInv, NEW s \in Service, Exits(s) \/ Fails(s) \/ Makes(s)
    PROVE  Further \/ UNCHANGED <<Phase, at, Within>>
<1> USE DEF LauncherInv
<1>1. UNCHANGED <<conf, pc, at, termed>> /\ Phase' = Phase
  BY DEF Exits, Fails, Makes, launcher, Phase
<1>2. CASE Makes(s) \/ pc # "teardown"
  <2>1. Within' = Within
    BY <1>1, <1>2 DEF Makes, Within, Added, Exited, Outcome, Service
  <2>2. QED
    BY <1>1, <2>1
<1>3. CASE Exits(s) \/ Fails(s)
  <2>1. PICK o \in Outcome : proc' = [proc EXCEPT ![s] = o]
    BY <1>3 DEF Exits, Fails, Outcome
  <2>2. proc[s] = "running"
    BY <1>3 DEF Exits, Fails
  <2>3. /\ proc'[s] = o
        /\ \A r \in Service \ {s} : proc'[r] = proc[r]
        /\ Service' = Service
    BY <1>1, <2>1 DEF LauncherTypeOK, Service
  <2>4. CASE pc = "teardown" /\ at = s
    <3>1. Within \in {0, 1} /\ Within' = 2
      BY <1>1, <2>2, <2>3, <2>4 DEF Within, Added, Exited, Outcome
    <3>2. QED
      BY <1>1, <3>1 DEF Further
  <2>5. CASE pc = "teardown" /\ at # s
    <3>1. at \in Added' <=> at \in Added
      BY <1>1, <2>3, <2>5 DEF Added
    <3>2. at \in Added => (Exited(at)' <=> Exited(at))
      BY <1>1, <2>3, <2>5 DEF Added, Exited
    <3>3. Within' = Within
      BY <1>1, <2>5, <3>1, <3>2 DEF Within
    <3>4. QED
      BY <1>1, <3>3
  <2>6. QED
    BY <1>2, <2>4, <2>5
<1>4. QED
  BY <1>2, <1>3

\* For any configuration, and whatever its services do: the launcher never starts a
\* service over, nor looks at one again that it has torn down; each pass of its main
\* loop is the last if a service has dropped that may not.
THEOREM LauncherComesToItsEnd == LauncherSpec => LauncherGetsOn
<1>1. LauncherInv /\ [LauncherNext]_lvars =>
         [/\ LauncherStep =>
                Further \/ (Watch /\ UNCHANGED <<pc, at>> /\ ~\E s \in Added : Dropped(s))
          /\ Further \/ UNCHANGED <<Phase, at, Within>>]_lvars
  BY StepIsFurther, ServiceKeepsPlace DEF LauncherNext
<1>2. QED
  BY <1>1, LauncherIsOK, PTL DEF LauncherSpec, LauncherGetsOn

-----------------------------------------------------------------------------
(* What those that wait for the workload may rely on *)

\* What more is so of a launcher on its way: it has seen no drop while it starts
\* services, and it comes to announce with all of them started, or after a drop.
OnItsWay ==
    /\ {exiting, announced} \subseteq BOOLEAN
    /\ pc \in {"start", "block", "added"} => ~exiting
    /\ pc = "announce" => exiting \/ Added = Service

\* A step that starts nothing and is past nothing more.
LEMMA StayIsSupervised ==
    ASSUME OnItsWay, UNCHANGED <<conf, exiting, announced>>, Added' = Added,
           pc' \notin {"start", "added", "block", "announce"} \/ pc' = pc
    PROVE  OnItsWay' /\ [Supervised!Next]_Supervised!promised
BY DEF OnItsWay, Supervised!promised, Service

\* A step in which the launcher looks for services that have dropped.
LEMMA LookIsSupervised ==
    ASSUME OnItsWay, UNCHANGED <<conf, announced>>, Added' = Added, IsExiting(Added)
    PROVE  /\ {exiting, announced}' \subseteq BOOLEAN
           /\ [Supervised!Next]_Supervised!promised
<1>1. exiting' \in BOOLEAN /\ (exiting => exiting')
  BY DEF IsExiting, OnItsWay
<1>2. CASE exiting' = exiting
  BY <1>2 DEF OnItsWay, Supervised!promised, Service
<1>3. CASE ~exiting /\ exiting'
  <2>1. Supervised!SeeDrop /\ Supervised!SignIsEarned
    BY <1>3 DEF Supervised!SeeDrop, Supervised!SignIsEarned
  <2>2. QED
    BY <1>1, <2>1 DEF Supervised!Next, OnItsWay, Service
<1>4. QED
  BY <1>1, <1>2, <1>3 DEF OnItsWay

LEMMA StepIsSupervised ==
    ASSUME LauncherInv, OnItsWay, LauncherStep
    PROVE  OnItsWay' /\ [Supervised!Next]_Supervised!promised
<1>1. ASSUME pc \in {"start", "block"}, pc' = "added" \/ pc' = "block", pc' # pc,
             UNCHANGED <<conf, exiting, announced>>,
             Added' = IF pc' = "block" THEN Added ELSE Added \cup {at},
             pc' = "added" => at \in Met
      PROVE  OnItsWay' /\ [Supervised!Next]_Supervised!promised
  <2>1. OnItsWay'
    BY <1>1 DEF OnItsWay
  <2>2. CASE pc' = "block"
    BY <1>1, <2>1, <2>2 DEF Supervised!promised, Service
  <2>3. CASE pc' = "added"
    <3>1. at \in Service /\ at \notin Added
      BY <1>1 DEF LauncherInv, StartOK, Added
    <3>2. \A s \in Service : s < at => s \in Added
      BY ConfIs, <1>1 DEF LauncherInv, StartOK, Added
    <3>3. Supervised!Pass(at) /\ Supervised!SignIsEarned
      BY <1>1, <2>3, <3>1, <3>2 DEF Supervised!Pass, Supervised!SignIsEarned, OnItsWay
    <3>4. QED
      BY <1>1, <2>1, <3>1, <3>3 DEF Supervised!Next, Service
  <2>4. QED
    BY <1>1, <2>1, <2>2, <2>3
<1>2. CASE Exec
  <2>1. at \in Service /\ proc[at] = "none" /\ proc' = [proc EXCEPT ![at] = "running"]
    BY <1>2 DEF Exec, LauncherInv, StartOK
  <2>2. Added' = IF pc' = "block" THEN Added ELSE Added \cup {at}
    BY <1>2, <2>1 DEF Exec, Added, LauncherInv, LauncherTypeOK, Service
  <2>3. QED
    BY <1>1, <1>2, <2>1, <2>2 DEF Exec, Met
<1>3. CASE Block
  <2>1. at \in Service /\ proc[at] # "none"
    BY <1>3 DEF Block, LauncherInv, StartOK
  <2>2. Added' = Added \cup {at}
    BY <1>3, <2>1 DEF Block, Added, Service
  <2>3. at \in Met
    BY <1>3, <2>1 DEF Block, Met
  <2>4. QED
    BY <1>1, <1>3, <2>2, <2>3 DEF Block
<1>4. CASE AddService
  <2>1. Added' = Added
    BY <1>4 DEF AddService, Added, Service
  <2>2. [Supervised!Next]_Supervised!promised /\ {exiting, announced}' \subseteq BOOLEAN
    BY <1>4, <2>1, LookIsSupervised DEF AddService
  <2>3. pc' = "announce" => exiting' \/ Added' = Service'
    <3>1. SUFFICES ASSUME pc' = "announce", ~exiting'
                   PROVE  Added = Service
      BY <1>4, <2>1 DEF AddService, Service
    <3>2. at \in Service /\ at \in Nat /\ ~(at < Len(conf.stanza))
      BY <1>4, <3>1 DEF AddService, LauncherInv, LauncherTypeOK, StartOK
    <3>3. \A s \in Service : s = at \/ s < at
      BY <3>2, ConfIs DEF LauncherInv
    <3>4. \A s \in Service : s \in Added
      BY <1>4, <3>3 DEF AddService, LauncherInv, StartOK, Added
    <3>5. QED
      BY <3>4 DEF Added
  <2>4. pc' = "start" => ~exiting'
    BY <1>4 DEF AddService
  <2>5. pc' \in {"start", "announce"}
    BY <1>4 DEF AddService
  <2>6. QED
    BY <2>2, <2>3, <2>4, <2>5 DEF OnItsWay
<1>5. CASE Announce
  <2>1. Added' = Added /\ Service' = Service
    BY <1>5 DEF Announce, Added, Service
  <2>2. Supervised!SignIsEarned
    BY <1>5, <2>1 DEF Announce, Supervised!SignIsEarned, OnItsWay
  <2>3. OnItsWay'
    BY <1>5 DEF Announce, OnItsWay
  <2>4. QED
    BY <1>5, <2>1, <2>2, <2>3 DEF Announce, Supervised!Next
<1>6. CASE Watch
  <2>1. Added' = Added /\ pc' \in {"wait", "teardown"}
    BY <1>6 DEF Watch, Teardown, Added, Service
  <2>2. QED
    BY <1>6, <2>1, LookIsSupervised DEF Watch, OnItsWay
<1>7. CASE ExecRaises \/ Foreground \/ ForegroundTimeout \/ Terminate \/ TornDown \/ End
  <2>1. /\ UNCHANGED <<conf, exiting, announced>>
        /\ pc' \notin {"start", "added", "block", "announce"}
    BY <1>7 DEF ExecRaises, Foreground, ForegroundTimeout, Teardown, Terminate, TornDown, End,
       launcher
  <2>2. Added' = Added
    BY <1>7 DEF ExecRaises, Foreground, ForegroundTimeout, Teardown, Terminate, TornDown, End,
       launcher, Added, Service
  <2>3. QED
    BY <2>1, <2>2, StayIsSupervised
<1>8. QED
  BY <1>2, <1>3, <1>4, <1>5, <1>6, <1>7 DEF LauncherStep

LEMMA OthersAreSupervised ==
    ASSUME LauncherInv, OnItsWay,
           (\E s \in Service : Exits(s) \/ Fails(s) \/ Makes(s)) \/ UNCHANGED lvars
    PROVE  OnItsWay' /\ [Supervised!Next]_Supervised!promised
<1>1. UNCHANGED <<conf, pc, at, exiting, announced>>
  BY DEF Exits, Fails, Makes, lvars, launcher
<1>2. \A s \in Service : proc'[s] = "none" <=> proc[s] = "none"
  BY DEF Exits, Fails, Makes, lvars, LauncherInv, LauncherTypeOK
<1>3. Added' = Added
  BY <1>1, <1>2 DEF Added, Service
<1>4. QED
  BY <1>1, <1>3, StayIsSupervised

\* For any configuration, whatever its services do: the launcher is past its services
\* in their order, each when what it is blocked on is met, and announces the workload
\* (launcher.py:244) only past all of them or when it has seen that one has dropped.
THEOREM LauncherSupervises == LauncherSpec => Supervised!Spec
<1>1. LauncherInit => OnItsWay /\ Supervised!Init
  BY DEF LauncherInit, OnItsWay, Supervised!Init, Added
<1>2. LauncherInv /\ OnItsWay /\ [LauncherNext]_lvars
         => OnItsWay' /\ [Supervised!Next]_Supervised!promised
  BY StepIsSupervised, OthersAreSupervised DEF LauncherNext
<1>3. QED
  BY <1>1, <1>2, LauncherIsOK, PTL DEF LauncherSpec, Supervised!Spec

-----------------------------------------------------------------------------
(* Asking for a health check *)

WatchHealthTypeOK ==
    /\ {round, report} \subseteq Nat
    /\ cpc \in [Client -> {"idle", "ask", "wait", "read", "told", "failed"}]
    /\ {asked, got} \subseteq [Client -> Nat]

\* Nobody's request is on its way.
Settled == ~request /\ lpc # "checking"

\* Where the request of a client that waits can be: not seen yet; being answered by
\* a check that began after it; answered; or never to be.
Underway(c) ==
    \/ request /\ lpc # "checking" /\ report = 0 /\ round = asked[c]
    \/ ~request /\ lpc = "checking" /\ report = 0 /\ round > asked[c]
    \/ Settled /\ report > asked[c]
    \/ lpc = "left" /\ report = 0

\* While every client has been alone.
AloneOK ==
    alone =>
        /\ \A c, d \in Client : cpc[c] # "idle" /\ cpc[d] # "idle" => c = d
        /\ (\A c \in Client : cpc[c] # "wait") => Settled \/ lpc = "left"
        /\ \A c \in Client :
              /\ cpc[c] # "failed"
              /\ cpc[c] = "ask" => report = 0
              /\ cpc[c] = "wait" => Underway(c)
              /\ cpc[c] = "read" => report > asked[c]
              /\ cpc[c] = "told" => got[c] > asked[c]

HealthInv == WatchHealthTypeOK /\ AloneOK

LEMMA LoopKeepsHealth ==
    ASSUME HealthInv, Check \/ Report
    PROVE  HealthInv'
<1> USE DEF HealthInv
<1>1. WatchHealthTypeOK'
  BY DEF WatchHealthTypeOK, Check, Report
<1>2. ASSUME alone
      PROVE  AloneOK'
  <2>1. PICK c \in Client : cpc[c] = "wait"
    BY <1>2 DEF AloneOK, Settled, Check, Report
  <2>2. \A d \in Client : d # c => cpc[d] = "idle"
    BY <1>2, <2>1 DEF AloneOK
  <2>3. cpc' = cpc /\ UNCHANGED <<asked, got, alone>>
    BY DEF Check, Report
  <2>4. Underway(c)'
    <3>1. Underway(c) /\ {round, report, asked[c]} \subseteq Nat
      BY <1>2, <2>1 DEF AloneOK, WatchHealthTypeOK
    <3>2. CASE Check
      BY <3>1, <3>2 DEF Check, LGoto, Underway, Settled
    <3>3. CASE Report
      BY <3>1, <3>3 DEF Report, LGoto, Underway, Settled
    <3>4. QED
      BY <3>2, <3>3
  <2>5. QED
    BY <1>2, <2>1, <2>2, <2>3, <2>4 DEF AloneOK
<1>3. QED
  BY <1>1, <1>2 DEF AloneOK, Check, Report

\* No other step of the launcher, nor any of vm_cmd, takes a request or a report.
LEMMA OthersKeepHealth ==
    ASSUME HealthInv, UNCHANGED <<round, health>>,
           lpc' = "checking" <=> lpc = "checking",
           lpc' = "left" <=> lpc = "left"
    PROVE  HealthInv'
BY DEF HealthInv, WatchHealthTypeOK, AloneOK, Underway, Settled, health

LEMMA LeaveKeepsHealth ==
    ASSUME HealthInv, Leave
    PROVE  HealthInv'
BY DEF HealthInv, WatchHealthTypeOK, AloneOK, Underway, Settled, Leave, LGoto, health

LEMMA BeginKeepsHealth ==
    ASSUME HealthInv, NEW c \in Client, Begin(c)
    PROVE  HealthInv'
<1> USE DEF HealthInv
<1>1. /\ cpc[c] = "idle" /\ report' = 0 /\ cpc' = [cpc EXCEPT ![c] = "ask"]
      /\ got' = [got EXCEPT ![c] = 0]
      /\ UNCHANGED <<lpc, round, request, asked>>
      /\ alone' = (alone /\ Others(c) = {})
  BY DEF Begin, CGoto, Meets
<1>2. WatchHealthTypeOK'
  BY <1>1 DEF WatchHealthTypeOK
<1>3. ASSUME alone'
      PROVE  AloneOK'
  <2>1. alone /\ Others(c) = {}
    BY <1>1, <1>3
  <2>2. \A d \in Client : cpc[d] = "idle"
    BY <1>1, <2>1 DEF Others
  <2>3. (Settled \/ lpc = "left")'
    BY <1>1, <2>1, <2>2 DEF AloneOK, Settled
  <2>4. \A d \in Client : cpc'[d] = IF d = c THEN "ask" ELSE "idle"
    BY <1>1, <2>2 DEF WatchHealthTypeOK
  <2>5. QED
    BY <1>1, <2>3, <2>4 DEF AloneOK
<1>4. QED
  BY <1>2, <1>3 DEF AloneOK

LEMMA ClientKeepsHealth ==
    ASSUME HealthInv, NEW c \in Client, ClientStep(c) \/ Killed(c)
    PROVE  HealthInv'
<1> USE DEF HealthInv, CGoto
<1>1. CASE Killed(c)
  BY <1>1 DEF Killed, WatchHealthTypeOK, AloneOK
<1>2. ASSUME ClientStep(c)
      PROVE  WatchHealthTypeOK'
  <2>1. CASE Ask(c)
    BY <2>1 DEF Ask, WatchHealthTypeOK
  <2>2. CASE Poll(c)
    BY <2>2 DEF Poll, WatchHealthTypeOK
  <2>3. CASE Read(c)
    BY <2>3 DEF Read, WatchHealthTypeOK
  <2>4. CASE Exit(c)
    BY <2>4 DEF Exit, WatchHealthTypeOK
  <2>5. QED
    BY <1>2, <2>1, <2>2, <2>3, <2>4 DEF ClientStep
<1>3. ASSUME ClientStep(c), alone
      PROVE  AloneOK'
  <2>1. cpc[c] # "idle" /\ UNCHANGED <<lpc, round, report, alone>>
    BY <1>3 DEF ClientStep, Ask, Poll, Read, Exit
  <2>2. \A d \in Client : d # c => cpc[d] = "idle"
    BY <1>3, <2>1 DEF AloneOK
  <2>3. \A d \in Client : d # c => cpc'[d] = "idle"
    BY <1>3, <2>2 DEF ClientStep, Ask, Poll, Read, Exit, WatchHealthTypeOK
  <2>4. CASE Ask(c)
    <3>1. (Settled \/ lpc = "left") /\ report = 0
      BY <1>3, <2>2, <2>4 DEF AloneOK, Ask
    <3>2. cpc'[c] = "wait" /\ asked'[c] = round /\ request' = TRUE
      BY <2>4 DEF Ask, WatchHealthTypeOK
    <3>3. QED
      BY <2>1, <2>3, <3>1, <3>2 DEF AloneOK, Underway, Settled
  <2>5. CASE Poll(c)
    <3>1. cpc'[c] = "read" /\ UNCHANGED <<asked, request>>
      BY <2>5 DEF Poll, WatchHealthTypeOK
    <3>2. Settled /\ report > asked[c]
      BY <1>3, <2>5 DEF AloneOK, Underway, Poll
    <3>3. QED
      BY <2>1, <2>3, <3>1, <3>2 DEF AloneOK, Settled
  <2>6. CASE Read(c)
    <3>1. report > asked[c] /\ report # 0 /\ (Settled \/ lpc = "left")
      BY <1>3, <2>2, <2>6 DEF AloneOK, Read, WatchHealthTypeOK
    <3>2. cpc'[c] = "told" /\ got'[c] = report /\ UNCHANGED <<asked, request>>
      BY <2>6, <3>1 DEF Read, WatchHealthTypeOK
    <3>3. QED
      BY <2>1, <2>3, <3>1, <3>2 DEF AloneOK, Settled
  <2>7. CASE Exit(c)
    <3>1. cpc'[c] = "idle" /\ UNCHANGED <<asked, request>>
      BY <2>7 DEF Exit, WatchHealthTypeOK
    <3>2. Settled \/ lpc = "left"
      BY <1>3, <2>2, <2>7 DEF AloneOK, Exit
    <3>3. QED
      BY <2>1, <2>3, <3>1, <3>2 DEF AloneOK, Settled
  <2>8. QED
    BY <1>3, <2>4, <2>5, <2>6, <2>7 DEF ClientStep
<1>4. ASSUME ClientStep(c), ~alone
      PROVE  AloneOK'
  BY <1>4 DEF ClientStep, Ask, Poll, Read, Exit, AloneOK
<1>5. QED
  BY <1>1, <1>2, <1>3, <1>4

LEMMA HealthIsOK == WatchSpec => []HealthInv
<1>1. WatchInit => HealthInv
  BY DEF WatchInit, HealthInv, WatchHealthTypeOK, AloneOK, Settled
<1>2. HealthInv /\ [WatchNext]_watchvars => HealthInv'
  <2> SUFFICES ASSUME HealthInv, [WatchNext]_watchvars
               PROVE  HealthInv'
    OBVIOUS
  <2>1. CASE Check \/ Report
    BY <2>1, LoopKeepsHealth
  <2>2. CASE \E c \in Client : Begin(c) \/ ClientStep(c) \/ Killed(c)
    BY <2>2, BeginKeepsHealth, ClientKeepsHealth
  <2>3. CASE Started \/ NoRequest \/ NoCommand \/ Load \/ Remove \/ CommandEnds
             \/ CommandFails \/ Dump
    BY <2>3, OthersKeepHealth
       DEF Started, NoRequest, NoCommand, Load, Remove, CommandEnds, CommandFails, Dump, LGoto
  <2>4. CASE VmBegin \/ VmStep \/ VmKilled
    BY <2>4, OthersKeepHealth
       DEF VmBegin, VmStep, VmSubmit, VmPoll, VmRead, VmExit, VmKilled
  <2>5. CASE UNCHANGED watchvars
    BY <2>5, OthersKeepHealth DEF watchvars
  <2>6. CASE Leave
    BY <2>6, LeaveKeepsHealth
  <2>7. QED
    BY <2>1, <2>2, <2>3, <2>4, <2>5, <2>6 DEF WatchNext, LoopStep
<1>3. QED
  BY <1>1, <1>2, PTL DEF WatchSpec

\* However many clients there are and however many checks are run, and whatever
\* commands hold the launcher up: a client of the health check that was neither
\* killed nor run beside another is told of a check that began after it asked.
THEOREM AloneClientIsTold == WatchSpec => []AloneIsTold
<1>1. HealthInv => AloneIsTold
  BY DEF HealthInv, AloneOK, AloneIsTold
<1>2. QED
  BY <1>1, HealthIsOK, PTL

-----------------------------------------------------------------------------
(* Having a command run *)

\* The launcher has taken a command that it has not run yet.
Holding == lpc \in {"loaded", "running"}

\* While no vm_cmd has been interrupted: the command that is submitted, loaded or
\* run, and the result that is there, are those of the vm_cmd that runs.
CommandOK ==
    ~killed =>
        /\ vpc \in {"idle", "submit"} => do_cmd = 0 /\ ~Holding
        /\ vpc = "submit" => result = 0
        /\ vpc = "wait" =>
              /\ {do_cmd, result} \subseteq {0, mine}
              /\ Holding => cur = mine
              /\ lpc = "running" => do_cmd = 0
              /\ result # 0 => do_cmd = 0 /\ ~Holding
        /\ vpc \in {"read", "told", "torn"} => result = mine /\ do_cmd = 0 /\ ~Holding

CommandInv == mine \in Nat /\ (vpc # "idle" => mine > 0) /\ CommandOK

LEMMA CommandIsOK == WatchSpec => []CommandInv
<1>1. WatchInit => CommandInv
  BY DEF WatchInit, CommandInv, CommandOK, Holding
<1>2. CommandInv /\ [WatchNext]_watchvars => CommandInv'
  <2> SUFFICES ASSUME CommandInv, [WatchNext]_watchvars
               PROVE  CommandInv'
    OBVIOUS
  <2> USE DEF CommandInv, CommandOK, Holding
  <2>1. CASE Started \/ NoRequest \/ Check \/ Report \/ Leave
    BY <2>1 DEF Started, NoRequest, Check, Report, Leave, LGoto, vmcmd
  <2>2. CASE NoCommand \/ Load
    BY <2>2 DEF NoCommand, Load, LGoto, vmcmd
  <2>3. CASE Remove
    BY <2>3 DEF Remove, LGoto
  <2>4. CASE CommandEnds \/ CommandFails \/ Dump
    BY <2>4 DEF CommandEnds, CommandFails, Dump, LGoto
  <2>5. CASE \E c \in Client : Begin(c) \/ ClientStep(c) \/ Killed(c)
    BY <2>5 DEF Begin, ClientStep, Ask, Poll, Read, Exit, Killed, vmcmd
  <2>6. CASE VmBegin
    BY <2>6 DEF VmBegin
  <2>7. CASE VmStep
    BY <2>7 DEF VmStep, VmSubmit, VmPoll, VmRead, VmExit
  <2>8. CASE VmKilled
    BY <2>8 DEF VmKilled
  <2>9. CASE UNCHANGED watchvars
    BY <2>9 DEF watchvars, vmcmd
  <2>10. QED
    BY <2>1, <2>2, <2>3, <2>4, <2>5, <2>6, <2>7, <2>8, <2>9 DEF WatchNext, LoopStep
<1>3. QED
  BY <1>1, <1>2, PTL DEF WatchSpec

\* However many commands are run, and whatever the launcher removes unread: as long
\* as no vm_cmd has been interrupted, the result that one finds is of its own command.
THEOREM ResultIsOwn == WatchSpec => []OwnResult
<1>1. CommandInv => OwnResult
  BY DEF CommandInv, CommandOK, OwnResult
<1>2. QED
  BY <1>1, CommandIsOK, PTL

-----------------------------------------------------------------------------
(* Nobody waits in vain *)

\* Nobody asks, or runs a command, whose files are all gone while it waits, unless the
\* launcher has left its loop.
RequestIsKept ==
    \A c \in Client :
        cpc[c] = "wait" /\ ~met[c] =>
            request \/ lpc \in {"checking", "left"} \/ report # 0

CommandIsKept ==
    vpc = "wait" /\ ~failed => do_cmd # 0 \/ Holding \/ result # 0

KeptInv ==
    /\ WatchHealthTypeOK /\ RequestIsKept
    /\ lpc = "checking" => round > 0

TakenInv ==
    /\ mine \in Nat /\ (vpc # "idle" => mine > 0)
    /\ lpc \in {"loaded", "running", "dump"} => cur # 0
    /\ CommandIsKept

LEMMA KeptIsOK == WatchSpec => []KeptInv
<1>1. WatchInit => KeptInv
  BY DEF WatchInit, KeptInv, WatchHealthTypeOK, RequestIsKept
<1>2. KeptInv /\ HealthInv' /\ [WatchNext]_watchvars => KeptInv'
  <2> SUFFICES ASSUME KeptInv, HealthInv', [WatchNext]_watchvars
               PROVE  KeptInv'
    OBVIOUS
  <2> USE DEF KeptInv, RequestIsKept, HealthInv
  <2>1. CASE Check \/ Report
    BY <2>1 DEF Check, Report, LGoto, WatchHealthTypeOK
  <2>2. CASE Started \/ NoRequest \/ NoCommand \/ Load \/ Remove \/ CommandEnds
             \/ CommandFails \/ Dump \/ Leave
    BY <2>2 DEF Started, NoRequest, NoCommand, Load, Remove, CommandEnds, CommandFails, Dump,
       Leave, LGoto, health
  <2>3. ASSUME NEW c \in Client, Begin(c)
        PROVE  KeptInv'
    <3>1. cpc' = [cpc EXCEPT ![c] = "ask"] /\ UNCHANGED <<lpc, round>>
      BY <2>3 DEF Begin, CGoto
    <3>2. ASSUME NEW d \in Client \ {c}, cpc[d] # "idle"
          PROVE  met'[d]
      <4>1. met' = [e \in Client |-> IF e = c THEN Others(c) # {} ELSE met[e] \/ e \in Others(c)]
        BY <2>3 DEF Begin, Meets
      <4>2. met'[d] = (met[d] \/ d \in Others(c)) /\ d \in Others(c)
        BY <3>2, <4>1, Zenon DEF Others
      <4>3. QED
        BY <4>2, Zenon
    <3>3. \A d \in Client : cpc'[d] = "wait" => d \in Client \ {c} /\ cpc[d] # "idle"
      BY <3>1 DEF WatchHealthTypeOK
    <3>4. QED
      BY <3>1, <3>2, <3>3
  <2>4. ASSUME NEW c \in Client, Ask(c)
        PROVE  KeptInv'
    BY <2>4 DEF Ask
  <2>5. ASSUME NEW c \in Client, Poll(c) \/ Read(c) \/ Exit(c) \/ Killed(c)
        PROVE  KeptInv'
    <3>1. /\ \E l \in {"read", "told", "failed", "idle"} : cpc' = [cpc EXCEPT ![c] = l]
          /\ UNCHANGED <<lpc, round, request, report, met>>
      BY <2>5 DEF Poll, Read, Exit, Killed, CGoto
    <3>2. QED
      BY <3>1 DEF WatchHealthTypeOK
  <2>6. CASE VmBegin \/ VmStep \/ VmKilled
    BY <2>6 DEF VmBegin, VmStep, VmSubmit, VmPoll, VmRead, VmExit, VmKilled, health
  <2>7. CASE UNCHANGED watchvars
    BY <2>7 DEF watchvars, health
  <2>8. QED
    BY <2>1, <2>2, <2>3, <2>4, <2>5, <2>6, <2>7 DEF WatchNext, LoopStep, ClientStep
<1>3. QED
  BY <1>1, <1>2, HealthIsOK, PTL DEF WatchSpec

\* However many clients and checks there are: as long as no other client has run
\* beside it, one that waits has its request, the check or the report still there, or
\* the launcher has left its loop.
\* The launcher, that removes the request before the checks, and older clients that
\* were killed and left files behind never lose it.
THEOREM NoRequestIsLost == WatchSpec => []RequestIsKept
<1>1. KeptInv => RequestIsKept
  BY DEF KeptInv
<1>2. QED
  BY <1>1, KeptIsOK, PTL

LEMMA TakenIsOK == WatchSpec => []TakenInv
<1>1. WatchInit => TakenInv
  BY DEF WatchInit, TakenInv, CommandIsKept
<1>2. TakenInv /\ [WatchNext]_watchvars => TakenInv'
  <2> SUFFICES ASSUME TakenInv, [WatchNext]_watchvars
               PROVE  TakenInv'
    OBVIOUS
  <2> USE DEF TakenInv, CommandIsKept, Holding
  <2>1. CASE Started \/ NoRequest \/ Check \/ Report \/ Leave
    BY <2>1 DEF Started, NoRequest, Check, Report, Leave, LGoto, vmcmd
  <2>2. CASE NoCommand \/ Load
    BY <2>2 DEF NoCommand, Load, LGoto, vmcmd
  <2>3. CASE Remove
    BY <2>3 DEF Remove, LGoto
  <2>4. CASE CommandEnds \/ CommandFails \/ Dump
    BY <2>4 DEF CommandEnds, CommandFails, Dump, LGoto
  <2>5. CASE \E c \in Client : Begin(c) \/ ClientStep(c) \/ Killed(c)
    BY <2>5 DEF Begin, ClientStep, Ask, Poll, Read, Exit, Killed, vmcmd
  <2>6. CASE VmBegin
    BY <2>6 DEF VmBegin
  <2>7. CASE VmStep
    BY <2>7 DEF VmStep, VmSubmit, VmPoll, VmRead, VmExit
  <2>8. CASE VmKilled
    BY <2>8 DEF VmKilled
  <2>9. CASE UNCHANGED watchvars
    BY <2>9 DEF watchvars, vmcmd
  <2>10. QED
    BY <2>1, <2>2, <2>3, <2>4, <2>5, <2>6, <2>7, <2>8, <2>9 DEF WatchNext, LoopStep
<1>3. QED
  BY <1>1, <1>2, PTL DEF WatchSpec

\* However many commands are run and interrupted: as long as every command could be
\* started, a vm_cmd that waits has its command, the run of one or a result still
\* there, also when the launcher removes its command unread with an older one's.
THEOREM NoCommandIsLost == WatchSpec => []CommandIsKept
<1>1. TakenInv => CommandIsKept
  BY DEF TakenInv
<1>2. QED
  BY <1>1, TakenIsOK, PTL

-----------------------------------------------------------------------------
(* The bounds *)

Asking == {c \in Client : cpc[c] = "ask"}

\* The checks that were begun, and those that are still asked for.
RoundsOK == Cardinality(Asking) + (IF request THEN 1 ELSE 0) + round <= MaxRound

\* The type invariant, in two parts: what is true or false, and all else.
FlagsOK == {request, alone, whole, failed, killed} \subseteq BOOLEAN /\ met \in [Client -> BOOLEAN]

PlacesOK ==
    /\ lpc \in {"starting", "health", "checking", "command", "loaded", "running", "dump",
                "left"}
    /\ {report, round} \subseteq 0..MaxRound
    /\ cpc \in [Client -> {"idle", "ask", "wait", "read", "told", "failed"}]
    /\ {asked, got} \subseteq [Client -> 0..MaxRound]
    /\ {do_cmd, result, cur, mine} \subseteq 0..MaxCmd
    /\ vpc \in {"idle", "submit", "wait", "read", "told", "torn"}

LEMMA TypeParts == WatchTypeOK <=> FlagsOK /\ PlacesOK
BY DEF WatchTypeOK, FlagsOK, PlacesOK

BoundsInv == FlagsOK /\ PlacesOK /\ RoundsOK

LEMMA AskingIs ==
    IsFiniteSet(Asking) /\ Cardinality(Asking) \in Nat
<1>1. Asking \subseteq Client
  BY DEF Asking
<1>2. QED
  BY <1>1, WatchAssumption, FS_Subset, FS_CardinalityType

LEMMA LoopKeepsBounds ==
    ASSUME BoundsInv,
           \/ Started \/ LoopStep \/ CommandEnds \/ CommandFails \/ Leave
           \/ VmBegin \/ VmStep \/ VmKilled
    PROVE  BoundsInv'
<1> USE WatchAssumption DEF BoundsInv
<1>1. /\ cpc' = cpc /\ UNCHANGED <<asked, got, met, alone>>
      /\ \/ UNCHANGED <<round, request>>
         \/ request /\ ~request' /\ round' = round + 1
  BY DEF Started, LoopStep, NoRequest, Check, Report, NoCommand, Load, Remove, CommandEnds,
     CommandFails, Leave, Dump, VmBegin, VmStep, VmSubmit, VmPoll, VmRead, VmExit,
     VmKilled, health, vmcmd
<1>2. Asking' = Asking
  BY <1>1 DEF Asking
<1>3. round' \in 0..MaxRound
  <2>1. round' <= MaxRound /\ round' \in Nat
    BY <1>1, AskingIs DEF RoundsOK, PlacesOK
  <2>2. QED
    BY <2>1
<1>4. RoundsOK'
  BY <1>1, <1>2, AskingIs DEF RoundsOK, PlacesOK
<1>5. PlacesOK'
  <2> USE DEF PlacesOK, LGoto
  <2>1. CASE Started \/ NoRequest \/ Report \/ Leave
    BY <1>1, <2>1 DEF Started, NoRequest, Report, Leave, health, vmcmd
  <2>2. CASE Check
    BY <1>3, <2>2 DEF Check, vmcmd
  <2>3. CASE NoCommand \/ Load \/ Remove
    BY <2>3 DEF NoCommand, Load, Remove, health, vmcmd
  <2>4. CASE CommandEnds \/ CommandFails \/ Dump
    BY <2>4 DEF CommandEnds, CommandFails, Dump, health
  <2>5. CASE VmBegin
    BY <2>5 DEF VmBegin, health
  <2>6. CASE VmStep \/ VmKilled
    BY <2>6 DEF VmStep, VmSubmit, VmPoll, VmRead, VmExit, VmKilled, health
  <2>7. QED
    BY <2>1, <2>2, <2>3, <2>4, <2>5, <2>6 DEF LoopStep
<1>6. FlagsOK'
  <2>1. /\ request' \in {request, FALSE} /\ alone' = alone /\ met' = met
        /\ whole' \in {whole, FALSE, result = cur}
        /\ failed' \in {failed, TRUE} /\ killed' \in {killed, TRUE}
    BY Zenon DEF Started, LoopStep, NoRequest, Check, Report, NoCommand, Load, Remove,
       CommandEnds, CommandFails, Leave, Dump, VmBegin, VmStep, VmSubmit, VmPoll, VmRead,
       VmExit, VmKilled, health, vmcmd
  <2>2. QED
    BY <2>1, Zenon DEF FlagsOK
<1>7. QED
  BY <1>4, <1>5, <1>6

LEMMA ClientKeepsBounds ==
    ASSUME BoundsInv, NEW c \in Client, Begin(c) \/ ClientStep(c) \/ Killed(c)
    PROVE  BoundsInv'
<1> USE WatchAssumption DEF BoundsInv
<1>1. UNCHANGED <<lpc, round, cur, do_cmd, result, whole, vpc, mine, failed, killed>>
  BY DEF Begin, ClientStep, Ask, Poll, Read, Exit, Killed, vmcmd
<1>2. PlacesOK'
  <2> USE DEF PlacesOK, CGoto
  <2>1. CASE Begin(c)
    BY <1>1, <2>1 DEF Begin
  <2>2. CASE Ask(c)
    BY <1>1, <2>2 DEF Ask
  <2>3. CASE Poll(c) \/ Read(c) \/ Exit(c)
    BY <1>1, <2>3 DEF Poll, Read, Exit
  <2>4. CASE Killed(c)
    BY <1>1, <2>4 DEF Killed
  <2>5. QED
    BY <2>1, <2>2, <2>3, <2>4 DEF ClientStep
<1>3. FlagsOK'
  <2>1. UNCHANGED <<whole, failed, killed>> /\ request' \in {request, TRUE}
    BY Zenon DEF Begin, ClientStep, Ask, Poll, Read, Exit, Killed, vmcmd
  <2>2. alone' \in BOOLEAN /\ met' \in [Client -> BOOLEAN]
    <3>1. CASE Begin(c)
      BY <3>1 DEF Begin, Meets, FlagsOK
    <3>2. CASE ~Begin(c)
      BY <3>2 DEF ClientStep, Ask, Poll, Read, Exit, Killed, FlagsOK
    <3>3. QED
      BY <3>1, <3>2
  <2>3. QED
    BY <2>1, <2>2, Zenon DEF FlagsOK
<1>4. RoundsOK'
  <2>1. CASE Begin(c)
    <3>1. Asking' = Asking \cup {c}
      BY <2>1 DEF Begin, CGoto, Asking, PlacesOK
    <3>2. Cardinality(Asking') \in {Cardinality(Asking), Cardinality(Asking) + 1}
      BY <3>1, AskingIs, FS_AddElement
    <3>3. Cardinality(Asking) + (IF request THEN 1 ELSE 0) + round < MaxRound /\ request' = request
      BY <2>1 DEF Begin, MayBegin, Asking
    <3>4. QED
      BY <1>1, <3>2, <3>3, AskingIs DEF RoundsOK, PlacesOK
  <2>2. CASE Ask(c)
    <3>1. Asking' = Asking \ {c} /\ c \in Asking /\ request'
      BY <2>2 DEF Ask, CGoto, Asking, PlacesOK
    <3>2. Cardinality(Asking') = Cardinality(Asking) - 1
      BY <3>1, AskingIs, FS_RemoveElement
    <3>3. QED
      BY <1>1, <3>1, <3>2, AskingIs DEF RoundsOK, PlacesOK
  <2>3. CASE Poll(c) \/ Read(c) \/ Exit(c) \/ Killed(c)
    <3>1. Asking' \subseteq Asking /\ request' = request
      BY <2>3 DEF Poll, Read, Exit, Killed, CGoto, Asking, PlacesOK
    <3>2. Cardinality(Asking') <= Cardinality(Asking) /\ Cardinality(Asking') \in Nat
      BY <3>1, AskingIs, FS_Subset, FS_CardinalityType
    <3>3. QED
      BY <1>1, <3>1, <3>2, AskingIs DEF RoundsOK, PlacesOK
  <2>4. QED
    BY <2>1, <2>2, <2>3 DEF ClientStep
<1>5. QED
  BY <1>2, <1>3, <1>4

\* However many clients and commands there are, all is well typed, and the launcher
\* begins no check that nobody has asked for.
THEOREM WatchTypeCorrect == WatchSpec => [](WatchTypeOK /\ RoundsOK)
<1>1. WatchInit => BoundsInv
  <2> SUFFICES ASSUME WatchInit
               PROVE  BoundsInv
    OBVIOUS
  <2>1. Asking = {}
    BY DEF WatchInit, Asking
  <2>2. RoundsOK
    BY <2>1, FS_EmptySet, WatchAssumption DEF RoundsOK, WatchInit
  <2>3. PlacesOK
    BY WatchAssumption DEF WatchInit, PlacesOK
  <2>4. FlagsOK
    BY Zenon DEF WatchInit, FlagsOK
  <2>5. QED
    BY <2>2, <2>3, <2>4 DEF BoundsInv
<1>2. BoundsInv /\ [WatchNext]_watchvars => BoundsInv'
  <2> SUFFICES ASSUME BoundsInv, [WatchNext]_watchvars
               PROVE  BoundsInv'
    OBVIOUS
  <2>1. CASE UNCHANGED watchvars
    <3>1. UNCHANGED <<lpc, round, cur>> /\ UNCHANGED health /\ UNCHANGED vmcmd
      BY <2>1 DEF watchvars
    <3>2. RoundsOK' /\ PlacesOK'
      BY <3>1 DEF health, vmcmd, BoundsInv, RoundsOK, PlacesOK, Asking
    <3>3. FlagsOK'
      BY <3>1 DEF health, vmcmd, BoundsInv, FlagsOK
    <3>4. QED
      BY <3>2, <3>3 DEF BoundsInv
  <2>2. QED
    BY <2>1, LoopKeepsBounds, ClientKeepsBounds DEF WatchNext
<1>3. QED
  BY <1>1, <1>2, TypeParts, PTL DEF WatchSpec, BoundsInv

=============================================================================
