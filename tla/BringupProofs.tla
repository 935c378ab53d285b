---------------------------- MODULE BringupProofs ----------------------------
(***************************************************************************)
(* What the driver of the use-case may rely on at each of its steps, for     *)
(* any of its options, any hosts whose TPM could not be created, any         *)
(* services that crash, and any order in which containers come up and        *)
(* services start: a wait for the launch of a workload whose own services    *)
(* are there means that it is attested, and if nothing crashes no step that  *)
(* the driver does not poll for fails.                                      *)
(***************************************************************************)
EXTENDS Bringup, SequenceTheorems, TLAPS

(* Sequences of steps *)

Has(s, x) == \E i \in 1..Len(s) : s[i] = x

\* The steps that have brought up and enrolled what the hosts attest with.
FleetUps == {"attestsvc", "kdc_primary", "kdc_primary_tpm", "kdc_secondary", "shell_tpm"}
FleetSteps ==
    {Step("up", c) : c \in FleetUps}
        \cup {Step("waitweb", "kdc_secondary"), Step("enroll", "all")}

\* The steps that have to come before step x.
Needs(x) ==
    (IF x.do = "wait" THEN FleetSteps ELSE {}) \cup
    {y \in {Step("waitweb", "enrollsvc"), Step("up", x.c), Step("wait", x.c),
            Step("wait", "alicia"), Step("wait", "nfs"), Step("enroll", "hostside"),
            Step("up", "enrollsvc_tpm")} :
        \/ x.do = "waitek" /\ y = Step("up", "enrollsvc_tpm")
        \/ x.do = "wait" /\ x.c = "hostside" /\ y = Step("enroll", "hostside")
        \/ x.do = "enroll" /\ x.c # "enrollsvc" /\ y = Step("waitweb", "enrollsvc")
        \/ x.do = "wait" /\ y = Step("up", x.c)
        \/ x.do = "ssh" /\ y \in {Step("wait", "alicia"), Step("wait", x.c)}
        \/ x.do = "home" /\ y = Step("wait", x.c)
        \/ x.do = "up" /\ x.c \in {"barton", "catarina"} /\ y = Step("wait", "nfs")}

\* In s, if s1 comes before it, each step comes after the ones that it needs.
InOrder(s1, s) ==
    \A i \in 1..Len(s) : \A y \in Needs(s[i]) :
        Has(s1, y) \/ \E j \in 1..i - 1 : s[j] = y

\* Creating TPMs is for the first step, and only some steps are on some hosts.
Attested == {"shell", "alicia", "nfs", "barton", "catarina", "hostside"}
Doable ==
    {x \in [do : {"up", "waitek", "enroll", "waitweb", "wait", "ssh", "auth", "home"},
            c : Container \cup {"all"}] :
        /\ x.do = "waitek" => x.c = "enrollsvc"
        /\ x.do = "enroll" => x.c \in Managed \cup {"all", "hostside"}
        /\ x.do = "wait" => x.c \in Attested
        /\ x.do = "ssh" => x.c \in {"shell", "alicia"}
        /\ x.do = "home" => x.c \in {"barton", "catarina"}
        /\ x.do \in {"up", "waitweb"} => x.c \in Container}

WellFormed(s) ==
    /\ s \in Seq(Doable \cup {Step("create", "all")}) /\ Len(s) > 0
    /\ s[1] = Step("create", "all")
    /\ \A i \in 2..Len(s) : s[i] \in Doable
    /\ InOrder(<<>>, s)

LEMMA EachIs ==
    ASSUME NEW do, NEW S, NEW cs \in Seq(S)
    PROVE  /\ Len(Each(do, cs)) = Len(cs) /\ \A i \in 1..Len(cs) : Each(do, cs)[i] = Step(do, cs[i])
           /\ Each(do, cs) \in Seq({Step(do, c) : c \in S})
<1>1. DOMAIN cs = 1..Len(cs) /\ Len(cs) \in Nat
  OBVIOUS
<1>2. \A i \in 1..Len(cs) : Each(do, cs)[i] = Step(do, cs[i])
  BY <1>1 DEF Each
<1>3. Each(do, cs) \in [1..Len(cs) -> {Step(do, c) : c \in S}]
  BY <1>1 DEF Each
<1>4. Each(do, cs) \in Seq({Step(do, c) : c \in S}) /\ Len(Each(do, cs)) = Len(cs)
  BY <1>1, <1>3
<1>5. QED
  BY <1>2, <1>4

\* A script goes on with steps that find before them what they need.
LEMMA AppendSteps ==
    ASSUME NEW s, WellFormed(s), NEW t \in Seq(Doable), InOrder(s, t)
    PROVE  /\ WellFormed(s \o t)
           /\ \A x : Has(s \o t, x) <=> Has(s, x) \/ Has(t, x)
<1> DEFINE u == s \o t
<1>1. /\ u \in Seq(Doable \cup {Step("create", "all")})
      /\ Len(s) \in Nat /\ Len(t) \in Nat /\ Len(u) = Len(s) + Len(t)
      /\ \A i \in 1..Len(s) : u[i] = s[i]
      /\ \A i \in 1..Len(t) : u[Len(s) + i] = t[i]
  BY DEF WellFormed
<1>2. \A i \in 1..Len(u) : i \in 1..Len(s) \/ (i - Len(s) \in 1..Len(t) /\ u[i] = t[i - Len(s)])
  BY <1>1
<1>3. \A i \in 1..Len(t) : t[i] \in Doable
  OBVIOUS
<1> HIDE DEF u
<1>4. ASSUME NEW i \in 2..Len(u)
      PROVE  u[i] \in Doable
  <2>1. i \in 1..Len(u) /\ (i \in 1..Len(s) => i \in 2..Len(s))
    BY <1>1
  <2>2. CASE i \in 1..Len(s)
    BY <1>1, <2>1, <2>2 DEF WellFormed
  <2>3. CASE i - Len(s) \in 1..Len(t) /\ u[i] = t[i - Len(s)]
    BY <1>3, <2>3
  <2>4. QED
    BY <1>2, <2>1, <2>2, <2>3
<1>5. ASSUME NEW x
      PROVE  Has(u, x) <=> Has(s, x) \/ Has(t, x)
  <2>1. ASSUME NEW i \in 1..Len(s), s[i] = x
        PROVE  Has(u, x)
    <3>1. i \in 1..Len(u) /\ u[i] = x
      BY <1>1, <2>1
    <3>2. QED
      BY <3>1 DEF Has
  <2>2. ASSUME NEW i \in 1..Len(t), t[i] = x
        PROVE  Has(u, x)
    <3>1. Len(s) + i \in 1..Len(u) /\ u[Len(s) + i] = x
      BY <1>1, <2>2
    <3>2. QED
      BY <3>1 DEF Has
  <2>3. ASSUME NEW i \in 1..Len(u), u[i] = x
        PROVE  Has(s, x) \/ Has(t, x)
    <3>1. CASE i \in 1..Len(s)
      BY <1>1, <2>3, <3>1 DEF Has
    <3>2. CASE i - Len(s) \in 1..Len(t) /\ u[i] = t[i - Len(s)]
      BY <2>3, <3>2 DEF Has
    <3>3. QED
      BY <1>2, <3>1, <3>2
  <2>4. QED
    BY <2>1, <2>2, <2>3 DEF Has
<1>6. InOrder(<<>>, u)
  <2> SUFFICES ASSUME NEW i \in 1..Len(u), NEW y \in Needs(u[i])
               PROVE  \E j \in 1..i - 1 : u[j] = y
    BY DEF InOrder
  <2>1. CASE i \in 1..Len(s)
    <3>1. y \in Needs(s[i])
      BY <1>1, <2>1
    <3>2. Has(<<>>, y) \/ \E j \in 1..i - 1 : s[j] = y
      BY <2>1, <3>1 DEF WellFormed, InOrder
    <3>3. ~Has(<<>>, y)
      BY DEF Has
    <3>4. \A j \in 1..i - 1 : u[j] = s[j]
      BY <1>1, <2>1
    <3>5. QED
      BY <3>2, <3>3, <3>4
  <2>2. CASE i - Len(s) \in 1..Len(t) /\ u[i] = t[i - Len(s)]
    <3>1. Has(s, y) \/ \E j \in 1..(i - Len(s)) - 1 : t[j] = y
      BY <2>2 DEF InOrder
    <3>2. CASE Has(s, y)
      BY <1>1, <2>2, <3>2 DEF Has
    <3>3. ASSUME NEW j \in 1..(i - Len(s)) - 1, t[j] = y
          PROVE  \E k \in 1..i - 1 : u[k] = y
      <4>1. j \in 1..Len(t) /\ Len(s) \in Nat /\ i \in Nat
        BY <1>1, <2>2
      <4>2. Len(s) + j \in 1..i - 1
        BY <4>1
      <4>3. u[Len(s) + j] = y
        BY <1>1, <3>3, <4>1
      <4>4. QED
        BY <4>2, <4>3
    <3>4. QED
      BY <3>1, <3>2, <3>3
  <2>3. QED
    BY <1>2, <2>1, <2>2
<1>7. WellFormed(u)
  <2>1. 1 \in 1..Len(s)
    BY <1>1 DEF WellFormed
  <2>2. Len(u) > 0 /\ u[1] = s[1]
    BY <1>1, <2>1
  <2>3. QED
    BY <1>1, <1>4, <1>6, <2>2 DEF WellFormed
<1>8. QED
  BY <1>5, <1>7 DEF u

LEMMA CoreIs ==
    /\ WellFormed(CoreSteps)
    /\ Has(CoreSteps, Step("waitweb", "enrollsvc")) /\ Has(CoreSteps, Step("up", "attestsvc"))
<1>1. CoreSteps \in Seq(Doable \cup {Step("create", "all")}) /\ Len(CoreSteps) = 7
  BY DEF CoreSteps, Doable, Step, Container, Managed, Sidecar, Cotenant, TpmOf
<1>2. \A i \in 2..7 : CoreSteps[i] \in Doable
  BY DEF CoreSteps, Doable, Step, Container, Managed, Sidecar, Cotenant, TpmOf
<1>3. /\ \A i \in 1..7 : i # 4 => Needs(CoreSteps[i]) = {}
      /\ Needs(CoreSteps[4]) = {Step("up", "enrollsvc_tpm")}
  BY DEF CoreSteps, Needs, Step
<1>4. /\ CoreSteps[1] = Step("create", "all") /\ CoreSteps[2] = Step("up", "attestsvc")
      /\ CoreSteps[3] = Step("up", "enrollsvc_tpm")
      /\ CoreSteps[7] = Step("waitweb", "enrollsvc")
  BY DEF CoreSteps
<1>5. InOrder(<<>>, CoreSteps)
  BY <1>1, <1>3, <1>4 DEF InOrder
<1>6. Has(CoreSteps, CoreSteps[2]) /\ Has(CoreSteps, CoreSteps[7])
  BY <1>1 DEF Has
<1>7. QED
  BY <1>1, <1>2, <1>4, <1>5, <1>6 DEF WellFormed

\* The steps that nothing else than s has to come before.
Ready(s) == {x \in Doable : \A y \in Needs(x) : Has(s, y)}

LEMMA AppendReady ==
    ASSUME NEW s, WellFormed(s), NEW t \in Seq(Ready(s))
    PROVE  /\ WellFormed(s \o t)
           /\ \A x : Has(s \o t, x) <=> Has(s, x) \/ Has(t, x)
<1>1. t \in Seq(Doable)
  BY DEF Ready
<1>2. \A i \in 1..Len(t) : t[i] \in Ready(s)
  OBVIOUS
<1>3. InOrder(s, t)
  BY <1>2 DEF InOrder, Ready
<1>4. QED
  BY <1>1, <1>3, AppendSteps

LEMMA EachReady ==
    ASSUME NEW s, NEW do, NEW S, NEW cs \in Seq(S), \A c \in S : Step(do, c) \in Ready(s)
    PROVE  /\ Each(do, cs) \in Seq(Ready(s))
           /\ \A c : Has(cs, c) => Has(Each(do, cs), Step(do, c))
<1>1. Each(do, cs) \in Seq({Step(do, c) : c \in S})
  BY EachIs
<1>2. {Step(do, c) : c \in S} \subseteq Ready(s)
  OBVIOUS
<1>3. Len(Each(do, cs)) = Len(cs) /\ \A i \in 1..Len(cs) : Each(do, cs)[i] = Step(do, cs[i])
  BY EachIs
<1>4. QED
  BY <1>1, <1>2, <1>3 DEF Has

LEMMA HasInConcat ==
    ASSUME NEW S, NEW s \in Seq(S), NEW t \in Seq(S)
    PROVE  s \o t \in Seq(S) /\ \A x : Has(s, x) \/ Has(t, x) => Has(s \o t, x)
<1>1. /\ s \o t \in Seq(S) /\ Len(s \o t) = Len(s) + Len(t)
      /\ Len(s) \in Nat /\ Len(t) \in Nat
      /\ \A i \in 1..Len(s) : (s \o t)[i] = s[i]
      /\ \A i \in 1..Len(t) : (s \o t)[Len(s) + i] = t[i]
  OBVIOUS
<1>2. \A i \in 1..Len(s) : i \in 1..Len(s \o t)
  BY <1>1
<1>3. \A i \in 1..Len(t) : Len(s) + i \in 1..Len(s \o t)
  BY <1>1
<1>4. QED
  BY <1>1, <1>2, <1>3 DEF Has

LEMMA KdcReady ==
    ASSUME NEW s, Has(s, Step("waitweb", "enrollsvc"))
    PROVE  /\ KdcSteps \in Seq(Ready(s))
           /\ \A c \in FleetUps \ {"attestsvc", "shell_tpm"} : Has(KdcSteps, Step("up", c))
           /\ Has(KdcSteps, Step("waitweb", "kdc_secondary")) /\ Has(KdcSteps, Step("enroll", "all"))
<1> USE DEF Container, Managed, Sidecar, Cotenant, TpmOf
<1>1. \A c \in {"kdc_primary", "kdc_secondary", "all"} : Step("enroll", c) \in Ready(s)
  BY DEF Ready, Doable, Needs, Step
<1>2. \A c \in {KdcUps[i] : i \in 1..4} : Step("up", c) \in Ready(s)
  BY DEF Ready, Doable, Needs, Step, KdcUps
<1>3. Step("waitweb", "kdc_secondary") \in Ready(s)
  BY DEF Ready, Doable, Needs, Step
<1>4. Each("enroll", <<"kdc_primary", "kdc_secondary">>) \in Seq(Ready(s))
  <2>1. <<"kdc_primary", "kdc_secondary">> \in Seq({"kdc_primary", "kdc_secondary", "all"})
    OBVIOUS
  <2>2. QED
    BY <1>1, <2>1, EachReady
<1>5. /\ Each("up", KdcUps) \in Seq(Ready(s))
      /\ \A c \in FleetUps \ {"attestsvc", "shell_tpm"} : Has(Each("up", KdcUps), Step("up", c))
  <2>1. KdcUps \in Seq({KdcUps[i] : i \in 1..4})
    BY DEF KdcUps
  <2>2. Len(KdcUps) = 4 /\ KdcUps[1] = "kdc_primary" /\ KdcUps[2] = "kdc_secondary"
        /\ KdcUps[3] = "kdc_primary_tpm"
    BY DEF KdcUps
  <2>3. \A c \in FleetUps \ {"attestsvc", "shell_tpm"} : Has(KdcUps, c)
    BY <2>2 DEF FleetUps, Has
  <2>4. QED
    BY <1>2, <2>1, <2>3, EachReady
<1> DEFINE t == <<Step("waitweb", "kdc_secondary"), Step("enroll", "all")>>
<1>6. /\ t \in Seq(Ready(s))
      /\ Has(t, Step("waitweb", "kdc_secondary")) /\ Has(t, Step("enroll", "all"))
  <2>1. Len(t) = 2 /\ t[1] = Step("waitweb", "kdc_secondary") /\ t[2] = Step("enroll", "all")
    OBVIOUS
  <2>2. 1 \in 1..Len(t) /\ 2 \in 1..Len(t)
    BY <2>1
  <2>3. QED
    BY <1>1, <1>3, <2>1, <2>2 DEF Has
<1> DEFINE e == Each("enroll", <<"kdc_primary", "kdc_secondary">>)
           u == Each("up", KdcUps)
<1>7. KdcSteps = (e \o u) \o t
  BY DEF KdcSteps
<1> HIDE DEF e, u, t
<1>8. /\ e \o u \in Seq(Ready(s)) /\ KdcSteps \in Seq(Ready(s))
      /\ \A x : Has(u, x) => Has(e \o u, x)
      /\ \A x : Has(e \o u, x) \/ Has(t, x) => Has(KdcSteps, x)
  BY <1>4, <1>5, <1>6, <1>7, HasInConcat DEF e, u
<1>9. QED
  BY <1>5, <1>6, <1>8 DEF u

LEMMA WorkloadReady ==
    ASSUME NEW s
    PROVE  /\ Each("up", WorkloadUps) \in Seq(Ready(s))
           /\ \A c \in {"alicia", "shell", "shell_tpm"} : Has(Each("up", WorkloadUps), Step("up", c))
           /\ ~NoNfs => Has(Each("up", WorkloadUps), Step("up", "nfs"))
<1> DEFINE S == {"shell", "shell_tpm", "alicia", "auth_certificate", "auth_kerberos", "nfs"}
           five == <<"shell", "shell_tpm", "alicia", "auth_certificate", "auth_kerberos">>
           last == IF NoNfs THEN <<>> ELSE <<"nfs">>
<1>1. \A c \in S : Step("up", c) \in Ready(s)
  BY DEF Ready, Doable, Needs, Step, Container, Managed, Sidecar, Cotenant, TpmOf
<1>2. five \in Seq(S) /\ Len(five) = 5 /\ five[1] = "shell" /\ five[2] = "shell_tpm"
      /\ five[3] = "alicia"
  OBVIOUS
<1>3. last \in Seq(S) /\ Len(last) \in Nat /\ (~NoNfs => Len(last) = 1 /\ last[1] = "nfs")
  <2>1. CASE NoNfs
    BY <2>1
  <2>2. CASE ~NoNfs
    <3>1. <<"nfs">> \in Seq(S) /\ Len(<<"nfs">>) = 1 /\ <<"nfs">>[1] = "nfs"
      OBVIOUS
    <3>2. QED
      BY <2>2, <3>1
  <2>3. QED
    BY <2>1, <2>2
<1>4. WorkloadUps = five \o last
  BY DEF WorkloadUps
<1> HIDE DEF S, five, last
<1>5. /\ WorkloadUps \in Seq(S) /\ Len(WorkloadUps) = 5 + Len(last) /\ Len(last) \in Nat
      /\ WorkloadUps[1] = "shell" /\ WorkloadUps[2] = "shell_tpm" /\ WorkloadUps[3] = "alicia"
      /\ ~NoNfs => Len(last) = 1 /\ WorkloadUps[6] = "nfs"
  <2>1. /\ WorkloadUps \in Seq(S) /\ Len(WorkloadUps) = Len(five) + Len(last)
        /\ \A i \in 1..Len(five) + Len(last) :
              WorkloadUps[i] = IF i <= Len(five) THEN five[i] ELSE last[i - Len(five)]
    BY <1>2, <1>3, <1>4, ConcatProperties
  <2>2. {1, 2, 3} \subseteq 1..5 + Len(last) /\ (~NoNfs => 6 \in 1..5 + Len(last) /\ 6 - 5 = 1)
    BY <1>3
  <2>3. WorkloadUps[1] = "shell" /\ WorkloadUps[2] = "shell_tpm" /\ WorkloadUps[3] = "alicia"
    BY <1>2, <2>1, <2>2
  <2>4. ~NoNfs => Len(last) = 1 /\ WorkloadUps[6] = "nfs"
    BY <1>2, <1>3, <2>1, <2>2
  <2>5. QED
    BY <1>2, <1>3, <2>1, <2>3, <2>4
<1>6. /\ Has(WorkloadUps, "shell") /\ Has(WorkloadUps, "shell_tpm") /\ Has(WorkloadUps, "alicia")
      /\ ~NoNfs => Has(WorkloadUps, "nfs")
  <2>1. /\ Len(WorkloadUps) \in Nat /\ Len(WorkloadUps) >= 5
        /\ ~NoNfs => Len(WorkloadUps) = 6
    <3>1. PICK n \in Nat : n = Len(last)
      BY <1>3
    <3>2. 5 + n \in Nat /\ 5 + n >= 5 /\ (n = 1 => 5 + n = 6)
      OBVIOUS
    <3>3. Len(WorkloadUps) = 5 + n /\ (~NoNfs => n = 1)
      BY <1>5, <3>1
    <3>4. QED
      BY <3>2, <3>3
  <2>2. \A n \in Nat : /\ n >= 5 => 1 \in 1..n /\ 2 \in 1..n /\ 3 \in 1..n
                       /\ n = 6 => 6 \in 1..n
    OBVIOUS
  <2>3. QED
    BY <1>5, <2>1, <2>2 DEF Has
<1>7. QED
  BY <1>1, <1>5, <1>6, EachReady

LEMMA WaitsReady ==
    ASSUME NEW s, \A c \in {"alicia", "shell"} : Has(s, Step("up", c)),
           \A y \in FleetSteps : Has(s, y)
    PROVE  /\ Each("wait", WorkloadWaits) \in Seq(Ready(s))
           /\ \A c \in {"alicia", "shell"} : Has(Each("wait", WorkloadWaits), Step("wait", c))
<1>1. \A c \in {"alicia", "shell"} : Step("wait", c) \in Ready(s)
  BY DEF Ready, Doable, Needs, Step, Attested, Container, Managed, Sidecar, Cotenant
<1>2. WorkloadWaits \in Seq({"alicia", "shell"})
  BY DEF WorkloadWaits
<1>3. \A c \in {"alicia", "shell"} : Has(WorkloadWaits, c)
  <2>1. Len(WorkloadWaits) = 2 /\ WorkloadWaits[1] = "alicia" /\ WorkloadWaits[2] = "shell"
    BY DEF WorkloadWaits
  <2>2. QED
    BY <2>1 DEF Has
<1>4. QED
  BY <1>1, <1>2, <1>3, EachReady

LEMMA SsoReady ==
    ASSUME NEW s, \A c \in {"alicia", "shell"} : Has(s, Step("wait", c))
    PROVE  SsoSteps \in Seq(Ready(s))
<1>1. \A c \in {"alicia", "shell"} : Step("ssh", c) \in Ready(s)
  BY DEF Ready, Doable, Needs, Step, Container, Managed, Sidecar, Cotenant
<1>2. \A c \in {"auth_certificate", "auth_kerberos"} : Step("auth", c) \in Ready(s)
  BY DEF Ready, Doable, Needs, Step, Container, Managed, Sidecar, Cotenant
<1>3. QED
  BY <1>1, <1>2 DEF SsoSteps

LEMMA NfsInOrder ==
    ASSUME NEW s, Has(s, Step("up", "nfs")), \A y \in FleetSteps : Has(s, y)
    PROVE  NfsSteps \in Seq(Doable) /\ InOrder(s, NfsSteps)
<1>1. NfsSteps \in Seq(Doable) /\ Len(NfsSteps) = 7
  BY DEF NfsSteps, Doable, Step, Attested, Container, Managed, Sidecar, Cotenant
<1>2. /\ NfsSteps[1] = Step("wait", "nfs")
      /\ NfsSteps[2] = Step("up", "barton") /\ NfsSteps[3] = Step("up", "catarina")
      /\ NfsSteps[4] = Step("wait", "barton") /\ NfsSteps[5] = Step("home", "barton")
      /\ NfsSteps[6] = Step("wait", "catarina") /\ NfsSteps[7] = Step("home", "catarina")
  BY DEF NfsSteps
<1>3. /\ Needs(NfsSteps[1]) \subseteq {Step("up", "nfs")} \cup FleetSteps
      /\ Needs(NfsSteps[2]) \subseteq {Step("wait", "nfs")}
      /\ Needs(NfsSteps[3]) \subseteq {Step("wait", "nfs")}
      /\ Needs(NfsSteps[4]) \subseteq {Step("up", "barton")} \cup FleetSteps
      /\ Needs(NfsSteps[5]) \subseteq {Step("wait", "barton")}
      /\ Needs(NfsSteps[6]) \subseteq {Step("up", "catarina")} \cup FleetSteps
      /\ Needs(NfsSteps[7]) \subseteq {Step("wait", "catarina")}
  BY <1>2 DEF Needs, Step
<1>4. \A i \in 1..7 : i \in {1, 2, 3, 4, 5, 6, 7}
  OBVIOUS
<1>5. InOrder(s, NfsSteps)
  <2> SUFFICES ASSUME NEW i \in {1, 2, 3, 4, 5, 6, 7}, NEW y \in Needs(NfsSteps[i])
               PROVE  Has(s, y) \/ \E j \in 1..i - 1 : NfsSteps[j] = y
    BY <1>1, <1>4 DEF InOrder
  <2>1. CASE i = 1
    BY <1>3, <2>1
  <2>2. CASE i \in {2, 3}
    <3>1. y = NfsSteps[1] /\ 1 \in 1..i - 1
      BY <1>2, <1>3, <2>2
    <3>2. QED
      BY <3>1
  <2>3. CASE i = 4
    <3>1. y \in FleetSteps \/ (y = NfsSteps[2] /\ 2 \in 1..i - 1)
      BY <1>2, <1>3, <2>3
    <3>2. QED
      BY <3>1
  <2>4. CASE i = 5
    <3>1. y = NfsSteps[4] /\ 4 \in 1..i - 1
      BY <1>2, <1>3, <2>4
    <3>2. QED
      BY <3>1
  <2>5. CASE i = 6
    <3>1. y \in FleetSteps \/ (y = NfsSteps[3] /\ 3 \in 1..i - 1)
      BY <1>2, <1>3, <2>5
    <3>2. QED
      BY <3>1
  <2>6. CASE i = 7
    <3>1. y = NfsSteps[6] /\ 6 \in 1..i - 1
      BY <1>2, <1>3, <2>6
    <3>2. QED
      BY <3>1
  <2>7. QED
    BY <2>1, <2>2, <2>3, <2>4, <2>5, <2>6
<1>6. QED
  BY <1>1, <1>5

LEMMA HostInOrder ==
    ASSUME NEW s, Has(s, Step("waitweb", "enrollsvc")), \A y \in FleetSteps : Has(s, y)
    PROVE  HostSteps \in Seq(Doable) /\ InOrder(s, HostSteps)
<1>1. HostSteps \in Seq(Doable) /\ Len(HostSteps) = 3
  BY DEF HostSteps, Doable, Step, Attested, Container
<1>2. /\ HostSteps[1] = Step("enroll", "hostside") /\ HostSteps[2] = Step("up", "hostside")
      /\ HostSteps[3] = Step("wait", "hostside")
  BY DEF HostSteps
<1>3. /\ Needs(HostSteps[1]) \subseteq {Step("waitweb", "enrollsvc")}
      /\ Needs(HostSteps[2]) = {}
      /\ Needs(HostSteps[3]) \subseteq {Step("up", "hostside"), Step("enroll", "hostside")}
                                      \cup FleetSteps
  BY <1>2 DEF Needs, Step
<1>4. \A i \in 1..3 : i \in {1, 2, 3}
  OBVIOUS
<1>5. \A y \in Needs(HostSteps[3]) : Has(s, y) \/ \E j \in 1..3 - 1 : HostSteps[j] = y
  <2>1. 1 \in 1..3 - 1 /\ 2 \in 1..3 - 1
    OBVIOUS
  <2>2. QED
    BY <1>2, <1>3, <2>1
<1>6. InOrder(s, HostSteps)
  BY <1>1, <1>3, <1>4, <1>5 DEF InOrder
<1>7. QED
  BY <1>1, <1>6

\* Whatever the options: each step of the script comes after those that it needs.
LEMMA ScriptIs == WellFormed(Script)
<1> DEFINE s1 == CoreSteps
           s2 == s1 \o KdcSteps
           s3 == s2 \o Each("up", WorkloadUps)
           s4 == s3 \o Each("wait", WorkloadWaits)
           s5 == s4 \o SsoSteps
           s6 == s5 \o (IF NoNfs THEN <<>> ELSE NfsSteps)
           s7 == s6 \o (IF NoHost THEN <<>> ELSE HostSteps)
           enrolls == Step("waitweb", "enrollsvc")
<1>1. WellFormed(s1) /\ Has(s1, enrolls) /\ Has(s1, Step("up", "attestsvc"))
  BY CoreIs
<1>2. /\ WellFormed(s2) /\ Has(s2, enrolls)
      /\ \A y \in FleetSteps \ {Step("up", "shell_tpm")} : Has(s2, y)
  BY <1>1, KdcReady, AppendReady DEF FleetSteps
<1> HIDE DEF s1, s2
<1>3. /\ WellFormed(s3) /\ Has(s3, enrolls) /\ \A y \in FleetSteps : Has(s3, y)
      /\ \A c \in {"alicia", "shell"} : Has(s3, Step("up", c))
      /\ ~NoNfs => Has(s3, Step("up", "nfs"))
  <2>1. Each("up", WorkloadUps) \in Seq(Ready(s2))
    BY WorkloadReady
  <2>2. WellFormed(s3) /\ \A x : Has(s3, x) <=> Has(s2, x) \/ Has(Each("up", WorkloadUps), x)
    BY <1>2, <2>1, AppendReady
  <2>3. QED
    BY <1>2, <2>2, WorkloadReady
<1> HIDE DEF s3
<1>4. /\ WellFormed(s4) /\ Has(s4, enrolls) /\ \A y \in FleetSteps : Has(s4, y)
      /\ \A c \in {"alicia", "shell"} : Has(s4, Step("wait", c))
      /\ ~NoNfs => Has(s4, Step("up", "nfs"))
  <2>1. WellFormed(s4) /\ \A x : Has(s4, x) <=> Has(s3, x) \/ Has(Each("wait", WorkloadWaits), x)
    BY <1>3, WaitsReady, AppendReady
  <2>2. QED
    BY <1>3, <2>1, WaitsReady
<1> HIDE DEF s4
<1>5. /\ WellFormed(s5) /\ Has(s5, enrolls) /\ \A y \in FleetSteps : Has(s5, y)
      /\ ~NoNfs => Has(s5, Step("up", "nfs"))
  BY <1>4, SsoReady, AppendReady
<1> HIDE DEF s5
<1>6. WellFormed(s6) /\ Has(s6, enrolls) /\ \A y \in FleetSteps : Has(s6, y)
  <2>1. (IF NoNfs THEN <<>> ELSE NfsSteps) \in Seq(Doable)
        /\ InOrder(s5, IF NoNfs THEN <<>> ELSE NfsSteps)
    BY <1>5, NfsInOrder DEF InOrder
  <2>2. QED
    BY <1>5, <2>1, AppendSteps
<1> HIDE DEF s6
<1>7. WellFormed(s7)
  <2>1. (IF NoHost THEN <<>> ELSE HostSteps) \in Seq(Doable)
        /\ InOrder(s6, IF NoHost THEN <<>> ELSE HostSteps)
    BY <1>6, HostInOrder DEF InOrder
  <2>2. QED
    BY <1>6, <2>1, AppendSteps
<1>8. Script = s7
  BY DEF Script, s1, s2, s3, s4, s5, s6
<1>9. QED
  BY <1>7, <1>8

-----------------------------------------------------------------------------
(* The state that the driver's steps find *)

\* Every TPM was created, and nothing has crashed.
AllWell == tpm = Managed /\ gone = {}

\* What a step of the driver has brought about, if all is well.
Effect(x) ==
    /\ x.do = "up" => x.c \in up
    /\ x.do = "waitweb" => Past(x.c, "webapi")
    /\ x.do = "wait" => passed[x.c] = Len(Stanzas(x.c))
    /\ x.do = "enroll" => IF x.c = "all" THEN Managed \subseteq enrolled ELSE x.c \in enrolled

FleetTypeOK ==
    /\ at \in 1..Len(Script) + 1
    /\ passed \in [Container -> Nat]
    /\ tpm \subseteq Managed /\ up \subseteq Container /\ replicated \in BOOLEAN

FleetOK ==
    /\ at = 1 => up = {} /\ dropped = {} /\ tpm = {} /\ \A c \in Container : passed[c] = 0
    /\ \A c \in dropped : c \in Cotenant \ tpm \/ Lost(c)
    /\ replicated => passed["kdc_secondary"] >= 6
    /\ \A h \in Keytab : Past(h, "attester") => replicated
    /\ AllWell => \A c \in {"barton", "catarina"} :
          /\ c \in up \/ passed[c] > 0 => Past("nfs", "nfsd")
          /\ passed[c] >= 4 => c \in mounted

EffectsOK == AllWell => \A i \in 1..at - 1 : Effect(Script[i])

BringupInv == ended = "no" => FleetTypeOK /\ FleetOK /\ EffectsOK

LEMMA PastGrows ==
    ASSUME passed \in [Container -> Nat], passed' \in [Container -> Nat],
           \A c \in Container : passed'[c] >= passed[c],
           NEW c \in Container, NEW s, Past(c, s)
    PROVE  Past(c, s)'
<1>1. PICK i \in 1..passed[c] : Stanzas(c)[i] = s
  BY DEF Past
<1>2. i \in 1..passed'[c]
  OBVIOUS
<1>3. QED
  BY <1>1, <1>2 DEF Past

\* Of the services of containers: a wait for all of them is one for those.
LEMMA AllPast ==
    ASSUME NEW c \in Attested, passed[c] = Len(Stanzas(c))
    PROVE  /\ Past(c, "attester")
           /\ c # "hostside" => Past(c, "sshd")
           /\ c = "nfs" => Past(c, "nfsd")
<1>1. CASE c \in {"shell", "hostside"}
  <2>1. Stanzas(c) = <<"attester", "sshd">>
    BY <1>1 DEF Stanzas, Cotenant
  <2>2. passed[c] = 2 /\ Stanzas(c)[1] = "attester" /\ Stanzas(c)[2] = "sshd"
    BY <2>1
  <2>3. 1 \in 1..passed[c] /\ 2 \in 1..passed[c]
    BY <2>2
  <2>4. QED
    BY <1>1, <2>2, <2>3 DEF Past
<1>2. CASE c = "alicia"
  <2>1. Stanzas(c) = <<"setup_local", "swtpm", "attester", "sshd">>
    BY <1>2 DEF Stanzas, Cotenant, CotenantStanzas
  <2>2. passed[c] = 4 /\ Stanzas(c)[3] = "attester" /\ Stanzas(c)[4] = "sshd"
    BY <2>1
  <2>3. 3 \in 1..passed[c] /\ 4 \in 1..passed[c]
    BY <2>2
  <2>4. QED
    BY <1>2, <2>2, <2>3 DEF Past
<1>3. CASE c = "nfs"
  <2>1. Stanzas(c) = <<"setup_local", "swtpm", "attester", "nfsd", "sshd">>
    BY <1>3 DEF Stanzas, Cotenant, CotenantStanzas
  <2>2. /\ passed[c] = 5 /\ Stanzas(c)[3] = "attester" /\ Stanzas(c)[4] = "nfsd"
        /\ Stanzas(c)[5] = "sshd"
    BY <2>1
  <2>3. 3 \in 1..passed[c] /\ 4 \in 1..passed[c] /\ 5 \in 1..passed[c]
    BY <2>2
  <2>4. QED
    BY <1>3, <2>2, <2>3 DEF Past
<1>4. CASE c \in {"barton", "catarina"}
  <2>1. Stanzas(c) = <<"setup_local", "swtpm", "attester", "mounter", "sshd">>
    BY <1>4 DEF Stanzas, Cotenant, CotenantStanzas
  <2>2. passed[c] = 5 /\ Stanzas(c)[3] = "attester" /\ Stanzas(c)[5] = "sshd"
    BY <2>1
  <2>3. 3 \in 1..passed[c] /\ 5 \in 1..passed[c]
    BY <2>2
  <2>4. QED
    BY <1>4, <2>2, <2>3 DEF Past
<1>5. QED
  BY <1>1, <1>2, <1>3, <1>4 DEF Attested

LEMMA KdcStanzas ==
    ASSUME passed["kdc_secondary"] \in Nat
    PROVE  /\ Past("kdc_secondary", "iprop") => passed["kdc_secondary"] >= 6
           /\ passed["kdc_secondary"] >= 6 => Past("kdc_secondary", "TGS")
<1>1. Stanzas("kdc_secondary") =
         <<"attester", "setup_global", "setup_local", "webapi", "TGS", "iprop">>
  BY DEF Cotenant, Stanzas, KdcsvcStanzas
<1>2. ASSUME Past("kdc_secondary", "iprop"), passed["kdc_secondary"] < 6
      PROVE  FALSE
  <2>1. PICK i \in 1..passed["kdc_secondary"] : Stanzas("kdc_secondary")[i] = "iprop"
    BY <1>2 DEF Past
  <2>2. i \in {1, 2, 3, 4, 5}
    BY <1>2
  <2>3. QED
    BY <1>1, <2>1, <2>2
<1>3. ASSUME passed["kdc_secondary"] >= 6
      PROVE  Past("kdc_secondary", "TGS")
  <2>1. 5 \in 1..passed["kdc_secondary"] /\ Stanzas("kdc_secondary")[5] = "TGS"
    BY <1>1, <1>3
  <2>2. QED
    BY <2>1 DEF Past
<1>4. QED
  BY <1>2, <1>3

\* With all well, nothing drops.
LEMMA WellDropsNone ==
    ASSUME FleetOK, AllWell
    PROVE  dropped = {}
BY DEF FleetOK, AllWell, Lost, Managed

LEMMA StepIs ==
    ASSUME FleetTypeOK, at <= Len(Script)
    PROVE  /\ Script[at] \in Doable \/ (at = 1 /\ Script[at] = Step("create", "all"))
           /\ \A y \in Needs(Script[at]) : \E j \in 1..at - 1 : Script[j] = y
<1>1. Len(Script) \in Nat /\ at \in 1..Len(Script)
  BY ScriptIs DEF WellFormed, FleetTypeOK
<1>2. at = 1 \/ at \in 2..Len(Script)
  BY <1>1
<1>3. \A y : ~Has(<<>>, y)
  BY DEF Has
<1>4. QED
  BY <1>1, <1>2, <1>3, ScriptIs DEF WellFormed, InOrder

\* What a step needs has been brought about when it is its turn.
LEMMA NeedsMet ==
    ASSUME FleetTypeOK, EffectsOK, AllWell, at <= Len(Script),
           NEW y \in Needs(Script[at])
    PROVE  Effect(y)
BY StepIs DEF EffectsOK

LEMMA AdvanceKeepsInv ==
    ASSUME BringupInv, ended = "no", at <= Len(Script), Done,
           UNCHANGED <<tpm, up, passed, gone, dropped, replicated, mounted>>,
           enrolled \subseteq enrolled', NEW CONSTANT x, Script[at] = x, AllWell => Effect(x)'
    PROVE  BringupInv'
<1> USE DEF BringupInv
<1>1. Len(Script) \in Nat /\ at \in Nat \ {0} /\ at' = at + 1
  BY ScriptIs DEF WellFormed, FleetTypeOK, Done
<1>2. FleetTypeOK'
  BY <1>1 DEF FleetTypeOK
<1>3. FleetOK'
  BY <1>1 DEF FleetOK, AllWell, Lost, Past
<1>4. EffectsOK'
  <2> SUFFICES ASSUME AllWell, NEW i \in 1..at
               PROVE  Effect(Script[i])'
    BY <1>1 DEF EffectsOK, AllWell
  <2>1. i = at \/ i \in 1..at - 1
    BY <1>1
  <2>2. ASSUME i \in 1..at - 1
        PROVE  Effect(Script[i])'
    <3>1. Effect(Script[i])
      BY <2>2 DEF EffectsOK
    <3>2. QED
      BY <3>1 DEF Effect, Past
  <2>3. QED
    BY <2>1, <2>2
<1>5. QED
  BY <1>2, <1>3, <1>4

LEMMA CreateKeepsInv ==
    ASSUME BringupInv, Create
    PROVE  BringupInv'
<1> USE DEF BringupInv
<1>1. /\ ended = "no" /\ at <= Len(Script) /\ Script[at].do = "create" /\ at' = at + 1
      /\ tpm' \subseteq Managed
      /\ UNCHANGED <<enrolled, up, passed, gone, dropped, replicated, mounted>>
  BY DEF Create, Doing, Done
<1>2. at = 1 /\ Script[at] = Step("create", "all") /\ Len(Script) \in Nat
  BY <1>1, StepIs, ScriptIs DEF Doable, WellFormed
<1>3. FleetTypeOK'
  BY <1>1, <1>2 DEF FleetTypeOK
<1>4. FleetOK'
  BY <1>1, <1>2 DEF FleetOK, Past, Container, Managed, Cotenant
<1>5. EffectsOK'
  <2>1. \A i \in 1..at' - 1 : i = 1
    BY <1>1, <1>2
  <2>2. Effect(Script[1])'
    BY <1>2 DEF Effect, Step
  <2>3. QED
    BY <2>1, <2>2 DEF EffectsOK
<1>6. QED
  BY <1>3, <1>4, <1>5

LEMMA UpKeepsInv ==
    ASSUME BringupInv, Up
    PROVE  BringupInv'
<1> USE DEF BringupInv
<1>1. /\ ended = "no" /\ at <= Len(Script) /\ Script[at].do = "up" /\ at' = at + 1
      /\ up' = up \cup {Script[at].c}
      /\ UNCHANGED <<tpm, enrolled, passed, gone, dropped, replicated, mounted>>
  BY DEF Up, Doing, Done, Target
<1>2. Script[at] \in Doable /\ Script[at].c \in Container
  BY <1>1, StepIs DEF Doable, Step
<1>3. Len(Script) \in Nat /\ at \in Nat \ {0}
  BY <1>1, ScriptIs DEF WellFormed, FleetTypeOK
<1>4. FleetTypeOK'
  BY <1>1, <1>2, <1>3 DEF FleetTypeOK
<1>5. FleetOK'
  <2>1. ASSUME AllWell, Script[at].c \in {"barton", "catarina"}
        PROVE  Past("nfs", "nfsd")
    <3>1. Step("wait", "nfs") \in Needs(Script[at])
      BY <1>1, <2>1 DEF Needs
    <3>2. Effect(Step("wait", "nfs"))
      BY <1>1, <2>1, <3>1, NeedsMet
    <3>3. passed["nfs"] = Len(Stanzas("nfs"))
      BY <3>2 DEF Effect, Step
    <3>4. QED
      BY <3>3, AllPast DEF Attested
  <2>2. QED
    BY <1>1, <1>3, <2>1 DEF FleetOK, AllWell, Lost, Past
<1>6. EffectsOK'
  <2> SUFFICES ASSUME AllWell, NEW i \in 1..at
               PROVE  Effect(Script[i])'
    BY <1>1, <1>3 DEF EffectsOK, AllWell
  <2>1. CASE i \in 1..at - 1
    <3>1. Effect(Script[i])
      BY <1>1, <2>1 DEF EffectsOK
    <3>2. QED
      BY <1>1, <3>1 DEF Effect, Past
  <2>2. CASE i = at
    BY <1>1, <2>2 DEF Effect
  <2>3. QED
    BY <1>3, <2>1, <2>2
<1>7. QED
  BY <1>4, <1>5, <1>6

LEMMA DriverKeepsInv ==
    ASSUME BringupInv, Driver
    PROVE  BringupInv'
<1> USE DEF BringupInv
<1> PICK x : x = Script[at]
  OBVIOUS
<1>1. CASE Create \/ Up
  BY <1>1, CreateKeepsInv, UpKeepsInv
<1>2. CASE WaitEkPub
  BY <1>2, AdvanceKeepsInv DEF WaitEkPub, Doing, Effect, fleet
<1>3. CASE Enroll
  <2>1. CASE ended' = "failed"
    BY <2>1
  <2>2. CASE ended' # "failed"
    <3>1. /\ ended = "no" /\ at <= Len(Script) /\ Script[at].do = "enroll" /\ Done
          /\ UNCHANGED <<tpm, up, passed, gone, dropped, replicated, mounted>>
          /\ enrolled' = enrolled \cup CASE Script[at].c = "all" -> tpm
                                         [] Script[at].c = "hostside" -> {"hostside"}
                                         [] OTHER -> {Script[at].c} \cap tpm
      BY <1>3, <2>2 DEF Enroll, Doing, Target, Fail
    <3>2. Script[at].c \in Managed \cup {"all", "hostside"}
      BY <3>1, StepIs DEF Doable, Step
    <3>3. "all" \notin Managed /\ "hostside" \notin Managed
      BY DEF Managed, Sidecar, Cotenant
    <3>4. AllWell => Effect(x)'
      BY <3>1, <3>2, <3>3 DEF Effect, AllWell
    <3>5. QED
      BY <3>1, <3>4, AdvanceKeepsInv
  <2>3. QED
    BY <2>1, <2>2
<1>4. CASE WaitWeb
  <2>1. ended' = "failed" \/ (Done /\ Effect(x)')
    BY <1>4 DEF WaitWeb, Doing, Effect, Fail, Target, Serves, Past, fleet
  <2>2. QED
    BY <1>4, <2>1, AdvanceKeepsInv DEF WaitWeb, Doing, fleet
<1>5. CASE Success
  BY <1>5 DEF Success
<1>6. ASSUME NEW c \in Container, Wait(c)
      PROVE  BringupInv'
  <2>1. CASE Fail
    BY <2>1 DEF Fail
  <2>2. CASE c \in up /\ Announced(c) /\ Done
    <3>1. ended = "no" /\ at <= Len(Script) /\ Script[at].do = "wait" /\ Script[at].c = c
      BY <1>6 DEF Wait, Doing, Target
    <3>2. AllWell => passed[c] = Len(Stanzas(c))
      BY <2>2, <3>1, WellDropsNone DEF Announced
    <3>3. AllWell => Effect(x)'
      BY <1>6, <3>1, <3>2 DEF Effect, Wait, fleet
    <3>4. QED
      BY <1>6, <2>2, <3>1, <3>3, AdvanceKeepsInv DEF Wait, fleet
  <2>3. QED
    BY <1>6, <2>1, <2>2 DEF Wait
<1>7. ASSUME NEW do \in {"ssh", "auth", "home"}, Test(do)
      PROVE  BringupInv'
  <2>1. ended' = "failed" \/ (Done /\ Effect(x)')
    BY <1>7 DEF Test, Doing, Effect, Fail
  <2>2. QED
    BY <1>7, <2>1, AdvanceKeepsInv DEF Test, Doing, fleet
<1>8. QED
  BY <1>1, <1>2, <1>3, <1>4, <1>5, <1>6, <1>7 DEF Driver

LEMMA LaunchKeepsInv ==
    ASSUME BringupInv, NEW c \in Container, Launch(c)
    PROVE  BringupInv'
<1> USE DEF BringupInv
<1> SUFFICES ASSUME ended = "no"
             PROVE  FleetTypeOK' /\ FleetOK' /\ EffectsOK'
  BY DEF Launch
<1> DEFINE s == Stanzas(c)[passed[c] + 1]
<1>1. /\ c \in up \ dropped /\ passed[c] < Len(Stanzas(c)) /\ MayPass(c, s)
      /\ mounted' = IF s = "mounter" /\ Serves("nfs", "nfsd") THEN mounted \cup {c} ELSE mounted
      /\ passed' = [passed EXCEPT ![c] = @ + 1]
      /\ dropped' = IF Lost(c) THEN dropped \cup {c} ELSE dropped
      /\ UNCHANGED <<at, ended, tpm, enrolled, up, gone, replicated>>
  BY DEF Launch
<1>2. /\ Len(Script) \in Nat /\ at \in Nat \ {0} /\ at # 1
      /\ passed \in [Container -> Nat] /\ passed' \in [Container -> Nat]
      /\ passed'[c] = passed[c] + 1
      /\ \A d \in Container : passed'[d] >= passed[d] /\ (d # c => passed'[d] = passed[d])
  BY <1>1, ScriptIs DEF WellFormed, FleetTypeOK, FleetOK
<1>3. \A d \in Container : \A z : Past(d, z) => Past(d, z)'
  BY <1>2, PastGrows
<1>4. FleetTypeOK'
  BY <1>1, <1>2 DEF FleetTypeOK
<1>5. FleetOK'
  <2>1. (\A d \in dropped : d \in Cotenant \ tpm \/ Lost(d))'
    BY <1>1 DEF FleetOK, Lost
  <2>2. (replicated => passed["kdc_secondary"] >= 6)'
    <3>1. "kdc_secondary" \in Container
      BY DEF Container, Managed, Sidecar
    <3>2. passed'["kdc_secondary"] >= passed["kdc_secondary"]
      BY <1>2, <3>1
    <3>3. passed["kdc_secondary"] \in Nat /\ passed'["kdc_secondary"] \in Nat
      BY <1>2, <3>1
    <3>4. QED
      BY <1>1, <3>2, <3>3 DEF FleetOK
  <2>3. ASSUME NEW h \in Keytab, Past(h, "attester")'
        PROVE  replicated
    <3>1. PICK i \in 1..passed'[h] : Stanzas(h)[i] = "attester"
      BY <2>3 DEF Past
    <3>2. h \in Container
      BY DEF Keytab, Container, Managed, Sidecar, Cotenant
    <3>3. i \in 1..passed[h] \/ (h = c /\ i = passed[c] + 1)
      BY <1>2, <3>2
    <3>4. CASE i \in 1..passed[h]
      BY <3>1, <3>4 DEF FleetOK, Past
    <3>5. CASE h = c /\ i = passed[c] + 1
      BY <1>1, <3>1, <3>5 DEF MayPass, Attestable, KeytabsServed
    <3>6. QED
      BY <3>3, <3>4, <3>5
  <2>4. ASSUME AllWell, NEW d \in {"barton", "catarina"}
        PROVE  /\ d \in up \/ passed'[d] > 0 => Past("nfs", "nfsd")'
               /\ passed'[d] >= 4 => d \in mounted'
    <3>1. d \in Container /\ "nfs" \in Container /\ Stanzas(d)[4] = "mounter"
      BY DEF Container, Managed, Cotenant, Stanzas, CotenantStanzas
    <3>2. d \in up \/ passed[d] > 0 => Past("nfs", "nfsd")
      BY <2>4 DEF FleetOK
    <3>3. passed[d] >= 4 => d \in mounted
      BY <2>4 DEF FleetOK
    <3>4. CASE d = c
      <4>1. Past("nfs", "nfsd")
        BY <1>1, <3>2, <3>4
      <4>2. passed'[d] >= 4 => passed[d] >= 4 \/ passed[d] + 1 = 4
        BY <1>2, <3>1, <3>4
      <4>3. Serves("nfs", "nfsd")
        BY <2>4, <4>1 DEF Serves, AllWell
      <4>4. QED
        BY <1>1, <1>3, <3>1, <3>3, <3>4, <4>1, <4>2, <4>3
    <3>5. CASE d # c
      BY <1>1, <1>2, <1>3, <3>1, <3>2, <3>3, <3>5
    <3>6. QED
      BY <3>4, <3>5
  <2>5. QED
    BY <1>1, <1>2, <2>1, <2>2, <2>3, <2>4 DEF FleetOK, AllWell
<1>6. EffectsOK'
  <2> SUFFICES ASSUME AllWell, NEW i \in 1..at - 1
               PROVE  Effect(Script[i])'
    BY <1>1 DEF EffectsOK, AllWell
  <2>1. Effect(Script[i])
    BY DEF EffectsOK
  <2>2. Script[i] \in Doable \cup {Step("create", "all")}
    BY ScriptIs DEF WellFormed, FleetTypeOK
  <2>3. Script[i].do = "waitweb" => Script[i].c \in Container
    BY <2>2 DEF Doable, Step
  <2>4. Script[i].do = "wait" => Script[i].c \in Container /\ Script[i].c # c
    BY <1>1, <2>1, <2>2, <1>2 DEF Effect, Doable, Step, Attested, Container, Managed, Sidecar, Cotenant
  <2>5. QED
    BY <1>1, <1>2, <1>3, <2>1, <2>3, <2>4 DEF Effect
<1>7. QED
  BY <1>4, <1>5, <1>6

\* A step after which not all is well, and that takes no more than containers down.
LEMMA LossKeepsInv ==
    ASSUME BringupInv, UNCHANGED <<at, ended, tpm, enrolled, passed, replicated, mounted>>,
           gone \subseteq gone', up' \subseteq up, FleetOK => at # 1 /\ ~AllWell',
           \A c \in dropped' \ dropped : c \in Cotenant \ tpm \/ Lost(c)'
    PROVE  BringupInv'
<1>1. FleetTypeOK => FleetTypeOK'
  BY DEF FleetTypeOK
<1>2. FleetOK => FleetOK'
  <2> SUFFICES ASSUME FleetOK
               PROVE  FleetOK'
    OBVIOUS
  <2>1. \A c : Lost(c) => Lost(c)'
    BY DEF Lost
  <2>2. (\A c \in dropped : c \in Cotenant \ tpm \/ Lost(c))'
    BY <2>1 DEF FleetOK
  <2>3. QED
    BY <2>2 DEF FleetOK, Past
<1>3. FleetOK => EffectsOK'
  BY DEF EffectsOK
<1>4. QED
  BY <1>1, <1>2, <1>3 DEF BringupInv

LEMMA CrashKeepsInv ==
    ASSUME BringupInv, NEW c \in Container, Crash(c)
    PROVE  BringupInv'
<1>1. /\ c \in up /\ \E s \in Lasting : gone' = gone \cup {<<c, s>>}
      /\ UNCHANGED <<at, ended, tpm, enrolled, up, passed, dropped, replicated, mounted>>
  BY DEF Crash
<1>2. ~AllWell' /\ (FleetOK => at # 1)
  BY <1>1 DEF AllWell, FleetOK
<1>3. QED
  BY <1>1, <1>2, LossKeepsInv

LEMMA DropsKeepsInv ==
    ASSUME BringupInv, NEW c \in Container, Drops(c)
    PROVE  BringupInv'
<1>1. /\ c \in up /\ dropped' = dropped \cup {c}
      /\ Lost(c) \/ c \in Cotenant \ tpm
      /\ UNCHANGED <<at, ended, tpm, enrolled, up, passed, gone, replicated, mounted>>
  BY DEF Drops
<1>2. ~AllWell' /\ (FleetOK => at # 1) /\ (Lost(c) => Lost(c)')
  BY <1>1 DEF AllWell, Lost, Managed, FleetOK
<1>3. QED
  BY <1>1, <1>2, LossKeepsInv

LEMMA EndsKeepsInv ==
    ASSUME BringupInv, NEW c \in Container, Ends(c)
    PROVE  BringupInv'
<1>1. /\ c \in up \cap dropped /\ up' = up \ {c} /\ gone \subseteq gone'
      /\ UNCHANGED <<at, ended, tpm, enrolled, passed, dropped, replicated, mounted>>
  BY DEF Ends
<1>2. FleetOK => at # 1 /\ ~AllWell
  BY <1>1, WellDropsNone DEF FleetOK
<1>3. AllWell' => AllWell
  BY <1>1 DEF AllWell
<1>4. QED
  BY <1>1, <1>2, <1>3, LossKeepsInv

LEMMA ReplicateKeepsInv ==
    ASSUME BringupInv, Replicate
    PROVE  BringupInv'
<1> USE DEF BringupInv
<1>1. /\ Past("kdc_secondary", "iprop") /\ replicated'
      /\ UNCHANGED <<at, ended, tpm, enrolled, up, passed, gone, dropped, mounted>>
  BY DEF Replicate, Serves
<1>2. FleetTypeOK => FleetTypeOK' /\ passed["kdc_secondary"] \in Nat
  BY <1>1 DEF FleetTypeOK, Container, Managed, Sidecar
<1>3. FleetTypeOK => passed["kdc_secondary"] >= 6
  BY <1>1, <1>2, KdcStanzas
<1>4. FleetTypeOK /\ FleetOK => FleetOK'
  BY <1>1, <1>3 DEF FleetOK, AllWell, Lost, Past
<1>5. EffectsOK => EffectsOK'
  BY <1>1 DEF EffectsOK, AllWell, Effect, Past
<1>6. QED
  BY <1>1, <1>2, <1>4, <1>5

LEMMA InitHasInv == BringupInit => BringupInv
<1> SUFFICES ASSUME BringupInit
             PROVE  FleetTypeOK /\ FleetOK /\ EffectsOK
  BY DEF BringupInv
<1> USE DEF BringupInit
<1>1. Len(Script) \in Nat /\ Len(Script) > 0
  BY ScriptIs DEF WellFormed
<1>2. FleetTypeOK
  <2>1. at \in 1..Len(Script) + 1 /\ passed \in [Container -> Nat]
    BY <1>1
  <2>2. tpm \subseteq Managed /\ up \subseteq Container /\ replicated \in BOOLEAN
    OBVIOUS
  <2>3. QED
    BY <2>1, <2>2 DEF FleetTypeOK
<1>3. \A c \in Container : \A s : ~Past(c, s)
  BY DEF Past
<1>4. Keytab \subseteq Container /\ {"barton", "catarina"} \subseteq Container
  BY DEF Keytab, Container, Managed, Sidecar, Cotenant
<1>5. FleetOK
  BY <1>3, <1>4 DEF FleetOK
<1>6. EffectsOK
  BY DEF EffectsOK
<1>7. QED
  BY <1>2, <1>5, <1>6

LEMMA NextKeepsInv == BringupInv /\ [BringupNext]_bvars => BringupInv'
<1> SUFFICES ASSUME BringupInv, [BringupNext]_bvars
             PROVE  BringupInv'
  OBVIOUS
<1>1. CASE Driver
  BY <1>1, DriverKeepsInv
<1>2. CASE Cleanup
  BY <1>2 DEF Cleanup, BringupInv
<1>3. CASE Replicate
  BY <1>3, ReplicateKeepsInv
<1>4. ASSUME NEW c \in Container, Own(c) \/ Crash(c)
      PROVE  BringupInv'
  BY <1>4, LaunchKeepsInv, DropsKeepsInv, EndsKeepsInv, CrashKeepsInv DEF Own
<1>5. CASE UNCHANGED bvars
  BY <1>5 DEF bvars, fleet, BringupInv, FleetTypeOK, FleetOK, EffectsOK, AllWell, Lost, Effect, Past
<1>6. QED
  BY <1>1, <1>2, <1>3, <1>4, <1>5 DEF BringupNext

\* In each reachable state the driver's steps so far have had their effects.
THEOREM EffectsHold == BringupSpec => []BringupInv
<1>1. QED
  BY InitHasInv, NextKeepsInv, PTL DEF BringupSpec

-----------------------------------------------------------------------------
(* What the driver relies on *)

LEMMA OthersDontEnd ==
    ASSUME ended = "no", [BringupNext]_bvars, ~Driver
    PROVE  UNCHANGED <<at, ended>>
BY DEF BringupNext, Cleanup, Replicate, Own, Launch, Drops, Ends, Crash, bvars

LEMMA WaitIsAttested ==
    ASSUME BringupInv, NEW c \in Container, Wait(c), at' # at, c \in Managed => c \in tpm,
           ~Lost(c)
    PROVE  Past(c, "attester")
<1>1. /\ ended = "no" /\ at <= Len(Script) /\ Script[at].do = "wait" /\ Script[at].c = c
      /\ Announced(c)
  BY DEF Wait, Doing, Target, Fail
<1>2. FleetTypeOK /\ FleetOK
  BY <1>1 DEF BringupInv
<1>3. c \in Attested
  BY <1>1, <1>2, StepIs DEF Doable, Step
<1>4. c \notin dropped
  BY <1>2 DEF FleetOK, Managed
<1>5. QED
  BY <1>1, <1>3, <1>4, AllPast DEF Announced

\* The driver goes on from its wait for the launch of a workload (main-test.py:177)
\* only when that host is attested, if its TPM could be created and none of its own
\* services has crashed.
THEOREM WaitMeansAttested == BringupSpec => WaitedIsAttested
<1>1. BringupInv /\ [BringupNext]_bvars =>
         [\A c \in Container :
             Wait(c) /\ at' # at /\ (c \in Managed => c \in tpm) /\ ~Lost(c)
                => Past(c, "attester")]_bvars
  BY WaitIsAttested
<1>2. QED
  BY <1>1, EffectsHold, PTL DEF BringupSpec, WaitedIsAttested

\* An attested host that gets keytabs has found the secondary KDC with a copy of the
\* realm, so its TGS is there.
LEMMA AttestedHasKerberos ==
    ASSUME FleetTypeOK, FleetOK, gone = {}, NEW h \in Keytab, Past(h, "attester")
    PROVE  KerberosServed
<1>1. replicated /\ passed["kdc_secondary"] >= 6
  BY DEF FleetOK
<1>2. passed["kdc_secondary"] \in Nat
  BY DEF FleetTypeOK, Container, Managed, Sidecar
<1>3. QED
  BY <1>1, <1>2, KdcStanzas DEF KerberosServed, Serves

LEMMA TestDoesNotFail ==
    ASSUME BringupInv, AllWell, NEW do \in {"ssh", "home"}, Doing(do)
    PROVE  Usable(do, Target)
<1> DEFINE c == Target
<1>1. ended = "no" /\ at <= Len(Script) /\ Script[at].do = do /\ Script[at].c = c
  BY DEF Doing, Target
<1>2. FleetTypeOK /\ FleetOK /\ EffectsOK
  BY <1>1 DEF BringupInv
<1>3. Script[at] \in Doable
  BY <1>1, <1>2, StepIs DEF Step
<1>4. Step("wait", c) \in Needs(Script[at])
  BY <1>1 DEF Needs
<1>5. passed[c] = Len(Stanzas(c))
  BY <1>2, <1>1, <1>4, NeedsMet DEF Effect, Step
<1>6. c \in Attested /\ c \in Keytab /\ c # "hostside"
  BY <1>1, <1>3 DEF Doable, Attested, Keytab
<1>7. Past(c, "attester") /\ Past(c, "sshd")
  BY <1>5, <1>6, AllPast
<1>8. KerberosServed
  BY <1>2, <1>6, <1>7, AttestedHasKerberos DEF AllWell
<1>8a. Serves(c, "sshd")
  BY <1>7 DEF Serves, AllWell
<1>9. CASE do = "ssh"
  <2>1. Step("wait", "alicia") \in Needs(Script[at])
    BY <1>1, <1>9 DEF Needs
  <2>2. passed["alicia"] = Len(Stanzas("alicia"))
    BY <1>1, <1>2, <2>1, NeedsMet DEF Effect, Step
  <2>3. Past("alicia", "attester")
    BY <2>2, AllPast DEF Attested
  <2>4. QED
    BY <1>8, <1>9, <1>8a, <2>3 DEF Usable
<1>10. CASE do = "home"
  <2>1. c \in {"barton", "catarina"}
    BY <1>1, <1>3, <1>10 DEF Doable
  <2>2. Len(Stanzas(c)) = 5
    BY <2>1 DEF Stanzas, Cotenant, CotenantStanzas
  <2>3. c \in mounted
    BY <1>2, <1>5, <2>1, <2>2 DEF FleetOK, AllWell
  <2>4. QED
    BY <1>8, <1>10, <1>8a, <2>3 DEF Usable
<1>11. QED
  BY <1>9, <1>10

LEMMA DriverFailsOnlyKnown ==
    ASSUME BringupInv, Driver, ended = "no", ended' = "failed", AllWell
    PROVE  Script[at].do \in {"waitweb", "auth"}
<1>1. FleetTypeOK /\ FleetOK /\ EffectsOK
  BY DEF BringupInv
<1>2. ~Create /\ ~Up /\ ~WaitEkPub /\ ~Success
  BY DEF Create, Up, WaitEkPub, Success, Done
<1>3. CASE Enroll
  <2>1. /\ at <= Len(Script) /\ Script[at].do = "enroll" /\ Script[at].c # "enrollsvc"
        /\ ~Serves("enrollsvc", "webapi")
    BY <1>3 DEF Enroll, Doing, Target, Done
  <2>2. Step("waitweb", "enrollsvc") \in Needs(Script[at])
    BY <2>1 DEF Needs
  <2>3. Past("enrollsvc", "webapi")
    BY <1>1, <2>1, <2>2, NeedsMet DEF Effect, Step
  <2>4. QED
    BY <2>1, <2>3 DEF Serves, AllWell
<1>4. CASE WaitWeb
  BY <1>4 DEF WaitWeb, Doing
<1>5. ASSUME NEW c \in Container, Wait(c)
      PROVE  FALSE
  <2>1. at <= Len(Script) /\ Script[at].do = "wait" /\ Script[at].c = c /\ c \notin up
    BY <1>5 DEF Wait, Doing, Target, Done
  <2>2. Step("up", c) \in Needs(Script[at])
    BY <2>1 DEF Needs
  <2>3. c \in up
    BY <1>1, <2>1, <2>2, NeedsMet DEF Effect, Step
  <2>4. QED
    BY <2>1, <2>3
<1>6. ASSUME NEW do \in {"ssh", "auth", "home"}, Test(do)
      PROVE  Script[at].do \in {"waitweb", "auth"}
  <2>1. Doing(do) /\ ~Usable(do, Target)
    BY <1>6 DEF Test, Done
  <2>2. do = "auth"
    BY <2>1, TestDoesNotFail
  <2>3. QED
    BY <2>1, <2>2 DEF Doing
<1>7. QED
  BY <1>2, <1>3, <1>4, <1>5, <1>6 DEF Driver

\* If every TPM is created and nothing has crashed the driver fails only at the steps that poll a bounded
\* number of times or that nothing is waited for before.
THEOREM DriverWaitsAreEnough == BringupSpec => FailsOnlyKnown
<1>1. BringupInv /\ [BringupNext]_bvars =>
         [ended = "no" /\ ended' = "failed" /\ tpm = Managed /\ gone = {}
             => Script[at].do \in {"waitweb", "auth"}]_bvars
  BY DriverFailsOnlyKnown, OthersDontEnd DEF AllWell
<1>2. QED
  BY <1>1, EffectsHold, PTL DEF BringupSpec, FailsOnlyKnown

-----------------------------------------------------------------------------
(* What is taken of the launchers *)

LEMMA StanzasAre ==
    ASSUME NEW c
    PROVE  Len(Stanzas(c)) \in Nat \ {0}
<1>1. c \in Cotenant => Len(CotenantStanzas(c)) \in {4, 5}
  BY DEF Cotenant, CotenantStanzas
<1>2. Len(Stanzas(c)) \in {2, 3, 4, 5, 6}
  BY <1>1 DEF Stanzas, AttestsvcStanzas, EnrollsvcStanzas, KdcsvcStanzas, SidecarStanzas
<1>3. QED
  BY <1>2

PassedOK ==
    /\ passed \in [Container -> Nat]
    /\ \A c \in Container : passed[c] <= Len(Stanzas(c))

LEMMA LaunchIsSupervised ==
    ASSUME PassedOK, NEW c \in Container, NEW d \in Container, Launch(d)
    PROVE  PassedOK' /\ [Supervised(c)!Next]_(Supervised(c)!promised)
<1>1. /\ d \in up \ dropped /\ passed[d] < Len(Stanzas(d))
      /\ MayPass(d, Stanzas(d)[passed[d] + 1])
      /\ passed' = [passed EXCEPT ![d] = @ + 1]
      /\ dropped \subseteq dropped' /\ dropped' \subseteq dropped \cup {d}
  BY DEF Launch
<1>2. /\ passed[c] \in Nat /\ passed[c] <= Len(Stanzas(c)) /\ Len(Stanzas(c)) \in Nat
      /\ passed[d] \in Nat /\ Len(Stanzas(d)) \in Nat
  BY StanzasAre DEF PassedOK
<1>3. PassedOK'
  BY <1>1, <1>2 DEF PassedOK
<1>4. CASE c # d
  <2>1. passed'[c] = passed[c]
    BY <1>1, <1>4 DEF PassedOK
  <2>2. (c \in dropped)' = (c \in dropped)
    BY <1>1, <1>4
  <2>3. QED
    BY <1>3, <2>1, <2>2 DEF Supervised!promised, Announced
<1>5. CASE c = d
  <2> DEFINE s == passed[c] + 1
  <2>1. passed'[c] = s
    BY <1>1, <1>5 DEF PassedOK
  <2>2. s \in 1..Len(Stanzas(c)) /\ s \notin 1..passed[c] /\ MayPass(c, Stanzas(c)[s])
    BY <1>1, <1>2, <1>5
  <2>3. /\ \A r \in 1..Len(Stanzas(c)) : r < s => r \in 1..passed[c]
        /\ 1..s = 1..passed[c] \cup {s}
    BY <1>2
  <2>4. Supervised(c)!Pass(s)
    BY <1>1, <1>5, <2>1, <2>2, <2>3 DEF Supervised!Pass
  <2>5. Supervised(c)!SignIsEarned
    BY <1>1, <1>2, <1>5, <2>1 DEF Supervised!SignIsEarned, Announced
  <2>6. QED
    BY <1>3, <2>2, <2>4, <2>5 DEF Supervised!Next
<1>6. QED
  BY <1>4, <1>5

LEMMA StepIsSupervised ==
    ASSUME PassedOK, NEW c \in Container, [BringupNext]_bvars
    PROVE  PassedOK' /\ [Supervised(c)!Next]_(Supervised(c)!promised)
<1>1. CASE UNCHANGED <<passed, dropped>>
  BY <1>1 DEF PassedOK, Supervised!promised, Announced
<1>2. CASE Driver \/ Replicate \/ (\E d \in Container : Ends(d) \/ Crash(d)) \/ UNCHANGED bvars
  <2>1. UNCHANGED <<passed, dropped>>
    BY <1>2 DEF Crash, Driver, Create, Up, WaitEkPub, Enroll, WaitWeb, Success, Wait, Test,
       Replicate, Ends, bvars, fleet
  <2>2. QED
    BY <1>1, <2>1
<1>3. ASSUME NEW d \in Container, Drops(d)
      PROVE  PassedOK' /\ [Supervised(c)!Next]_(Supervised(c)!promised)
  <2>1. passed' = passed /\ dropped' = dropped \cup {d}
    BY <1>3 DEF Drops
  <2>2. CASE c # d
    BY <2>1, <2>2 DEF PassedOK, Supervised!promised, Announced
  <2>3. CASE c = d
    <3>1. Supervised(c)!SeeDrop /\ Supervised(c)!SignIsEarned
      BY <2>1, <2>3 DEF Supervised!SeeDrop, Supervised!SignIsEarned, Announced
    <3>2. QED
      BY <2>1, <3>1 DEF PassedOK, Supervised!Next
  <2>4. QED
    BY <2>2, <2>3
<1>4. CASE Cleanup
  <2>1. passed' = [d \in Container |-> 0] /\ dropped' = {}
    BY <1>4 DEF Cleanup
  <2>2. PassedOK'
    BY <2>1, StanzasAre DEF PassedOK
  <2>3. Supervised(c)!Remove
    BY <2>1, StanzasAre DEF Supervised!Remove, Announced
  <2>4. QED
    BY <2>2, <2>3 DEF Supervised!Next
<1>5. QED
  BY <1>2, <1>3, <1>4, LaunchIsSupervised DEF BringupNext, Own

\* What the bring-up takes of each container's launcher is no more than a launcher
\* promises (Supervision), and that is what Launcher keeps: see LauncherSupervises.
THEOREM ContainersAreSupervised ==
    ASSUME NEW c \in Container
    PROVE  BringupSpec => Supervised(c)!Spec
<1>1. BringupInit => PassedOK /\ Supervised(c)!Init
  BY StanzasAre DEF BringupInit, PassedOK, Supervised!Init, Announced
<1>2. PassedOK /\ [BringupNext]_bvars
         => PassedOK' /\ [Supervised(c)!Next]_(Supervised(c)!promised)
  BY StepIsSupervised
<1>3. QED
  BY <1>1, <1>2, PTL DEF BringupSpec, Supervised!Spec

-----------------------------------------------------------------------------
(* Nothing waits for what only comes later *)

\* A service of c can be started, or the launcher's block on one ends.
CanLaunch(c) ==
    /\ c \in up \ dropped /\ passed[c] < Len(Stanzas(c))
    /\ LET s == Stanzas(c)[passed[c] + 1] IN MayPass(c, s) /\ <<c, s>> \notin gone

CanReplicate == ~replicated /\ Serves("kdc_primary", "iprop") /\ Serves("kdc_secondary", "iprop")

\* The driver's next step is not possible yet: every other step always is.
DriverWaits ==
    \/ Doing("waitek") /\ ~Past(TpmOf[Target], "swtpm")
    \/ Doing("wait") /\ Target \in up /\ ~Announced(Target)

\* When the driver waits, some container or the replication is able to move on.
MovesOn ==
    at > 1 /\ AllWell /\ DriverWaits => CanReplicate \/ \E c \in Container : CanLaunch(c)

\* As long as nothing crashes, a step of the system is one of the driver's, starts one
\* more service, or makes the copy of the realm: none is undone, and there are only so
\* many.
Counts ==
    \/ ended' # "no"
    \/ /\ at' = at + 1 /\ at' <= Len(Script) + 1
       /\ UNCHANGED <<passed, replicated>>
    \/ /\ UNCHANGED <<at, replicated>>
       /\ \E c \in Container :
             passed[c] < Len(Stanzas(c)) /\ passed' = [passed EXCEPT ![c] = @ + 1]
    \/ UNCHANGED <<at, passed>> /\ ~replicated /\ replicated'

StepsCount ==
    [][ended = "no" /\ at > 1 /\ AllWell => gone' # {} \/ (Counts /\ UNCHANGED tpm)]_bvars

\* A container that is up, whose next service waits for nothing that is not there.
LEMMA NextLaunches ==
    ASSUME PassedOK, gone = {}, dropped = {}, NEW c \in up \cap Container, NEW i \in 1..Len(Stanzas(c)),
           ~Past(c, Stanzas(c)[i]),
           \A j \in 1..i : passed[c] + 1 = j => MayPass(c, Stanzas(c)[j])
    PROVE  CanLaunch(c)
<1>1. passed[c] \in Nat /\ Len(Stanzas(c)) \in Nat /\ i \in Nat \ {0} /\ i <= Len(Stanzas(c))
  BY StanzasAre DEF PassedOK
<1>2. i \notin 1..passed[c]
  BY DEF Past
<1>3. passed[c] + 1 \in 1..i
  BY <1>1, <1>2
<1>4. QED
  BY <1>1, <1>3 DEF CanLaunch

LEMMA TpmLaunches ==
    ASSUME PassedOK, gone = {}, dropped = {}, NEW h \in Sidecar \cap tpm, TpmOf[h] \in up,
           ~Past(TpmOf[h], "swtpm")
    PROVE  CanLaunch(TpmOf[h])
<1> DEFINE c == TpmOf[h]
<1>1. c \in Container /\ Stanzas(c) = <<"tpm-setup", "swtpm">>
  BY DEF Container, Sidecar, Cotenant, Stanzas, SidecarStanzas, TpmOf
<1>2. \A j \in 1..2 : MayPass(c, Stanzas(c)[j])
  <2>1. Stanzas(c)[1] = "tpm-setup" /\ Stanzas(c)[2] = "swtpm"
    BY <1>1
  <2>2. MayPass(c, "tpm-setup") /\ MayPass(c, "swtpm")
    BY DEF MayPass
  <2>3. QED
    BY <2>1, <2>2
<1>3. Len(Stanzas(c)) = 2 /\ Stanzas(c)[2] = "swtpm"
  BY <1>1
<1> HIDE DEF c
<1>4. /\ c \in up \cap Container /\ 2 \in 1..Len(Stanzas(c)) /\ ~Past(c, Stanzas(c)[2])
      /\ \A j \in 1..2 : passed[c] + 1 = j => MayPass(c, Stanzas(c)[j])
  BY <1>1, <1>2, <1>3 DEF c
<1>5. CanLaunch(c)
  BY <1>4, NextLaunches
<1>6. QED
  BY <1>5 DEF c

LEMMA AttestsvcLaunches ==
    ASSUME PassedOK, gone = {}, dropped = {}, "attestsvc" \in up, ~Past("attestsvc", "webapi")
    PROVE  CanLaunch("attestsvc")
<1>1. /\ "attestsvc" \in Container
      /\ Stanzas("attestsvc") = <<"xtra_global", "xtra_local", "webapi">>
  BY DEF Container, Cotenant, Stanzas, AttestsvcStanzas
<1>2. \A j \in 1..3 : MayPass("attestsvc", Stanzas("attestsvc")[j])
  BY <1>1 DEF MayPass
<1>3. Len(Stanzas("attestsvc")) = 3 /\ Stanzas("attestsvc")[3] = "webapi"
  BY <1>1
<1>4. QED
  BY <1>1, <1>2, <1>3, NextLaunches

\* What a service waits for, for one that waits.
LEMMA WaitsFor ==
    ASSUME NEW c \in Attested \cup {"kdc_primary", "kdc_secondary"}, NEW j \in 1..Len(Stanzas(c)),
           ~MayPass(c, Stanzas(c)[j])
    PROVE  /\ Stanzas(c)[j] = "attester" /\ ~Attestable(c)
           /\ c \in Cotenant => j = 3 /\ Stanzas(c)[2] = "swtpm"
           /\ c \notin Cotenant => j = 1
<1>1. CASE c \in {"shell", "hostside"}
  <2>1. Stanzas(c) = <<"attester", "sshd">>
    BY <1>1 DEF Stanzas, Cotenant
  <2>2. j \in {1, 2} /\ MayPass(c, "sshd") /\ c \notin Cotenant
    BY <1>1, <2>1 DEF MayPass, Cotenant
  <2>3. QED
    BY <2>1, <2>2 DEF MayPass
<1>2. CASE c \in {"kdc_primary", "kdc_secondary"}
  <2>1. Stanzas(c) = <<"attester", "setup_global", "setup_local", "webapi", "TGS", "iprop">>
    BY <1>2 DEF Cotenant, Stanzas, KdcsvcStanzas
  <2>2. j \in {1, 2, 3, 4, 5, 6} /\ c \notin Cotenant
    BY <1>2, <2>1 DEF Cotenant
  <2>3. \A s \in {"setup_global", "setup_local", "webapi", "TGS", "iprop"} : MayPass(c, s)
    BY DEF MayPass
  <2>4. QED
    BY <2>1, <2>2, <2>3 DEF MayPass
<1>3. CASE c = "alicia"
  <2>1. Stanzas(c) = <<"setup_local", "swtpm", "attester", "sshd">>
    BY <1>3 DEF Stanzas, Cotenant, CotenantStanzas
  <2>2. j \in {1, 2, 3, 4} /\ c \in Cotenant
    BY <1>3, <2>1 DEF Cotenant
  <2>3. \A s \in {"setup_local", "swtpm", "sshd"} : MayPass(c, s)
    BY DEF MayPass
  <2>4. QED
    BY <2>1, <2>2, <2>3 DEF MayPass
<1>4. CASE c \in {"nfs", "barton", "catarina"}
  <2>1. /\ Len(Stanzas(c)) = 5 /\ Stanzas(c)[1] = "setup_local" /\ Stanzas(c)[2] = "swtpm"
        /\ Stanzas(c)[3] = "attester" /\ Stanzas(c)[4] \in {"nfsd", "mounter"}
        /\ Stanzas(c)[5] \in {"nfsd", "sshd"}
    BY <1>4 DEF Stanzas, Cotenant, CotenantStanzas
  <2>2. j \in {1, 2, 3, 4, 5} /\ c \in Cotenant
    BY <1>4, <2>1 DEF Cotenant
  <2>3. \A s \in {"setup_local", "swtpm", "sshd", "nfsd", "mounter"} : MayPass(c, s)
    BY DEF MayPass
  <2>4. QED
    BY <2>1, <2>2, <2>3 DEF MayPass
<1>5. QED
  BY <1>1, <1>2, <1>3, <1>4 DEF Attested

\* What the driver has seen to before it waits for a host.
FleetIsUp ==
    /\ FleetUps \subseteq up /\ Managed \subseteq enrolled
    /\ Past("kdc_secondary", "webapi")

Moves == CanReplicate \/ \E c \in Container : CanLaunch(c)

\* The two KDCs, of which the secondary has been seen to serve.
LEMMA RealmMoves ==
    ASSUME PassedOK, AllWell, dropped = {}, FleetIsUp, ~replicated
    PROVE  Moves
<1>a. /\ gone = {} /\ tpm = Managed /\ \A c, s : Serves(c, s) <=> Past(c, s)
  BY DEF AllWell, Serves
<1>0. {"attestsvc", "kdc_primary", "kdc_primary_tpm", "kdc_secondary"} \subseteq up \cap Container
  BY DEF FleetIsUp, FleetUps, Container, Managed, Sidecar, TpmOf
<1>1. \A c \in {"kdc_primary", "kdc_secondary"} :
         /\ Len(Stanzas(c)) = 6 /\ Stanzas(c)[1] = "attester" /\ Stanzas(c)[6] = "iprop"
         /\ Stanzas(c)[4] = "webapi"
  BY DEF Cotenant, Stanzas, KdcsvcStanzas
<1>2. CASE ~Past("kdc_secondary", "iprop")
  <2>1. passed["kdc_secondary"] \in Nat \ {0}
    BY <1>0 DEF FleetIsUp, Past, PassedOK
  <2>2. \A j \in 1..6 : passed["kdc_secondary"] + 1 = j
                            => MayPass("kdc_secondary", Stanzas("kdc_secondary")[j])
    BY <1>1, <2>1, WaitsFor DEF Cotenant
  <2>3. CanLaunch("kdc_secondary")
    BY <1>a, <1>0, <1>1, <1>2, <2>2, NextLaunches
  <2>4. QED
    BY <1>0, <2>3 DEF Moves
<1>3. CASE ~Past("kdc_primary", "iprop")
  <2>1. CASE \A j \in 1..6 : passed["kdc_primary"] + 1 = j
                                 => MayPass("kdc_primary", Stanzas("kdc_primary")[j])
    <3>1. CanLaunch("kdc_primary")
      BY <1>a, <1>0, <1>1, <1>3, <2>1, NextLaunches
    <3>2. QED
      BY <1>0, <3>1 DEF Moves
  <2>2. CASE ~Attestable("kdc_primary")
    <3>1. "kdc_primary" \in enrolled /\ "kdc_primary" \notin Keytab /\ "kdc_primary" \in Sidecar \cap tpm
          /\ TpmOf["kdc_primary"] = "kdc_primary_tpm"
      BY <1>a DEF FleetIsUp, Managed, Sidecar, Keytab, TpmOf
    <3>2. ~TpmServed("kdc_primary") \/ ~Past("attestsvc", "webapi")
      BY <1>a, <2>2, <3>1 DEF Attestable
    <3>3. TpmServed("kdc_primary") <=> Past("kdc_primary_tpm", "swtpm")
      BY <1>a, <3>1 DEF TpmServed, Sidecar, Cotenant
    <3>4. CanLaunch("kdc_primary_tpm") \/ CanLaunch("attestsvc")
      BY <1>a, <1>0, <3>1, <3>2, <3>3, TpmLaunches, AttestsvcLaunches
    <3>5. QED
      BY <1>0, <3>4 DEF Moves
  <2>3. QED
    BY <1>1, <2>1, <2>2, WaitsFor
<1>4. QED
  BY <1>a, <1>2, <1>3 DEF CanReplicate, Moves

\* A host that the driver waits for, with a fleet that is up.
LEMMA HostMoves ==
    ASSUME PassedOK, AllWell, dropped = {}, FleetIsUp,
           NEW c \in Attested \cap up, c = "hostside" => c \in enrolled,
           passed[c] # Len(Stanzas(c))
    PROVE  Moves
<1> DEFINE j == passed[c] + 1
<1>a. /\ gone = {} /\ tpm = Managed /\ \A d, s : Serves(d, s) <=> Past(d, s)
  BY DEF AllWell, Serves
<1>1. c \in Container /\ passed[c] \in Nat /\ j \in 1..Len(Stanzas(c))
  <2>1. c \in Container
    BY DEF Attested, Container, Managed, Sidecar, Cotenant
  <2>2. QED
    BY <2>1, StanzasAre DEF PassedOK
<1>2. CASE MayPass(c, Stanzas(c)[j])
  BY <1>a, <1>1, <1>2 DEF CanLaunch, Moves
<1>3. CASE ~MayPass(c, Stanzas(c)[j])
  <2>1. /\ ~Attestable(c)
        /\ c \in Cotenant => j = 3 /\ Stanzas(c)[2] = "swtpm"
    BY <1>1, <1>3, WaitsFor
  <2>2. c \in enrolled
    BY DEF FleetIsUp, Attested, Managed, Sidecar, Cotenant
  <2>3. CASE ~TpmServed(c)
    <3>1. CASE c \in Cotenant
      <4>1. 2 \in 1..passed[c]
        BY <1>1, <2>1, <3>1
      <4>2. Past(c, "swtpm") /\ c \in tpm /\ c \notin Sidecar
        BY <1>a, <2>1, <3>1, <4>1 DEF Past, Managed, Cotenant, Sidecar
      <4>3. QED
        BY <1>a, <2>3, <3>1, <4>2 DEF TpmServed
    <3>2. CASE c = "shell"
      <4>1. TpmOf[c] = "shell_tpm" /\ c \in Sidecar \cap tpm /\ "shell_tpm" \in up \cap Container
        BY <1>a, <3>2 DEF FleetIsUp, FleetUps, Managed, Sidecar, TpmOf, Container
      <4>2. ~Past("shell_tpm", "swtpm")
        BY <1>a, <2>3, <3>2, <4>1 DEF TpmServed, Sidecar, Cotenant
      <4>3. QED
        BY <1>a, <4>1, <4>2, TpmLaunches DEF Moves
    <3>3. CASE c = "hostside"
      BY <2>3, <3>3 DEF TpmServed, Sidecar, Cotenant
    <3>4. QED
      BY <3>1, <3>2, <3>3 DEF Attested, Cotenant
  <2>4. CASE ~Past("attestsvc", "webapi")
    <3>1. "attestsvc" \in up \cap Container
      BY DEF FleetIsUp, FleetUps, Container
    <3>2. QED
      BY <1>a, <2>4, <3>1, AttestsvcLaunches DEF Moves
  <2>5. CASE ~replicated
    BY <2>5, RealmMoves
  <2>6. QED
    BY <1>a, <2>1, <2>2, <2>3, <2>4, <2>5 DEF Attestable, KeytabsServed, FleetIsUp
<1>4. QED
  BY <1>2, <1>3

LEMMA WaitMovesOn ==
    ASSUME BringupInv, PassedOK, AllWell, Doing("wait"), Target \in up, ~Announced(Target)
    PROVE  Moves
<1> DEFINE c == Target
<1>1. ended = "no" /\ at <= Len(Script) /\ Script[at].do = "wait" /\ Script[at].c = c
  BY DEF Doing, Target
<1>2. FleetTypeOK /\ FleetOK /\ EffectsOK
  BY <1>1 DEF BringupInv
<1>3. c \in Attested
  BY <1>1, <1>2, StepIs DEF Doable, Step
<1>4. dropped = {}
  BY <1>2, WellDropsNone
<1>5. \A y \in Needs(Script[at]) : Effect(y)
  BY <1>1, <1>2, NeedsMet
<1>6. FleetSteps \subseteq Needs(Script[at])
  BY <1>1 DEF Needs
<1>7. FleetIsUp
  <2>1. \A d \in FleetUps : Effect(Step("up", d))
    BY <1>5, <1>6 DEF FleetSteps
  <2>2. Effect(Step("waitweb", "kdc_secondary")) /\ Effect(Step("enroll", "all"))
    BY <1>5, <1>6 DEF FleetSteps
  <2>3. QED
    BY <2>1, <2>2 DEF Effect, Step, FleetIsUp
<1>8. ASSUME c = "hostside"
      PROVE  c \in enrolled
  <2>1. Step("enroll", "hostside") \in Needs(Script[at])
    BY <1>1, <1>8 DEF Needs
  <2>2. QED
    BY <1>5, <1>8, <2>1 DEF Effect, Step
<1>9. QED
  BY <1>3, <1>4, <1>7, <1>8, HostMoves DEF Announced

LEMMA WaitEkMovesOn ==
    ASSUME BringupInv, PassedOK, AllWell, Doing("waitek"), ~Past(TpmOf[Target], "swtpm")
    PROVE  Moves
<1>1. ended = "no" /\ at <= Len(Script) /\ Script[at].do = "waitek" /\ Script[at].c = Target
  BY DEF Doing, Target
<1>2. FleetTypeOK /\ FleetOK /\ EffectsOK
  BY <1>1 DEF BringupInv
<1>3. Target = "enrollsvc"
  BY <1>1, <1>2, StepIs DEF Doable, Step
<1>4. Step("up", "enrollsvc_tpm") \in Needs(Script[at])
  BY <1>1 DEF Needs
<1>5. "enrollsvc_tpm" \in up
  BY <1>1, <1>2, <1>4, NeedsMet DEF Effect, Step
<1>6. dropped = {} /\ gone = {} /\ tpm = Managed
  BY <1>2, WellDropsNone DEF AllWell
<1>7. TpmOf[Target] = "enrollsvc_tpm" /\ Target \in Sidecar \cap tpm /\ TpmOf[Target] \in Container
  BY <1>3, <1>6 DEF TpmOf, Sidecar, Managed, Container
<1>8. CanLaunch(TpmOf[Target])
  BY <1>5, <1>6, <1>7, TpmLaunches
<1>9. QED
  BY <1>7, <1>8 DEF Moves

LEMMA PassedHolds == BringupSpec => []PassedOK
<1>1. BringupInit => PassedOK
  BY StanzasAre DEF BringupInit, PassedOK
<1>2. PassedOK /\ [BringupNext]_bvars => PassedOK'
  BY StepIsSupervised DEF Container
<1>3. QED
  BY <1>1, <1>2, PTL DEF BringupSpec

\* If all is well, whatever the driver waits for, some launcher or the
\* replication can still move on: the driver, the launchers that block on attestation,
\* the attestation that needs the KDCs and the KDCs that have to be attested
\* themselves never wait for each other in a circle (main-test.py's order of steps).
THEOREM NoCircleOfWaiting == BringupSpec => []MovesOn
<1>1. BringupInv /\ PassedOK => MovesOn
  BY WaitMovesOn, WaitEkMovesOn DEF MovesOn, DriverWaits, Moves
<1>2. QED
  BY <1>1, EffectsHold, PassedHolds, PTL

LEMMA DriverCounts ==
    ASSUME BringupInv, ended = "no", at > 1, Driver
    PROVE  Counts /\ UNCHANGED tpm
<1>1. FleetTypeOK
  BY DEF BringupInv
<1>2. Len(Script) \in Nat /\ at \in Nat
  BY <1>1, ScriptIs DEF WellFormed, FleetTypeOK
<1>3. ~Create
  BY <1>1, StepIs DEF Create, Doing, Doable, Step
<1>4. CASE Success
  BY <1>4 DEF Success, Counts, fleet
<1>5. ASSUME ~Success
      PROVE  /\ at <= Len(Script) /\ UNCHANGED <<passed, replicated, tpm>>
             /\ Done \/ ended' # "no"
  BY <1>3, <1>5 DEF Driver, Up, WaitEkPub, Enroll, WaitWeb, Wait, Test, Doing, fleet, Fail
<1>6. QED
  BY <1>2, <1>4, <1>5 DEF Counts, Done

LEMMA StepCounts ==
    ASSUME BringupInv, PassedOK, ended = "no", at > 1, AllWell, BringupNext
    PROVE  gone' # {} \/ (Counts /\ UNCHANGED tpm) \/ UNCHANGED bvars
<1>1. dropped = {} /\ ~(\E c : Lost(c)) /\ tpm = Managed /\ replicated \in BOOLEAN
  BY WellDropsNone DEF BringupInv, FleetTypeOK, AllWell, Lost
<1>2. CASE Driver
  BY <1>2, DriverCounts
<1>3. CASE Replicate
  BY <1>3 DEF Replicate, Counts, bvars, fleet
<1>4. ASSUME NEW c \in Container, Launch(c)
      PROVE  Counts /\ UNCHANGED tpm
  BY <1>4 DEF Launch, Counts
<1>5. ASSUME NEW c \in Container, Drops(c) \/ Ends(c)
      PROVE  FALSE
  BY <1>1, <1>5 DEF Drops, Ends, Managed
<1>6. ASSUME NEW c \in Container, Crash(c)
      PROVE  gone' # {}
  BY <1>6 DEF Crash
<1>7. QED
  BY <1>2, <1>3, <1>4, <1>5, <1>6 DEF BringupNext, Cleanup, Own

\* Each step of a bring-up that goes well uses up one of a bounded number.  With
\* NoCircleOfWaiting, only that a step that stays possible is taken at last is
\* missing to its end (BringupEnds).
THEOREM EachStepCounts == BringupSpec => StepsCount
<1>1. BringupInv /\ PassedOK /\ [BringupNext]_bvars =>
         [ended = "no" /\ at > 1 /\ AllWell => gone' # {} \/ (Counts /\ UNCHANGED tpm)]_bvars
  BY StepCounts
<1>2. QED
  BY <1>1, EffectsHold, PassedHolds, PTL DEF BringupSpec, StepsCount

=============================================================================
