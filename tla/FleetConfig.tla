----------------------------- MODULE FleetConfig -----------------------------
(***************************************************************************)
(* From the fleet file to what a container runs: usecase/fleet.py writes    *)
(* the configurations of a host, each a program for gson's mutater          *)
(* (hcp/python/gson/mutater.py); the launcher of each container runs that   *)
(* program, takes out what is not a service, and lifts the stanzas that     *)
(* are nested in other stanzas (module Lifting, of which Clash is Union     *)
(* here; hcp/python/hcp/tool/launcher.py).                                  *)
(*                                                                         *)
(* The prototypes of usecase/proto/ are kept to the keys by which they      *)
(* depend on variables and on each other.  Python's dicts are ordered: the  *)
(* order in which variables are tried is any of Orders, and that in which   *)
(* the launcher comes by the stanzas is any at all.                         *)
(***************************************************************************)
EXTENDS Gson, Lifting, FiniteSets, TLC

CONSTANTS
    Inputs,    \* fleet files: objects with "vars" and "fleet"
    Orders     \* sequences of the names of all variables

Lit(x) == <<"lit", x>>
Ref(k) == <<"ref", k>>
Text(x) == Str(<<Lit(x)>>)
Num(n) == <<"num", n>>

Root == Dict([env |-> Dict([PYTHONPATH |-> Text("/hcp/python")])])

Defaults == Dict(
    [attester_api |-> Str(<<Lit("https://attestsvc."), Ref("domain")>>),
     kdcsvc_dir |-> Text("/kdc_primary"),
     kdcsvc_realm |-> Str(<<Ref("realm")>>),
     kdcsvc_secondaries |-> List(<<>>),
     kdcsvc_policyurl |-> None,
     sshd_xtra |-> List(<<Text("# GSSAPIStoreNonAn2Ln yes")>>),
     webapi_fqdn |-> Str(<<Ref("hostname")>>),
     webapi_https_certificate |-> Str(<<Lit("/assets/https-server-"), Ref("hostname")>>),
     webapi_touchfile |-> Str(<<Ref("webapi_https_certificate")>>),
     webapi_uwsgi_env |-> Dict(<<>>)])

Stanza(priority, exec, more) ==
    Dict([priority |-> Num(priority), exec |-> Text(exec)] @@ more)

Proto ==
    [enrollsvc |-> Dict([vars |-> Dict([webapi_app |-> Text("backend/enrollsvc.py")]),
                         waitdb |-> Stanza(20, "waitTouchfile.py",
                                           [block |-> Text("/backend/.db-created")])]),
     kdcsvc |-> Dict([kdcsvc |-> Dict(
        [state |-> Str(<<Ref("kdcsvc_dir")>>),
         secondaries |-> Str(<<Ref("kdcsvc_secondaries")>>),
         policy_url |-> Str(<<Ref("kdcsvc_policyurl")>>),
         toplevel |-> Dict(
            [setup_global |-> Stanza(20, "setup_global.sh",
                 [block |-> Str(<<Ref("kdcsvc_dir"), Lit("/initialized")>>)]),
             setup_local |-> Stanza(40, "setup_local.sh",
                 [block |-> Str(<<Lit("/tmp/touch-"), Ref("kdcsvc_realm")>>)])])])]),
     webapi |-> Stanza(60, "webapi.py",
        [servername |-> Str(<<Ref("webapi_fqdn")>>),
         app |-> Str(<<Ref("webapi_app")>>),
         https |-> Dict([certificate |-> Str(<<Ref("webapi_https_certificate")>>)]),
         uwsgi_env |-> Str(<<Ref("webapi_uwsgi_env")>>)]),
     attester |-> Stanza(10, "attester.py", [api |-> Str(<<Ref("attester_api")>>)]),
     sshd |-> Stanza(70, "sshd.py", [xtra |-> Str(<<Ref("sshd_xtra")>>)]),
     qemu |-> Stanza(90, "/qemu_run.sh", <<>>),
     tpm_cotenant |-> Stanza(5, "swtpm.py",
        [state |-> Str(<<Lit("/tpm_"), Ref("id")>>),
         sockdir |-> Str(<<Lit("/tpmsocket_"), Ref("id")>>),
         toplevel |-> Dict([setup_local |-> Stanza(4, "mkdir",
             [block |-> Str(<<Lit("/tpmsocket_"), Ref("id")>>)])])]),
     tpm_sidecar |-> Stanza(50, "swtpm.py",
        [state |-> Str(<<Lit("/tpm_"), Ref("machine")>>),
         sockdir |-> Str(<<Lit("/tpmsocket_"), Ref("machine")>>),
         toplevel |-> Dict([tpm_setup |-> Stanza(10, "waitTouchfile.py",
             [block |-> Str(<<Lit("/tpm_"), Ref("machine"), Lit("/tpm/ek.pub")>>)])])]),
     env_tpm2tools |-> Dict([TPM2TOOLS_TCTI |->
         Str(<<Lit("swtpm:path="), Lit("/tpmsocket_"), Ref("id"), Lit("/tpm")>>)]),
     env_krb5 |-> Dict([KRB5_CONFIG |-> Text("/assets/krb5.conf")]),
     root |-> Root,
     defaults |-> Defaults]

-----------------------------------------------------------------------------
(* usecase/fleet.py: the steps that it writes under 'mutate' *)

Opt(j, k, default) == IF Has(j, k) THEN Val(j)[k] ELSE default

LoadAt(reg, path, file) ==
    [method |-> "load", register |-> reg, regpath |-> path, file |-> file]
SetAt(reg, value) == [method |-> "set", register |-> reg, regpath |-> <<>>, value |-> value]
UnionAt(path, src, underlay) ==
    [method |-> "union", register |-> "output", regpath |-> path,
     srcregister |-> src, underlay |-> underlay]
ExpandAll == [method |-> "expand", register |-> "output"]

\* What a host does not say, the entry __default__ says.
HostData(in, id) ==
    LET fleet == Val(in)["fleet"]
        h == Union(Val(fleet)["__default__"], Val(fleet)[id])
    IN With(With(h, "hostname", Opt(h, "hostname", Text("nada"))),
            "tpm", Opt(h, "tpm", Text("sidecar")))

TpmMode(data) == Val(Val(data)["tpm"])[1][2]

Hosts(input) == Keys(Val(input)["fleet"]) \ {"__default__"}

Kinds(data) ==
    {"host"} \cup (IF Has(data, "vm") THEN {"runner"} ELSE {})
             \cup (IF TpmMode(data) = "sidecar" THEN {"tpm"} ELSE {})

\* A service's variable k is the host's variable service_k.
ServiceVars(services) ==
    LET Named == {p \in Keys(services) \X UNION {Keys(Val(services)[s]) :
                          s \in {t \in Keys(services) : IsDict(Val(services)[t])}} :
                      Has(Val(services)[p[1]], p[2])}
        Name(p) == p[1] \o "_" \o p[2]
    IN [n \in {Name(p) : p \in Named} |->
           LET p == CHOOSE p \in Named : Name(p) = n IN Val(Val(services)[p[1]])[p[2]]]

RootProto(data) == Opt(data, "rootproto", Dict(<<>>))
Services(data) == Opt(data, "services", Dict(<<>>))

\* A host's own configuration has all of the fleet's variables, the others these.
FleetVars(input) ==
    [k \in {"domain", "realm"} |-> Val(Val(input)["vars"])[k]]

BaseVars(input, host, data) ==
    [id |-> Text(host), hostname |-> Val(data)["hostname"]] @@ FleetVars(input)

\* Mutant: the sidecar does not know the host by its own name.
TpmVarsOwn(input, host, data) ==
    [id |-> Text("tpm." \o host), machine |-> Text("tpm." \o host)]
        @@ FleetVars(input)

TpmVars(input, host, data) ==
    [id |-> Text("tpm." \o host), machine |-> Text(host),
     hostname |-> Str(<<Lit("tpm.")>> \o Val(Val(data)["hostname"]))]
        @@ FleetVars(input)

Vars(input, host, data, kind) ==
    IF kind = "tpm" THEN TpmVars(input, host, data)
    ELSE IF kind = "runner" THEN BaseVars(input, host, data)
    ELSE ServiceVars(Services(data)) @@ ServiceVars(RootProto(data))
             @@ BaseVars(input, host, data) @@ Val(Val(input)["vars"])

\* What is copied from the entry to the configuration as it is.
Copied(data) ==
    [k \in Keys(data) \cap {"args_for", "result_from", "foreground"} |-> Val(data)[k]]

Origin(input, host, data, kind) ==
    Dict([vars |-> Dict(Vars(input, host, data, kind))]
             @@ (IF kind = "host" THEN Copied(data) ELSE <<>>))

WithDefaults == <<LoadAt("d", <<>>, "defaults"), UnionAt(<<"vars">>, "d", TRUE)>>

EnvNames(data) == Val(Opt(data, "env", List(<<>>)))

Script(host, data, kind) ==
    LET Root0 == <<LoadAt("output", <<>>, "root"), UnionAt(<<>>, "origin", FALSE)>>
        Each(keys, Steps(_)) == FlattenSeq([i \in DOMAIN keys |-> Steps(keys[i])])
    IN CASE kind = "tpm" ->
              Root0 \o WithDefaults
                  \o <<LoadAt("output", <<"swtpm">>, "tpm_sidecar"), ExpandAll>>
         [] kind = "runner" ->
              LET vm == Val(Val(data)["vm"])[1][2]
              IN Root0 \o WithDefaults
                  \o <<LoadAt("output", <<vm>>, vm),
                       SetAt("e", Dict([VM_HCP_CONFIG_MUTATE |-> Text(host)])),
                       UnionAt(<<"env">>, "e", FALSE), ExpandAll>>
         [] OTHER ->
              Root0
                  \o Each(SetToSeq(Keys(RootProto(data))),
                          LAMBDA s : <<LoadAt("a", <<>>, s), UnionAt(<<>>, "a", FALSE)>>)
                  \o WithDefaults
                  \o (IF TpmMode(data) = "cotenant"
                      THEN <<LoadAt("output", <<"swtpm">>, "tpm_cotenant")>> ELSE <<>>)
                  \o Each(SetToSeq(Keys(Services(data))),
                          LAMBDA s : <<LoadAt("output", <<s>>, s)>>)
                  \o Each(EnvNames(data),
                          LAMBDA e : <<LoadAt("e", <<>>, "env_" \o Val(e)[1][2]),
                                       UnionAt(<<"env">>, "e", FALSE)>>)
                  \o <<ExpandAll>>

-----------------------------------------------------------------------------
VARIABLES
    input, order,   \* the fleet file, expanded, and the order variables are tried in
    host,           \* the host whose containers are started
    kind,           \* the container that is being configured, or "none"
    todo,           \* what is left of its script
    registers,      \* of the mutater
    env,            \* the launcher's environment, once it has it
    launched        \* by kind: the configurations that were launched

vars == <<input, order, host, kind, todo, registers, env, lifting, launched>>
choice == <<input, order, host>>
launcher == <<env, lifting>>

Data == HostData(input, host)
NoStanzas == Dict(<<>>)
NoRegisters == [r \in {"origin", "output", "a", "d", "e"} |-> None]

Init ==
    /\ order \in Orders
    /\ input \in {Expand(i, <<>>, order) : i \in Inputs}
    /\ host \in Hosts(input)
    /\ kind = "none"
    /\ todo = <<>>
    /\ registers = NoRegisters
    /\ env = None
    /\ given = NoStanzas /\ config = NoStanzas
    /\ left = {} /\ popped = FALSE /\ lifted = {}
    /\ launched = <<>>

\* fleet.py writes the file, a container starts with it.
Start(k) ==
    /\ kind = "none"
    /\ k \in Kinds(Data) \ DOMAIN launched
    /\ kind' = k
    /\ todo' = Script(host, Data, k)
    /\ registers' = [NoRegisters EXCEPT !["origin"] = Origin(input, host, Data, k)]
    /\ UNCHANGED <<choice, launcher, launched>>

\* One step of the mutater, which leaves value v in its register.
Step(method, v) ==
    /\ kind # "none" /\ todo # <<>>
    /\ Head(todo).method = method
    /\ registers' = [registers EXCEPT ![Head(todo).register] = v]
    /\ todo' = Tail(todo)
    /\ UNCHANGED <<choice, kind, launcher, launched>>

Old == registers[Head(todo).register]

Load == Step("load", PathSet(Old, Head(todo).regpath, Proto[Head(todo).file]))
Set == Step("set", PathSet(Old, Head(todo).regpath, Head(todo).value))
Merge == Step("union", PathUnion(Old, Head(todo).regpath,
                                 registers[Head(todo).srcregister], Head(todo).underlay))
ExpandStep == Step("expand", Expand(Old, <<>>, order))

NotStanzas == {"env", "args_for", "result_from", "foreground", "_", "vars"}

\* Mutant: what has nothing to run is dropped before the nested stanzas are lifted.
TakeOutEarly ==
    /\ kind # "none" /\ todo = <<>> /\ env = None
    /\ env' = Opt(registers["output"], "env", NoStanzas)
    /\ given' = Without(registers["output"], NotStanzas)
    /\ config' = Without(given', {k \in Keys(given') : ~Has(Val(given')[k], "exec")})
    /\ popped' = TRUE /\ lifted' = {}
    /\ UNCHANGED <<choice, kind, todo, registers, left, launched>>

TakeOut ==
    /\ kind # "none" /\ todo = <<>> /\ env = None
    /\ env' = Opt(registers["output"], "env", NoStanzas)
    /\ given' = Without(registers["output"], NotStanzas) /\ config' = given'
    /\ popped' = TRUE /\ lifted' = {}
    /\ UNCHANGED <<choice, kind, todo, registers, left, launched>>

LiftStep(A) == A /\ UNCHANGED <<choice, kind, todo, registers, env, launched>>

\* It notes each stanza's name.  Which of them it starts, and in what order, is left to
\* module Launcher.
Launch ==
    /\ env # None /\ left = {} /\ ~popped
    /\ launched' = kind :> [env |-> env, stanzas |-> config] @@ launched
    /\ kind' = "none"
    /\ env' = None
    /\ given' = NoStanzas /\ config' = NoStanzas /\ lifted' = {}
    /\ registers' = NoRegisters
    /\ UNCHANGED <<choice, todo, left, popped>>

AllLaunched == kind = "none" /\ DOMAIN launched = Kinds(Data) /\ UNCHANGED vars

Next ==
    \/ \E k \in {"host", "runner", "tpm"} : Start(k)
    \/ Load \/ Set \/ Merge \/ ExpandStep
    \/ TakeOut \/ LiftStep(Pass) \/ Launch
    \/ \E k \in left : LiftStep(ComeBy(k))
    \/ AllLaunched

Spec == Init /\ [][Next]_vars

-----------------------------------------------------------------------------
(* What it is all for *)

\* The paths of an object to what is not an object.
RECURSIVE Leaves(_)
Leaves(j) ==
    IF IsDict(j) /\ Keys(j) # {}
    THEN UNION {{<<k>> \o p : p \in Leaves(Val(j)[k])} : k \in Keys(j)}
    ELSE {<<>>}

\* What the script lays over each other, the lowest first.
Layers ==
    LET data == Data
        At(k, j) == Dict(k :> j)
        All(keys, Of(_)) == [i \in DOMAIN keys |-> Of(keys[i])]
        base == <<At("vars", Defaults), Root, Origin(input, host, data, kind)>>
    IN CASE kind = "tpm" -> base \o <<At("swtpm", Proto.tpm_sidecar)>>
         [] kind = "runner" ->
              LET vm == Val(Val(data)["vm"])[1][2]
              IN base \o <<At(vm, Proto[vm]),
                           At("env", Dict([VM_HCP_CONFIG_MUTATE |-> Text(host)]))>>
         [] OTHER ->
              base \o All(SetToSeq(Keys(RootProto(data))), LAMBDA s : Proto[s])
                   \o (IF TpmMode(data) = "cotenant"
                       THEN <<At("swtpm", Proto.tpm_cotenant)>> ELSE <<>>)
                   \o All(SetToSeq(Keys(Services(data))), LAMBDA s : At(s, Proto[s]))
                   \o All(EnvNames(data),
                          LAMBDA e : At("env", Proto["env_" \o Val(e)[1][2]]))

\* At path p: the uppermost layer's value, or all of them if they are lists.
Highest(layers, p) ==
    LET there == SelectSeq(layers, LAMBDA j : p \in Leaves(j))
        values == [i \in DOMAIN there |-> PathGet(there[i], p)]
    IN IF \A i \in DOMAIN values : Type(values[i]) = "list"
       THEN List(FlattenSeq([i \in DOMAIN values |-> Val(values[i])]))
       ELSE values[Len(values)]

(* When the mutater comes to expand, the configuration is every layer's: a    *)
(* prototype that a host names as its root overrules the host's own          *)
(* settings, which overrule the defaults, and nothing that any of them says   *)
(* is lost (fleet.py's order of steps, path_union's underlay, union).         *)
Layered ==
    kind # "none" /\ todo = <<ExpandAll>> =>
        LET layers == Layers
            out == registers["output"]
            said == UNION {Leaves(layers[i]) : i \in DOMAIN layers}
        IN /\ Leaves(out) = {p \in said : ~\E q \in said : IsStrictPrefix(p, q)}
           /\ \A p \in Leaves(out) : PathGet(out, p) = Highest(layers, p)

\* What a value means: its variables are what they mean.
RECURSIVE Embedded(_, _)
Embedded(atoms, defs) ==
    FlattenSeq([i \in DOMAIN atoms |->
        LET k == atoms[i][2]
        IN IF atoms[i][1] = "ref" /\ k \in DOMAIN defs /\ Type(defs[k]) = "str"
           THEN Embedded(Val(defs[k]), defs) ELSE <<atoms[i]>>])

RECURSIVE Meaning(_, _)
Meaning(j, defs) ==
    CASE Type(j) = "str" ->
            IF Len(Val(j)) = 1 /\ Val(j)[1][1] = "ref" /\ Val(j)[1][2] \in DOMAIN defs
            THEN Meaning(defs[Val(j)[1][2]], defs)
            ELSE Str(Embedded(Val(j), defs))
      [] Type(j) = "list" -> List([i \in DOMAIN Val(j) |-> Meaning(Val(j)[i], defs)])
      [] OTHER -> j

(* Expansion leaves every value as what it means, in whichever order the      *)
(* variables are tried and however long the chain of variables that it hangs  *)
(* from: lists, objects and null arrive as such (expander.py).                *)
Resolved ==
    [][ExpandStep =>
         LET old == registers["output"]
             new == registers'["output"]
         IN \A p \in Leaves(old) :
                PathGet(new, p) = Meaning(PathGet(old, p), Val(Val(old)["vars"]))]_vars

(* The tools of a host find the socket of the host's own TPM, whether its     *)
(* swtpm runs beside them or in a container of its own, and the state of that *)
(* TPM and the socket are on the volumes that fleet.py gives the container.   *)
Volumes(k) ==
    LET Of(name) == {Str(<<Lit(name), Lit(host)>>)}
    IN IF k = "tpm" THEN Of("/tpm_") \cup Of("/tpmsocket_")
       ELSE IF TpmMode(Data) = "cotenant" THEN Of("/tpm_")
       ELSE IF TpmMode(Data) = "sidecar" THEN Of("/tpmsocket_") ELSE {}

TpmFound ==
    kind = "none" /\ DOMAIN launched = Kinds(Data) =>
        \A k \in DOMAIN launched \ {"runner"} :
            LET stanzas == Val(launched[k].stanzas)
                sock == Val(stanzas["swtpm"])["sockdir"]
                made == {Val(stanzas[s])["block"] : s \in {"setup_local"} \cap DOMAIN stanzas}
                tcti == Val(launched["host"].env)
            IN "swtpm" \in DOMAIN stanzas =>
                 /\ Val(stanzas["swtpm"])["state"] \in Volumes(k)
                 /\ sock \in Volumes(k) \cup made
                 /\ k # "host" => sock \in Volumes("host")
                 /\ "TPM2TOOLS_TCTI" \in DOMAIN tcti =>
                       tcti["TPM2TOOLS_TCTI"] =
                         Str(<<Lit("swtpm:path=")>> \o Val(sock) \o <<Lit("/tpm")>>)

=============================================================================
