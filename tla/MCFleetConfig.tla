--------------------------- MODULE MCFleetConfig ---------------------------
(***************************************************************************)
(* Fleets of one host each, after the kinds of host of                      *)
(* usecase/main-fleet.json; a fleet's own variables include a chain that is *)
(* longer than the defaults'.                                               *)
(***************************************************************************)
EXTENDS FleetConfig

Null == None
Fqdn(h) == Str(<<Lit(h), Ref("domain")>>)
Names(s) == List([i \in DOMAIN s |-> Text(s[i])])

MCVars ==
    {Dict([realm |-> Text("XYZ"), domain |-> Text("xyz")]),
     Dict([realm |-> Str(<<Ref("site")>>), domain |-> Str(<<Lit("d."), Ref("realm")>>),
           site |-> Str(<<Ref("root"), Ref("root")>>), root |-> Text("r"),
           webapi_https_certificate |-> Str(<<Ref("id"), Ref("webapi_fqdn")>>)])}

HostEntries ==
    {Dict([hostname |-> Fqdn("enrollsvc"),
           rootproto |-> Dict([enrollsvc |-> Null]),
           services |-> Dict([attester |-> Null,
                              webapi |-> Dict([https_certificate |->
                                  Str(<<Lit("/assets/"), Ref("hostname")>>)])]),
           env |-> Names(<<"tpm2tools">>)]),
     Dict([hostname |-> Fqdn("kdc"),
           rootproto |-> Dict([kdcsvc |-> Dict(
               [secondaries |-> List(<<Fqdn("secondary"), Str(<<Ref("kdcsvc_dir")>>)>>)])]),
           services |-> Dict([webapi |-> Dict([app |-> Text("flask_api.py")]),
                              attester |-> Null]),
           env |-> Names(<<"tpm2tools", "krb5">>)]),
     Dict([hostname |-> Fqdn("auth"), tpm |-> Text("cotenant"),
           services |-> Dict([webapi |-> Dict([app |-> Text("dummy.py"),
                                               uwsgi_env |-> Dict([X |-> Fqdn("x")])]),
                              attester |-> Null]),
           env |-> Names(<<"tpm2tools", "krb5">>)]),
     Dict([hostname |-> Fqdn("nfs"), tpm |-> Text("cotenant"), vm |-> Text("qemu"),
           services |-> Dict([sshd |-> Dict([xtra |-> List(<<Fqdn("more")>>)])]),
           env |-> Names(<<"tpm2tools">>)]),
     Dict([tpm |-> Text("none"), foreground |-> Text("sshd"),
           services |-> Dict([sshd |-> Null])])}

MCInputs ==
    {Dict([vars |-> v, fleet |-> Dict("__default__" :> Dict([image |-> Text("trixie")])
                                        @@ [h1 |-> e])]) :
        v \in MCVars, e \in HostEntries}

VarNames ==
    <<"id", "machine", "hostname", "domain", "realm", "site", "root", "attester_api",
      "kdcsvc_dir", "kdcsvc_realm", "kdcsvc_secondaries", "kdcsvc_policyurl",
      "sshd_xtra", "webapi_app", "webapi_fqdn", "webapi_https_certificate",
      "webapi_touchfile", "webapi_uwsgi_env">>

MCOrders == {VarNames, Reverse(VarNames)}

=============================================================================
