------------------------------- MODULE Unseal -------------------------------
(***************************************************************************)
(* Assets on an attested host: the attester service                        *)
(* (hcp/python/hcp/svc/attester.py) runs the attestation tool              *)
(* (tool/attest.py) over and over; its unseal (api/attest.py) puts the      *)
(* assets in place one by one, and has a callback (tool/callback.py) tell   *)
(* the web server to reload the certificate it serves.  Nothing else        *)
(* coordinates the tool with the server, which starts, reloads and dies on  *)
(* its own; a run of the tool can fail or be killed between any two steps.  *)
(***************************************************************************)
EXTENDS Naturals

CONSTANTS
    Asset,        \* the names of assets
    ServerAsset,  \* the one the web server reads: https-server-<hostname>.pem
    Version,      \* their contents
    Manifests,    \* the sets of assets that a bundle can hold
    MaxFail       \* bound: failures, kills and restarts

ASSUME UnsealAssumption ==
    /\ ServerAsset \in Asset
    /\ Manifests \subseteq SUBSET Asset
    /\ {"absent", "partial"} \cap Version = {}
    /\ MaxFail \in Nat

\* 'prepared': the 'pre' callback has seen this file, and given it its owner.
Instance == [val : Version \cup {"absent", "partial"}, prepared : BOOLEAN]
NoInstance == [val |-> "absent", prepared |-> FALSE]

VARIABLES
    file,      \* file[a]: asset a, where its users find it
    tmp,       \* tmp[a]: <a>.tmp next to it
    touch,     \* <assetdir>/touch exists; what waits for assets waits for it
    pc,        \* where the tool is; "sleep" between its runs
    bundle,    \* the assets that the attestation service sent, by name
    todo,      \* those that are still to be put in place
    cur,       \* the one at hand
    notify,    \* whether the callback is to be told of it
    server,    \* the web server: a pid file tells "up" from "starting"
    loaded,    \* the certificate that it serves
    hup,       \* a SIGHUP is pending
    lost,      \* history: how the last change of ServerAsset went unsignalled
    ready,     \* history: the manifest of the last run that ended well
    failures

tool == <<file, tmp, touch, pc, bundle, todo, cur, notify, ready>>
web == <<server, loaded, hup, lost>>
uvars == <<tool, web, failures>>

UnsealInit ==
    /\ file = [a \in Asset |-> NoInstance]
    /\ tmp = [a \in Asset |-> NoInstance]
    /\ touch = FALSE
    /\ pc = "sleep" /\ bundle = <<>> /\ todo = {}
    /\ cur = ServerAsset /\ notify = FALSE
    /\ server = "down" /\ loaded = "absent" /\ hup = FALSE /\ lost = "no"
    /\ ready = {}
    /\ failures = 0

Goto(label) == pc' = label

-----------------------------------------------------------------------------
(* The tool *)

\* initiate, quote and complete, which bring a bundle of new or unchanged assets;
\* or 'attest unseal' is given the same bundle again.
Attest ==
    /\ pc = "sleep"
    /\ \E M \in Manifests : bundle' \in [M -> Version]
    /\ todo' = DOMAIN bundle'
    /\ Goto("next")
    /\ UNCHANGED <<file, tmp, touch, cur, notify, ready, web, failures>>

\* Mutant: the asset is unwrapped to the place where its users look for it.
UnwrapDirect(a) ==
    /\ pc = "next" /\ a \in todo
    /\ cur' = a
    /\ tmp' = [tmp EXCEPT ![a].val = "partial"]
    /\ file' = [file EXCEPT ![a].val = "partial"]
    /\ Goto("unwrap")
    /\ UNCHANGED <<touch, bundle, todo, notify, ready, web, failures>>

\* api_unseal has verified a signature, and copies the asset to its .tmp, which
\* a run that was killed may have left, with its owner.
Unwrap(a) ==
    /\ pc = "next" /\ a \in todo
    /\ cur' = a
    /\ tmp' = [tmp EXCEPT ![a].val = "partial"]
    /\ Goto("unwrap")
    /\ UNCHANGED <<file, touch, bundle, todo, notify, ready, web, failures>>

\* Mutant: a file that was not there before is a change, any other is none.
CompareNew ==
    /\ pc = "unwrap"
    /\ tmp' = [tmp EXCEPT ![cur].val = bundle[cur]]
    /\ notify' = (file[cur].val = "absent")
    /\ Goto(IF notify' THEN "pre" ELSE "move")
    /\ UNCHANGED <<file, touch, bundle, todo, cur, ready, web, failures>>

Compare ==
    /\ pc = "unwrap"
    /\ tmp' = [tmp EXCEPT ![cur].val = bundle[cur]]
    /\ notify' = (file[cur].val # bundle[cur])
    /\ Goto(IF notify' THEN "pre" ELSE "move")
    /\ UNCHANGED <<file, touch, bundle, todo, cur, ready, web, failures>>

Pre ==
    /\ pc = "pre"
    /\ tmp' = [tmp EXCEPT ![cur].prepared = TRUE]
    /\ Goto("move")
    /\ UNCHANGED <<file, touch, bundle, todo, cur, notify, ready, web, failures>>

\* A rename in one directory, whether or not there is something to notify of.
Move ==
    /\ pc = "move"
    /\ file' = [file EXCEPT ![cur] = tmp[cur]]
    /\ tmp' = [tmp EXCEPT ![cur] = NoInstance]
    /\ IF notify THEN Goto("post") /\ UNCHANGED todo
       ELSE Goto("next") /\ todo' = todo \ {cur}
    /\ UNCHANGED <<touch, bundle, cur, notify, ready, web, failures>>

\* The callback signals a server whose pid file it finds.
Post ==
    /\ pc = "post"
    /\ todo' = todo \ {cur}
    /\ Goto("next")
    /\ hup' = (hup \/ (cur = ServerAsset /\ server = "up"))
    /\ lost' = IF cur # ServerAsset THEN lost
               ELSE IF server = "starting" THEN "missed" ELSE "no"
    /\ UNCHANGED <<file, tmp, touch, bundle, cur, notify, ready, server, loaded,
                   failures>>

Finish ==
    /\ pc = "next" /\ todo = {}
    /\ touch' = TRUE
    /\ ready' = DOMAIN bundle
    /\ Goto("sleep")
    /\ UNCHANGED <<file, tmp, bundle, todo, cur, notify, web, failures>>

\* What becomes of the history when a run ends at this point.
Dropped ==
    lost' = IF pc = "post" /\ cur = ServerAsset THEN "dropped" ELSE lost

\* Mutant: the tool's loop goes on to the next asset when one fails.
FailOne ==
    /\ failures < MaxFail
    /\ failures' = failures + 1
    /\ pc \in {"unwrap", "pre", "post"}
    /\ todo' = todo \ {cur}
    /\ Goto("next")
    /\ Dropped
    /\ UNCHANGED <<file, tmp, touch, bundle, cur, notify, ready, server, loaded,
                   hup>>

\* Mutant: an exception ends the attester's loop.
FailForGood ==
    /\ failures < MaxFail
    /\ failures' = failures + 1
    /\ Goto("ended")
    /\ Dropped
    /\ UNCHANGED <<file, tmp, touch, bundle, todo, cur, notify, ready, server,
                   loaded, hup>>

\* An attestation is refused, a signature is wrong, the TPM does not decrypt, a
\* callback fails: the tool ends, as it does when it is killed, and the
\* attester, which takes note of neither, sleeps and runs it again.
Fail ==
    /\ failures < MaxFail
    /\ failures' = failures + 1
    /\ Goto("sleep")
    /\ Dropped
    /\ UNCHANGED <<file, tmp, touch, bundle, todo, cur, notify, ready, server,
                   loaded, hup>>

-----------------------------------------------------------------------------
(* The web server, which the launcher starts once it sees the touch file *)

ServerStart ==
    /\ server = "down" /\ touch
    /\ server' = "starting"
    /\ loaded' = file[ServerAsset].val
    /\ lost' = "no"
    /\ UNCHANGED <<tool, hup, failures>>

\* It writes its pid file after it has read the certificate.
ServerUp ==
    /\ server = "starting"
    /\ server' = "up"
    /\ UNCHANGED <<tool, loaded, hup, lost, failures>>

ServerReload ==
    /\ server = "up" /\ hup
    /\ hup' = FALSE
    /\ loaded' = file[ServerAsset].val
    /\ lost' = "no"
    /\ UNCHANGED <<tool, server, failures>>

\* The container stops and starts again, on the same files.
Restart ==
    /\ failures < MaxFail
    /\ failures' = failures + 1
    /\ Goto("sleep")
    /\ server' = "down" /\ hup' = FALSE
    /\ UNCHANGED <<file, tmp, touch, bundle, todo, cur, notify, ready, loaded,
                   lost>>

-----------------------------------------------------------------------------

ToolStep ==
    \/ Attest \/ (\E a \in Asset : Unwrap(a)) \/ Compare \/ Pre \/ Move \/ Post
    \/ Finish

ServerStep == ServerStart \/ ServerUp \/ ServerReload

UnsealNext == ToolStep \/ ServerStep \/ Fail \/ Restart

\* The attester's loop never ends, and the server's process runs.
UnsealSpec ==
    /\ UnsealInit /\ [][UnsealNext]_uvars
    /\ WF_uvars(ToolStep) /\ WF_uvars(ServerStep)

-----------------------------------------------------------------------------

\* Once the touch file is there, the assets it was made for are there, whole,
\* and stay so while later runs of the tool replace them, fail or are killed.
InstalledWhole == touch => \A a \in ready : file[a].val \in Version

\* A run that ends well has put in place everything that was sent, whatever runs
\* before it left undone; and new content is put in place only after the 'pre'
\* callback has seen it, whatever .tmp file a run before left.
SuccessInstalls ==
    [][/\ Finish => \A a \in DOMAIN bundle : file[a].val = bundle[a]
       /\ \A a \in Asset :
            file'[a].val # file[a].val => file'[a].prepared]_uvars

\* The server serves the certificate that is in place, but for signals that are
\* still pending, and for a change that a run which died, or a server without
\* a pid file, kept from being signalled.
ServerCurrent ==
    server # "down" /\ ~hup /\ lost = "no"
        /\ ~(pc = "post" /\ cur = ServerAsset)
      => loaded = file[ServerAsset].val

\* As long as failures end some time, assets are in place some time.
EventuallyReady == <>touch

=============================================================================
