----------------------------- MODULE UnsealProofs -----------------------------
(***************************************************************************)
(* What the order of unseal's steps buys -- copy, compare, 'pre', rename,   *)
(* 'post' -- for any assets, contents and manifests, and however often runs *)
(* of the tool fail or are killed: by induction on what each step has done. *)
(***************************************************************************)
EXTENDS Unseal, TLAPS

UnsealTypeOK ==
    /\ file \in [Asset -> Instance] /\ tmp \in [Asset -> Instance]
    /\ touch \in BOOLEAN
    /\ pc \in {"sleep", "next", "unwrap", "pre", "move", "post"}
    /\ DOMAIN bundle \subseteq Asset /\ \A a \in DOMAIN bundle : bundle[a] \in Version
    /\ cur \in Asset /\ notify \in BOOLEAN
    /\ ready \subseteq Asset
    /\ server \in {"down", "starting", "up"} /\ hup \in BOOLEAN

\* What the tool has done by the time that it is at pc.
Done ==
    /\ todo \subseteq DOMAIN bundle
    /\ pc \in {"unwrap", "pre", "move", "post"} => cur \in todo
    /\ pc \in {"pre", "move"} =>
          tmp[cur].val = bundle[cur] /\ (notify <=> file[cur].val # bundle[cur])
    /\ pc = "move" /\ notify => tmp[cur].prepared
    /\ pc = "post" => file[cur].val = bundle[cur]
    /\ pc # "sleep" => \A a \in DOMAIN bundle \ todo : file[a].val = bundle[a]

WholeOK == \A a \in ready : file[a].val \in Version

UnsealInv == UnsealTypeOK /\ Done /\ WholeOK /\ ServerCurrent

LEMMA UnsealInitInv == UnsealInit => UnsealInv
<1> SUFFICES ASSUME UnsealInit PROVE UnsealInv
  OBVIOUS
<1> USE DEF UnsealInit
<1>1. DOMAIN bundle = {}
  OBVIOUS
<1>2. NoInstance \in Instance
  BY DEF NoInstance, Instance
<1>3. UnsealTypeOK
  BY <1>1, <1>2, UnsealAssumption DEF UnsealTypeOK
<1>4. Done /\ WholeOK /\ ServerCurrent
  BY <1>1 DEF Done, WholeOK, ServerCurrent
<1>5. QED
  BY <1>3, <1>4 DEF UnsealInv

LEMMA TypeStep ==
    ASSUME UnsealInv, UnsealNext
    PROVE  UnsealTypeOK'
<1> USE DEF UnsealInv, UnsealTypeOK, Goto, web
<1>1. CASE Attest
  <2>1. PICK M \in Manifests : bundle' \in [M -> Version]
    BY <1>1 DEF Attest
  <2>2. DOMAIN bundle' = M /\ M \subseteq Asset
    BY <2>1, UnsealAssumption
  <2>3. QED
    BY <1>1, <2>1, <2>2 DEF Attest
<1>2. ASSUME NEW a \in Asset, Unwrap(a)
      PROVE  UnsealTypeOK'
  <2>1. tmp' \in [Asset -> Instance]
    BY <1>2 DEF Unwrap, Instance
  <2>2. QED
    BY <1>2, <2>1 DEF Unwrap
<1>3. CASE Compare \/ Pre
  <2>1. tmp' \in [Asset -> Instance]
    <3>1. CASE Compare
      BY <3>1 DEF Compare, Instance, Done
    <3>2. CASE Pre
      BY <3>2 DEF Pre, Instance
    <3>3. QED
      BY <1>3, <3>1, <3>2
  <2>2. notify' \in BOOLEAN /\ pc' \in {"pre", "move"}
    BY <1>3 DEF Compare, Pre
  <2>3. QED
    BY <1>3, <2>1, <2>2 DEF Compare, Pre
<1>4. CASE Move
  <2>1. NoInstance \in Instance
    BY DEF NoInstance, Instance
  <2>2. QED
    BY <1>4, <2>1 DEF Move
<1>5. CASE Post \/ Finish \/ Fail \/ Restart
  <2>1. hup' \in BOOLEAN
    BY <1>5, Zenon DEF Post, Finish, Fail, Restart
  <2>2. QED
    BY <1>5, <2>1 DEF Post, Finish, Fail, Restart
<1>6. CASE ServerStep
  BY <1>6 DEF ServerStep, ServerStart, ServerUp, ServerReload, tool
<1>7. QED
  BY <1>1, <1>2, <1>3, <1>4, <1>5, <1>6 DEF UnsealNext, ToolStep

LEMMA DoneStep ==
    ASSUME UnsealInv, UnsealNext
    PROVE  Done' /\ WholeOK'
<1> USE DEF UnsealInv, UnsealTypeOK, Done, WholeOK, Goto
<1>1. CASE Attest
  BY <1>1 DEF Attest
<1>2. ASSUME NEW a \in Asset, Unwrap(a)
      PROVE  Done' /\ WholeOK'
  BY <1>2 DEF Unwrap
<1>3. CASE Compare
  <2>1. tmp'[cur].val = bundle[cur]
    BY <1>3 DEF Compare, Instance
  <2>2. QED
    BY <1>3, <2>1 DEF Compare
<1>4. CASE Pre
  <2>1. tmp'[cur].val = tmp[cur].val /\ tmp'[cur].prepared
    BY <1>4 DEF Pre, Instance
  <2>2. QED
    BY <1>4, <2>1 DEF Pre
<1>5. CASE Move
  <2>1. file'[cur].val = bundle[cur] /\ bundle[cur] \in Version
    BY <1>5 DEF Move
  <2>2. \A a \in Asset \ {cur} : file'[a] = file[a]
    BY <1>5 DEF Move
  <2>3. QED
    BY <1>5, <2>1, <2>2 DEF Move
<1>6. CASE Post
  BY <1>6 DEF Post
<1>7. CASE Finish
  BY <1>7 DEF Finish
<1>8. CASE Fail \/ Restart
  BY <1>8 DEF Fail, Restart
<1>9. CASE ServerStep
  BY <1>9 DEF ServerStep, ServerStart, ServerUp, ServerReload, tool
<1>10. QED
  BY <1>1, <1>2, <1>3, <1>4, <1>5, <1>6, <1>7, <1>8, <1>9 DEF UnsealNext, ToolStep

\* The server falls behind only by a step that the history takes note of.
LEMMA ServerStepInv ==
    ASSUME UnsealInv, UnsealNext
    PROVE  ServerCurrent'
<1> USE DEF UnsealInv, UnsealTypeOK, Done, ServerCurrent, Goto
<1>1. CASE Attest \/ (\E a \in Asset : Unwrap(a)) \/ Compare \/ Pre
  BY <1>1 DEF Attest, Unwrap, Compare, Pre, web
<1>2. CASE Move
  <2>1. CASE cur = ServerAsset /\ notify
    BY <1>2, <2>1 DEF Move
  <2>2. CASE cur = ServerAsset /\ ~notify
    BY <1>2, <2>2 DEF Move, web
  <2>3. CASE cur # ServerAsset
    <3>1. file'[ServerAsset] = file[ServerAsset]
      BY <1>2, <2>3, UnsealAssumption DEF Move
    <3>2. QED
      BY <1>2, <2>3, <3>1 DEF Move, web
  <2>4. QED
    BY <2>1, <2>2, <2>3
<1>3. CASE Post
  <2>1. CASE cur = ServerAsset /\ server = "up"
    <3>1. hup'
      BY <1>3, <2>1, Zenon DEF Post
    <3>2. QED
      BY <3>1
  <2>2. CASE cur = ServerAsset /\ server # "up"
    BY <1>3, <2>2 DEF Post
  <2>3. CASE cur # ServerAsset
    <3>1. hup' <=> hup
      BY <1>3, <2>3, Zenon DEF Post
    <3>2. QED
      BY <1>3, <2>3, <3>1 DEF Post
  <2>4. QED
    BY <2>1, <2>2, <2>3
<1>4. CASE Finish
  BY <1>4 DEF Finish, web
<1>5. CASE Fail
  BY <1>5 DEF Fail, Dropped
<1>6. CASE Restart
  BY <1>6 DEF Restart
<1>7. CASE ServerStep
  BY <1>7 DEF ServerStep, ServerStart, ServerUp, ServerReload, tool
<1>8. QED
  BY <1>1, <1>2, <1>3, <1>4, <1>5, <1>6, <1>7 DEF UnsealNext, ToolStep

LEMMA UnsealStepInv ==
    ASSUME UnsealInv, [UnsealNext]_uvars
    PROVE  UnsealInv'
<1>1. CASE UnsealNext
  BY <1>1, TypeStep, DoneStep, ServerStepInv DEF UnsealInv
<1>2. CASE UNCHANGED uvars
  BY <1>2 DEF uvars, tool, web, UnsealInv, UnsealTypeOK, Done, WholeOK, ServerCurrent
<1>3. QED
  BY <1>1, <1>2

LEMMA UnsealCorrect == UnsealSpec => []UnsealInv
<1>1. UnsealSpec => UnsealInit /\ [][UnsealNext]_uvars
  BY PTL DEF UnsealSpec
<1>2. QED
  BY <1>1, UnsealInitInv, UnsealStepInv, PTL

\* Whoever waits for the touch file finds the assets it was made for, whole, from
\* then on, for any bundles and any number of failures.
THEOREM AssetsAreWhole == UnsealSpec => []InstalledWhole
<1>1. UnsealInv => InstalledWhole
  BY DEF UnsealInv, WholeOK, InstalledWhole
<1>2. QED
  BY <1>1, UnsealCorrect, PTL

\* The comparison that decides on a signal to the web server misses nothing but
\* what the history names: a run that ended before its 'post', or a server that
\* had no pid file yet.
THEOREM ServerIsCurrent == UnsealSpec => []ServerCurrent
<1>1. UnsealInv => ServerCurrent
  BY DEF UnsealInv
<1>2. QED
  BY <1>1, UnsealCorrect, PTL

\* A run of the tool that ends well has put everything in place, and what is new
\* was prepared before.
THEOREM RunsInstall == UnsealSpec => SuccessInstalls
<1>1. ASSUME UnsealInv, UnsealNext
      PROVE  /\ Finish => \A a \in DOMAIN bundle : file[a].val = bundle[a]
             /\ \A a \in Asset :
                  file'[a].val # file[a].val => file'[a].prepared
  <2> USE DEF UnsealInv, UnsealTypeOK, Done
  <2>1. Finish => \A a \in DOMAIN bundle : file[a].val = bundle[a]
    BY <1>1 DEF Finish
  <2>2. CASE Move
    <3>1. file'[cur] = tmp[cur] /\ \A a \in Asset \ {cur} : file'[a] = file[a]
      BY <1>1, <2>2 DEF Move
    <3>2. QED
      BY <1>1, <2>1, <2>2, <3>1 DEF Move
  <2>3. CASE ~Move
    <3>1. file' = file
      BY <1>1, <2>3 DEF UnsealNext, ToolStep, ServerStep, Attest, Unwrap, Compare,
         Pre, Post, Finish, ServerStart, ServerUp, ServerReload, tool, Fail, Restart
    <3>2. QED
      BY <2>1, <3>1
  <2>4. QED
    BY <2>2, <2>3
<1>2. UnsealInv /\ [UnsealNext]_uvars =>
        [/\ Finish => \A a \in DOMAIN bundle : file[a].val = bundle[a]
         /\ \A a \in Asset :
              file'[a].val # file[a].val => file'[a].prepared]_uvars
  BY <1>1
<1>3. UnsealSpec => [][UnsealNext]_uvars
  BY PTL DEF UnsealSpec
<1>4. QED
  BY <1>2, <1>3, UnsealCorrect, PTL DEF SuccessInstalls

-----------------------------------------------------------------------------
(* The end of a run: the safety half of EventuallyReady *)

\* Where the tool is with the asset at hand.
Place == CASE pc = "unwrap" -> 1 [] pc = "pre" -> 2 [] pc = "move" -> 3
           [] pc = "post" -> 4 [] OTHER -> 0

\* A run works on what was sent, and on nothing twice: the asset at hand is still to
\* be put in place, and what is not any more is there, as it was sent.
NothingLeftOut ==
    pc # "sleep" =>
       /\ todo \subseteq DOMAIN bundle /\ (pc # "next" => cur \in todo)
       /\ \A a \in DOMAIN bundle \ todo : file[a].val = bundle[a]

\* A run ends when nothing is left to do, by a failure, or with its container; or else
\* one asset less is to be put in place, or the one at hand is further.  A bundle is
\* finite, so a run ends.
RunGetsOn ==
    [][pc # "sleep" =>
          \/ pc' = "sleep" /\ (todo = {} \/ Fail \/ Restart)
          \/ UNCHANGED <<pc, todo, cur>>
          \/ \E a \in todo : todo' = todo \ {a}
          \/ todo' = todo /\ Place' > Place]_uvars

\* A run leaves out nothing that was sent, wherever it is.
THEOREM RunsLeaveNothingOut == UnsealSpec => []NothingLeftOut
<1>1. UnsealInv => NothingLeftOut
  BY DEF UnsealInv, UnsealTypeOK, Done, NothingLeftOut
<1>2. QED
  BY <1>1, UnsealCorrect, PTL

\* No step of a run, of the callback or of the server gives the tool an asset back
\* that it has put in place: what is left to do only gets less.
THEOREM RunsGetOn == UnsealSpec => RunGetsOn
<1>1. ASSUME UnsealInv, UnsealNext, pc # "sleep"
      PROVE  \/ pc' = "sleep" /\ (todo = {} \/ Fail \/ Restart)
             \/ UNCHANGED <<pc, todo, cur>>
             \/ \E a \in todo : todo' = todo \ {a}
             \/ todo' = todo /\ Place' > Place
  <2> USE <1>1 DEF UnsealInv, UnsealTypeOK, Done, Goto, Place
  <2>1. CASE Attest \/ Finish \/ Fail \/ Restart
    BY <2>1 DEF Attest, Finish, Fail, Restart
  <2>2. CASE (\E a \in Asset : Unwrap(a)) \/ Compare \/ Pre
    BY <2>2 DEF Unwrap, Compare, Pre
  <2>3. CASE Move \/ Post
    BY <2>3 DEF Move, Post
  <2>4. CASE ServerStep
    BY <2>4 DEF ServerStep, ServerStart, ServerUp, ServerReload, tool
  <2>5. QED
    BY <2>1, <2>2, <2>3, <2>4 DEF UnsealNext, ToolStep
<1>2. UnsealInv /\ [UnsealNext]_uvars =>
         [pc # "sleep" =>
             \/ pc' = "sleep" /\ (todo = {} \/ Fail \/ Restart)
             \/ UNCHANGED <<pc, todo, cur>>
             \/ \E a \in todo : todo' = todo \ {a}
             \/ todo' = todo /\ Place' > Place]_uvars
  BY <1>1
<1>3. UnsealSpec => [][UnsealNext]_uvars
  BY PTL DEF UnsealSpec
<1>4. QED
  BY <1>2, <1>3, UnsealCorrect, PTL DEF RunGetsOn

=============================================================================
