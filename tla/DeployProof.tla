---------------------------- MODULE DeployProof ----------------------------
(***************************************************************************)
(* Of deployments, for any commits and any number of kills.  In every      *)
(* environment a success leaves nginx, the files and the containers in     *)
(* agreement.  Where killed deployments do not meet containers that fail   *)
(* or an nginx that restarts, and nginx can be removed, no command takes   *)
(* away what answers, the candidate is not served early, and a rollback    *)
(* keeps the old release.                                                  *)
(***************************************************************************)
EXTENDS Deploy, TLAPS

\* The environments of the second part.
Calm ==
  \A t \in Troubles :
    /\ "kill" \in t => "flap" \notin t /\ "reboot" \notin t
    /\ "stuckNginx" \notin t

Present(g) == cont[g].health # "none"

Chosen == {"revalidate", "clean", "start", "check", "switch", "reload", "validate", "retire",
           "persist", "rbNginx", "rbFiles", "rbWrite", "rbReload", "rbVerify", "rbClean"}

\* What the shell variables say of the label.
Shape ==
  LET s == script IN
  /\ s.pc # "idle" => s.sha \in Shas
  /\ s.pc \in Chosen => s.candidate \in Groups /\ s.active # s.candidate
  /\ s.pc \in {"rbNginx", "rbFiles"} => s.active = None
  /\ s.pc \in {"rbWrite", "rbReload", "rbVerify"} => s.active # None
  /\ s.pc \in {"detect", "revalidate", "clean", "start", "check", "switch"} => ~s.switched
  /\ s.pc \in {"reload", "validate"} => s.switched

\* Only a first deployment finds no active group, and no other containers.
Containment ==
  LET s == script IN
  /\ s.pc \in Chosen /\ s.active = None => ~Present(Other(s.candidate))
  /\ s.pc \in Chosen \ {"persist"} /\ s.active # None => Present(s.active)
  /\ s.pc = "persist" => ~Present(Other(s.candidate)) \/ "stuck" \in trouble
  /\ s.pc \in {"check", "switch", "reload", "validate", "retire", "persist",
               "rbWrite", "rbReload", "rbVerify"} => Present(s.candidate)

\* The file names the candidate from the switch on, and what validation has
\* seen stays so.
Switched ==
  LET s == script IN
  /\ s.pc \in {"reload", "validate", "retire", "persist"} => upstream = s.candidate
  /\ s.pc \in {"retire", "persist"} =>
       nginx.group = s.candidate /\ cont[s.candidate].sha = s.sha
  /\ s.pc \in {"rbReload", "rbVerify"} => upstream = s.active

\* What a success was about.
Deployed == ended.how = "success" => ended.candidate \in Groups

DInv == TypeOK /\ Shape /\ Containment /\ Switched /\ Deployed /\ SuccessAgrees

(***************************************************************************)
(* The second part.                                                        *)
(***************************************************************************)
\* An nginx that does not run routes nowhere, and none is down for long.
Workers ==
  /\ nginx.state = "up" <=> nginx.group \in Groups
  /\ nginx.state = "down" => "reboot" \in trouble

\* Without "flap" what was healthy stays so, and nginx routes to it.
Lasting ==
  LET s == script IN
  "flap" \notin trouble =>
    /\ s.pc \in Chosen \ {"persist"} /\ s.active # None => Live(s.active)
    /\ s.pc \in {"switch", "reload"} => Live(s.candidate)
    /\ "kill" \in trouble /\ nginx.state = "up" => Live(nginx.group)

\* Without kills the file and nginx agree between two deployments.
Agree ==
  "kill" \notin trouble /\ ~marker /\ script.pc \in {"idle", "detect", "revalidate"} =>
    /\ nginx.group \in Groups /\ upstream \in Groups => nginx.group = upstream
    /\ \A g \in Groups : nginx.group = g \/ upstream = g => Present(g)

\* Nothing leads to the candidate before the switch or after a rollback.
NotRouted ==
  LET s == script IN
  /\ s.pc \in {"revalidate", "clean", "start", "check", "switch", "rbClean"} =>
       /\ nginx.group # s.candidate
       /\ "kill" \notin trouble => upstream # s.candidate
  /\ s.pc \in {"rbFiles", "rbClean"} /\ s.active = None => nginx.state = "absent"
  /\ s.pc = "rbClean" /\ s.active = None => upstream = None

\* A deployment that is over.
Over ==
  /\ "kill" \notin trouble => UpstreamRestored
  /\ ended.how = "rolledBack" \/ ended.how = "unverified" =>
       ended.candidate \in Groups /\ ended.active # ended.candidate
  /\ script.pc # "idle" => ~marker

Second == Workers /\ Lasting /\ Agree /\ NotRouted /\ Over /\ RollbackKeepsActive

CInv == DInv /\ Second

USE TroublesAssumption, MaxKillsAssumption, NoneAssumption
-----------------------------------------------------------------------------
(***************************************************************************)
(* What the steps make of the shell variables.                             *)
(***************************************************************************)
Moved(label) ==
  /\ script' \in Script /\ script'.pc = label
  /\ script'.sha = script.sha /\ script'.active = script.active
  /\ script'.candidate = script.candidate /\ script'.switched = script.switched

RollbackLabel ==
  IF script.active = None THEN "rbNginx" ELSE IF script.switched THEN "rbWrite" ELSE "rbClean"

LEMMA ScriptFacts ==
  ASSUME TypeOK
  PROVE  /\ script \in Script /\ script.pc \in Labels /\ script.switched \in BOOLEAN
         /\ script.active \in Groups \cup {None} /\ script.candidate \in Groups \cup {None}
         /\ script.sha \in Shas \cup {None} /\ script.prev \in Shas \cup {None}
BY DEF TypeOK, Script

LEMMA Moves ==
  ASSUME TypeOK, NEW label \in Labels, Goto(label)
  PROVE  Moved(label)
BY ScriptFacts DEF Goto, Script, Moved

LEMMA RollsBack ==
  ASSUME TypeOK, Rollback
  PROVE  Moved(RollbackLabel) /\ UNCHANGED ended
<1>1. RollbackLabel \in Labels /\ Goto(RollbackLabel)
  BY DEF Rollback, RollbackLabel, Labels
<1> QED  BY <1>1, Moves DEF Rollback

LEMMA Ends ==
  ASSUME TypeOK, NEW how \in Outcome, End(how)
  PROVE  /\ script' \in Script /\ script'.pc = "idle"
         /\ ended' \in [how : Outcome, sha : Shas \cup {None}, active : Groups \cup {None},
                        candidate : Groups \cup {None}]
         /\ ended'.how = how /\ ended'.sha = script.sha /\ ended'.active = script.active
         /\ ended'.candidate = script.candidate
BY ScriptFacts DEF End, NoScript, Script, Labels

\* The containers of the candidate are removed, or made anew.
LEMMA ContFacts ==
  ASSUME TypeOK, NEW g \in Groups, NEW c \in Containers, cont' = [cont EXCEPT ![g] = c]
  PROVE  /\ cont' \in [Groups -> Containers] /\ cont'[g] = c
         /\ \A f \in Groups \ {g} : cont'[f] = cont[f]
BY DEF TypeOK

LEMMA ContainerTypes ==
  /\ Removed \in Containers /\ Removed.health = "none"
  /\ \A sha \in Shas : [sha |-> sha, health |-> "unhealthy"] \in Containers
BY DEF Removed, Containers, Health

\* A group that is removed is gone, or stays as it is.
LEMMA RemoveFacts ==
  ASSUME TypeOK, NEW g \in Groups, RemoveGroup(g)
  PROVE  /\ cont' \in [Groups -> Containers]
         /\ cont'[g].health = "none" \/ ("stuck" \in trouble /\ UNCHANGED cont)
         /\ \A f \in Groups \ {g} : cont'[f] = cont[f]
<1>1. CASE cont' = [cont EXCEPT ![g] = Removed]
  BY <1>1, ContFacts, ContainerTypes
<1>2. CASE "stuck" \in trouble /\ UNCHANGED cont
  BY <1>2 DEF TypeOK
<1> QED  BY <1>1, <1>2 DEF RemoveGroup

LEMMA Others ==
  /\ \A g \in Groups : Other(g) \in Groups /\ Other(g) # g /\ Other(g) # None /\ g # None
  /\ \A f, g \in Groups : f # g => f = Other(g)
BY DEF Groups, Other
-----------------------------------------------------------------------------
(***************************************************************************)
(* In every environment                                                    *)
(***************************************************************************)
LEMMA InitDInv == Init => DInv
<1> SUFFICES ASSUME Init PROVE DInv
  OBVIOUS
<1>1. TypeOK
  <2>1. NoScript \in Script
    BY DEF NoScript, Script, Labels
  <2>2. cont \in [Groups -> Containers] /\ kills \in 0..MaxKills /\ script \in Script
    BY <2>1, ContainerTypes DEF Init
  <2>3. nginx \in [state : {"absent", "down", "up"}, group : Groups \cup {None}]
    BY DEF Init
  <2>4. ended \in [how : Outcome, sha : Shas \cup {None}, active : Groups \cup {None},
                  candidate : Groups \cup {None}]
    BY DEF Init, Outcome
  <2> QED  BY <2>2, <2>3, <2>4 DEF Init, TypeOK
<1>2. Shape /\ Containment /\ Switched /\ Deployed /\ SuccessAgrees
  BY DEF Init, NoScript, Shape, Containment, Switched, Deployed, SuccessAgrees, Chosen
<1> QED  BY <1>1, <1>2 DEF DInv

\* A deployment that ends without success leaves nothing to show.
LEMMA EndKeeps ==
  ASSUME DInv, NEW how \in Outcome \ {"success"}, End(how),
         cont' \in [Groups -> Containers],
         nginx' \in [state : {"absent", "down", "up"}, group : Groups \cup {None}],
         upstream' \in Groups \cup {None, "broken"}, stateFile' \in Groups \cup {None},
         marker' \in BOOLEAN, kills' \in 0..MaxKills, UNCHANGED trouble
  PROVE  DInv'
<1>1. TypeOK'
  BY Ends DEF DInv, TypeOK
<1>2. Shape' /\ Containment' /\ Switched' /\ Deployed' /\ SuccessAgrees'
  BY Ends DEF DInv, Shape, Containment, Switched, Deployed, SuccessAgrees, Chosen
<1> QED  BY <1>1, <1>2 DEF DInv

\* A step of the script, which goes on.
LEMMA MoveKeeps ==
  ASSUME DInv, NEW label \in Labels \ {"idle"}, script'.pc = label, script' \in Script,
         cont' \in [Groups -> Containers],
         nginx' \in [state : {"absent", "down", "up"}, group : Groups \cup {None}],
         upstream' \in Groups \cup {None, "broken"}, stateFile' \in Groups \cup {None},
         marker' \in BOOLEAN, UNCHANGED <<ended, kills, trouble>>,
         Shape', Containment', Switched'
  PROVE  DInv'
<1>1. TypeOK'
  BY DEF DInv, TypeOK
<1>2. Deployed' /\ SuccessAgrees'
  BY DEF DInv, Deployed, SuccessAgrees, At
<1> QED  BY <1>1, <1>2 DEF DInv

LEMMA StartKeeps ==
  ASSUME DInv, NEW sha \in Shas, Start(sha)
  PROVE  DInv'
<1>1. script' \in Script /\ script'.pc = "detect" /\ script'.sha = sha /\ ~script'.switched
  BY DEF Start, NoScript, Script, Labels
<1>2. Shape' /\ Containment' /\ Switched'
  BY <1>1 DEF Shape, Containment, Switched, Chosen
<1> QED  BY <1>1, <1>2, MoveKeeps DEF Start, files, DInv, TypeOK, Labels

\* What determine_active_release can find.
LEMMA DetectedFacts ==
  ASSUME TypeOK, NEW g \in Detected
  PROVE  /\ g = None \/ (g \in Groups /\ Live(g) /\ Present(g))
         /\ g = None => \A f \in Groups : ~Present(f)
<1>1. \A f \in Groups : Live(f) => Present(f)
  BY DEF Live, Present
<1>2. CASE \A f \in Groups : cont[f].health = "none"
  BY <1>2 DEF Detected, Present
<1>3. CASE ~(\A f \in Groups : cont[f].health = "none")
  <2>1. g \in Answering \/ g \in Alone \/ g \in Hinted
    BY <1>3 DEF Detected
  <2>2. g \in Groups /\ Live(g)
    BY <2>1 DEF Answering, Alone, Hinted, Answers
  <2> QED  BY <1>1, <2>2, Others
<1> QED  BY <1>2, <1>3

LEMMA DetectKeeps ==
  ASSUME DInv, Detect
  PROVE  DInv'
<1>1. TypeOK
  BY DEF DInv
<1>2. CASE Detected = {} /\ End("fatal") /\ UNCHANGED stateFile
  BY <1>1, <1>2, EndKeeps DEF Detect, Outcome, TypeOK
<1>3. ASSUME NEW g \in Detected,
             script' = [script EXCEPT !.pc = "revalidate", !.active = g,
                          !.prev = IF g = None THEN None ELSE cont[g].sha,
                          !.candidate = IF g = None THEN "blue" ELSE Other(g)],
             stateFile' = IF g = None THEN stateFile ELSE g, UNCHANGED ended
      PROVE  DInv'
  <2> DEFINE c == IF g = None THEN "blue" ELSE Other(g)
  <2>1. (g = None \/ g \in Groups) /\ c \in Groups /\ c # g
    BY <1>1, DetectedFacts, Others DEF Groups
  <2>2. (IF g = None THEN None ELSE cont[g].sha) \in Shas \cup {None}
    BY <1>1, <2>1 DEF TypeOK, Containers
  <2>3. /\ script' \in Script /\ script'.pc = "revalidate" /\ script'.sha = script.sha
        /\ script'.active = g /\ script'.candidate = c /\ script'.switched = script.switched
    BY <1>1, <1>3, <2>1, <2>2, ScriptFacts DEF Script, Labels
  <2>4. Shape'
    BY <2>1, <2>3 DEF Shape, Chosen, Detect, At, DInv
  <2>5. Containment'
    BY <1>1, <2>1, <2>3, DetectedFacts, Others DEF Containment, Chosen, Detect, Present
  <2>6. Switched'
    BY <2>3 DEF Switched
  <2> QED  BY <1>1, <1>3, <2>1, <2>3, <2>4, <2>5, <2>6, MoveKeeps DEF Detect, TypeOK, Labels
<1> QED  BY <1>2, <1>3 DEF Detect

\* The shell variables of a step that only moves on.
LEMMA ShapeMoves ==
  ASSUME DInv, NEW label \in Chosen, Moved(label), script.pc \in Chosen,
         label \in {"rbNginx", "rbFiles"} => script.active = None,
         label \in {"rbWrite", "rbReload", "rbVerify"} => script.active # None,
         label \in {"revalidate", "clean", "start", "check", "switch"} => ~script.switched,
         label \in {"reload", "validate"} => script.switched
  PROVE  Shape'
BY DEF DInv, Shape, Moved, Chosen

\* A step that moves on and leaves the containers as they are, by groups.
LEMMA OnwardKeeps ==
  ASSUME DInv, NEW label \in Chosen, Moved(label), script.pc \in Chosen,
         cont' \in [Groups -> Containers],
         nginx' \in [state : {"absent", "down", "up"}, group : Groups \cup {None}],
         upstream' \in Groups \cup {None, "broken"}, stateFile' \in Groups \cup {None},
         marker' \in BOOLEAN, UNCHANGED <<ended, kills, trouble>>,
         label \in {"rbNginx", "rbFiles"} => script.active = None,
         label \in {"rbWrite", "rbReload", "rbVerify"} => script.active # None,
         label \in {"revalidate", "clean", "start", "check", "switch"} => ~script.switched,
         label \in {"reload", "validate"} => script.switched,
         Containment', Switched'
  PROVE  DInv'
<1>1. label \in Labels \ {"idle"} /\ script' \in Script /\ script'.pc = label
  BY DEF Chosen, Labels, Moved
<1>2. Shape'
  BY ShapeMoves
<1> QED  BY <1>1, <1>2, MoveKeeps

\* Where rollback() is called from, and that it finds what it needs.
Failing == {"start", "check", "switch", "reload", "validate"}

LEMMA RollbackKeeps ==
  ASSUME DInv, script.pc \in Failing, Rollback, cont' \in [Groups -> Containers],
         \A g \in Groups \ {script.candidate} : cont'[g] = cont[g],
         Present(script.candidate) => cont'[script.candidate].health # "none",
         nginx' \in [state : {"absent", "down", "up"}, group : Groups \cup {None}],
         upstream' \in Groups \cup {None, "broken"},
         UNCHANGED <<stateFile, marker, kills, trouble>>
  PROVE  DInv'
<1> DEFINE label == RollbackLabel
<1>1. TypeOK /\ script.pc \in Chosen /\ label \in Chosen
  BY DEF DInv, Failing, Chosen, RollbackLabel
<1>2. Moved(label) /\ UNCHANGED ended
  BY <1>1, RollsBack
<1>3. label \in {"rbNginx", "rbClean", "rbWrite"}
  BY DEF RollbackLabel
<1>4. Switched'
  BY <1>2, <1>3 DEF Switched, Moved
<1>5. /\ script.candidate \in Groups /\ script.active # script.candidate
      /\ script.active = None \/ script.active \in Groups
      /\ script.active = None => ~Present(Other(script.candidate))
      /\ script.active # None => Present(script.active)
  BY <1>1, ScriptFacts DEF DInv, Shape, Containment, Failing, Chosen
<1>6. label = "rbWrite" => Present(script.candidate)
  BY DEF DInv, Shape, Containment, Failing, RollbackLabel
<1>7. Containment'
  <2>1. script.active = None => cont'[Other(script.candidate)].health = "none"
    BY <1>5, Others DEF Present
  <2>2. script.active # None => cont'[script.active].health # "none"
    BY <1>5 DEF Present
  <2>3. label = "rbWrite" => cont'[script.candidate].health # "none"
    BY <1>6 DEF Present
  <2> QED  BY <1>2, <1>3, <2>1, <2>2, <2>3 DEF Containment, Moved, Present
<1> QED
  BY <1>1, <1>2, <1>3, <1>4, <1>7, OnwardKeeps DEF RollbackLabel, DInv, TypeOK

LEMMA RevalidateKeeps ==
  ASSUME DInv, Revalidate
  PROVE  DInv'
<1>1. TypeOK /\ script.pc = "revalidate" /\ script.pc \in Chosen /\ "clean" \in Chosen
  BY DEF DInv, Revalidate, At, Chosen
<1>2. CASE End("fatal")
  BY <1>1, <1>2, EndKeeps DEF Revalidate, Outcome, TypeOK, files
<1>3. ASSUME Goto("clean"), UNCHANGED ended
      PROVE  DInv'
  <2>1. Moved("clean")
    BY <1>1, <1>3, Moves DEF Labels
  <2>2. Containment' /\ Switched'
    BY <1>1, <2>1 DEF Revalidate, Containment, Switched, DInv, Moved, Chosen, Present
  <2> QED  BY <1>1, <1>3, <2>1, <2>2, OnwardKeeps DEF Revalidate, TypeOK, DInv, Shape, files
<1> QED  BY <1>2, <1>3 DEF Revalidate

LEMMA CleanKeeps ==
  ASSUME DInv, Clean
  PROVE  DInv'
<1>1. /\ TypeOK /\ script.pc = "clean" /\ script.pc \in Chosen /\ "start" \in Chosen
      /\ script.candidate \in Groups /\ Moved("start")
  BY Moves DEF DInv, Clean, At, Chosen, Shape, Labels
<1>2. /\ cont' \in [Groups -> Containers]
      /\ \A f \in Groups \ {script.candidate} : cont'[f] = cont[f]
  BY <1>1, RemoveFacts DEF Clean
<1>3. Containment'
  BY <1>1, <1>2, Others, ScriptFacts DEF DInv, Shape, Containment, Present, Moved, Chosen
<1>4. Switched'
  BY <1>1 DEF Switched, Moved
<1> QED  BY <1>1, <1>2, <1>3, <1>4, OnwardKeeps DEF Clean, DInv, Shape, TypeOK, files

LEMMA StartCandidateKeeps ==
  ASSUME DInv, StartCandidate
  PROVE  DInv'
<1>1. /\ TypeOK /\ script.pc = "start" /\ script.pc \in Chosen /\ script.pc \in Failing
      /\ "check" \in Chosen /\ "check" \in Labels /\ script.candidate \in Groups
      /\ script.sha \in Shas /\ ~script.switched
  BY DEF DInv, StartCandidate, At, Chosen, Shape, Labels, Failing
<1> DEFINE fresh == [sha |-> script.sha, health |-> "unhealthy"]
<1>2. ASSUME cont' = [cont EXCEPT ![script.candidate] = fresh]
      PROVE  /\ cont' \in [Groups -> Containers] /\ cont'[script.candidate] = fresh
             /\ \A f \in Groups \ {script.candidate} : cont'[f] = cont[f]
  BY <1>1, <1>2, ContFacts, ContainerTypes
<1>3. CASE cont' = [cont EXCEPT ![script.candidate] = fresh] /\ Goto("check") /\ UNCHANGED ended
  <2>1. Moved("check")
    BY <1>1, <1>3, Moves
  <2>2. Containment'
    BY <1>1, <1>2, <1>3, <2>1, Others, ScriptFacts
       DEF DInv, Shape, Containment, Present, Moved, Chosen
  <2>3. Switched'
    BY <2>1 DEF Switched, Moved
  <2> QED
    BY <1>1, <1>2, <1>3, <2>1, <2>2, <2>3, OnwardKeeps DEF StartCandidate, TypeOK, files
<1>4. CASE cont' = [cont EXCEPT ![script.candidate] = fresh] /\ Rollback
  BY <1>1, <1>2, <1>4, RollbackKeeps DEF StartCandidate, TypeOK, files
<1>5. CASE Rollback /\ UNCHANGED cont
  BY <1>1, <1>5, RollbackKeeps DEF StartCandidate, TypeOK, files, Present
<1> QED  BY <1>3, <1>4, <1>5 DEF StartCandidate

LEMMA CheckKeeps ==
  ASSUME DInv, Check
  PROVE  DInv'
<1>1. /\ TypeOK /\ script.pc = "check" /\ script.pc \in Chosen /\ script.pc \in Failing
      /\ "switch" \in Chosen /\ "switch" \in Labels /\ ~script.switched
  BY DEF DInv, Check, At, Chosen, Shape, Labels, Failing
<1>2. CASE Rollback
  BY <1>1, <1>2, RollbackKeeps DEF Check, TypeOK, files, Present
<1>3. CASE Goto("switch") /\ UNCHANGED ended
  <2>1. Moved("switch")
    BY <1>1, <1>3, Moves
  <2>2. Containment' /\ Switched'
    BY <1>1, <2>1 DEF DInv, Check, Containment, Switched, Present, Moved, Chosen
  <2> QED  BY <1>1, <1>3, <2>1, <2>2, OnwardKeeps DEF Check, TypeOK, files
<1> QED  BY <1>2, <1>3 DEF Check

LEMMA WriteUpstreamKeeps ==
  ASSUME DInv, WriteUpstream
  PROVE  DInv'
<1>1. /\ TypeOK /\ script.pc = "switch" /\ script.pc \in Chosen /\ script.pc \in Failing
      /\ script.candidate \in Groups
  BY DEF DInv, WriteUpstream, At, Chosen, Shape, Failing
<1>2. CASE upstream' = "broken" /\ Rollback
  BY <1>1, <1>2, RollbackKeeps DEF WriteUpstream, TypeOK, Present
<1>3. CASE /\ upstream' = script.candidate
           /\ script' = [script EXCEPT !.pc = "reload", !.switched = TRUE]
           /\ UNCHANGED ended
  <2>1. /\ script' \in Script /\ script'.pc = "reload" /\ script'.sha = script.sha
        /\ script'.active = script.active /\ script'.candidate = script.candidate
        /\ script'.switched
    BY <1>1, <1>3, ScriptFacts DEF Script, Labels
  <2>2. Shape' /\ Containment' /\ Switched'
    BY <1>1, <1>3, <2>1
       DEF DInv, WriteUpstream, Shape, Containment, Switched, Present, Chosen
  <2> QED  BY <1>1, <1>3, <2>1, <2>2, MoveKeeps DEF WriteUpstream, TypeOK, Labels
<1> QED  BY <1>2, <1>3 DEF WriteUpstream

LEMMA ReloadKeeps ==
  ASSUME DInv, Reload
  PROVE  DInv'
<1>1. /\ TypeOK /\ script.pc = "reload" /\ script.pc \in Chosen /\ script.pc \in Failing
      /\ "validate" \in Chosen /\ "validate" \in Labels /\ script.candidate \in Groups
      /\ script.switched
  BY DEF DInv, Reload, At, Chosen, Shape, Labels, Failing
<1>2. nginx' \in [state : {"absent", "down", "up"}, group : Groups \cup {None}]
  BY <1>1 DEF Reload, TypeOK
<1>3. CASE Rollback
  BY <1>1, <1>2, <1>3, RollbackKeeps DEF Reload, TypeOK, files, Present
<1>4. CASE Goto("validate") /\ UNCHANGED ended
  <2>1. Moved("validate")
    BY <1>1, <1>4, Moves
  <2>2. Containment' /\ Switched'
    BY <1>1, <2>1 DEF DInv, Reload, Containment, Switched, Present, Moved, Chosen, files
  <2> QED  BY <1>1, <1>2, <1>4, <2>1, <2>2, OnwardKeeps DEF Reload, TypeOK, files
<1> QED  BY <1>3, <1>4 DEF Reload

LEMMA ValidateKeeps ==
  ASSUME DInv, Validate
  PROVE  DInv'
<1>1. /\ TypeOK /\ script.pc = "validate" /\ script.pc \in Chosen /\ script.pc \in Failing
      /\ "retire" \in Chosen /\ "retire" \in Labels
  BY DEF DInv, Validate, At, Chosen, Labels, Failing
<1>2. CASE Rollback
  BY <1>1, <1>2, RollbackKeeps DEF Validate, TypeOK, files, Present
<1>3. CASE /\ Answers(script.candidate) /\ cont[script.candidate].sha = script.sha
           /\ Goto("retire") /\ UNCHANGED ended
  <2>1. Moved("retire")
    BY <1>1, <1>3, Moves
  <2>2. Containment' /\ Switched'
    BY <1>1, <1>3, <2>1
       DEF DInv, Validate, Containment, Switched, Present, Moved, Chosen, files, Answers
  <2> QED  BY <1>1, <1>3, <2>1, <2>2, OnwardKeeps DEF Validate, TypeOK, files
<1> QED  BY <1>2, <1>3 DEF Validate

LEMMA RetireKeeps ==
  ASSUME DInv, Retire
  PROVE  DInv'
<1>1. /\ TypeOK /\ script.pc = "retire" /\ script.pc \in Chosen /\ "persist" \in Chosen
      /\ Moved("persist") /\ script.candidate \in Groups /\ script.active # script.candidate
      /\ script.active = None \/ script.active = Other(script.candidate)
  BY Moves, ScriptFacts, Others DEF DInv, Retire, At, Chosen, Labels, Shape
<1>2. /\ cont' \in [Groups -> Containers] /\ cont'[script.candidate] = cont[script.candidate]
      /\ cont'[Other(script.candidate)].health = "none" \/ "stuck" \in trouble
  <2>1. CASE script.active = None
    BY <1>1, <2>1 DEF Retire, DInv, TypeOK, Containment, Present
  <2>2. CASE script.active = Other(script.candidate)
    BY <1>1, <2>2, RemoveFacts, Others DEF Retire
  <2> QED  BY <1>1, <2>1, <2>2
<1>3. Containment'
  BY <1>1, <1>2 DEF DInv, Containment, Moved, Present, Retire, Chosen
<1>4. Switched'
  BY <1>1, <1>2 DEF DInv, Switched, Moved, Retire, files
<1> QED  BY <1>1, <1>2, <1>3, <1>4, OnwardKeeps DEF Retire, TypeOK, files

\* A success: everything agrees at last.
LEMMA PersistKeeps ==
  ASSUME DInv, Persist
  PROVE  DInv'
<1>1. /\ TypeOK /\ script.pc = "persist" /\ script.candidate \in Groups
  BY DEF DInv, Persist, At, Chosen, Shape
<1>2. /\ script' \in Script /\ script'.pc = "idle"
      /\ ended' \in [how : Outcome, sha : Shas \cup {None}, active : Groups \cup {None},
                     candidate : Groups \cup {None}]
      /\ ended'.sha = script.sha /\ ended'.candidate = script.candidate
  BY <1>1, Ends DEF Persist, Outcome
<1>3. TypeOK'
  BY <1>1, <1>2 DEF Persist, TypeOK
<1>4. Shape' /\ Containment' /\ Switched'
  BY <1>2 DEF Shape, Containment, Switched, Chosen
<1>5. Deployed' /\ SuccessAgrees'
  BY <1>1, <1>2 DEF Persist, DInv, Containment, Switched, Deployed, SuccessAgrees, Present
<1> QED  BY <1>3, <1>4, <1>5 DEF DInv

LEMMA RbNginxKeeps ==
  ASSUME DInv, RbNginx
  PROVE  DInv'
<1>1. /\ TypeOK /\ script.pc = "rbNginx" /\ script.pc \in Chosen /\ "rbFiles" \in Chosen
      /\ Moved("rbFiles") /\ script.active = None
  BY Moves DEF DInv, RbNginx, At, Chosen, Labels, Shape
<1>2. Containment' /\ Switched'
  BY <1>1 DEF DInv, RbNginx, Containment, Switched, Present, Moved, Chosen
<1> QED  BY <1>1, <1>2, OnwardKeeps DEF RbNginx, TypeOK, files

LEMMA RbFilesKeeps ==
  ASSUME DInv, RbFiles
  PROVE  DInv'
<1>1. /\ TypeOK /\ script.pc = "rbFiles" /\ script.pc \in Chosen /\ "rbClean" \in Chosen
      /\ Moved("rbClean") /\ script.active = None
  BY Moves DEF DInv, RbFiles, At, Chosen, Labels, Shape
<1>2. Containment' /\ Switched'
  BY <1>1 DEF DInv, RbFiles, Containment, Switched, Present, Moved, Chosen
<1> QED  BY <1>1, <1>2, OnwardKeeps DEF RbFiles, TypeOK

LEMMA RbWriteKeeps ==
  ASSUME DInv, RbWrite
  PROVE  DInv'
<1>1. /\ TypeOK /\ script.pc = "rbWrite" /\ script.pc \in Chosen /\ "rbReload" \in Chosen
      /\ "rbReload" \in Labels /\ script.active \in Groups
  BY ScriptFacts DEF DInv, RbWrite, At, Chosen, Labels, Shape
<1>2. CASE upstream' = "broken" /\ End("died")
  BY <1>1, <1>2, EndKeeps DEF RbWrite, TypeOK, Outcome
<1>3. CASE upstream' = script.active /\ Goto("rbReload") /\ UNCHANGED ended
  <2>1. Moved("rbReload")
    BY <1>1, <1>3, Moves
  <2>2. Containment' /\ Switched'
    BY <1>1, <1>3, <2>1 DEF DInv, RbWrite, Containment, Switched, Present, Moved, Chosen
  <2> QED  BY <1>1, <1>3, <2>1, <2>2, OnwardKeeps, Others DEF RbWrite, TypeOK
<1> QED  BY <1>2, <1>3 DEF RbWrite

LEMMA RbReloadKeeps ==
  ASSUME DInv, RbReload
  PROVE  DInv'
<1>1. /\ TypeOK /\ script.pc = "rbReload" /\ script.pc \in Chosen /\ "rbVerify" \in Chosen
      /\ Moved("rbVerify") /\ script.active \in Groups /\ script.active # None
  BY Moves, ScriptFacts DEF DInv, RbReload, At, Chosen, Labels, Shape
<1>2. nginx' \in [state : {"absent", "down", "up"}, group : Groups \cup {None}]
  BY <1>1 DEF RbReload, TypeOK, DInv, Switched
<1>3. Containment' /\ Switched'
  BY <1>1 DEF DInv, RbReload, Containment, Switched, Present, Moved, Chosen, files
<1> QED  BY <1>1, <1>2, <1>3, OnwardKeeps DEF RbReload, TypeOK, files

LEMMA RbVerifyKeeps ==
  ASSUME DInv, RbVerify
  PROVE  DInv'
<1>1. /\ TypeOK /\ script.pc = "rbVerify" /\ script.pc \in Chosen /\ "rbClean" \in Chosen
      /\ "rbClean" \in Labels
  BY DEF DInv, RbVerify, At, Chosen, Labels
<1>2. CASE Answers(script.active)
  <2>1. Moved("rbClean")
    BY <1>1, <1>2, Moves DEF RbVerify
  <2>2. Containment' /\ Switched'
    BY <1>1, <2>1 DEF DInv, RbVerify, Containment, Switched, Present, Moved, Chosen
  <2> QED  BY <1>1, <1>2, <2>1, <2>2, OnwardKeeps DEF RbVerify, TypeOK
<1>3. CASE ~Answers(script.active)
  BY <1>1, <1>3, EndKeeps DEF RbVerify, TypeOK, Outcome
<1> QED  BY <1>2, <1>3

LEMMA RbCleanKeeps ==
  ASSUME DInv, RbClean
  PROVE  DInv'
<1>1. TypeOK /\ script.candidate \in Groups
  BY DEF DInv, RbClean, At, Chosen, Shape
<1>2. cont' \in [Groups -> Containers]
  BY <1>1, RemoveFacts DEF RbClean
<1> QED  BY <1>1, <1>2, EndKeeps DEF RbClean, TypeOK, Outcome, files

LEMMA KillKeeps ==
  ASSUME DInv, Kill
  PROVE  DInv'
<1>1. TypeOK /\ kills' \in 0..MaxKills
  BY DEF DInv, TypeOK, Kill
<1> QED  BY <1>1, EndKeeps DEF Kill, TypeOK, Outcome, files

\* Health changes, commit and presence do not.
LEMMA HealthFacts ==
  ASSUME TypeOK, NEW g \in Groups, ChangeHealth(g)
  PROVE  /\ cont' \in [Groups -> Containers]
         /\ \A f \in Groups : cont'[f].sha = cont[f].sha /\ (Present(f)' <=> Present(f))
         /\ \A f \in Groups \ {g} : cont'[f] = cont[f]
<1>1. PICK new \in Health \ {"none", cont[g].health} : cont' = [cont EXCEPT ![g].health = new]
  BY DEF ChangeHealth
<1>2. cont[g] \in Containers /\ cont[g].health # "none"
  BY DEF TypeOK, ChangeHealth
<1>3. [cont[g] EXCEPT !.health = new] \in Containers
  BY <1>1, <1>2 DEF Containers
<1>4. cont'[g].sha = cont[g].sha /\ cont'[g].health # "none"
  BY <1>1, <1>2 DEF TypeOK, Containers
<1>5. cont' \in [Groups -> Containers] /\ \A f \in Groups \ {g} : cont'[f] = cont[f]
  BY <1>1, <1>3 DEF TypeOK
<1> QED  BY <1>2, <1>4, <1>5 DEF Present

LEMMA ChangeHealthKeeps ==
  ASSUME DInv, NEW g \in Groups, ChangeHealth(g)
  PROVE  DInv'
<1>1. /\ TypeOK /\ cont' \in [Groups -> Containers]
      /\ \A f \in Groups : cont'[f].sha = cont[f].sha
      /\ \A f \in Groups : (cont'[f].health = "none") <=> (cont[f].health = "none")
  BY HealthFacts DEF DInv, Present
<1>2. UNCHANGED <<nginx, upstream, stateFile, marker, script, ended, kills, trouble>>
  BY DEF ChangeHealth, files
<1>3. TypeOK' /\ Shape'
  BY <1>1, <1>2 DEF TypeOK, DInv, Shape
<1>4. Containment'
  BY <1>1, <1>2, Others, ScriptFacts DEF DInv, Shape, Containment, Present, Chosen
<1>5. Switched'
  BY <1>1, <1>2 DEF DInv, Shape, Switched, Chosen
<1>6. SuccessAgrees'
  BY <1>1, <1>2, Others DEF DInv, Deployed, SuccessAgrees, At
<1>7. Deployed'
  BY <1>2 DEF DInv, Deployed
<1> QED  BY <1>7, <1>3, <1>4, <1>5, <1>6 DEF DInv

LEMMA RestartNginxKeeps ==
  ASSUME DInv, RestartNginx
  PROVE  DInv'
<1>1. UNCHANGED <<cont, upstream, stateFile, marker, script, ended, kills, trouble>>
  BY DEF RestartNginx, files
<1>2. nginx' \in [state : {"absent", "down", "up"}, group : Groups \cup {None}]
  BY DEF RestartNginx
<1>3. TypeOK' /\ Shape' /\ Containment' /\ Deployed'
  BY <1>1, <1>2 DEF TypeOK, DInv, Shape, Containment, Present, Deployed
<1>4. Switched'
  <2>1. script.pc \in {"retire", "persist"} => upstream \in Groups /\ nginx'.group = upstream
    BY DEF DInv, Shape, Switched, Chosen, RestartNginx
  <2> QED  BY <1>1, <2>1 DEF DInv, Switched
<1>5. SuccessAgrees'
  BY <1>1 DEF DInv, SuccessAgrees, Deployed, At, RestartNginx
<1> QED  BY <1>3, <1>4, <1>5 DEF DInv

LEMMA Stutters ==
  ASSUME DInv, UNCHANGED vars
  PROVE  DInv'
BY DEF DInv, TypeOK, Shape, Containment, Present, Switched, Deployed, SuccessAgrees, At, vars, files

LEMMA DInvariant == Spec => []DInv
<1>1. ASSUME DInv, Step PROVE DInv'
  BY <1>1, DetectKeeps, RevalidateKeeps, CleanKeeps, StartCandidateKeeps, CheckKeeps,
     WriteUpstreamKeeps, ReloadKeeps, ValidateKeeps, RetireKeeps, PersistKeeps, RbNginxKeeps,
     RbFilesKeeps, RbWriteKeeps, RbReloadKeeps, RbVerifyKeeps, RbCleanKeeps DEF Step
<1>2. ASSUME DInv, [Next]_vars PROVE DInv'
  BY <1>1, <1>2, StartKeeps, KillKeeps, RestartNginxKeeps, ChangeHealthKeeps, Stutters DEF Next
<1> QED  BY <1>2, InitDInv, PTL DEF Spec

\* TypeOK: every variable has its type, in every environment.
THEOREM DeployTyping == Spec => []TypeOK
<1>1. DInv => TypeOK
  BY DEF DInv
<1> QED  BY <1>1, DInvariant, PTL

\* SuccessAgrees: whatever is killed, fails, restarts or refuses to stop, a
\* deployment that ended in success and that nothing followed has left containers
\* of its commit, nginx, the upstream file and the state file name their group,
\* and the other group is gone if the command that removes it does what it says.
THEOREM SuccessIsAgreed == Spec => []SuccessAgrees
<1>1. DInv => SuccessAgrees
  BY DEF DInv
<1> QED  BY <1>1, DInvariant, PTL
-----------------------------------------------------------------------------
(***************************************************************************)
(* Where kills do not meet failing containers or a restarting nginx        *)
(***************************************************************************)
LEMMA CalmNow ==
  ASSUME Calm, TypeOK
  PROVE  /\ "kill" \in trouble => "flap" \notin trouble /\ "reboot" \notin trouble
         /\ "stuckNginx" \notin trouble
BY DEF Calm, TypeOK

LEMMA ChosenFacts ==
  ASSUME DInv, script.pc \in Chosen
  PROVE  /\ TypeOK /\ script.pc # "idle"
         /\ script.candidate \in Groups /\ script.candidate # None
         /\ script.active # script.candidate
         /\ script.active = None \/ script.active \in Groups
         /\ \A g \in Groups : g # script.candidate => g = Other(script.candidate)
BY ScriptFacts, Others DEF DInv, Shape, Chosen

\* nginx's workers are those of a group, or of none.
LEMMA WorkerFacts ==
  ASSUME DInv, Workers
  PROVE  /\ nginx.group = None \/ nginx.group \in Groups
         /\ nginx.state = "up" <=> nginx.group # None
BY Others DEF DInv, TypeOK, Workers

LEMMA InitSecond == Init => Second
BY DEF Init, NoScript, Second, Workers, Lasting, Agree, NotRouted, Over, RollbackKeepsActive,
       UpstreamRestored, Chosen, Groups

\* The deployment goes on.
LEMMA GoesOn ==
  ASSUME CInv, script'.pc # "idle", UNCHANGED <<ended, trouble>>, ~marker',
         Workers', Lasting', Agree', NotRouted'
  PROVE  Second'
<1>1. Over'
  BY DEF CInv, Second, Over, UpstreamRestored, At
<1>2. RollbackKeepsActive'
  BY DEF RollbackKeepsActive, At
<1> QED  BY <1>1, <1>2 DEF Second

\* It is over, and not by a rollback.
LEMMA QuietEnd ==
  ASSUME CInv, NEW how \in Outcome \ {"rolledBack", "unverified"}, End(how),
         UNCHANGED <<cont, nginx, trouble>>, Agree'
  PROVE  Second'
<1>1. script'.pc = "idle" /\ ended'.how = how
  BY Ends DEF CInv, DInv
<1>2. Workers'
  BY DEF CInv, Second, Workers
<1>3. Lasting'
  BY <1>1 DEF CInv, Second, Lasting, Chosen, Live
<1>4. NotRouted'
  BY <1>1 DEF NotRouted
<1>5. Over' /\ RollbackKeepsActive'
  BY <1>1 DEF Over, RollbackKeepsActive, UpstreamRestored
<1> QED  BY <1>2, <1>3, <1>4, <1>5, Agree' DEF Second

\* While the release is being detected nothing is touched: agreement stays.
LEMMA AgreeStays ==
  ASSUME CInv, script.pc \in {"idle", "detect", "revalidate"},
         UNCHANGED <<cont, nginx, upstream, marker, trouble>>
  PROVE  Agree'
BY DEF CInv, Second, Agree, Present

LEMMA StartSecond ==
  ASSUME CInv, NEW sha \in Shas, Start(sha)
  PROVE  Second'
<1>1. script'.pc = "detect"
  BY DEF Start, NoScript
<1>2. Workers' /\ Lasting' /\ NotRouted'
  BY <1>1 DEF Start, CInv, Second, Workers, Lasting, NotRouted, Chosen, Live
<1>3. Agree'
  BY AgreeStays DEF Start, At, files
<1> QED  BY <1>1, <1>2, <1>3, GoesOn DEF Start, files

\* The release that is found is the one nginx routes to, and the other one is
\* routed to by nobody.
LEMMA DetectedRoute ==
  ASSUME Calm, CInv, script.pc = "detect", NEW g \in Detected, NEW c \in Groups, c # g
  PROVE  /\ nginx.group # c
         /\ "kill" \notin trouble => upstream # c
<1>1. /\ TypeOK /\ ~marker /\ (g = None \/ (g \in Groups /\ Live(g) /\ Present(g)))
      /\ g = None => \A f \in Groups : ~Present(f)
  BY DetectedFacts DEF CInv, DInv, Second, Over
<1>2. (nginx.group = None \/ nginx.group \in Groups) /\ (nginx.state = "up" <=> nginx.group # None)
  BY WorkerFacts DEF CInv, Second
<1>3. CASE "kill" \in trouble
  <2>1. "flap" \notin trouble
    BY <1>1, <1>3, CalmNow
  <2>2. ASSUME nginx.group = c PROVE FALSE
    <3>1. nginx.state = "up" /\ Live(c)
      BY <1>2, <1>3, <2>1, <2>2, Others DEF CInv, Second, Lasting
    <3>2. Answering = {c}
      BY <2>2, <3>1 DEF Answering, Answers
    <3>3. Detected = {c}
      BY <3>1, <3>2 DEF Detected, Live
    <3> QED  BY <3>3
  <2> QED  BY <1>3, <2>2
<1>4. CASE "kill" \notin trouble
  <2>1. /\ nginx.group \in Groups /\ upstream \in Groups => nginx.group = upstream
        /\ \A f \in Groups : nginx.group = f \/ upstream = f => Present(f)
    BY <1>1, <1>4 DEF CInv, Second, Agree
  <2>2. CASE g = None
    BY <1>1, <2>1, <2>2
  <2>3. CASE g \in Groups
    <3>1. g \in Answering \/ g \in Alone \/ g \in Hinted
      <4>1. ~(\A f \in Groups : cont[f].health = "none")
        BY <1>1, <2>3, Others DEF Present
      <4> QED  BY <4>1 DEF Detected
    <3>2. Other(g) = c
      BY <2>3, Others
    <3>3. CASE g \in Answering
      BY <2>1, <2>3, <3>3 DEF Answering, Answers
    <3>4. CASE g \in Alone
      BY <2>1, <3>2, <3>4 DEF Alone, Present
    <3>5. CASE g \in Hinted
      BY <2>1, <2>3, <3>5 DEF Hinted
    <3> QED  BY <3>1, <3>3, <3>4, <3>5
  <2> QED  BY <1>1, <2>2, <2>3
<1> QED  BY <1>3, <1>4

LEMMA DetectSecond ==
  ASSUME Calm, CInv, Detect
  PROVE  Second'
<1>1. script.pc = "detect" /\ TypeOK
  BY DEF Detect, At, CInv, DInv
<1>2. Workers'
  BY DEF Detect, CInv, Second, Workers
<1>3. CASE End("fatal")
  BY <1>1, <1>3, AgreeStays, QuietEnd DEF Detect, Outcome
<1>4. ASSUME NEW g \in Detected,
             script' = [script EXCEPT !.pc = "revalidate", !.active = g,
                          !.prev = IF g = None THEN None ELSE cont[g].sha,
                          !.candidate = IF g = None THEN "blue" ELSE Other(g)],
             UNCHANGED ended
      PROVE  Second'
  <2> DEFINE c == IF g = None THEN "blue" ELSE Other(g)
  <2>1. /\ g = None \/ (g \in Groups /\ Live(g))
        /\ c \in Groups /\ c # g
    BY <1>1, DetectedFacts, Others DEF Groups
  <2>2. script'.pc = "revalidate" /\ script'.active = g /\ script'.candidate = c
    BY <1>1, <1>4, ScriptFacts DEF Script
  <2>3. Lasting'
    BY <2>1, <2>2 DEF Detect, CInv, Second, Lasting, Live
  <2>4. NotRouted'
    BY <1>1, <2>1, <2>2, DetectedRoute DEF Detect, NotRouted
  <2>5. Agree'
    BY <1>1, AgreeStays DEF Detect
  <2> QED
    BY <1>1, <1>2, <1>4, <2>2, <2>3, <2>4, <2>5, GoesOn DEF Detect, CInv, Second, Over
<1> QED  BY <1>3, <1>4 DEF Detect

\* A step that only moves on, among the labels where Agree says nothing.
LEMMA OnwardSecond ==
  ASSUME CInv, script.pc \in Chosen, NEW label \in Chosen \ {"revalidate"}, Moved(label),
         UNCHANGED <<ended, trouble>>, ~marker => ~marker',
         Workers', Lasting', NotRouted'
  PROVE  Second'
<1>1. script'.pc = label /\ label # "idle" /\ label # "detect"
  BY DEF Moved, Chosen
<1>2. Agree'
  BY <1>1 DEF Agree
<1>3. ~marker'
  BY ChosenFacts DEF CInv, Second, Over
<1> QED  BY <1>1, <1>2, <1>3, GoesOn

LEMMA RevalidateSecond ==
  ASSUME CInv, Revalidate
  PROVE  Second'
<1>1. script.pc = "revalidate" /\ TypeOK /\ script.pc \in Chosen
  BY DEF Revalidate, At, CInv, DInv, Chosen
<1>2. CASE End("fatal")
  BY <1>1, <1>2, AgreeStays, QuietEnd DEF Revalidate, Outcome, files
<1>3. CASE Goto("clean") /\ UNCHANGED ended
  <2>1. Moved("clean") /\ "clean" \in Chosen \ {"revalidate"}
    BY <1>1, <1>3, Moves DEF Labels, Chosen
  <2>2. Workers' /\ Lasting' /\ NotRouted'
    BY <1>1, <2>1
       DEF Revalidate, CInv, Second, Workers, Lasting, NotRouted, Moved, Chosen, Live, files
  <2> QED  BY <1>1, <1>3, <2>1, <2>2, OnwardSecond DEF Revalidate, files
<1> QED  BY <1>2, <1>3 DEF Revalidate

LEMMA CleanSecond ==
  ASSUME CInv, Clean
  PROVE  Second'
<1>1. /\ TypeOK /\ script.pc = "clean" /\ script.pc \in Chosen /\ script.candidate \in Groups
      /\ "start" \in Chosen \ {"revalidate"} /\ Moved("start")
  BY Moves, ChosenFacts DEF CInv, DInv, Clean, At, Chosen, Labels
<1>2. \A f \in Groups \ {script.candidate} : cont'[f] = cont[f]
  BY <1>1, RemoveFacts DEF Clean
<1>3. Workers' /\ NotRouted'
  BY <1>1 DEF Clean, CInv, Second, Workers, NotRouted, Moved, files
<1>4. Lasting'
  <2>1. nginx.group # script.candidate
    BY <1>1 DEF CInv, Second, NotRouted
  <2>2. nginx.state = "up" => nginx.group \in Groups
    BY DEF CInv, Second, Workers
  <2> QED
    BY <1>1, <1>2, <2>1, <2>2, ChosenFacts
       DEF Clean, CInv, Second, Lasting, Moved, Chosen, Live
<1> QED  BY <1>1, <1>3, <1>4, OnwardSecond DEF Clean, files

\* rollback() is entered: what is routed to the candidate stays to be undone.
LEMMA RollbackSecond ==
  ASSUME CInv, script.pc \in Failing, Rollback,
         UNCHANGED <<marker, trouble>>, Workers',
         script.active # None /\ "flap" \notin trouble /\ Live(script.active) =>
           cont'[script.active].health \in {"healthy", "degraded"},
         "flap" \notin trouble /\ "kill" \in trouble /\ nginx'.state = "up" =>
           cont'[nginx'.group].health \in {"healthy", "degraded"},
         ~script.switched => UNCHANGED nginx /\ upstream' \in {upstream, "broken"}
  PROVE  Second'
<1> DEFINE label == RollbackLabel
<1>1. TypeOK /\ script.pc \in Chosen /\ label \in Chosen \ {"revalidate"} /\ label \in Labels
  BY DEF CInv, DInv, Failing, Chosen, RollbackLabel, Labels
<1>2. Moved(label) /\ UNCHANGED ended
  BY <1>1, RollsBack
<1>3. label \in {"rbNginx", "rbClean", "rbWrite"}
  BY DEF RollbackLabel
<1>4. Lasting'
  BY <1>1, <1>2, <1>3 DEF CInv, Second, Lasting, Live, Moved, Chosen, Failing
<1>5. NotRouted'
  <2>1. CASE label = "rbClean"
    <3>1. script.active # None /\ ~script.switched
      BY <2>1 DEF RollbackLabel
    <3>2. script.pc \in {"start", "check", "switch"}
      BY <3>1 DEF CInv, DInv, Shape, Failing
    <3>3. script.candidate \in Groups
      BY <1>1, ChosenFacts DEF CInv
    <3>4. script.candidate # "broken"
      BY <3>3 DEF Groups
    <3> QED
      BY <1>2, <2>1, <3>1, <3>2, <3>4 DEF CInv, Second, NotRouted, Moved
  <2>2. CASE label \in {"rbNginx", "rbWrite"}
    BY <1>2, <2>2 DEF NotRouted, Moved
  <2> QED  BY <1>3, <2>1, <2>2
<1> QED  BY <1>1, <1>2, <1>4, <1>5, OnwardSecond

LEMMA StartCandidateSecond ==
  ASSUME CInv, StartCandidate
  PROVE  Second'
<1>1. /\ TypeOK /\ script.pc = "start" /\ script.pc \in Chosen /\ script.pc \in Failing
      /\ script.candidate \in Groups /\ script.active # script.candidate
      /\ script.active = None \/ script.active \in Groups
      /\ "check" \in Chosen \ {"revalidate"} /\ "check" \in Labels /\ script.sha \in Shas
  BY ChosenFacts DEF CInv, DInv, Shape, StartCandidate, At, Chosen, Labels, Failing
<1>2. \A f \in Groups \ {script.candidate} : cont'[f] = cont[f]
  BY <1>1, ContFacts, ContainerTypes DEF StartCandidate
<1>3. nginx.group # script.candidate /\ (nginx.state = "up" => nginx.group \in Groups)
  BY <1>1 DEF CInv, Second, NotRouted, Workers
<1>4. Workers'
  BY DEF StartCandidate, CInv, Second, Workers
<1>5. CASE Rollback
  <2>1. "flap" \notin trouble /\ "kill" \in trouble /\ nginx'.state = "up" =>
           cont'[nginx'.group].health \in {"healthy", "degraded"}
    BY <1>2, <1>3 DEF StartCandidate, CInv, Second, Lasting, Live
  <2>2. script.active # None /\ Live(script.active) =>
           cont'[script.active].health \in {"healthy", "degraded"}
    BY <1>1, <1>2 DEF Live
  <2> QED  BY <1>1, <1>4, <1>5, <2>1, <2>2, RollbackSecond DEF StartCandidate, files
<1>6. CASE Goto("check") /\ UNCHANGED ended
  <2>1. Moved("check")
    BY <1>1, <1>6, Moves
  <2>2. NotRouted'
    BY <1>1, <2>1 DEF StartCandidate, CInv, Second, NotRouted, Moved, files
  <2>3. Lasting'
    BY <1>1, <1>2, <1>3, <2>1 DEF StartCandidate, CInv, Second, Lasting, Moved, Chosen, Live
  <2> QED  BY <1>1, <1>4, <1>6, <2>1, <2>2, <2>3, OnwardSecond DEF StartCandidate, files
<1> QED  BY <1>5, <1>6 DEF StartCandidate

LEMMA CheckSecond ==
  ASSUME CInv, Check
  PROVE  Second'
<1>1. /\ TypeOK /\ script.pc = "check" /\ script.pc \in Chosen /\ script.pc \in Failing
      /\ "switch" \in Chosen \ {"revalidate"} /\ "switch" \in Labels
  BY DEF CInv, DInv, Check, At, Chosen, Labels, Failing
<1>2. Workers'
  BY DEF Check, CInv, Second, Workers
<1>3. CASE Rollback
  BY <1>1, <1>2, <1>3, RollbackSecond DEF Check, CInv, Second, Lasting, Live, files
<1>4. CASE /\ \/ cont[script.candidate].health = "healthy"
              \/ "flap" \in trouble /\ cont[script.candidate].health # "none"
           /\ Goto("switch") /\ UNCHANGED ended
  <2>1. Moved("switch")
    BY <1>1, <1>4, Moves
  <2>2. NotRouted'
    BY <1>1, <2>1 DEF Check, CInv, Second, NotRouted, Moved, files
  <2>3. Lasting'
    BY <1>1, <1>4, <2>1 DEF Check, CInv, Second, Lasting, Moved, Chosen, Live
  <2> QED  BY <1>1, <1>2, <1>4, <2>1, <2>2, <2>3, OnwardSecond DEF Check, files
<1> QED  BY <1>3, <1>4 DEF Check

LEMMA WriteUpstreamSecond ==
  ASSUME CInv, WriteUpstream
  PROVE  Second'
<1>1. /\ TypeOK /\ script.pc = "switch" /\ script.pc \in Chosen /\ script.pc \in Failing
  BY DEF CInv, DInv, WriteUpstream, At, Chosen, Failing
<1>2. Workers'
  BY DEF WriteUpstream, CInv, Second, Workers
<1>3. CASE upstream' = "broken" /\ Rollback
  BY <1>1, <1>2, <1>3, RollbackSecond DEF WriteUpstream, CInv, Second, Lasting, Live
<1>4. CASE /\ script' = [script EXCEPT !.pc = "reload", !.switched = TRUE]
           /\ UNCHANGED ended
  <2>1. /\ script'.pc = "reload" /\ script'.active = script.active
        /\ script'.candidate = script.candidate
    BY <1>1, <1>4, ScriptFacts DEF Script, Labels
  <2>2. NotRouted' /\ Agree'
    BY <2>1 DEF NotRouted, Agree
  <2>3. Lasting'
    BY <1>1, <2>1 DEF WriteUpstream, CInv, Second, Lasting, Chosen, Live
  <2> QED
    BY <1>1, <1>2, <1>4, <2>1, <2>2, <2>3, GoesOn DEF WriteUpstream, CInv, Second, Over
<1> QED  BY <1>3, <1>4 DEF WriteUpstream

LEMMA ReloadSecond ==
  ASSUME CInv, Reload
  PROVE  Second'
<1>1. /\ TypeOK /\ script.pc = "reload" /\ script.pc \in Chosen /\ script.pc \in Failing
      /\ script.candidate \in Groups /\ script.switched
      /\ "validate" \in Chosen \ {"revalidate"} /\ "validate" \in Labels
  BY ChosenFacts DEF CInv, DInv, Shape, Reload, At, Chosen, Labels, Failing
<1>2. Workers'
  BY <1>1 DEF Reload, CInv, Second, Workers
<1>3. "flap" \notin trouble /\ "kill" \in trouble /\ nginx'.state = "up" =>
        cont'[nginx'.group].health \in {"healthy", "degraded"}
  BY <1>1 DEF Reload, CInv, Second, Lasting, Live
<1>4. CASE Rollback
  BY <1>1, <1>2, <1>3, <1>4, RollbackSecond DEF Reload, Live, files
<1>5. CASE Goto("validate") /\ UNCHANGED ended
  <2>1. Moved("validate")
    BY <1>1, <1>5, Moves
  <2>2. NotRouted'
    BY <2>1 DEF NotRouted, Moved
  <2>3. Lasting'
    BY <1>1, <1>3, <2>1 DEF Reload, CInv, Second, Lasting, Moved, Chosen, Live
  <2> QED  BY <1>1, <1>2, <1>5, <2>1, <2>2, <2>3, OnwardSecond DEF Reload, files
<1> QED  BY <1>4, <1>5 DEF Reload

LEMMA ValidateSecond ==
  ASSUME CInv, Validate
  PROVE  Second'
<1>1. /\ TypeOK /\ script.pc = "validate" /\ script.pc \in Chosen /\ script.pc \in Failing
      /\ script.switched /\ "retire" \in Chosen \ {"revalidate"} /\ "retire" \in Labels
  BY DEF CInv, DInv, Shape, Validate, At, Chosen, Labels, Failing
<1>2. Workers'
  BY DEF Validate, CInv, Second, Workers
<1>3. CASE Rollback
  BY <1>1, <1>2, <1>3, RollbackSecond DEF Validate, CInv, Second, Lasting, Live, files
<1>4. CASE Goto("retire") /\ UNCHANGED ended
  <2>1. Moved("retire")
    BY <1>1, <1>4, Moves
  <2>2. NotRouted' /\ Lasting'
    BY <1>1, <2>1
       DEF Validate, CInv, Second, NotRouted, Lasting, Moved, Chosen, Live, files
  <2> QED  BY <1>1, <1>2, <1>4, <2>1, <2>2, OnwardSecond DEF Validate, files
<1> QED  BY <1>3, <1>4 DEF Validate

LEMMA RetireSecond ==
  ASSUME CInv, Retire
  PROVE  Second'
<1>1. /\ TypeOK /\ script.pc = "retire" /\ script.pc \in Chosen /\ script.candidate \in Groups
      /\ script.active # script.candidate /\ nginx.group = script.candidate
      /\ "persist" \in Chosen \ {"revalidate"} /\ Moved("persist")
  BY Moves, ChosenFacts DEF CInv, DInv, Switched, Retire, At, Chosen, Labels
<1>2. cont'[script.candidate] = cont[script.candidate]
  BY <1>1, ChosenFacts, RemoveFacts DEF Retire, CInv
<1>3. Workers' /\ NotRouted'
  BY <1>1 DEF Retire, CInv, Second, Workers, NotRouted, Moved
<1>4. Lasting'
  BY <1>1, <1>2 DEF Retire, CInv, Second, Lasting, Moved, Live
<1> QED  BY <1>1, <1>3, <1>4, OnwardSecond DEF Retire, files

LEMMA PersistSecond ==
  ASSUME CInv, Persist
  PROVE  Second'
<1>1. /\ TypeOK /\ script.pc = "persist" /\ script.candidate \in Groups
      /\ nginx.group = script.candidate /\ upstream = script.candidate
      /\ Present(script.candidate)
  BY ChosenFacts DEF CInv, DInv, Switched, Containment, Persist, At, Chosen
<1>2. Agree'
  BY <1>1 DEF Persist, Agree, Present
<1> QED  BY <1>2, QuietEnd DEF Persist, Outcome

LEMMA RbNginxSecond ==
  ASSUME Calm, CInv, RbNginx
  PROVE  Second'
<1>1. /\ TypeOK /\ script.pc = "rbNginx" /\ script.pc \in Chosen
      /\ "rbFiles" \in Chosen \ {"revalidate"} /\ Moved("rbFiles")
  BY Moves DEF CInv, DInv, RbNginx, At, Chosen, Labels
<1>2. nginx' = [state |-> "absent", group |-> None]
  BY <1>1, CalmNow DEF RbNginx
<1>4. Workers' /\ NotRouted'
  BY <1>1, <1>2, Others DEF Workers, NotRouted, Moved
<1>3. Lasting'
  BY <1>1, <1>2 DEF RbNginx, CInv, Second, Lasting, Moved, Chosen, Live
<1> QED  BY <1>1, <1>3, <1>4, OnwardSecond DEF RbNginx, files

LEMMA RbFilesSecond ==
  ASSUME CInv, RbFiles
  PROVE  Second'
<1>1. /\ TypeOK /\ script.pc = "rbFiles" /\ script.pc \in Chosen /\ script.active = None
      /\ script.candidate \in Groups /\ script.candidate # None
      /\ "rbClean" \in Chosen \ {"revalidate"} /\ Moved("rbClean")
  BY Moves, ChosenFacts DEF CInv, DInv, Shape, RbFiles, At, Chosen, Labels
<1>2. Workers'
  BY DEF RbFiles, CInv, Second, Workers
<1>3. NotRouted'
  <2>1. nginx.state = "absent"
    BY <1>1 DEF CInv, Second, NotRouted
  <2>2. nginx.group # script.candidate
    BY <1>1, <2>1, WorkerFacts DEF CInv, Second
  <2> QED  BY <1>1, <2>1, <2>2 DEF RbFiles, NotRouted, Moved
<1>4. Lasting'
  BY <1>1 DEF RbFiles, CInv, Second, Lasting, Moved, Chosen, Live
<1> QED  BY <1>1, <1>2, <1>3, <1>4, OnwardSecond DEF RbFiles

LEMMA RbWriteSecond ==
  ASSUME CInv, RbWrite
  PROVE  Second'
<1>1. /\ TypeOK /\ script.pc = "rbWrite" /\ script.pc \in Chosen
      /\ Present(script.active) /\ Present(script.candidate) /\ script.active # None
      /\ "rbReload" \in Chosen \ {"revalidate"} /\ "rbReload" \in Labels
  BY DEF CInv, DInv, Shape, Containment, RbWrite, At, Chosen, Labels
<1>2. Workers'
  BY DEF RbWrite, CInv, Second, Workers
<1>3. CASE upstream' = "broken" /\ End("died")
  <2>1. \A g \in Groups : Present(g)
    BY <1>1, ChosenFacts DEF CInv, Groups
  <2>2. Agree'
    BY <1>3, <2>1 DEF RbWrite, Agree, Present, Groups
  <2> QED  BY <1>3, <2>2, QuietEnd DEF RbWrite, Outcome
<1>4. CASE Goto("rbReload") /\ UNCHANGED ended
  <2>1. Moved("rbReload")
    BY <1>1, <1>4, Moves
  <2>2. NotRouted' /\ Lasting'
    BY <1>1, <2>1 DEF RbWrite, CInv, Second, NotRouted, Lasting, Moved, Chosen, Live
  <2> QED  BY <1>1, <1>2, <1>4, <2>1, <2>2, OnwardSecond DEF RbWrite
<1> QED  BY <1>3, <1>4 DEF RbWrite

LEMMA RbReloadSecond ==
  ASSUME CInv, RbReload
  PROVE  Second'
<1>1. /\ TypeOK /\ script.pc = "rbReload" /\ script.pc \in Chosen
      /\ script.active \in Groups /\ script.active # None /\ upstream = script.active
      /\ "rbVerify" \in Chosen \ {"revalidate"} /\ Moved("rbVerify")
  BY Moves, ChosenFacts DEF CInv, DInv, Shape, Switched, RbReload, At, Chosen, Labels
<1>2. Workers'
  BY <1>1 DEF RbReload, CInv, Second, Workers, TypeOK
<1>3. NotRouted'
  BY <1>1 DEF NotRouted, Moved
<1>4. Lasting'
  BY <1>1 DEF RbReload, CInv, Second, Lasting, Moved, Chosen, Live, TypeOK
<1> QED  BY <1>1, <1>2, <1>3, <1>4, OnwardSecond DEF RbReload, files

\* The old release answers, and with it nothing leads to the candidate; or both
\* groups stay and the marker is raised.
LEMMA RbVerifySecond ==
  ASSUME CInv, RbVerify
  PROVE  Second'
<1>1. /\ TypeOK /\ script.pc = "rbVerify" /\ script.pc \in Chosen
      /\ script.candidate \in Groups /\ script.active # script.candidate
      /\ script.active # None /\ upstream = script.active
      /\ Present(script.active) /\ Present(script.candidate)
      /\ "rbClean" \in Chosen \ {"revalidate"} /\ "rbClean" \in Labels
  BY ChosenFacts DEF CInv, DInv, Shape, Containment, Switched, RbVerify, At, Chosen, Labels
<1>2. Workers'
  BY DEF RbVerify, CInv, Second, Workers
<1>3. CASE Answers(script.active)
  <2>1. Moved("rbClean")
    BY <1>1, <1>3, Moves DEF RbVerify
  <2>2. NotRouted'
    BY <1>1, <1>3, <2>1 DEF RbVerify, NotRouted, Moved, Answers
  <2>3. Lasting'
    BY <1>1, <2>1 DEF RbVerify, CInv, Second, Lasting, Moved, Chosen, Live
  <2> QED  BY <1>1, <1>2, <1>3, <2>1, <2>2, <2>3, OnwardSecond DEF RbVerify
<1>4. CASE ~Answers(script.active)
  <2>1. /\ script'.pc = "idle" /\ ended'.how = "unverified" /\ marker'
        /\ ended'.active = script.active /\ ended'.candidate = script.candidate
    BY <1>1, <1>4, Ends DEF RbVerify, Outcome
  <2>2. Lasting' /\ Agree' /\ NotRouted'
    BY <1>1, <2>1 DEF RbVerify, CInv, Second, Lasting, Agree, NotRouted, Chosen, Live
  <2>3. Over'
    BY <1>1, <2>1 DEF Over, UpstreamRestored
  <2>4. \A g \in Groups : Present(g)
    BY <1>1, ChosenFacts DEF CInv, Groups
  <2>5. RollbackKeepsActive'
    BY <2>1, <2>4 DEF RbVerify, RollbackKeepsActive, Present
  <2> QED  BY <1>2, <2>2, <2>3, <2>5 DEF Second
<1> QED  BY <1>3, <1>4

LEMMA RbCleanSecond ==
  ASSUME CInv, RbClean
  PROVE  Second'
<1>1. /\ TypeOK /\ script.pc = "rbClean" /\ script.pc \in Chosen
      /\ script.candidate \in Groups /\ script.candidate # None
      /\ script.active # script.candidate
      /\ script.active = None \/ script.active \in Groups
      /\ script.active # None => Present(script.active)
      /\ \A g \in Groups : g # script.candidate => g = Other(script.candidate)
      /\ nginx.group # script.candidate
      /\ "kill" \notin trouble => upstream # script.candidate
  BY ChosenFacts DEF CInv, DInv, Containment, Second, NotRouted, RbClean, At, Chosen
<1>2. /\ script'.pc = "idle" /\ ended'.how = "rolledBack"
      /\ ended'.active = script.active /\ ended'.candidate = script.candidate
  BY <1>1, Ends DEF RbClean, Outcome
<1>3. /\ cont'[script.candidate].health = "none" \/ "stuck" \in trouble
      /\ \A f \in Groups \ {script.candidate} : cont'[f] = cont[f]
  BY <1>1, RemoveFacts DEF RbClean
<1>4. Workers' /\ NotRouted'
  BY <1>2 DEF RbClean, CInv, Second, Workers, NotRouted
<1>5. /\ nginx.group = None \/ nginx.group \in Groups
      /\ nginx.state = "up" <=> nginx.group # None
  BY WorkerFacts DEF CInv, Second
<1>6. Lasting'
  BY <1>1, <1>2, <1>3, <1>5 DEF RbClean, CInv, Second, Lasting, Chosen, Live
<1>7. Agree'
  <2>1. CASE script.active = None
    <3>1. nginx.state = "absent" /\ upstream = None
      BY <1>1, <2>1 DEF CInv, Second, NotRouted
    <3>2. nginx.group = None
      BY <1>5, <3>1
    <3> QED  BY <3>1, <3>2, Others DEF RbClean, Agree, files
  <2>2. CASE script.active \in Groups
    <3>1. \A g \in Groups : g # script.candidate => g = script.active
      BY <1>1, <2>2
    <3> QED  BY <1>1, <1>3, <2>2, <3>1, Others DEF RbClean, Agree, Present, files
  <2> QED  BY <1>1, <2>1, <2>2
<1>8. Over'
  BY <1>1, <1>2 DEF RbClean, Over, UpstreamRestored, files
<1>9. RollbackKeepsActive'
  BY <1>1, <1>2, <1>3, <1>5 DEF RbClean, RollbackKeepsActive, Present
<1> QED  BY <1>4, <1>6, <1>7, <1>8, <1>9 DEF Second

LEMMA KillSecond ==
  ASSUME CInv, Kill
  PROVE  Second'
BY QuietEnd DEF Kill, Agree, Outcome

LEMMA ChangeHealthSecond ==
  ASSUME CInv, NEW g \in Groups, ChangeHealth(g)
  PROVE  Second'
<1>1. /\ TypeOK /\ \A f \in Groups : (cont'[f].health = "none") <=> (cont[f].health = "none")
      /\ \A f \in Groups \ {g} : cont'[f] = cont[f]
  BY HealthFacts DEF CInv, DInv, Present
<1>2. UNCHANGED <<nginx, upstream, stateFile, marker, script, ended, kills, trouble>>
  BY DEF ChangeHealth, files
<1>3. Workers' /\ NotRouted' /\ Over'
  BY <1>2 DEF CInv, Second, Workers, NotRouted, Over, UpstreamRestored, At
<1>4. Lasting'
  <2>1. "flap" \notin trouble => \A f \in Groups : Live(f) => cont'[f] = cont[f]
    BY <1>1 DEF ChangeHealth, Live
  <2>2. script.pc \in Chosen =>
          script.candidate \in Groups /\ (script.active = None \/ script.active \in Groups)
    BY ChosenFacts DEF CInv
  <2>3. nginx.state = "up" => nginx.group \in Groups
    BY DEF CInv, Second, Workers
  <2> QED  BY <1>2, <2>1, <2>2, <2>3 DEF CInv, Second, Lasting, Live, Chosen
<1>5. Agree'
  BY <1>1, <1>2 DEF CInv, Second, Agree, Present
<1>6. RollbackKeepsActive'
  <2>1. ended.how = "rolledBack" /\ ended.active # None =>
          ended.active \in Groups /\ ended.candidate \in Groups
    BY <1>1 DEF CInv, Second, Over, TypeOK
  <2> QED  BY <1>1, <1>2, <2>1 DEF CInv, Second, RollbackKeepsActive, At
<1> QED  BY <1>3, <1>4, <1>5, <1>6 DEF Second

LEMMA RestartNginxSecond ==
  ASSUME Calm, CInv, RestartNginx
  PROVE  Second'
<1>1. /\ TypeOK /\ UNCHANGED <<cont, upstream, stateFile, marker, script, ended, kills, trouble>>
      /\ nginx' = IF upstream \in Groups THEN [state |-> "up", group |-> upstream]
                 ELSE [state |-> "down", group |-> None]
  BY DEF RestartNginx, files, CInv, DInv
<1>2. "reboot" \in trouble /\ "kill" \notin trouble /\ nginx.state # "absent"
  BY <1>1, CalmNow DEF RestartNginx, CInv, Second, Workers
<1>3. Workers'
  BY <1>1, <1>2, Others DEF Workers
<1>4. Lasting' /\ Agree'
  BY <1>1, <1>2, Others DEF CInv, Second, Lasting, Agree, Live, Present
<1>5. NotRouted'
  <2>1. script.pc \in Chosen => script.candidate \in Groups /\ script.candidate # None
    BY ChosenFacts DEF CInv
  <2> QED  BY <1>1, <1>2, <2>1 DEF CInv, Second, NotRouted, Chosen
<1>6. Over'
  BY <1>1 DEF CInv, Second, Over, UpstreamRestored, At
<1>7. RollbackKeepsActive'
  <2>1. At("idle") /\ ended.how = "rolledBack" /\ ended.active # None /\ nginx'.state = "up" =>
          nginx'.group = ended.active
    BY <1>1, <1>2 DEF CInv, Second, Over, UpstreamRestored, TypeOK, Groups
  <2> QED  BY <1>1, <2>1 DEF CInv, Second, RollbackKeepsActive, At
<1> QED  BY <1>3, <1>4, <1>5, <1>6, <1>7 DEF Second

LEMMA CInvariant ==
  ASSUME Calm
  PROVE  Spec => []CInv
<1>1. Init => CInv
  BY InitDInv, InitSecond DEF CInv
<1>2. ASSUME CInv, [Next]_vars PROVE CInv'
  <2>1. DInv'
    <3>1. ASSUME Step PROVE DInv'
      BY <1>2, <3>1, DetectKeeps, RevalidateKeeps, CleanKeeps, StartCandidateKeeps, CheckKeeps,
         WriteUpstreamKeeps, ReloadKeeps, ValidateKeeps, RetireKeeps, PersistKeeps,
         RbNginxKeeps, RbFilesKeeps, RbWriteKeeps, RbReloadKeeps, RbVerifyKeeps, RbCleanKeeps
         DEF Step, CInv
    <3> QED
      BY <1>2, <3>1, StartKeeps, KillKeeps, RestartNginxKeeps, ChangeHealthKeeps, Stutters
         DEF Next, CInv
  <2>2. ASSUME Step PROVE Second'
    BY <1>2, <2>2, DetectSecond, RevalidateSecond, CleanSecond, StartCandidateSecond,
       CheckSecond, WriteUpstreamSecond, ReloadSecond, ValidateSecond, RetireSecond,
       PersistSecond, RbNginxSecond, RbFilesSecond, RbWriteSecond, RbReloadSecond,
       RbVerifySecond, RbCleanSecond DEF Step
  <2>3. ASSUME UNCHANGED vars PROVE Second'
    BY <1>2, <2>3 DEF vars, files, CInv, Second, Workers, Lasting, Agree, NotRouted, Over,
       RollbackKeepsActive, UpstreamRestored, At, Live, Present
  <2>4. Second'
    BY <1>2, <2>2, <2>3, StartSecond, KillSecond, RestartNginxSecond, ChangeHealthSecond
       DEF Next
  <2> QED  BY <2>1, <2>4 DEF CInv
<1> QED  BY <1>1, <1>2, PTL DEF Spec

\* CandidateNotServed: until its switch, whatever earlier deployments were killed
\* and left in the files, nginx does not route to the candidate (unless kills meet
\* failing containers or a restarting nginx, or nginx cannot be removed).
THEOREM CandidateWaits ==
  ASSUME Calm
  PROVE  Spec => []CandidateNotServed
<1>1. CInv => CandidateNotServed
  BY DEF CInv, Second, NotRouted, CandidateNotServed, Answers
<1> QED  BY <1>1, CInvariant, PTL

\* RollbackKeepsActive: a deployment that rolled back has left the old release in
\* place and nginx on it and has removed the candidate, if docker could, or it has
\* left both groups and the marker.
THEOREM RollbackIsComplete ==
  ASSUME Calm
  PROVE  Spec => []RollbackKeepsActive
<1>1. CInv => RollbackKeepsActive
  BY DEF CInv, Second
<1> QED  BY <1>1, CInvariant, PTL

\* UpstreamRestored, where no deployment is killed and nginx can be removed: a
\* rollback leaves no file that names the release it removed.
THEOREM FileIsRestored ==
  ASSUME \A t \in Troubles : "kill" \notin t /\ "stuckNginx" \notin t
  PROVE  Spec => []UpstreamRestored
<1>1. Calm
  BY DEF Calm
<1>2. CInv => UpstreamRestored
  BY DEF CInv, DInv, TypeOK, Second, Over
<1> QED  BY <1>1, <1>2, CInvariant, PTL

\* ServingNotRemoved: no command of a deployment, a rollback or the next deployment
\* after a killed one takes away the containers that answer the public endpoint.
THEOREM ServingStays ==
  ASSUME Calm
  PROVE  Spec => ServingNotRemoved
<1> DEFINE Stays == \A g \in Groups : Answers(g) => cont'[g].health # "none" \/ NginxLeft
<1>1. ASSUME CInv, [Next]_vars PROVE [Stays]_vars
  <2> SUFFICES ASSUME Next, NEW g \in Groups, Answers(g)
               PROVE  cont'[g].health # "none"
    BY <1>1
  <2>1. TypeOK /\ Live(g) /\ Present(g) /\ nginx.group = g
    BY <1>1 DEF CInv, DInv, Answers, Live, Present
  <2>2. CASE UNCHANGED cont
    BY <2>1, <2>2 DEF Present
  <2>3. CASE Clean \/ StartCandidate \/ RbClean
    <3>1. script.candidate \in Groups /\ script.candidate # g
      BY <1>1, <2>1, <2>3, ChosenFacts
         DEF CInv, Second, NotRouted, Clean, StartCandidate, RbClean, At, Chosen
    <3>2. UNCHANGED cont \/ cont'[g] = cont[g]
      BY <2>1, <2>3, <3>1, RemoveFacts DEF Clean, StartCandidate, RbClean, TypeOK
    <3> QED  BY <2>1, <3>2 DEF Present
  <2>4. CASE Retire
    <3>1. /\ script.active # script.candidate /\ nginx.group = script.candidate
          /\ script.active = None \/ script.active \in Groups
      BY <1>1, <2>4, ChosenFacts DEF CInv, DInv, Switched, Retire, At, Chosen
    <3> QED  BY <2>1, <2>4, <3>1, RemoveFacts DEF Retire, Present
  <2>5. ASSUME NEW f \in Groups, ChangeHealth(f) PROVE cont'[g].health # "none"
    BY <2>1, <2>5, HealthFacts DEF Present
  <2> QED
    BY <2>2, <2>3, <2>4, <2>5
       DEF Next, Step, Start, Detect, Revalidate, Check, WriteUpstream, Reload, Validate,
           Persist, RbNginx, RbFiles, RbWrite, RbReload, RbVerify, Kill, RestartNginx
<1>2. Spec => [][Stays]_vars
  BY <1>1, CInvariant, PTL DEF Spec
<1> QED  BY <1>2 DEF ServingNotRemoved
-----------------------------------------------------------------------------
(***************************************************************************)
(* The public endpoint, where the containers that have become healthy stay *)
(* so.  What a restarting nginx reads then leads to a release that         *)
(* answers, unless the disk has failed.                                    *)
(***************************************************************************)
NoFlap == \A t \in Troubles : "flap" \notin t

FileServes ==
  "kill" \notin trouble /\ nginx.state # "absent" =>
    /\ upstream \in Groups => Live(upstream)
    /\ "disk" \notin trouble => upstream \in Groups

\* What a step does to the file and to what it names.
LEMMA FileNext ==
  ASSUME NoFlap, CInv, CInv', FileServes, Next
  PROVE  FileServes'
<1> SUFFICES ASSUME "kill" \notin trouble, nginx'.state # "absent"
             PROVE  /\ upstream' \in Groups => Live(upstream)'
                    /\ "disk" \notin trouble => upstream' \in Groups
  BY DEF FileServes, Next, Step, Start, Detect, Revalidate, Clean, StartCandidate, Check,
         WriteUpstream, Reload, Validate, Retire, Persist, RbNginx, RbFiles, RbWrite, RbReload,
         RbVerify, RbClean, Kill, RestartNginx, ChangeHealth
<1>1. /\ TypeOK /\ TypeOK' /\ "flap" \notin trouble
      /\ \A g \in Groups : g # None
  BY Others DEF CInv, DInv, TypeOK, NoFlap
<1>2. script.pc \in Chosen => script.candidate \in Groups /\ script.active # script.candidate
  BY ChosenFacts DEF CInv
<1>3. CASE UNCHANGED <<cont, upstream>> /\ (nginx.state = "absent" => nginx'.state = "absent")
  BY <1>3 DEF FileServes, Live
<1>4. CASE WriteUpstream
  <2>1. Live(script.candidate) /\ UNCHANGED cont
    BY <1>1, <1>4 DEF CInv, Second, Lasting, WriteUpstream, At
  <2> QED  BY <1>1, <1>2, <1>4, <2>1 DEF WriteUpstream, Live, Groups, Chosen, At
<1>5. CASE RbWrite
  <2>1. script.active # None /\ script.active \in Groups /\ Live(script.active) /\ UNCHANGED cont
    BY <1>1, <1>5, ChosenFacts
       DEF CInv, DInv, Shape, Second, Lasting, RbWrite, At, Chosen
  <2> QED  BY <1>1, <1>5, <2>1 DEF RbWrite, Live, Groups
<1>6. CASE Reload
  <2>1. upstream = script.candidate /\ Live(script.candidate)
    BY <1>1, <1>6 DEF CInv, DInv, Switched, Second, Lasting, Reload, At
  <2> QED  BY <1>2, <1>6, <2>1 DEF Reload, files, Live, Chosen, At
<1>7. CASE Clean \/ StartCandidate \/ RbClean
  <2>1. script.pc \in {"clean", "start", "rbClean"} /\ script.candidate \in Groups
    BY <1>2, <1>7 DEF Clean, StartCandidate, RbClean, At, Chosen
  <2>2. upstream # script.candidate
    BY <2>1 DEF CInv, Second, NotRouted
  <2>3. /\ UNCHANGED <<nginx, upstream>>
        /\ \A g \in Groups \ {script.candidate} : cont'[g] = cont[g]
    BY <1>1, <1>7, <2>1, RemoveFacts DEF Clean, StartCandidate, RbClean, files, TypeOK
  <2> QED  BY <2>1, <2>2, <2>3 DEF FileServes, Live
<1>8. CASE Retire
  <2>1. upstream = script.candidate /\ script.active # script.candidate
    BY <1>2, <1>8 DEF CInv, DInv, Switched, Retire, At, Chosen
  <2>2. cont'[script.candidate] = cont[script.candidate] /\ UNCHANGED <<nginx, upstream>>
    BY <1>1, <1>2, <1>8, <2>1, ChosenFacts, RemoveFacts DEF Retire, CInv, files, At, Chosen
  <2> QED  BY <2>1, <2>2 DEF FileServes, Live
<1>9. CASE RbFiles
  <2>1. nginx.state = "absent"
    BY <1>9 DEF CInv, DInv, Shape, Second, NotRouted, RbFiles, At
  <2> QED  BY <1>9, <2>1 DEF RbFiles
<1>10. ASSUME NEW g \in Groups, ChangeHealth(g)
       PROVE  /\ upstream' \in Groups => Live(upstream)'
              /\ "disk" \notin trouble => upstream' \in Groups
  <2>1. cont[g].health = "unhealthy" /\ ~Live(g) /\ UNCHANGED <<nginx, upstream>>
    BY <1>1, <1>10 DEF ChangeHealth, files, Live
  <2>2. \A f \in Groups : Live(f) => cont'[f] = cont[f]
    BY <1>1, <1>10, <2>1, HealthFacts
  <2> QED  BY <2>1, <2>2 DEF FileServes, Live
<1>11. CASE RbReload
  <2>1. nginx'.state = nginx.state /\ UNCHANGED <<cont, upstream>>
    BY <1>1, <1>11 DEF RbReload, files, TypeOK
  <2> QED  BY <1>3, <2>1
<1>12. CASE RestartNginx \/ RbNginx
  BY <1>3, <1>12 DEF RestartNginx, RbNginx, files
<1>13. CASE Detect \/ Revalidate \/ Check \/ Validate \/ Persist \/ RbVerify \/ Kill
  BY <1>3, <1>13 DEF Detect, Revalidate, Check, Validate, Persist, RbVerify, Kill, files
<1>14. ASSUME NEW sha \in Shas, Start(sha) PROVE UNCHANGED <<cont, upstream, nginx>>
  BY <1>14 DEF Start, files
<1> QED
  BY <1>3, <1>4, <1>5, <1>6, <1>7, <1>8, <1>9, <1>10, <1>11, <1>12, <1>13, <1>14
     DEF Next, Step

LEMMA FileInvariant ==
  ASSUME NoFlap, Calm
  PROVE  Spec => []FileServes
<1>1. Init => FileServes
  BY DEF Init, FileServes
<1>2. CInv /\ CInv' /\ FileServes /\ [Next]_vars => FileServes'
  <2>1. UNCHANGED vars /\ FileServes => FileServes'
    BY DEF vars, files, FileServes, Live
  <2> QED  BY <2>1, FileNext
<1> QED  BY <1>1, <1>2, CInvariant, PTL DEF Spec

\* nginx routes to a release that answers.
Served == nginx.state = "up" => \E g \in Groups : Answers(g)

NeverDark ==
  [][(\E g \in Groups : Answers(g)) /\ ~At("rbNginx") => (\E g \in Groups : Answers(g))']_vars

LEMMA ServedNext ==
  ASSUME NoFlap, Calm, CInv, CInv', FileServes, Served, Next, nginx'.state = "up"
  PROVE  \E f \in Groups : nginx'.group = f /\ Live(f)'
<1>1. TypeOK /\ "flap" \notin trouble
  BY DEF CInv, DInv, TypeOK, NoFlap
<1>2. CASE UNCHANGED nginx /\ \A g \in Groups : Answers(g) => cont'[g] = cont[g]
  BY <1>2 DEF Served, Answers, Live
<1>3. CASE Clean \/ StartCandidate \/ RbClean
  <2>1. script.candidate \in Groups /\ nginx.group # script.candidate
    BY <1>1, <1>3, ChosenFacts
       DEF CInv, Second, NotRouted, Clean, StartCandidate, RbClean, At, Chosen
  <2>2. UNCHANGED nginx /\ \A g \in Groups \ {script.candidate} : cont'[g] = cont[g]
    BY <1>1, <1>3, <2>1, RemoveFacts DEF Clean, StartCandidate, RbClean, TypeOK
  <2> QED  BY <1>2, <2>1, <2>2 DEF Answers
<1>4. CASE Retire
  <2>1. /\ nginx.group = script.candidate /\ script.active # script.candidate
        /\ script.candidate \in Groups
        /\ script.active = None \/ script.active \in Groups
    BY <1>1, <1>4, ChosenFacts DEF CInv, DInv, Switched, Retire, At, Chosen
  <2>2. UNCHANGED nginx /\ cont'[script.candidate] = cont[script.candidate]
    BY <1>1, <1>4, <2>1, RemoveFacts DEF Retire
  <2> QED  BY <1>2, <2>1, <2>2 DEF Answers
<1>5. ASSUME NEW f \in Groups, ChangeHealth(f)
      PROVE  UNCHANGED nginx /\ \A g \in Groups : Answers(g) => cont'[g] = cont[g]
  BY <1>1, <1>5, HealthFacts DEF ChangeHealth, Answers, Live
<1>6. CASE Reload
  <2>1. script.candidate \in Groups /\ Live(script.candidate)
    BY <1>1, <1>6, ChosenFacts DEF CInv, Second, Lasting, Reload, At, Chosen
  <2> QED  BY <1>2, <1>6, <2>1 DEF Reload, Live
<1>7. CASE RbReload
  <2>1. upstream = script.active /\ script.active \in Groups /\ Live(script.active)
    BY <1>1, <1>7, ChosenFacts
       DEF CInv, DInv, Shape, Switched, Second, Lasting, RbReload, At, Chosen
  <2> QED  BY <1>1, <1>2, <1>7, <2>1 DEF RbReload, Live, TypeOK
<1>8. CASE RestartNginx
  <2>1. upstream \in Groups /\ nginx'.group = upstream /\ UNCHANGED cont
    BY <1>8 DEF RestartNginx
  <2>2. "kill" \notin trouble /\ nginx.state # "absent"
    BY <1>1, <1>8, CalmNow DEF RestartNginx, CInv, Second, Workers
  <2> QED  BY <2>1, <2>2 DEF FileServes, Live
<1>9. CASE RbNginx
  BY <1>1, <1>9, CalmNow DEF RbNginx
<1>10. CASE \/ Detect \/ Revalidate \/ Check \/ WriteUpstream \/ Validate \/ Persist
            \/ RbFiles \/ RbWrite \/ RbVerify \/ Kill \/ \E sha \in Shas : Start(sha)
  BY <1>2, <1>10 DEF Detect, Revalidate, Check, WriteUpstream, Validate, Persist, RbFiles,
     RbWrite, RbVerify, Kill, Start
<1> QED
  BY <1>2, <1>3, <1>4, <1>5, <1>6, <1>7, <1>8, <1>9, <1>10 DEF Next, Step

\* Whether by a switch, by a rollback or by a restart that reads what an earlier
\* deployment has left in the file, nginx never routes to a release that does not
\* answer.
THEOREM RoutesToLive ==
  ASSUME NoFlap, Calm
  PROVE  Spec => []Served
<1>1. Init => Served
  BY DEF Init, Served
<1>2. CInv /\ CInv' /\ FileServes /\ Served /\ [Next]_vars => Served'
  <2>1. UNCHANGED vars /\ Served => Served'
    BY DEF vars, Served, Answers, Live
  <2> QED  BY <2>1, ServedNext DEF Served, Answers
<1> QED  BY <1>1, <1>2, CInvariant, FileInvariant, PTL DEF Spec

\* "The active release continues serving traffic" (OPERATIONS.md): once the public
\* endpoint answers it answers after every command of every deployment, after every
\* kill, and after every restart of nginx where the disk does not fail; only the
\* rollback of a first deployment, which has nothing to go back to, takes it away.
THEOREM ZeroDowntime ==
  ASSUME NoFlap, Calm, \A t \in Troubles : "reboot" \in t => "disk" \notin t
  PROVE  Spec => NeverDark
<1>1. ASSUME CInv, FileServes, Next, nginx.state = "up", ~At("rbNginx")
      PROVE  nginx'.state = "up"
  <2>1. TypeOK /\ ("reboot" \in trouble => "disk" \notin trouble)
    BY <1>1 DEF CInv, DInv, TypeOK
  <2>2. CASE RestartNginx
    <3>1. "reboot" \in trouble /\ "kill" \notin trouble
      BY <1>1, <2>1, <2>2, CalmNow DEF RestartNginx
    <3> QED  BY <1>1, <2>1, <2>2, <3>1 DEF RestartNginx, FileServes
  <2>3. CASE Reload \/ RbReload
    BY <1>1, <2>1, <2>3 DEF Reload, RbReload, TypeOK
  <2>4. CASE \/ Detect \/ Revalidate \/ Clean \/ StartCandidate \/ Check \/ WriteUpstream
             \/ Validate \/ Retire \/ Persist \/ RbFiles \/ RbWrite \/ RbVerify \/ RbClean
             \/ Kill \/ (\E sha \in Shas : Start(sha)) \/ \E g \in Groups : ChangeHealth(g)
    BY <1>1, <2>4 DEF Detect, Revalidate, Clean, StartCandidate, Check, WriteUpstream,
       Validate, Retire, Persist, RbFiles, RbWrite, RbVerify, RbClean, Kill, Start,
       ChangeHealth
  <2> QED  BY <1>1, <2>2, <2>3, <2>4 DEF Next, Step, RbNginx
<1>2. CInv /\ FileServes /\ Served' /\ [Next]_vars =>
        [(\E g \in Groups : Answers(g)) /\ ~At("rbNginx") => (\E g \in Groups : Answers(g))']_vars
  BY <1>1 DEF Served, Answers
<1> QED  BY <1>2, CInvariant, FileInvariant, RoutesToLive, PTL DEF Spec, NeverDark
=============================================================================
