------------------------------- MODULE Deploy -------------------------------
(***************************************************************************)
(* scripts/deploy.sh: replacing one release group (blue or green) by the   *)
(* other behind nginx.  The deployment lock admits one script at a time;   *)
(* the kernel drops it with the process, so a killed deployment leaves     *)
(* whatever it has done and the next one decides what is active from       *)
(* containers, files and the public endpoint.                              *)
(*                                                                         *)
(* A step is one command that changes containers, nginx or a file, with    *)
(* the tests that lead to it.  What determine_active_release looks at is   *)
(* read in one step.  Everything before it (validation of settings, pulls, *)
(* shared services) changes nothing that is modelled and is part of Start. *)
(***************************************************************************)
EXTENDS Naturals

CONSTANTS
  Shas,      \* commits that are deployed
  MaxKills,  \* bound on killed deployments
  Troubles,  \* environments to consider, each a set of the words below
  None       \* no group, no commit, no file

(***************************************************************************)
(* "kill"        a deployment is killed at any point                       *)
(* "flap"        running containers fail and recover at any time           *)
(* "reboot"      the nginx container restarts at any time, reading its files *)
(* "disk"        the upstream file is truncated and cannot be written      *)
(* "stuck"       a release may go on running when it is stopped and removed *)
(* "stuckNginx"  and so may nginx: the script ignores either               *)
(***************************************************************************)
ASSUME TroublesAssumption ==
  Troubles \subseteq SUBSET {"kill", "flap", "reboot", "disk", "stuck", "stuckNginx"}
ASSUME MaxKillsAssumption == MaxKills \in Nat
ASSUME NoneAssumption == None \notin Shas /\ None \notin {"blue", "green", "broken"}

VARIABLES
  cont,       \* containers of each group: their commit and health
  nginx,      \* the nginx container and the group its workers route to
  upstream,   \* nginx/active-upstream.conf
  stateFile,  \* .active-release
  marker,     \* .deployment-recovery-required
  script,     \* the running deployment and its shell variables
  ended,      \* history: how the last deployment ended, and its variables
  kills,      \* deployments killed so far
  trouble     \* the environment of this behaviour

files == <<upstream, stateFile, marker>>
vars == <<cont, nginx, files, script, ended, kills, trouble>>

Groups == {"blue", "green"}
Other(g) == IF g = "blue" THEN "green" ELSE "blue"

\* inspect_health: "healthy" when every replica is, "degraded" when some are.
Health == {"none", "unhealthy", "degraded", "healthy"}
Containers == [sha : Shas \cup {None}, health : Health]
Removed == [sha |-> None, health |-> "none"]

Labels ==
  {"idle", "detect", "revalidate", "clean", "start", "check", "switch", "reload", "validate",
   "retire", "persist",
   "rbNginx", "rbFiles", "rbWrite", "rbReload", "rbVerify", "rbClean"}   \* rollback()

Script ==
  [pc : Labels, sha : Shas \cup {None}, active : Groups \cup {None}, prev : Shas \cup {None},
   candidate : Groups \cup {None}, switched : BOOLEAN]
NoScript ==
  [pc |-> "idle", sha |-> None, active |-> None, prev |-> None, candidate |-> None,
   switched |-> FALSE]

Outcome == {"never", "fatal", "success", "rolledBack", "unverified", "died", "killed"}

TypeOK ==
  /\ cont \in [Groups -> Containers]
  /\ nginx \in [state : {"absent", "down", "up"}, group : Groups \cup {None}]
  /\ upstream \in Groups \cup {None, "broken"}
  /\ stateFile \in Groups \cup {None}
  /\ marker \in BOOLEAN
  /\ script \in Script
  /\ ended \in [how : Outcome, sha : Shas \cup {None}, active : Groups \cup {None},
                candidate : Groups \cup {None}]
  /\ kills \in 0..MaxKills
  /\ trouble \in Troubles

\* A host on which nothing was ever deployed.
Init ==
  /\ cont = [g \in Groups |-> Removed]
  /\ nginx = [state |-> "absent", group |-> None]
  /\ upstream = None /\ stateFile = None /\ marker = FALSE
  /\ script = NoScript
  /\ ended = [how |-> "never", sha |-> None, active |-> None, candidate |-> None]
  /\ kills = 0
  /\ trouble \in Troubles
-----------------------------------------------------------------------------
At(label) == script.pc = label
Goto(label) == script' = [script EXCEPT !.pc = label]

End(how) ==
  /\ script' = NoScript
  /\ ended' = [how |-> how, sha |-> script.sha, active |-> script.active,
               candidate |-> script.candidate]

\* compose stop and rm, whose errors are swallowed.
RemoveGroup(g) ==
  \/ cont' = [cont EXCEPT ![g] = Removed]
  \/ "stuck" \in trouble /\ UNCHANGED cont

Live(g) == cont[g].health \in {"healthy", "degraded"}

\* GET /health/ready through nginx reaches a replica of g that is ready.
Answers(g) == nginx.state = "up" /\ nginx.group = g /\ Live(g)

\* rollback(): what it does first depends on the shell variables.
Rollback ==
  /\ Goto(IF script.active = None THEN "rbNginx"
          ELSE IF script.switched THEN "rbWrite" ELSE "rbClean")
  /\ UNCHANGED ended

\* determine_active_release: the candidates for DETECTED_ACTIVE, by evidence.
Answering == {g \in Groups : Answers(g)}
Alone == {g \in Groups : Live(g) /\ cont[Other(g)].health = "none"}
Hinted == {g \in Groups : upstream = g /\ Live(g)}

\* Faulty: the hint of the file goes before the answer of the endpoint.
DetectedByHint ==
  IF \A g \in Groups : cont[g].health = "none" THEN {None}
  ELSE IF Hinted # {} THEN Hinted
  ELSE IF Answering # {} THEN Answering
  ELSE Alone

Detected ==
  IF \A g \in Groups : cont[g].health = "none" THEN {None}
  ELSE IF Answering # {} THEN Answering
  ELSE IF Alone # {} THEN Alone
  ELSE Hinted
-----------------------------------------------------------------------------
\* Faulty: the commit is compared with the one being deployed.
RevalidateCommit ==
  /\ At("revalidate")
  /\ \/ \E g \in Detected :
          /\ script.active # None => g = script.active /\ cont[g].sha = script.sha
          /\ Goto("clean") /\ UNCHANGED ended
     \/ End("fatal")
  /\ UNCHANGED <<cont, nginx, files, kills, trouble>>

\* Faulty: an unverified rollback removes the candidate all the same.
RbVerifyAnyway ==
  /\ At("rbVerify")
  /\ Goto("rbClean")
  /\ UNCHANGED <<cont, nginx, files, ended, kills, trouble>>

\* Faulty: the public validation does not look at the commit and the group.
ValidateReady ==
  /\ At("validate")
  /\ \/ (\E g \in Groups : Answers(g)) /\ Goto("retire") /\ UNCHANGED ended
     \/ ~Answers(script.candidate) /\ Rollback
  /\ UNCHANGED <<cont, nginx, files, kills, trouble>>

\* Faulty: the commit is recorded instead of the group.
PersistCommit ==
  /\ At("persist")
  /\ stateFile' = script.sha /\ marker' = FALSE
  /\ End("success")
  /\ UNCHANGED <<cont, nginx, upstream, kills, trouble>>
-----------------------------------------------------------------------------
(***************************************************************************)
(* The script                                                              *)
(***************************************************************************)

\* Lock, recovery marker, settings, images, shared services.
Start(sha) ==
  /\ At("idle")
  /\ ~marker
  /\ script' = [NoScript EXCEPT !.pc = "detect", !.sha = sha]
  /\ UNCHANGED <<cont, nginx, files, ended, kills, trouble>>

\* Phase A; only the state file is aligned with what was found.
Detect ==
  /\ At("detect")
  /\ \/ \E g \in Detected :
          /\ script' = [script EXCEPT !.pc = "revalidate", !.active = g,
                          !.prev = IF g = None THEN None ELSE cont[g].sha,
                          !.candidate = IF g = None THEN "blue" ELSE Other(g)]
          /\ stateFile' = IF g = None THEN stateFile ELSE g
          /\ UNCHANGED ended
     \/ Detected = {} /\ End("fatal") /\ UNCHANGED stateFile
  /\ UNCHANGED <<cont, nginx, upstream, marker, kills, trouble>>

\* Migrations, which may fail, and phase B, which compares.
Revalidate ==
  /\ At("revalidate")
  /\ \/ \E g \in Detected :
          /\ script.active # None => g = script.active /\ cont[g].sha = script.prev
          /\ Goto("clean") /\ UNCHANGED ended
     \/ End("fatal")
  /\ UNCHANGED <<cont, nginx, files, kills, trouble>>

\* Containers left by an earlier deployment go; from here on errors roll back.
Clean ==
  /\ At("clean")
  /\ RemoveGroup(script.candidate)
  /\ Goto("start")
  /\ UNCHANGED <<nginx, files, ended, kills, trouble>>

\* up --force-recreate; it may fail with and without leaving containers.
StartCandidate ==
  /\ At("start")
  /\ \/ /\ cont' = [cont EXCEPT ![script.candidate] = [sha |-> script.sha, health |-> "unhealthy"]]
        /\ \/ Goto("check") /\ UNCHANGED ended
           \/ Rollback
     \/ Rollback /\ UNCHANGED cont
  /\ UNCHANGED <<nginx, files, kills, trouble>>

\* The replicas are looked at one after another: with "flap" they need not all be
\* healthy at the same time to pass.
Check ==
  /\ At("check")
  /\ \/ /\ \/ cont[script.candidate].health = "healthy"
           \/ "flap" \in trouble /\ cont[script.candidate].health # "none"
        /\ Goto("switch") /\ UNCHANGED ended
     \/ cont[script.candidate].health # "healthy" /\ Rollback
  /\ UNCHANGED <<cont, nginx, files, kills, trouble>>

\* NGINX_SWITCHED only becomes true when the file was written.
WriteUpstream ==
  /\ At("switch")
  /\ \/ /\ upstream' = script.candidate
        /\ script' = [script EXCEPT !.pc = "reload", !.switched = TRUE]
        /\ UNCHANGED ended
     \/ "disk" \in trouble /\ upstream' = "broken" /\ Rollback
  /\ UNCHANGED <<cont, nginx, stateFile, marker, kills, trouble>>

\* Start nginx when there is none, test its configuration, tell it to reload: that
\* command ends before the workers change, which the master may also refuse.
Reload ==
  /\ At("reload")
  /\ \/ /\ nginx.state # "down"
        /\ \/ nginx' = [state |-> "up", group |-> script.candidate]
           \/ nginx.state = "up" /\ UNCHANGED nginx
        /\ \/ Goto("validate") /\ UNCHANGED ended
           \/ nginx.state = "absent" /\ Rollback
     \/ Rollback /\ UNCHANGED nginx
  /\ UNCHANGED <<cont, files, kills, trouble>>

Validate ==
  LET confirmed == Answers(script.candidate) /\ cont[script.candidate].sha = script.sha IN
  /\ At("validate")
  /\ \/ confirmed /\ Goto("retire") /\ UNCHANGED ended
     \/ ~confirmed /\ Rollback
  /\ UNCHANGED <<cont, nginx, files, kills, trouble>>

Retire ==
  /\ At("retire")
  /\ IF script.active = None THEN UNCHANGED cont ELSE RemoveGroup(script.active)
  /\ Goto("persist")
  /\ UNCHANGED <<nginx, files, ended, kills, trouble>>

Persist ==
  /\ At("persist")
  /\ stateFile' = script.candidate /\ marker' = FALSE
  /\ End("success")
  /\ UNCHANGED <<cont, nginx, upstream, kills, trouble>>
-----------------------------------------------------------------------------
(***************************************************************************)
(* rollback()                                                              *)
(***************************************************************************)

\* First deployment: nginx, its files and the candidate go.
RbNginx ==
  /\ At("rbNginx")
  /\ \/ nginx' = [state |-> "absent", group |-> None]
     \/ "stuckNginx" \in trouble /\ UNCHANGED nginx
  /\ Goto("rbFiles")
  /\ UNCHANGED <<cont, files, ended, kills, trouble>>

RbFiles ==
  /\ At("rbFiles")
  /\ upstream' = None /\ stateFile' = None /\ marker' = FALSE
  /\ Goto("rbClean")
  /\ UNCHANGED <<cont, nginx, ended, kills, trouble>>

\* set -e is still on: when this write fails, the script is over.
RbWrite ==
  /\ At("rbWrite")
  /\ \/ upstream' = script.active /\ Goto("rbReload") /\ UNCHANGED ended
     \/ "disk" \in trouble /\ upstream' = "broken" /\ End("died")
  /\ UNCHANGED <<cont, nginx, stateFile, marker, kills, trouble>>

\* A reload that fails is ignored.
RbReload ==
  /\ At("rbReload")
  /\ \/ nginx.state = "up" /\ nginx' = [nginx EXCEPT !.group = upstream]
     \/ UNCHANGED nginx
  /\ Goto("rbVerify")
  /\ UNCHANGED <<cont, files, ended, kills, trouble>>

\* Both groups stay, with a marker, unless the old one answers.
RbVerify ==
  /\ At("rbVerify")
  /\ IF Answers(script.active)
     THEN Goto("rbClean") /\ UNCHANGED <<marker, ended>>
     ELSE marker' = TRUE /\ End("unverified")
  /\ UNCHANGED <<cont, nginx, upstream, stateFile, kills, trouble>>

RbClean ==
  /\ At("rbClean")
  /\ RemoveGroup(script.candidate)
  /\ End("rolledBack")
  /\ UNCHANGED <<nginx, files, kills, trouble>>
-----------------------------------------------------------------------------
(***************************************************************************)
(* The host                                                                *)
(***************************************************************************)
Kill ==
  /\ "kill" \in trouble /\ kills < MaxKills
  /\ ~At("idle")
  /\ kills' = kills + 1
  /\ End("killed")
  /\ UNCHANGED <<cont, nginx, files, trouble>>

\* Started containers settle; with "flap" they also fail and recover later.
ChangeHealth(g) ==
  /\ cont[g].health = "unhealthy" \/ ("flap" \in trouble /\ cont[g].health # "none")
  /\ \E new \in Health \ {"none", cont[g].health} : cont' = [cont EXCEPT ![g].health = new]
  /\ UNCHANGED <<nginx, files, script, ended, kills, trouble>>

\* restart: always
RestartNginx ==
  /\ nginx.state = "down" \/ ("reboot" \in trouble /\ nginx.state = "up")
  /\ nginx' = IF upstream \in Groups THEN [state |-> "up", group |-> upstream]
              ELSE [state |-> "down", group |-> None]
  /\ UNCHANGED <<cont, files, script, ended, kills, trouble>>

Step ==
  \/ Detect \/ Revalidate \/ Clean \/ StartCandidate \/ Check \/ WriteUpstream \/ Reload
  \/ Validate \/ Retire \/ Persist
  \/ RbNginx \/ RbFiles \/ RbWrite \/ RbReload \/ RbVerify \/ RbClean

Next ==
  \/ \E sha \in Shas : Start(sha)
  \/ Step \/ Kill \/ RestartNginx
  \/ \E g \in Groups : ChangeHealth(g)

Spec == Init /\ [][Next]_vars
-----------------------------------------------------------------------------
\* A first deployment, on a host where the rollback of an earlier one may have left
\* an nginx that it could not remove.
NginxLeft == "stuckNginx" \in trouble /\ script.active = None

\* "Only one group serves traffic at any time" (OPERATIONS.md), and no command of
\* a deployment, a rollback or the next deployment after a killed one takes away
\* the containers that answer the public endpoint; but for a first deployment
\* whose nginx cannot be removed.
ServingNotRemoved ==
  [][\A g \in Groups : Answers(g) => cont'[g].health # "none" \/ NginxLeft]_vars

\* "Nginx does not route to it yet" (OPERATIONS.md): until every replica of the
\* candidate is healthy and the switch is under way, the public endpoint is not
\* answered by it, unless a failed first deployment could not remove its nginx.
CandidateNotServed ==
  script.pc \in {"clean", "start", "check", "switch"} => ~Answers(script.candidate) \/ NginxLeft

\* A deployment that says it succeeded leaves its group with the deployed commit,
\* and nginx, upstream file and state file agree on it, also when it had to pick
\* up after one that was killed.  The other group is gone where a release that is
\* stopped and removed does not go on running: the script does not look.
SuccessAgrees ==
  ended.how = "success" /\ At("idle") =>
    LET g == ended.candidate IN
    /\ cont[g].sha = ended.sha /\ cont[g].health # "none"
    /\ cont[Other(g)].health = "none" \/ "stuck" \in trouble
    /\ nginx.group = g /\ upstream = g /\ stateFile = g

\* A deployment that rolled back without raising the recovery marker leaves the
\* old release in place and nginx, where there is one, on it, and has removed the
\* candidate unless docker could not; one that could not verify the rollback
\* leaves the marker and the containers of both groups.
RollbackKeepsActive ==
  At("idle") /\ ended.active # None =>
    /\ ended.how = "rolledBack" =>
         /\ cont[ended.active].health # "none"
         /\ cont[ended.candidate].health = "none" \/ "stuck" \in trouble
         /\ nginx.state = "up" => nginx.group = ended.active
    /\ ended.how = "unverified" =>
         marker /\ \A g \in Groups : cont[g].health # "none"

\* "Rollback - if any step after candidate startup fails, restore old upstream"
\* (OPERATIONS.md): a rollback leaves no file that names the release it removed.
UpstreamRestored ==
  At("idle") /\ ended.how = "rolledBack" => upstream # ended.candidate
-----------------------------------------------------------------------------
(***************************************************************************)
(* Deployments keep being started and their commands end.  A command that  *)
(* may fail does not fail for ever, and a candidate that is checked again  *)
(* and again becomes healthy, at last, within the time it is given.        *)
(***************************************************************************)
MayFail == {"revalidate", "start", "switch", "reload", "validate"}
Works(label) ==
  /\ At(label) /\ Step
  /\ script'.pc \notin {"idle", "rbNginx", "rbWrite", "rbClean"}
  /\ At("reload") => nginx'.group = script.candidate

Settle ==
  /\ At("check")
  /\ \E g \in Groups :
       g = script.candidate /\ ChangeHealth(g) /\ cont'[g].health = "healthy"

LiveSpec ==
  /\ Spec
  /\ WF_vars(\E sha \in Shas : Start(sha))
  /\ WF_vars(Step)
  /\ \A label \in MayFail : SF_vars(Works(label))
  /\ SF_vars(Settle)

\* Killing deployments, at any point and more than once, and a disk that fails at
\* times, never wedge the host while a release answers: a later deployment
\* succeeds, unless a rollback raised the marker that calls for an operator.
DeploysAgain ==
  At("idle") /\ (\E g \in Groups : Answers(g)) /\ "flap" \notin trouble ~>
    ended.how = "success" \/ marker
=============================================================================
