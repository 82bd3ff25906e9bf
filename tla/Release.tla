------------------------------ MODULE Release ------------------------------
(***************************************************************************)
(* Releases of the running system (scripts/deploy_web.py,                  *)
(* scripts/deploy_queue_clear.py, scripts/verify_deployment.py) and the    *)
(* one-shot playback checkpoint the backend consumes when a release        *)
(* restarts it (backend/main.py, _restore_release_playback).               *)
(*                                                                         *)
(* An operator's script inspects the host, uploads an archive and runs one *)
(* shell script there over ssh; that script prepares, builds, probes and   *)
(* switches, and a trap undoes an unfinished switch when it exits.  The    *)
(* operator's side then runs the acceptance checks and restores the        *)
(* starting override when they fail.  "deploy" and "rollback" replace the  *)
(* Web container alone, "paired" the backend and then the Web container.   *)
(* The remote shell goes on when the connection is lost, several operators *)
(* may work at once, and nothing locks the host.                           *)
(***************************************************************************)
EXTENDS Naturals

CONSTANTS
  Operators,  \* people (or jobs) who run one of the scripts
  Releases,   \* names of releases; one image and one override each
  First,      \* the release that runs at the start
  Tracks,     \* audio sources
  Nothing,    \* no release, no override, no track, no checkpoint
  Defects,    \* routes a new build may turn out not to serve
  MaxRuns     \* bound: how many operations are started

Services == {"web", "backend"}
Routes == {"page", "assets", "api", "admin", "cover", "socket"}

ASSUME ReleaseAssumption ==
  /\ First \in Releases
  /\ Nothing \notin Releases \cup Tracks
  /\ Defects \subseteq Routes
  /\ MaxRuns \in Nat

VARIABLES
  serves,     \* release of the image each container runs; Nothing: it does not run
  under,      \* the override the Web container's labels name
  override,   \* the override files: the images they name
  stage,      \* how far each release directory came
  offers,     \* the routes each release's Web image serves; none before it is built
  op,         \* per operator: the script's and the remote shell's control
  runs,       \* operations started
  voice,      \* the voice service: its source, and whether it still plays
  now,        \* the track the backend shows
  up,         \* the backend process: "up", "boot" or "down"
  checkpoint, \* per release: the checkpoint file the backend consumes
  saved,      \* per release: the copy of it kept in the release directory
  steady      \* history: releases whose captured track has played ever since

hostVars == <<serves, under>>
fileVars == <<override, stage, offers>>
playVars == <<voice, now, up>>
pointVars == <<checkpoint, saved, steady>>
vars == <<hostVars, fileVars, playVars, pointVars, op, runs>>

Kinds == {"deploy", "rollback", "paired"}
Overrides == [Services -> Releases]
Payload == [track : Tracks \cup {Nothing}, src : Tracks \cup {Nothing},
            state : {"playing", "idle", "error"}]

ASSUME NothingIsNone == Nothing \notin Overrides \cup Payload

\* One operation: where the operator's script is, where the remote shell is,
\* the flags of that shell, and what went wrong around it (history).
Operation ==
  [at : {"idle", "package", "remote", "accept", "again", "restore", "report"},
   sh : {"none", "fresh", "unpack", "build", "probe", "capture", "switch",
         "resumed", "web", "image", "ready", "commit", "exit", "over"},
   kind : Kinds, rel : Releases, from : Releases,
   switched : BOOLEAN, complete : BOOLEAN, ok : BOOLEAN, link : BOOLEAN,
   had : [Services -> Releases \cup {Nothing}], trouble : BOOLEAN,
   result : {"none", "ok", "failed"}]

Resting == [at |-> "idle", sh |-> "none", kind |-> "deploy", rel |-> First,
            from |-> First, switched |-> FALSE, complete |-> FALSE,
            ok |-> FALSE, link |-> FALSE, had |-> [s \in Services |-> First],
            trouble |-> FALSE, result |-> "none"]

TypeOK ==
  /\ serves \in [Services -> Releases \cup {Nothing}]
  /\ under \in Releases
  /\ override \in [Releases -> Overrides \cup {Nothing}]
  /\ stage \in [Releases -> {"none", "made", "prepared", "deployed"}]
  /\ offers \in [Releases -> SUBSET Routes]
  /\ op \in [Operators -> Operation]
  /\ runs \in 0 .. MaxRuns
  /\ voice \in [src : Tracks, on : BOOLEAN]
  /\ now \in Tracks \cup {Nothing}
  /\ up \in {"up", "boot", "down"}
  /\ checkpoint \in [Releases -> Payload \cup {Nothing}]
  /\ saved \in [Releases -> Payload \cup {Nothing}]
  /\ steady \subseteq Releases

Init ==
  /\ serves = [s \in Services |-> First]
  /\ under = First
  /\ override = [r \in Releases |-> IF r = First THEN [s \in Services |-> First] ELSE Nothing]
  /\ stage = [r \in Releases |-> IF r = First THEN "deployed" ELSE "none"]
  /\ offers = [r \in Releases |-> IF r = First THEN Routes ELSE {}]
  /\ op = [o \in Operators |-> Resting]
  /\ runs = 0
  /\ \E t \in Tracks : voice = [src |-> t, on |-> TRUE] /\ now = t
  /\ up = "up"
  /\ checkpoint = [r \in Releases |-> Nothing]
  /\ saved = [r \in Releases |-> Nothing]
  /\ steady = {}

-----------------------------------------------------------------------------
(* The acceptance checks.  A site is the set of routes that answer.        *)

\* The routes nginx passes to the backend (/cover/ goes to QQ's server).
Proxied == {"api", "admin", "socket"}

\* What a Web image answers, in front of the backend that runs.
Site(r) ==
  IF r = Nothing THEN {}
  ELSE IF up = "up" /\ serves["backend"] # Nothing THEN offers[r] ELSE offers[r] \ Proxied

CheckWebEntry(site) == "page" \in site
CheckStaticAssets(site) == "assets" \in site
CheckOpenapi(site) == "api" \in site
CheckExternalStatus(site) == "api" \in site
CheckAdminProxy(site) == "admin" \in site

\* Mutant: any answer will do, the page that nginx falls back to as well.
CoverAnswersAnything(site) == "page" \in site

CheckCoverProxy(site) == "cover" \in site
CheckWebsocket(site) == "socket" \in site

\* run_browser_smoke: page-load, app-shell, the requests of the page, its socket;
\* cover-routing asks for nothing unless a cover of QQ is on show.
RunBrowserSmoke(site) ==
  {"page" \in site, "assets" \in site, "api" \in site, "socket" \in site} = {TRUE}
CheckBrowserSmoke(site) == RunBrowserSmoke(site)

Checks == {"web-entry", "static-assets", "openapi-proxy", "backend-status",
           "admin-proxy", "cover-proxy", "websocket", "browser-smoke"}

\* Which checks find what they look for on a site.
Holds(site) ==
  {c \in Checks :
    \/ c = "web-entry" /\ CheckWebEntry(site)
    \/ c = "static-assets" /\ CheckStaticAssets(site)
    \/ c = "openapi-proxy" /\ CheckOpenapi(site)
    \/ c = "backend-status" /\ CheckExternalStatus(site)
    \/ c = "admin-proxy" /\ CheckAdminProxy(site)
    \/ c = "cover-proxy" /\ CheckCoverProxy(site)
    \/ c = "websocket" /\ CheckWebsocket(site)
    \/ c = "browser-smoke" /\ CheckBrowserSmoke(site)}

\* The report: a check that needs the page is skipped without it; the
\* requests of the checks in flaky get no answer in time.
Report(site, flaky, browser) ==
  LET page == "web-entry" \in Holds(site) \ flaky
      Skipped(c) == \/ c \in {"static-assets", "cover-proxy"} /\ ~page
                    \/ c = "browser-smoke" /\ ~browser
  IN [c \in Checks |-> IF Skipped(c) THEN "skip"
                       ELSE IF c \in Holds(site) \ flaky THEN "pass" ELSE "fail"]

Accepted(report) == \A c \in Checks : report[c] # "fail"

\* Verification of a site may pass, or fail (of itself or for a time-out).
VerifyPasses(site, browser) == Accepted(Report(site, {}, browser))

Built(r) == offers[r] # {}
Works(r) == r # Nothing /\ offers[r] = Routes

-----------------------------------------------------------------------------
(* Docker Compose on the host.                                             *)

\* What an operation switches, and what its trap and its restore put back.
Scope(kind) == IF kind = "paired" THEN Services ELSE {"web"}

\* `docker compose up -d --no-deps` with override r succeeded: containers whose
\* configuration changed are created anew; a new backend process starts empty.
Recreate(scope, r) ==
  LET changed == {s \in scope : serves[s] # override[r][s]}
  IN /\ override[r] # Nothing
     /\ \A s \in changed : Built(override[r][s])
     /\ serves' = [s \in Services |-> IF s \in changed THEN override[r][s] ELSE serves[s]]
     /\ under' = IF "web" \in changed THEN r ELSE under
     /\ now' = IF "backend" \in changed THEN Nothing ELSE now
     /\ up' = IF "backend" \in changed THEN "boot" ELSE up
     /\ UNCHANGED voice

\* The same command failed: containers stay as they are, or are left stopped.
UpFails(scope, r) ==
  \E gone \in SUBSET scope :
    /\ serves' = [s \in Services |-> IF s \in gone THEN Nothing ELSE serves[s]]
    /\ under' = IF "web" \in gone THEN r ELSE under
    /\ now' = IF "backend" \in gone THEN Nothing ELSE now
    /\ up' = IF "backend" \in gone THEN "down" ELSE up
    /\ UNCHANGED voice

-----------------------------------------------------------------------------
(* The operator's side, up to the remote script.                           *)

\* A shell may outlive the script that started it.
Busy(o) == op[o].at # "idle" \/ op[o].sh \notin {"none", "over"}
Alone(o) == \A p \in Operators \ {o} : ~Busy(p)

\* discover_remote, make_plan, and for a rollback the override it asks for.
\* Release names carry the date and time: two operations in progress never
\* create the same one.  From here on the others count as overlapping.
Discover(o, kind, r) ==
  /\ ~Busy(o) /\ runs < MaxRuns
  /\ serves["web"] # Nothing
  /\ \A p \in Operators : Busy(p) /\ "rollback" \notin {kind, op[p].kind} => op[p].rel # r
  /\ kind = "rollback" => override[r] # Nothing /\ r # under
  /\ kind # "rollback" => r # First
  /\ runs' = runs + 1
  /\ op' = [p \in Operators |->
              IF p = o
              THEN [Resting EXCEPT
                      !.at = IF kind = "rollback" THEN "remote" ELSE "package",
                      !.sh = IF kind = "rollback" THEN "switch" ELSE "none",
                      !.kind = kind, !.rel = r, !.from = under,
                      !.switched = (kind = "rollback"), !.link = TRUE,
                      !.had = serves,
                      !.trouble = ~Alone(o)]
              ELSE IF Busy(p) THEN [op[p] EXCEPT !.trouble = TRUE]
              ELSE op[p]]
  /\ UNCHANGED <<hostVars, fileVars, playVars, pointVars>>

Untouched == UNCHANGED <<hostVars, fileVars, playVars, pointVars, runs>>

\* Once both sides are over nothing of an operation matters but its outcome.
Settled(r) ==
  IF r.at = "idle" /\ r.sh \in {"none", "over"}
  THEN [Resting EXCEPT !.result = r.result, !.trouble = r.trouble] ELSE r

\* The script on the operator's side ends; t tells whether something is amiss.
Ends(o, result, t) ==
  op' = [op EXCEPT ![o] = Settled([op[o] EXCEPT !.at = "idle", !.result = result,
                                                !.trouble = op[o].trouble \/ t])]

\* run_local_checks, create_archive, upload, and the ssh that starts the shell.
Package(o) ==
  /\ op[o].at = "package"
  /\ \/ Ends(o, "failed", FALSE)
     \/ op' = [op EXCEPT ![o].at = "remote", ![o].sh = "fresh"]
  /\ Untouched

-----------------------------------------------------------------------------
(* The remote shell.  A command that fails ends it (set -e): its EXIT trap  *)
(* is a step of its own.                                                   *)

At(o, s) == op[o].sh = s

\* The shell goes on with s; only its position changes.
GoesTo(o, s) == op' = [op EXCEPT ![o].sh = s]

ShellFails(o) ==
  /\ GoesTo(o, "exit")
  /\ Untouched

\* The release directory must be new.  The archive's checksum is compared.
Fresh(o) ==
  /\ At(o, "fresh")
  /\ \/ ShellFails(o)
     \/ /\ stage[op[o].rel] = "none"
        /\ GoesTo(o, "unpack")
        /\ Untouched

\* A Web-only release copies the override it starts from and names its image in it.
WebOverride(o) == [override[op[o].from] EXCEPT !["web"] = op[o].rel]

\* Directory, archive, override and manifest; each command may be the last.
Unpack(o) ==
  LET r == op[o].rel IN
  /\ At(o, "unpack")
  /\ \/ /\ op[o].kind = "deploy" /\ override[op[o].from] # Nothing
        /\ \/ GoesTo(o, "build") /\ stage' = [stage EXCEPT ![r] = "prepared"]
           \/ GoesTo(o, "exit") /\ stage' = [stage EXCEPT ![r] = "made"]
        /\ \/ override' = [override EXCEPT ![r] = WebOverride(o)]
           \/ op'[o].sh = "exit" /\ override' = [override EXCEPT ![r] = override[op[o].from]]
           \/ op'[o].sh = "exit" /\ UNCHANGED override
     \/ /\ op[o].kind = "paired"
        /\ GoesTo(o, "build") \/ GoesTo(o, "exit")
        /\ stage' = [stage EXCEPT ![r] = "made"]
        /\ UNCHANGED override
  /\ UNCHANGED <<hostVars, playVars, pointVars, offers, runs>>

Build(o) ==
  /\ At(o, "build")
  /\ \/ ShellFails(o)
     \/ /\ GoesTo(o, "probe")
        /\ \E d \in Defects \cup {Nothing} : offers' = [offers EXCEPT ![op[o].rel] = Routes \ {d}]
        /\ UNCHANGED <<hostVars, playVars, pointVars, override, stage, runs>>

\* Mutant: a Web-only release is asked for its page, too.
ProbeOfPage(o) == CheckWebEntry(offers[op[o].rel])

\* A container of the new image is started beside the running one: a Web-only
\* release is verified there, a paired one is asked for its page.
ProbeSound(o) ==
  LET site == IF up = "up" THEN offers[op[o].rel] ELSE offers[op[o].rel] \ Proxied
  IN IF op[o].kind = "deploy" THEN VerifyPasses(site, FALSE) ELSE CheckWebEntry(site)

Probe(o) ==
  /\ At(o, "probe")
  /\ \/ ShellFails(o)
     \/ /\ ProbeSound(o)
        /\ IF op[o].kind = "deploy"
           THEN GoesTo(o, "switch") /\ UNCHANGED override
           ELSE /\ GoesTo(o, "capture")
                /\ override' = [override EXCEPT ![op[o].rel] = [s \in Services |-> op[o].rel]]
        /\ UNCHANGED <<hostVars, playVars, pointVars, stage, offers, runs>>

\* What GET /external/status answers: without a current track it is idle.
StatusNow == [track |-> now, src |-> voice.src,
              state |-> IF now = Nothing THEN "idle" ELSE "playing"]
Unreachable == [track |-> now, src |-> Nothing,
                state |-> IF now = Nothing THEN "idle" ELSE "error"]

\* The status is written to the checkpoint and copied to the release directory.
\* When the backend has lost its track, the copy of an earlier release may be
\* taken up again, provided the voice service is on the same source.
Capture(o) ==
  LET r == op[o].rel IN
  /\ At(o, "capture")
  /\ \/ ShellFails(o)
     \/ /\ up = "up"
        /\ \E p \in {StatusNow, Unreachable}
                 \cup {saved[q] : q \in {q \in Releases : /\ now = Nothing
                                                         /\ saved[q] # Nothing
                                                         /\ saved[q].src = voice.src}} :
             /\ checkpoint' = [checkpoint EXCEPT ![r] = p]
             /\ saved' = [saved EXCEPT ![r] = p]
             /\ steady' = IF voice.on /\ p.state = "playing" /\ p.src = voice.src
                          THEN steady \cup {r} ELSE steady \ {r}
        /\ GoesTo(o, "switch")
        /\ UNCHANGED <<hostVars, fileVars, playVars, runs>>

\* `switched=1` and the first `up`: the Web container, or the backend of a pair.
Switch(o) ==
  LET scope == IF op[o].kind = "paired" THEN {"backend"} ELSE {"web"}
      Then(s) == op' = [op EXCEPT ![o].sh = s, ![o].switched = TRUE]
  IN
  /\ At(o, "switch")
  /\ \/ ShellFails(o)
     \/ /\ Recreate(scope, op[o].rel)
        /\ Then(IF op[o].kind = "paired" THEN "resumed" ELSE "image")
        /\ UNCHANGED <<fileVars, pointVars, runs>>
     \/ /\ override[op[o].rel] # Nothing /\ UpFails(scope, op[o].rel)
        /\ Then("exit")
        /\ UNCHANGED <<fileVars, pointVars, runs>>

\* Mutant: readiness is enough.
ShowsAnything(p) == TRUE

ShowsCaptured(p) == p.state = "playing" => now = p.track

\* Pair: the new backend must be ready and show the captured track again.
Resumed(o) ==
  /\ At(o, "resumed")
  /\ \/ ShellFails(o)
     \/ /\ up = "up"
        /\ ShowsCaptured(saved[op[o].rel])
        /\ GoesTo(o, "web")
        /\ Untouched

\* Pair: the Web container follows.
SwitchWeb(o) ==
  /\ At(o, "web")
  /\ \/ Recreate({"web"}, op[o].rel) /\ GoesTo(o, "ready")
     \/ UpFails({"web"}, op[o].rel) /\ GoesTo(o, "exit")
  /\ UNCHANGED <<fileVars, pointVars, runs>>

\* The containers run the images they should run (paired: both, after readiness).
RightImages(o) ==
  \A s \in Scope(op[o].kind) : serves[s] # Nothing /\ serves[s] = override[op[o].rel][s]

Image(o) ==
  /\ At(o, "image")
  /\ \/ ShellFails(o)
     \/ /\ RightImages(o)
        /\ GoesTo(o, IF op[o].kind = "paired" THEN "commit" ELSE "ready")
        /\ Untouched

\* Thirty bounded probes of the page (paired: the backend through the proxy as
\* well); a Web-only operation then finds every other container unchanged.
Ready(o) ==
  LET site == Site(serves["web"]) IN
  /\ At(o, "ready")
  /\ \/ ShellFails(o)
     \/ /\ CheckWebEntry(site)
        /\ IF op[o].kind = "paired" THEN "api" \in site ELSE serves["backend"] = op[o].had["backend"]
        /\ GoesTo(o, IF op[o].kind = "paired" THEN "image" ELSE "commit")
        /\ Untouched

\* `complete=1`, and then the manifest of a Web release is updated: when that fails
\* the shell fails, and its trap restores nothing.  (What follows in a rollback or
\* a pair, `rm -f` of a file of its own and a message, does not fail.)
Commit(o) ==
  LET Then(s) == op' = [op EXCEPT ![o].sh = s, ![o].complete = TRUE, ![o].ok = (s = "over")]
  IN
  /\ At(o, "commit")
  /\ \/ /\ Then("over")
        /\ stage' = IF op[o].kind = "deploy"
                    THEN [stage EXCEPT ![op[o].rel] = "deployed"] ELSE stage
     \/ /\ op[o].kind = "deploy" /\ Then("exit")
        /\ UNCHANGED stage
  /\ UNCHANGED <<hostVars, playVars, pointVars, override, offers, runs>>

\* Mutant: the flag says the opposite.
FinishedSwitch(o) == op[o].switched /\ op[o].complete

\* The trap restores the starting override of a switch that is not complete.
Unfinished(o) == op[o].switched /\ ~op[o].complete

\* The trap's work, with the shell's position s afterwards and trouble t.
Cleanup(o, s, t) ==
  LET After(more) == op' = [op EXCEPT ![o] = Settled([op[o] EXCEPT
                                 !.sh = s, !.trouble = op[o].trouble \/ t \/ more])]
      scope == Scope(op[o].kind)
  IN
  /\ \/ ~Unfinished(o) /\ After(FALSE) /\ UNCHANGED <<hostVars, playVars>>
     \/ Unfinished(o) /\ Recreate(scope, op[o].from) /\ After(FALSE)
     \/ Unfinished(o) /\ UpFails(scope, op[o].from) /\ After(TRUE)
  /\ UNCHANGED <<fileVars, pointVars, runs>>

ExitTrap(o) == At(o, "exit") /\ Cleanup(o, "over", FALSE)

Alive(o) == op[o].sh \notin {"none", "exit", "over"}

\* HUP, INT or TERM: the same trap runs and the shell carries on where it was.
Signal(o) ==
  /\ Alive(o)
  /\ Cleanup(o, op[o].sh, TRUE)

\* A shell that writes to a closed connection is killed, without its trap.
BrokenPipe(o) ==
  /\ op[o].sh \notin {"none", "over"} /\ ~op[o].link
  /\ op' = [op EXCEPT ![o] = Settled([op[o] EXCEPT !.sh = "over"])]
  /\ Untouched

-----------------------------------------------------------------------------
(* The operator's side, once the shell runs.                               *)

\* ssh returns the shell's exit status.
Returned(o) ==
  /\ op[o].at = "remote" /\ At(o, "over")
  /\ IF op[o].ok THEN op' = [op EXCEPT ![o].at = "accept"] ELSE Ends(o, "failed", FALSE)
  /\ Untouched

\* The connection is lost (or the operator interrupts ssh): the script fails,
\* the shell is on its own.
LinkLost(o) ==
  /\ op[o].at = "remote" /\ ~At(o, "over")
  /\ op' = [op EXCEPT ![o].at = "idle", ![o].link = FALSE, ![o].result = "failed",
                      ![o].trouble = TRUE]
  /\ Untouched

\* The acceptance checks on the public address; a pair's are run twice before
\* they count as failed.
Accept(o) ==
  LET Then(s) == op' = [op EXCEPT ![o].at = s] IN
  /\ op[o].at \in {"accept", "again"}
  /\ \/ /\ VerifyPasses(Site(serves["web"]), TRUE)
        /\ Then("report")
     \/ Then(IF op[o].kind = "paired" /\ op[o].at = "accept" THEN "again" ELSE "restore")
  /\ Untouched

\* The starting override is restored over a new ssh connection.
RestoreOverride(o) ==
  LET scope == Scope(op[o].kind) IN
  /\ op[o].at = "restore"
  /\ \/ Recreate(scope, op[o].from) /\ Ends(o, "failed", FALSE)
     \/ UpFails(scope, op[o].from) /\ Ends(o, "failed", TRUE)
  /\ UNCHANGED <<fileVars, pointVars, runs>>

\* The report of an accepted release is written, or that fails.
WriteReport(o) ==
  /\ op[o].at = "report"
  /\ Ends(o, "ok", FALSE) \/ Ends(o, "failed", FALSE)
  /\ Untouched

\* Only a DeploymentError leads to a restore: an interrupt leaves what runs.
Interrupt(o) ==
  /\ op[o].at \in {"accept", "again", "restore", "report"}
  /\ Ends(o, "failed", TRUE)
  /\ Untouched

-----------------------------------------------------------------------------
(* What plays meanwhile.                                                   *)

\* The track ends.  A backend that runs and shows it goes on with another or
\* has none left; otherwise the event is lost and the voice service's status
\* keeps naming the source.
TrackEnds ==
  /\ voice.on
  /\ IF up = "up" /\ now = voice.src
     THEN \/ \E t \in Tracks : voice' = [src |-> t, on |-> TRUE] /\ now' = t
          \/ voice' = [voice EXCEPT !.on = FALSE] /\ now' = Nothing
     ELSE voice' = [voice EXCEPT !.on = FALSE] /\ UNCHANGED now
  /\ steady' = {}
  /\ UNCHANGED <<hostVars, fileVars, up, checkpoint, saved, op, runs>>

\* The checkpoint file counts when it is young enough, names a playing track, the
\* voice service is on its source and the row is still there.
Consumed(p) ==
  {Nothing} \cup {t \in Tracks : p # Nothing /\ p.state = "playing" /\ p.src = voice.src /\ p.track = t}

\* _startup: the checkpoint named in the environment is consumed in any case.
BackendBoots ==
  LET r == serves["backend"] IN
  /\ up = "boot"
  /\ up' = "up"
  /\ now' \in Consumed(checkpoint[r])
  /\ checkpoint' = [checkpoint EXCEPT ![r] = Nothing]
  /\ UNCHANGED <<hostVars, fileVars, voice, saved, steady, op, runs>>

-----------------------------------------------------------------------------
Shell(o) ==
  \/ Fresh(o) \/ Unpack(o) \/ Build(o) \/ Probe(o) \/ Capture(o) \/ Switch(o)
  \/ Resumed(o) \/ SwitchWeb(o) \/ Image(o) \/ Ready(o) \/ Commit(o) \/ ExitTrap(o)

Script(o) ==
  Package(o) \/ Returned(o) \/ Accept(o) \/ RestoreOverride(o) \/ WriteReport(o)

Next ==
  \/ \E o \in Operators :
       \/ \E kind \in Kinds : \E r \in Releases : Discover(o, kind, r)
       \/ Script(o) \/ Shell(o)
       \/ Signal(o) \/ BrokenPipe(o) \/ LinkLost(o) \/ Interrupt(o)
  \/ TrackEnds
  \/ BackendBoots

Spec == Init /\ [][Next]_vars

-----------------------------------------------------------------------------
\* The script of operator o ends in this step, and from its beginning nobody else
\* worked, the connection held, no signal came, the operator did not interrupt the
\* acceptance or what follows it, and no `up` that was to restore an override failed.
\* Every other failure of a command is left in.
EndsUntroubled(o) ==
  op[o].at # "idle" /\ op'[o].at = "idle" /\ ~op'[o].trouble

\* How an operation ends tells what runs.  After "ok" the containers it is about run
\* the images of its release.  After a failure they run those they ran before, or
\* those of the override it started from (the trap of the remote shell,
\* run_acceptance_or_restore), at whichever command it failed - but for what fails
\* after `complete=1` and is no acceptance check: the update of the manifest, the
\* writing of the report.  Nothing restores then, and the images of its release go on
\* running though it says that it failed.  Excepted is what EndsUntroubled excludes.
OutcomeIsTrue ==
  [][\A o \in Operators : EndsUntroubled(o) =>
       LET Runs(r) == \A s \in Scope(op[o].kind) : serves'[s] = override[r][s]
       IN IF op'[o].result = "ok" \/ (op[o].complete /\ op[o].at # "restore")
          THEN Runs(op[o].rel)
          ELSE serves' = op[o].had \/ Runs(op[o].from)]_vars

\* A Web client that answers every route when an operation starts is followed
\* by one that does, however defective the new build or the rollback target is.
WorkingWebStays ==
  [][\A o \in Operators : EndsUntroubled(o) /\ Works(op[o].had["web"])
       => Works(serves'["web"])]_vars

\* When a paired release succeeds and its captured track has played ever since,
\* the new backend shows that track: neither the restart nor the wait for
\* readiness nor an old checkpoint file lost or exchanged it.
PlaybackSurvives ==
  [][\A o \in Operators :
       (/\ EndsUntroubled(o) /\ op[o].kind = "paired" /\ op'[o].result = "ok"
        /\ op[o].rel \in steady)
       => now' = saved[op[o].rel].track /\ voice'.on /\ voice'.src = saved[op[o].rel].src]_vars

\* No manifest says "deployed" of an image that lacks a route, whatever
\* overlaps, is interrupted or signalled: the probe comes first.
DeployedWasProbed ==
  \A r \in Releases : stage[r] = "deployed" => Works(r)
=============================================================================
