--------------------------------- MODULE MCFleet -----------------------------
(***************************************************************************)
(* Small instances for TLC of what the server keeps of machines: tokens,   *)
(* registrations, commands, heartbeats, configuration and policies.  They  *)
(* meet in its database only, each in tables of its own, so a behaviour    *)
(* here is one of one component, and the run explores the sum of their     *)
(* states and not the product.                                             *)
(***************************************************************************)
EXTENDS Pairing, Registration, Commands, Heartbeat, ConfigSync, Policies, TLC

CONSTANTS w1, w2

VARIABLE part

FleetInit ==
    /\ part \in {"pairing", "registration", "commands", "heartbeat", "configsync",
                 "policies"}
    /\ PairingInit /\ Init /\ CommandsInit /\ HeartbeatInit /\ ConfigSyncInit
    /\ PoliciesInit
    \* What a component starts from varies in its own behaviours only.
    /\ part # "policies" => files = (CHOOSE e \in Editions : TRUE) /\ dialect = "sqlite"

\* Requests are alike: the next to arrive is the first that did not, by some order of theirs.
First(jobs) ==
    LET idle == {r \in DOMAIN jobs : jobs[r].pc = "idle"}
    IN  IF idle = {} THEN {} ELSE {CHOOSE r \in idle : TRUE}

\* A step of part p, which leaves every other part alone.
Of(p) ==
    /\ part = p /\ UNCHANGED part
    /\ IF p = "pairing" THEN TRUE ELSE UNCHANGED pairingVars
    /\ IF p = "registration" THEN TRUE ELSE UNCHANGED vars
    /\ IF p = "commands" THEN TRUE ELSE UNCHANGED commandVars
    /\ IF p = "heartbeat" THEN TRUE ELSE UNCHANGED heartbeatVars
    /\ IF p = "configsync" THEN TRUE ELSE UNCHANGED configSyncVars
    /\ IF p = "policies" THEN TRUE ELSE UNCHANGED policiesVars

FleetNext ==
    \/ \E t \in Tokens :
          \/ Of("pairing") /\ Create(t)
          \/ Of("pairing") /\ Age(t)
    \/ \E r \in First(tokenJob), t \in Tokens :
          \/ Of("pairing") /\ Validate(r, t)
          \/ Of("pairing") /\ Consume(r, t)
          \/ Of("pairing") /\ RevokeToken(r, t)
    \/ \E r \in PairingRequests :
          \/ Of("pairing") /\ WriteToken(r)
          \/ Of("pairing") /\ Abandon(r)
    \/ Of("pairing") /\ Sweep
    \/ \E q \in First(job), m \in Machines, w \in Workers :
          \/ Of("registration") /\ Register(q, m, w)
          \/ Of("registration") /\ Approve(q, m, w)
          \/ Of("registration") /\ Reject(q, m, w)
          \/ Of("registration") /\ Expire(q, m, w)
          \/ Of("registration") /\ Revoke(q, m, w)
    \/ \E q \in Requests :
          \/ Of("registration") /\ Step(q)
    \/ \E w \in Workers :
          \/ Of("registration") /\ OthersCommit(w)
          \/ Of("registration") /\ OthersFail(w)
          \/ Of("registration") /\ Restart(w)
    \/ \E q \in First(commandJob), c \in Commands, w \in CommandWorkers :
          \/ Of("commands") /\ CreateCommand(q, c, w)
          \/ Of("commands") /\ Authorize(q, c, w)
          \/ Of("commands") /\ Cancel(q, c, w)
    \/ \E q \in CommandRequests :
          \/ Of("commands") /\ WriteState(q)
          \/ Of("commands") /\ LogState(q)
          \/ Of("commands") /\ Check(q)
          \/ Of("commands") /\ Enqueue(q)
          \/ Of("commands") /\ Fail(q)
    \/ \E w \in CommandWorkers :
          \/ Of("commands") /\ SessionCommits(w)
          \/ Of("commands") /\ SessionFails(w)
          \/ Of("commands") /\ RestartWorker(w)
          \/ Of("commands") /\ Poll(w)
    \/ \E r \in First(beat), q \in Request :
          \/ Cardinality({x \in Beats : UnderWay(x)}) < 2 /\ Of("heartbeat") /\ Submit(r, q)
    \/ \E r \in Beats :
          \/ Of("heartbeat") /\ Compare(r)
          \/ Of("heartbeat") /\ Record(r)
          \/ Of("heartbeat") /\ Note(r)
          \/ Of("heartbeat") /\ BeatFails(r)
    \/ Of("heartbeat") /\ DetectTimeouts
    \/ \E h \in Hosts :
          \/ Of("heartbeat") /\ Silence(h)
    \/ \E p \in PackageIds, w \in PackageServers :
          \/ Of("configsync") /\ CreatePackage(p, w)
    \/ \E r \in First(publication), p \in PackageIds, w \in PackageServers :
          \/ Of("configsync") /\ Publish(r, p, w)
    \/ \E r \in Publications :
          \/ Of("configsync") /\ UpdateState(r)
          \/ Of("configsync") /\ RecordHistory(r)
          \/ Of("configsync") /\ PublicationFails(r)
    \/ \E w \in PackageServers :
          \/ Of("configsync") /\ SharedCommit(w)
          \/ Of("configsync") /\ SharedFailure(w)
          \/ Of("configsync") /\ ServerEnds(w)
    \/ \E agent \in VersionStrings \cup {<<>>}, w \in PackageServers :
          \/ Of("configsync") /\ PollConfig(agent, w)
    \/ Of("policies") /\ Edit
    \/ \E w \in PolicyServers :
          \/ Of("policies") /\ LoadPolicies(w)
          \/ Of("policies") /\ SavePolicy(w)
          \/ Of("policies") /\ EndServer(w)
    \/ \E w \in PolicyServers, m \in Assignees, n \in PolicyNames :
          \/ Of("policies") /\ AssignPolicy(w, m, n)

fleetVars ==
    <<part, pairingVars, vars, commandVars, heartbeatVars, configSyncVars, policiesVars>>

FleetSpec == FleetInit /\ [][FleetNext]_fleetVars

\* The behaviours of one component alone.
PairingAlone == FleetInit /\ part = "pairing" /\ [][FleetNext]_fleetVars
CommandsAlone == FleetInit /\ part = "commands" /\ [][FleetNext]_fleetVars

\* Every variable of every component has the shape the code gives it.
FleetTypeOK ==
    /\ PairingTypeOK /\ TypeOK /\ CommandsTypeOK /\ HeartbeatTypeOK /\ ConfigSyncTypeOK
    /\ PoliciesTypeOK

\* Worker processes are alike.
Symmetry == Permutations({w1, w2})

-----------------------------------------------------------------------------
(* Configuration sync: versions as strings, 9 after 10 *)

SomeVersions == {<<9>>, <<1, 0>>}

-----------------------------------------------------------------------------
(* Policies: names "d" (default), "p" (production), "h" (high_security) *)

APolicy(parent, interval, described, flags) ==
    [parent |-> parent, interval |-> interval, described |-> described, flags |-> flags]
Base == "d" :> APolicy("none", 30, TRUE, {"geoip"})

\* One chain; then a circle; then a parent that is gone, and a policy that is its own.
SomeEditions ==
    {Base @@ ("p" :> APolicy("d", 15, TRUE, {"geoip", "docker"}))
          @@ ("h" :> APolicy("p", 10, FALSE, {"geoip"})),
     Base @@ ("p" :> APolicy("h", 15, TRUE, {"geoip"})) @@ ("h" :> APolicy("p", 10, FALSE, {})),
     ("p" :> APolicy("d", 15, TRUE, {"geoip"})) @@ ("h" :> APolicy("h", 1, FALSE, {}))}
=============================================================================
