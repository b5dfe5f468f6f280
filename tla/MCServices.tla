------------------------------- MODULE MCServices ---------------------------
(***************************************************************************)
(* Small instances for TLC of the server's services: audit log,            *)
(* notifications, routing, log files, Discord, and its own start-up.  They *)
(* share no state; as in MCFleet.tla a behaviour is one of one component.  *)
(***************************************************************************)
EXTENDS Audit, Notifications, Routing, LogFiles, DiscordGuilds, DiscordBot, ServerLifecycle,
        TLC

VARIABLE part

ServicesInit ==
    /\ part \in {"audit", "notifications", "routing", "logging", "guilds", "bot",
                 "lifecycle"}
    /\ AuditInit /\ NotificationsInit /\ RoutingInit /\ LogFilesInit /\ DiscordGuildsInit
    /\ DiscordBotInit /\ LifecycleInit
    \* What a component starts from varies in its own behaviours only.
    /\ part # "routing" => directory = CHOOSE d \in RuleFiles : TRUE
    /\ channel = [g \in Places |-> [permitted |-> FALSE, open |-> TRUE]]
    /\ part # "lifecycle" => backend.reachable

\* Requests are alike: the next to arrive is the first that did not, by some order of theirs.
First(jobs) ==
    LET idle == {r \in DOMAIN jobs : jobs[r].pc = "idle"}
    IN  IF idle = {} THEN {} ELSE {CHOOSE r \in idle : TRUE}

\* A step of part p, which leaves every other part alone.
Of(p) ==
    /\ part = p /\ UNCHANGED part
    /\ IF p = "audit" THEN TRUE ELSE UNCHANGED auditVars
    /\ IF p = "notifications" THEN TRUE ELSE UNCHANGED notificationVars
    /\ IF p = "routing" THEN TRUE ELSE UNCHANGED routingVars
    /\ IF p = "logging" THEN TRUE ELSE UNCHANGED logVars
    /\ IF p = "guilds" THEN TRUE ELSE UNCHANGED guildVars
    /\ IF p = "bot" THEN TRUE ELSE UNCHANGED botVars
    /\ IF p = "lifecycle" THEN TRUE ELSE UNCHANGED lifecycleVars

ServicesNext ==
    \/ \E r \in First(recording), name \in Names :
          \/ Of("audit") /\ ReadLast(r, name)
    \/ \E r \in Recordings :
          \/ Of("audit") /\ CreateEvent(r)
          \/ Of("audit") /\ AppendEvent(r)
          \/ Of("audit") /\ RecordingFails(r)
    \/ Of("audit") /\ CountEvents
    \/ Of("audit") /\ VerifyIntegrity
    \/ \E start, end \in {0} \cup Stamps, name \in Names :
          \/ Of("audit") /\ Export(start, end, name)
    \/ \E s \in DOMAIN trail :
          \/ Of("audit") /\ Alter(s)
    \/ \E n \in Notes, d \in Destinations \cup OddDestinations, p \in Levels :
          \/ Of("notifications") /\ CreateNote(n, d, p)
    \/ \E d \in CustomAdapters :
          \/ Of("notifications") /\ RegisterAdapter(d)
    \/ \E c \in First(call), n \in Notes, p \in Levels :
          \/ Of("notifications") /\ QueueNote(c, n, p)
    \/ \E c \in First(call), n \in Notes :
          \/ Of("notifications") /\ Dispatch(c, n)
    \/ \E c \in First(call) :
          \/ Of("notifications") /\ DispatchAll(c)
    \/ \E c \in Calls :
          \/ Of("notifications") /\ MarkQueued(c)
          \/ Of("notifications") /\ SaveResult(c)
          \/ Of("notifications") /\ StampDispatched(c)
          \/ Of("notifications") /\ DrainOne(c)
          \/ Of("notifications") /\ NextLevel(c)
    \/ Of("notifications") /\ ProcessEnds
    \/ Of("routing") /\ EditRules
    \/ \E l \in First(reload), w \in Routers :
          \/ Of("routing") /\ LoadConfig(l, w)
    \/ \E l \in Reloads :
          \/ Of("routing") /\ SaveRule(l)
          \/ Of("routing") /\ SetRules(l)
          \/ Of("routing") /\ ReloadFails(l)
    \/ \E w \in Routers, event \in RoutedEvents :
          \/ Of("routing") /\ Route(w, event)
    \/ \E e \in Entries :
          \/ Of("logging") /\ WriteEntry(e)
    \/ Of("logging") /\ Midnight
    \/ \E c \in First(packer), f \in LogFile :
          \/ Of("logging") /\ Compress(c, f)
    \/ \E c \in Compressors :
          \/ Of("logging") /\ CreateArchive(c)
          \/ Of("logging") /\ Copy(c)
          \/ Of("logging") /\ Unlink(c)
          \/ Of("logging") /\ PackerFails(c)
    \/ Of("logging") /\ Enforce
    \/ Of("logging") /\ EnforceFails
    \/ \E r \in First(guildCall), g \in GuildIds, m \in Members \cup {NoGuild} :
          \/ Of("guilds") /\ RegisterGuild(r, g, m)
    \/ \E r \in First(guildCall), g \in GuildIds, cs \in SUBSET Channels :
          \/ Of("guilds") /\ VerifyGuild(r, g, cs)
    \/ \E r \in First(guildCall), g \in GuildIds :
          \/ Of("guilds") /\ DeleteGuild(r, g)
    \/ \E r \in GuildCalls :
          \/ Of("guilds") /\ CreateGuild(r)
          \/ Of("guilds") /\ CreateSettings(r)
          \/ Of("guilds") /\ AssociateMachine(r)
          \/ Of("guilds") /\ SetChannelMapping(r)
          \/ Of("guilds") /\ UpdateGuild(r)
          \/ Of("guilds") /\ RemoveGuild(r)
          \/ Of("guilds") /\ RemoveSettings(r)
          \/ Of("guilds") /\ RemoveChannels(r)
          \/ Of("guilds") /\ RemoveMachines(r)
          \/ Of("guilds") /\ FinishRemoval(r)
          \/ Of("guilds") /\ GuildCallFails(r)
    \/ Of("guilds") /\ ForeignCommit
    \/ Of("guilds") /\ SessionEnds
    \/ Of("bot") /\ OnReady
    \/ \E g \in Places :
          \/ Of("bot") /\ MakeCategory(g)
          \/ Of("bot") /\ VerifyPermissions(g)
    \/ \E n \in 1 .. MaxConnections :
          \/ Of("bot") /\ WakeUp(n)
          \/ Of("bot") /\ VisitGuild(n)
          \/ Of("bot") /\ SearchMessage(n)
          \/ Of("bot") /\ EditMessage(n)
          \/ Of("bot") /\ SendMessage(n)
          \/ Of("bot") /\ RoundFails(n)
    \/ \E i \in Incidents :
          \/ Of("bot") /\ BeginThread(i)
          \/ Of("bot") /\ EndThread(i)
          \/ Of("bot") /\ ForgetThread(i)
    \/ Of("lifecycle") /\ Start
    \/ Of("lifecycle") /\ InitializeDatabase
    \/ Of("lifecycle") /\ InitializeManager
    \/ Of("lifecycle") /\ ManagerFails
    \/ Of("lifecycle") /\ FinishStartup
    \/ Of("lifecycle") /\ Health
    \/ Of("lifecycle") /\ GoAway
    \/ Of("lifecycle") /\ ComeBack
    \/ Of("lifecycle") /\ ShutdownServer
    \/ Of("lifecycle") /\ Activate
    \/ Of("lifecycle") /\ Deactivate
    \/ \E w \in BackgroundWorkers :
          \/ Of("lifecycle") /\ Heartbeat(w)
          \/ Of("lifecycle") /\ FallSilent(w)
          \/ Of("lifecycle") /\ MarkCrashed(w)
          \/ Of("lifecycle") /\ CheckWorker(w)
          \/ Of("lifecycle") /\ Restarted(w)
          \/ Of("lifecycle") /\ RestartFails(w)

servicesVars ==
    <<part, auditVars, notificationVars, routingVars, logVars, guildVars, botVars, lifecycleVars>>

ServicesSpec == ServicesInit /\ [][ServicesNext]_servicesVars

\* Every variable of every component has the shape the code gives it.
ServicesTypeOK ==
    /\ AuditTypeOK /\ NotificationsTypeOK /\ RoutingTypeOK /\ LogFilesTypeOK
    /\ DiscordGuildsTypeOK /\ DiscordBotTypeOK /\ LifecycleTypeOK

-----------------------------------------------------------------------------
(* Routing *)

ARule(name, types, severity, enabled, to, template) ==
    [name |-> name, event_types |-> types, match_severity |-> severity,
     match_feature_flags |-> <<>>, match_capabilities |-> {}, enabled |-> enabled,
     destinations |-> to, priority |-> "high", template |-> template]
Disabled == ARule("a", {"critical_alert"}, "critical", FALSE, {"email"}, "detailed")
Alerts == ARule("b", {"critical_alert"}, "", TRUE, {"discord"}, "detailed")
All == ARule("b", {"*"}, "", TRUE, {"archive"}, "detailed")
Flagged == [ARule("c", {"*"}, "", TRUE, {"archive"}, "json")
                EXCEPT !.match_feature_flags = "f" :> FALSE, !.match_capabilities = {"cap"}]
Unknown == ARule("d", {"*"}, "", TRUE, {"archive"}, "pager")

\* A name twice, a rule that is switched off, one that is not valid, no rules at all.
SomeRuleFiles == {<<Disabled, Alerts, All, Flagged>>, <<All, Disabled>>, <<Unknown>>, <<>>}
SomeEvents ==
    {[type |-> "critical_alert", severity |-> "critical", feature_flags |-> <<>>,
      capabilities |-> {}],
     [type |-> "heartbeat", severity |-> "info", feature_flags |-> "f" :> FALSE,
      capabilities |-> {"cap"}]}

-----------------------------------------------------------------------------
(* Discord bot, start-up *)

TwoGuilds == <<"g1", "g2">>

\* The managers, in the order of STARTUP_STAGES.
Order == <<"certificates", "machines", "policies", "routing", "audit", "commands">>
=============================================================================
