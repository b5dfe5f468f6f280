--------------------------- MODULE DiscordGuilds ---------------------------
(***************************************************************************)
(* The Discord guilds that the management server knows:                    *)
(* management_server/src/management_server/discord.                        *)
(*                                                                         *)
(* A guild is a row of one table with settings in another, channels in a   *)
(* third and machines in a fourth; no foreign key ties them together.      *)
(* Registration and verification write them in several transactions,       *)
(* deletion in one of a statement for each table.  All requests of a       *)
(* worker process share one AsyncSession (startup/stages.py:114), so the   *)
(* COMMIT of any of them, a guild's or not, commits what all of them have  *)
(* written so far.  Here is one worker: others neither see what its        *)
(* session has not committed nor get past the rows it has written.         *)
(*                                                                         *)
(* A row is active once it exists, since nothing makes it inactive.        *)
(***************************************************************************)
EXTENDS Naturals, FiniteSets

CONSTANTS GuildIds,   \* well-formed identifiers of guilds
          GuildCalls, \* the requests about guilds that may arrive
          Members,    \* the machines that a registration may name
          Channels,   \* the required channels
          NoGuild     \* no guild, and no machine

ASSUME DiscordGuildsAssumption == NoGuild \notin GuildIds \cup Members

VARIABLES
    guild,      \* guild[g]: the row of g, and whether it has one of settings
    mapped,     \* mapped[g]: the channels of g in discord_channel_mappings
    associated, \* associated[m]: the guild of machine m
    saved,      \* these three as of the last COMMIT
    guildCall,  \* guildCall[r]: the handler of request r
    \* History, read by the properties only:
    overlapped, \* the guilds that two requests were at work on at a time
    split       \* the guilds a write to which was cut in two, by a failure or another's COMMIT

guildVars == <<guild, mapped, associated, saved, guildCall, overlapped, split>>

\* DiscordGuild, as far as it is read again.
DiscordGuild == [there : BOOLEAN, verified : BOOLEAN, settings : BOOLEAN]
NoGuildRow == [there |-> FALSE, verified |-> FALSE, settings |-> FALSE]
IdleCall == [pc |-> "idle", guild |-> NoGuild, member |-> NoGuild, todo |-> {}]

DiscordGuildsInit ==
    /\ guild = [g \in GuildIds |-> NoGuildRow]
    /\ mapped = [g \in GuildIds |-> {}]
    /\ associated = [m \in Members |-> NoGuild]
    /\ saved = [guild |-> guild, mapped |-> mapped, associated |-> associated]
    /\ guildCall = [r \in GuildCalls |-> IdleCall]
    /\ overlapped = {} /\ split = {}

\* A handler about to issue the statement of that name; Between, not the first of its transaction.
Between == {"settings", "delete settings", "delete channels", "delete machines", "delete rest"}
Busy == {"create", "associate", "map", "verify", "delete"} \cup Between

AtWork(g) == {r \in GuildCalls : guildCall[r].pc \in Busy /\ guildCall[r].guild = g}
Halfway(calls) == {guildCall[r].guild : r \in {c \in calls : guildCall[c].pc \in Between}}

GuildAnswer(r, code) == guildCall' = [guildCall EXCEPT ![r].pc = code, ![r].todo = {}]
GoOn(r, pc) == guildCall' = [guildCall EXCEPT ![r].pc = pc]

\* The COMMIT of r, with what the statements of the others have written; and none yet.
Commit(r) ==
    /\ saved' = [guild |-> guild', mapped |-> mapped', associated |-> associated']
    /\ split' = split \cup Halfway(GuildCalls \ {r})
    /\ UNCHANGED overlapped
NoCommit == UNCHANGED <<saved, overlapped, split>>

Accept(r, pc, g, m, todo) ==
    /\ guildCall[r].pc = "idle"
    /\ guildCall' = [guildCall EXCEPT ![r] = [pc |-> pc, guild |-> g, member |-> m, todo |-> todo]]
    /\ overlapped' = IF pc \in Busy /\ AtWork(g) # {} THEN overlapped \cup {g} ELSE overlapped
    /\ UNCHANGED <<guild, mapped, associated, saved, split>>

\* register_guild reads the row, verify_guild reads nothing, delete_guild reads the row.
RegisterGuild(r, g, m) == Accept(r, IF guild[g].there THEN "409" ELSE "create", g, m, {})
ValidChannels(cs) == Channels \subseteq cs
VerifyGuild(r, g, cs) ==
    Accept(r, IF ValidChannels(cs) THEN "map" ELSE "unverified", g, NoGuild, cs)
DeleteGuild(r, g) == Accept(r, IF guild[g].there THEN "delete" ELSE "404", g, NoGuild, {})

\* The session is lost, with what it has not committed, and with it whatever was under way:
\* the worker process ends, or PostgreSQL refuses a statement, after which it accepts no other.
SessionEnds ==
    /\ guild' = saved.guild /\ mapped' = saved.mapped /\ associated' = saved.associated
    /\ guildCall' = [r \in GuildCalls |->
           IF guildCall[r].pc \in Busy THEN [guildCall[r] EXCEPT !.pc = "500", !.todo = {}]
           ELSE guildCall[r]]
    /\ UNCHANGED <<saved, overlapped, split>>

\* create_guild: the row of the guild first, which is unique.
CreateGuild(r) ==
    LET g == guildCall[r].guild
    IN  /\ guildCall[r].pc = "create"
        /\ IF guild[g].there THEN SessionEnds
           ELSE /\ guild' = [guild EXCEPT ![g].there = TRUE, ![g].verified = FALSE]
                /\ GoOn(r, "settings")
                /\ UNCHANGED <<mapped, associated>> /\ NoCommit

\* Then its settings, unique as well, and the COMMIT of both.
CreateSettings(r) ==
    LET g == guildCall[r].guild
    IN  /\ guildCall[r].pc = "settings"
        /\ IF guild[g].settings THEN SessionEnds
           ELSE /\ guild' = [guild EXCEPT ![g].settings = TRUE]
                /\ IF guildCall[r].member = NoGuild THEN GuildAnswer(r, "200") ELSE GoOn(r, "associate")
                /\ UNCHANGED <<mapped, associated>> /\ Commit(r)

\* associate_machine: the machine is this guild's from now on.
AssociateMachine(r) ==
    /\ guildCall[r].pc = "associate"
    /\ associated' = [associated EXCEPT ![guildCall[r].member] = guildCall[r].guild]
    /\ GuildAnswer(r, "200")
    /\ UNCHANGED <<guild, mapped>> /\ Commit(r)

\* set_channel_mapping, one transaction for each.
SetChannelMapping(r) ==
    /\ guildCall[r].pc = "map"
    /\ \E c \in guildCall[r].todo :
        /\ mapped' = [mapped EXCEPT ![guildCall[r].guild] = @ \cup {c}]
        /\ guildCall' = [guildCall EXCEPT
               ![r].todo = @ \ {c},
               ![r].pc = IF guildCall[r].todo = {c} THEN "verify" ELSE "map"]
    /\ UNCHANGED <<guild, associated>> /\ Commit(r)

\* update_guild: of no row if there is none, which the read after it finds out.
VerifiedFirst(r) == guildCall[r].pc \in {"map", "verify"}
Verified(r) == guildCall[r].pc = "verify"
UpdateGuild(r) ==
    LET g == guildCall[r].guild
    IN  /\ Verified(r)
        /\ guild' = IF guild[g].there THEN [guild EXCEPT ![g].verified = TRUE] ELSE guild
        /\ GuildAnswer(r, IF guild[g].there THEN "200" ELSE "500")
        /\ UNCHANGED <<mapped, associated>> /\ Commit(r)

\* delete_guild: table after table.
RemoveGuild(r) ==
    /\ guildCall[r].pc = "delete"
    /\ guild' = [guild EXCEPT ![guildCall[r].guild].there = FALSE, ![guildCall[r].guild].verified = FALSE]
    /\ GoOn(r, "delete settings")
    /\ UNCHANGED <<mapped, associated>> /\ NoCommit
RemoveSettings(r) ==
    /\ guildCall[r].pc = "delete settings"
    /\ guild' = [guild EXCEPT ![guildCall[r].guild].settings = FALSE]
    /\ GoOn(r, "delete channels")
    /\ UNCHANGED <<mapped, associated>> /\ NoCommit
RemoveChannels(r) ==
    /\ guildCall[r].pc = "delete channels"
    /\ mapped' = [mapped EXCEPT ![guildCall[r].guild] = {}]
    /\ GoOn(r, "delete machines")
    /\ UNCHANGED <<guild, associated>> /\ NoCommit
RemoveMachines(r) ==
    /\ guildCall[r].pc = "delete machines"
    /\ associated' = [m \in Members |->
           IF associated[m] = guildCall[r].guild THEN NoGuild ELSE associated[m]]
    /\ GoOn(r, "delete rest")
    /\ UNCHANGED <<guild, mapped>> /\ NoCommit
\* The preferences, the ping roles and the COMMIT.
FinishRemoval(r) ==
    /\ guildCall[r].pc = "delete rest"
    /\ GuildAnswer(r, "200")
    /\ UNCHANGED <<guild, mapped, associated>> /\ Commit(r)

\* A statement fails before it is sent, since the session is busy with the COMMIT of another:
\* what the call has written before stays in the session, for the next COMMIT to find.
GuildCallFails(r) ==
    /\ guildCall[r].pc \in Busy
    /\ GuildAnswer(r, "500")
    /\ split' = split \cup Halfway({r})
    /\ UNCHANGED <<guild, mapped, associated, saved, overlapped>>

\* A request of another manager of this worker commits.
ForeignCommit ==
    /\ saved' = [guild |-> guild, mapped |-> mapped, associated |-> associated]
    /\ split' = split \cup Halfway(GuildCalls)
    /\ UNCHANGED <<guild, mapped, associated, guildCall, overlapped>>

DiscordGuildsNext ==
    \/ \E r \in GuildCalls :
        \/ \E g \in GuildIds : \/ \E m \in Members \cup {NoGuild} : RegisterGuild(r, g, m)
                               \/ \E cs \in SUBSET Channels : VerifyGuild(r, g, cs)
                               \/ DeleteGuild(r, g)
        \/ CreateGuild(r) \/ CreateSettings(r) \/ AssociateMachine(r)
        \/ SetChannelMapping(r) \/ UpdateGuild(r)
        \/ RemoveGuild(r) \/ RemoveSettings(r) \/ RemoveChannels(r) \/ RemoveMachines(r)
        \/ FinishRemoval(r) \/ GuildCallFails(r)
    \/ ForeignCommit \/ SessionEnds

DiscordGuildsSpec == DiscordGuildsInit /\ [][DiscordGuildsNext]_guildVars

-----------------------------------------------------------------------------
DiscordGuildsTypeOK ==
    /\ guild \in [GuildIds -> DiscordGuild]
    /\ mapped \in [GuildIds -> SUBSET Channels]
    /\ associated \in [Members -> GuildIds \cup {NoGuild}]
    /\ saved \in [guild : [GuildIds -> DiscordGuild], mapped : [GuildIds -> SUBSET Channels],
                  associated : [Members -> GuildIds \cup {NoGuild}]]
    /\ \A r \in GuildCalls : guildCall[r].guild \in GuildIds \cup {NoGuild}
    /\ overlapped \subseteq GuildIds /\ split \subseteq GuildIds

\* In what is committed, a verified guild has all of its channels unless two requests about it
\* overlapped; and it has its settings, and is there if it has machines, unless they overlapped
\* or a write to it was cut in two.  No sequence of registrations, verifications and deletions,
\* cut short or not, of this guild or others, leaves anything else behind.
GuildTablesAgree ==
    \A g \in GuildIds \ overlapped :
        /\ saved.guild[g].verified => saved.mapped[g] = Channels
        /\ g \notin split =>
              /\ saved.guild[g].there = saved.guild[g].settings
              /\ \A m \in Members : saved.associated[m] = g => saved.guild[g].there
=============================================================================
