--------------------------- MODULE Services_proofs --------------------------
(***************************************************************************)
(* Theorems about the server's services, one section for each: the guild   *)
(* tables, the audit log, notifications, routing, the log files, the       *)
(* start-up of the server and the Discord bot.  Each section states an     *)
(* inductive invariant and shows that every step of its component keeps it.*)
(* The last one is about the services put together.                        *)
(***************************************************************************)
EXTENDS MCServices, Induction_proofs, FiniteSetTheorems

-----------------------------------------------------------------------------
(* The guild tables.                                                       *)

GuildPc == Busy \cup {"idle", "200", "404", "409", "500", "unverified"}
GuildHandlers == [pc : GuildPc, guild : GuildIds \cup {NoGuild},
                  member : Members \cup {NoGuild}, todo : SUBSET Channels]

\* The types, with those of the handlers.
GuildTypes ==
    /\ guild \in [GuildIds -> DiscordGuild]
    /\ mapped \in [GuildIds -> SUBSET Channels]
    /\ associated \in [Members -> GuildIds \cup {NoGuild}]
    /\ saved \in [guild : [GuildIds -> DiscordGuild], mapped : [GuildIds -> SUBSET Channels],
                  associated : [Members -> GuildIds \cup {NoGuild}]]
    /\ guildCall \in [GuildCalls -> GuildHandlers]
    /\ overlapped \subseteq GuildIds /\ split \subseteq GuildIds

\* A handler at work is at work on a guild, alone unless that overlapped.
WorksOn ==
    \A r \in GuildCalls :
        /\ guildCall[r].pc \in Busy => guildCall[r].guild \in GuildIds
        /\ guildCall[r].pc = "associate" => guildCall[r].member \in Members
WorksAlone ==
    \A r, s \in GuildCalls :
        /\ guildCall[r].pc \in Busy /\ guildCall[s].pc \in Busy
        /\ guildCall[r].guild = guildCall[s].guild
        /\ guildCall[r].guild \notin overlapped
        => r = s

\* What a handler under way has mapped already is still there, and verified guilds have all.
Maps(c, row, channels) ==
    /\ c.pc = "map" => Channels \subseteq channels \cup c.todo
    /\ c.pc = "verify" => channels = Channels
    /\ c.pc \in {"delete settings", "delete channels"} => ~row.verified
WorkStands ==
    \A r \in GuildCalls :
        guildCall[r].guild \in GuildIds \ overlapped =>
            Maps(guildCall[r], guild[guildCall[r].guild], mapped[guildCall[r].guild])
VerifiedHave ==
    \A g \in GuildIds \ overlapped :
        /\ guild[g].verified => mapped[g] = Channels
        /\ saved.guild[g].verified => saved.mapped[g] = Channels

\* How far a transaction of several statements has got, and what a whole guild looks like.
HalfDone(pc, row, members) ==
    /\ pc \in {"settings", "associate"} => row.there
    /\ pc \in {"delete settings", "delete channels", "delete machines", "delete rest"} => ~row.there
    /\ pc \in {"delete channels", "delete machines", "delete rest"} => ~row.settings
    /\ pc = "delete rest" => members = {}
MembersIn(places, g) == {m \in Members : places[m] = g}
InHalves ==
    \A r \in GuildCalls :
        LET g == guildCall[r].guild
        IN  g \in GuildIds \ (overlapped \cup split) => HalfDone(guildCall[r].pc, guild[g], MembersIn(associated, g))
IsWhole(row, members) == row.there = row.settings /\ (members # {} => row.there)
AreWhole ==
    \A g \in GuildIds \ (overlapped \cup split) :
        /\ IsWhole(saved.guild[g], MembersIn(saved.associated, g))
        /\ (\A r \in GuildCalls : guildCall[r].pc \in Between => guildCall[r].guild # g) =>
              guild[g] = saved.guild[g] /\ MembersIn(associated, g) = MembersIn(saved.associated, g)

GuildInv ==
    GuildTypes /\ WorksOn /\ WorksAlone /\ WorkStands /\ VerifiedHave /\ InHalves /\ AreWhole

-----------------------------------------------------------------------------
LEMMA InitGuilds == DiscordGuildsInit => GuildInv
<1> SUFFICES ASSUME DiscordGuildsInit PROVE GuildInv
  OBVIOUS
<1> USE DEF DiscordGuildsInit, IdleCall, NoGuildRow, Busy, Between
<1>1. GuildTypes
  BY DEF GuildTypes, DiscordGuild, GuildPc, GuildHandlers
<1>2. WorksOn /\ WorksAlone /\ WorkStands
  BY DEF WorksOn, WorksAlone, WorkStands, Maps
<1>3. VerifiedHave /\ InHalves
  BY DEF VerifiedHave, InHalves, HalfDone
<1>4. AreWhole
  BY DiscordGuildsAssumption DEF AreWhole, IsWhole, MembersIn
<1> QED
  BY <1>1, <1>2, <1>3, <1>4 DEF GuildInv

\* A request is accepted, and overlaps with those at work on its guild.
LEMMA GuildAcceptKeeps ==
    ASSUME GuildInv, NEW r \in GuildCalls, NEW g \in GuildIds, NEW m \in Members \cup {NoGuild},
           NEW pc \in {"create", "map", "delete", "404", "409", "unverified"},
           NEW todo \in SUBSET Channels, pc = "map" => todo = Channels,
           Accept(r, pc, g, m, todo)
    PROVE  GuildInv'
<1> USE DEF GuildInv
<1> DEFINE new == [pc |-> pc, guild |-> g, member |-> m, todo |-> todo]
<1>0. /\ guildCall' = [guildCall EXCEPT ![r] = new] /\ guildCall[r].pc = "idle"
      /\ overlapped' = IF pc \in Busy /\ AtWork(g) # {} THEN overlapped \cup {g} ELSE overlapped
      /\ UNCHANGED <<guild, mapped, associated, saved, split>>
  BY DEF Accept
<1>1. GuildTypes'
  <2>1. new \in GuildHandlers
    BY DEF GuildPc, Busy, GuildHandlers
  <2>2. overlapped' \subseteq GuildIds
    BY <1>0 DEF GuildTypes
  <2> QED
    BY <1>0, <2>1, <2>2 DEF GuildTypes
<1>2. /\ guildCall'[r] = new
      /\ \A s \in GuildCalls \ {r} : guildCall'[s] = guildCall[s]
      /\ overlapped \subseteq overlapped'
  BY <1>0 DEF GuildTypes
<1>3. WorksOn'
  BY <1>2 DEF WorksOn
<1>4. pc \in Busy /\ AtWork(g) # {} => g \in overlapped'
  BY <1>0
<1>5. WorksAlone'
  BY <1>2, <1>4 DEF WorksAlone, AtWork
<1>6. WorkStands' /\ VerifiedHave'
  BY <1>0, <1>2 DEF WorkStands, VerifiedHave, Maps, GuildTypes
<1>7. InHalves'
  <2>1. HalfDone(pc, guild[g], MembersIn(associated, g))
    BY DEF HalfDone
  <2>2. \A s \in GuildCalls \ {r} :
            guildCall[s].guild \in GuildIds \ (overlapped' \cup split') =>
                HalfDone(guildCall[s].pc, guild[guildCall[s].guild], MembersIn(associated, guildCall[s].guild))
    BY <1>0, <1>2 DEF InHalves
  <2> QED
    BY <1>0, <1>2, <2>1, <2>2 DEF InHalves
<1>8. AreWhole'
  <2>1. \A h \in GuildIds : (\A s \in GuildCalls : guildCall'[s].pc \in Between => guildCall'[s].guild # h)
                        => (\A s \in GuildCalls : guildCall[s].pc \in Between => guildCall[s].guild # h)
    BY <1>0, <1>2 DEF Between
  <2>2. GuildIds \ (overlapped' \cup split') \subseteq GuildIds \ (overlapped \cup split)
    BY <1>0, <1>2
  <2> QED
    BY <1>0, <2>1, <2>2 DEF AreWhole
<1> QED
  BY <1>1, <1>3, <1>5, <1>6, <1>7, <1>8

\* A statement of a handler about its guild.  If it is the last of its transaction it leaves the
\* guild whole and everything is committed; else it leaves it half done as its place says.
GuildStep(r, g, c, row, channels) ==
    /\ guildCall[r].pc \in Busy /\ g = guildCall[r].guild
    /\ c.guild = g /\ (c.pc = "associate" => c.member \in Members)
    /\ guildCall' = [guildCall EXCEPT ![r] = c]
    /\ guild' = [guild EXCEPT ![g] = row]
    /\ mapped' = [mapped EXCEPT ![g] = channels]
    /\ associated' \in [Members -> GuildIds \cup {NoGuild}]
    /\ \A h \in GuildIds \ {g} : MembersIn(associated', h) \subseteq MembersIn(associated, h)
    /\ g \notin overlapped => (row.verified => channels = Channels) /\ Maps(c, row, channels)
    /\ g \notin overlapped \cup split => HalfDone(c.pc, row, MembersIn(associated', g))
LastStep(r, g, c, row) ==
    /\ Commit(r) /\ c.pc \notin Between
    /\ g \notin overlapped \cup split => IsWhole(row, MembersIn(associated', g))
StepBetween(g, c) ==
    /\ NoCommit /\ c.pc \in Between
    /\ \A h \in GuildIds \ {g} : MembersIn(associated', h) = MembersIn(associated, h)
LEMMA GuildStepKeeps ==
    ASSUME GuildInv, NEW r \in GuildCalls, NEW g, NEW c \in GuildHandlers,
           NEW row \in DiscordGuild, NEW channels \in SUBSET Channels,
           GuildStep(r, g, c, row, channels),
           LastStep(r, g, c, row) \/ StepBetween(g, c)
    PROVE  GuildInv'
<1> USE DEF GuildInv, GuildStep
<1>1. g \in GuildIds
  BY DEF WorksOn
<1>2. /\ guildCall'[r] = c /\ \A s \in GuildCalls \ {r} : guildCall'[s] = guildCall[s]
      /\ guild'[g] = row /\ \A h \in GuildIds \ {g} : guild'[h] = guild[h]
      /\ mapped'[g] = channels /\ \A h \in GuildIds \ {g} : mapped'[h] = mapped[h]
  BY <1>1 DEF GuildTypes
<1>3. overlapped' = overlapped /\ split \subseteq split' /\ split' \subseteq GuildIds
  <2>1. Halfway(GuildCalls \ {r}) \subseteq GuildIds
    BY DEF Halfway, WorksOn, Busy
  <2> QED
    BY <2>1 DEF LastStep, StepBetween, Commit, NoCommit, GuildTypes
<1>4. \/ saved' = [guild |-> guild', mapped |-> mapped', associated |-> associated']
      \/ saved' = saved /\ NoCommit
  BY DEF LastStep, StepBetween, Commit, NoCommit
<1>5. GuildTypes'
  <2>1. guildCall' \in [GuildCalls -> GuildHandlers] /\ guild' \in [GuildIds -> DiscordGuild]
        /\ mapped' \in [GuildIds -> SUBSET Channels]
    BY DEF GuildTypes
  <2>2. saved' \in [guild : [GuildIds -> DiscordGuild], mapped : [GuildIds -> SUBSET Channels],
                    associated : [Members -> GuildIds \cup {NoGuild}]]
    BY <1>4, <2>1 DEF GuildTypes
  <2> QED
    BY <1>3, <2>1, <2>2 DEF GuildTypes
<1>6. WorksOn'
  BY <1>1, <1>2 DEF WorksOn
<1>7. WorksAlone'
  BY <1>2, <1>3 DEF WorksAlone
<1>8. \A s \in GuildCalls \ {r} :
          g \notin overlapped /\ guildCall[s].pc \in Busy => guildCall[s].guild # g
  BY DEF WorksAlone
<1>9. WorkStands'
  <2>1. ASSUME NEW s \in GuildCalls \ {r}, guildCall[s].guild \in GuildIds \ overlapped
        PROVE  Maps(guildCall[s], guild'[guildCall[s].guild], mapped'[guildCall[s].guild])
    <3>1. CASE guildCall[s].guild # g
      BY <1>2, <2>1, <3>1 DEF WorkStands
    <3>2. CASE guildCall[s].guild = g
      <4>1. guildCall[s].pc \notin Busy
        BY <1>8, <2>1, <3>2
      <4> QED
        BY <4>1 DEF Busy, Between, Maps
    <3> QED
      BY <3>1, <3>2
  <2>2. g \notin overlapped => Maps(c, guild'[g], mapped'[g])
    BY <1>2
  <2> QED
    BY <1>2, <1>3, <2>1, <2>2 DEF WorkStands
<1>10. VerifiedHave'
  <2>1. \A h \in GuildIds \ overlapped : guild'[h].verified => mapped'[h] = Channels
    BY <1>2 DEF VerifiedHave
  <2>2. \A h \in GuildIds \ overlapped : saved'.guild[h].verified => saved'.mapped[h] = Channels
    <3>1. CASE saved' = [guild |-> guild', mapped |-> mapped', associated |-> associated']
      BY <2>1, <3>1
    <3>2. CASE saved' = saved
      BY <3>2 DEF VerifiedHave
    <3> QED
      BY <1>4, <3>1, <3>2
  <2> QED
    BY <1>3, <2>1, <2>2 DEF VerifiedHave
<1>11. InHalves'
  <2>1. ASSUME NEW s \in GuildCalls \ {r}, guildCall[s].guild \in GuildIds \ (overlapped \cup split)
        PROVE  HalfDone(guildCall[s].pc, guild'[guildCall[s].guild], MembersIn(associated', guildCall[s].guild))
    <3> DEFINE h == guildCall[s].guild
    <3>1. CASE h # g
      <4>1. HalfDone(guildCall[s].pc, guild[h], MembersIn(associated, h))
        BY <2>1 DEF InHalves
      <4>2. guild'[h] = guild[h] /\ MembersIn(associated', h) \subseteq MembersIn(associated, h)
        BY <1>2, <2>1, <3>1
      <4>3. MembersIn(associated, h) = {} => MembersIn(associated', h) = {}
        BY <4>2
      <4> QED
        BY <4>1, <4>2, <4>3 DEF HalfDone
    <3>2. CASE h = g
      <4>1. guildCall[s].pc \notin Busy
        BY <1>8, <2>1, <3>2
      <4> QED
        BY <4>1 DEF Busy, Between, HalfDone
    <3> QED
      BY <3>1, <3>2
  <2>2. \A s \in GuildCalls \ {r} : guildCall'[s] = guildCall[s]
    BY <1>2
  <2>3. g \notin overlapped \cup split => HalfDone(c.pc, guild'[g], MembersIn(associated', g))
    BY <1>2
  <2> QED
    BY <1>2, <1>3, <2>1, <2>2, <2>3 DEF InHalves
<1>12. AreWhole'
  <2>1. CASE StepBetween(g, c)
    <3>1. /\ \A h \in GuildIds : MembersIn(saved'.associated, h) = MembersIn(saved.associated, h)
          /\ saved' = saved /\ split' = split /\ overlapped' = overlapped
      BY <2>1 DEF StepBetween, NoCommit, MembersIn
    <3>2. \A h \in GuildIds : (\A s \in GuildCalls : guildCall'[s].pc \in Between => guildCall'[s].guild # h)
                        => h # g /\ \A s \in GuildCalls : guildCall[s].pc \in Between => guildCall[s].guild # h
      BY <1>2, <2>1 DEF StepBetween
    <3> QED
      BY <1>2, <2>1, <3>1, <3>2 DEF StepBetween, AreWhole
  <2>2. CASE LastStep(r, g, c, row)
    <3>1. /\ saved' = [guild |-> guild', mapped |-> mapped', associated |-> associated']
          /\ split' = split \cup Halfway(GuildCalls \ {r})
      BY <2>2 DEF LastStep, Commit
    <3>2. \A h \in GuildIds : saved'.guild[h] = guild'[h] /\ MembersIn(saved'.associated, h) = MembersIn(associated', h)
      BY <3>1 DEF MembersIn
    <3>3. ASSUME NEW h \in GuildIds \ (overlapped \cup split'), h # g
          PROVE  IsWhole(guild[h], MembersIn(associated', h))
      <4>1. \A s \in GuildCalls : guildCall[s].pc \in Between => guildCall[s].guild # h
        BY <3>1, <3>3 DEF Halfway
      <4>2. h \in GuildIds \ (overlapped \cup split)
        BY <3>1, <3>3
      <4>3. IsWhole(saved.guild[h], MembersIn(saved.associated, h))
            /\ guild[h] = saved.guild[h] /\ MembersIn(associated, h) = MembersIn(saved.associated, h)
        BY <4>1, <4>2 DEF AreWhole
      <4>4. MembersIn(associated', h) \subseteq MembersIn(associated, h)
        BY <3>3
      <4>5. MembersIn(associated', h) # {} => MembersIn(associated, h) # {}
        BY <4>4
      <4> QED
        BY <4>3, <4>5 DEF IsWhole
    <3>4. \A h \in GuildIds \ (overlapped \cup split') : IsWhole(guild'[h], MembersIn(associated', h))
      BY <1>2, <1>3, <2>2, <3>3 DEF LastStep
    <3> QED
      BY <1>3, <3>2, <3>4 DEF AreWhole
  <2> QED
    BY <2>1, <2>2
<1> QED
  BY <1>5, <1>6, <1>7, <1>9, <1>10, <1>11, <1>12

\* The handler after an answer, and after going on.
LEMMA AnswerIsCall ==
    ASSUME GuildTypes, NEW r \in GuildCalls, NEW code \in {"200", "500"}, GuildAnswer(r, code)
    PROVE  \E c \in GuildHandlers : /\ c.pc = code /\ c.guild = guildCall[r].guild
                                    /\ guildCall' = [guildCall EXCEPT ![r] = c]
<1> DEFINE c == [guildCall[r] EXCEPT !.pc = code, !.todo = {}]
<1>1. c \in GuildHandlers /\ c.pc = code /\ c.guild = guildCall[r].guild
  BY DEF GuildTypes, GuildPc, GuildHandlers
<1>2. guildCall' = [guildCall EXCEPT ![r] = c]
  BY DEF GuildAnswer, GuildTypes
<1> QED
  BY <1>1, <1>2

LEMMA GoingOnIsCall ==
    ASSUME GuildTypes, NEW r \in GuildCalls, NEW pc \in Busy, GoOn(r, pc)
    PROVE  \E c \in GuildHandlers : /\ c.pc = pc /\ c.guild = guildCall[r].guild
                                    /\ c.member = guildCall[r].member
                                    /\ guildCall' = [guildCall EXCEPT ![r] = c]
<1> DEFINE c == [guildCall[r] EXCEPT !.pc = pc]
<1>1. c \in GuildHandlers /\ c.pc = pc /\ c.guild = guildCall[r].guild /\ c.member = guildCall[r].member
  BY DEF GuildTypes, GuildPc, GuildHandlers
<1>2. guildCall' = [guildCall EXCEPT ![r] = c]
  BY DEF GoOn, GuildTypes
<1> QED
  BY <1>1, <1>2

\* A row of a guild, with one field or two of it set.
LEMMA RowIsGuild ==
    ASSUME NEW row \in DiscordGuild, NEW b \in BOOLEAN
    PROVE  /\ \E x \in DiscordGuild : /\ x = [row EXCEPT !.there = b, !.verified = FALSE]
                                      /\ x.there = b /\ ~x.verified /\ x.settings = row.settings
           /\ \E x \in DiscordGuild : /\ x = [row EXCEPT !.settings = b]
                                      /\ x.there = row.there /\ x.verified = row.verified /\ x.settings = b
           /\ \E x \in DiscordGuild : /\ x = [row EXCEPT !.verified = b]
                                      /\ x.there = row.there /\ x.verified = b /\ x.settings = row.settings
<1>1. [row EXCEPT !.there = b, !.verified = FALSE] \in DiscordGuild
      /\ [row EXCEPT !.there = b, !.verified = FALSE].there = b
      /\ ~[row EXCEPT !.there = b, !.verified = FALSE].verified
      /\ [row EXCEPT !.there = b, !.verified = FALSE].settings = row.settings
  BY DEF DiscordGuild
<1>2. [row EXCEPT !.settings = b] \in DiscordGuild
      /\ [row EXCEPT !.settings = b].there = row.there
      /\ [row EXCEPT !.settings = b].verified = row.verified
      /\ [row EXCEPT !.settings = b].settings = b
  BY DEF DiscordGuild
<1>3. [row EXCEPT !.verified = b] \in DiscordGuild
      /\ [row EXCEPT !.verified = b].there = row.there
      /\ [row EXCEPT !.verified = b].settings = row.settings
      /\ [row EXCEPT !.verified = b].verified = b
  BY DEF DiscordGuild
<1> QED
  BY <1>1, <1>2, <1>3

\* The session is lost: what is committed is what there is.
LEMMA SessionEndsKeeps == ASSUME GuildInv, SessionEnds PROVE GuildInv'
<1> USE DEF GuildInv
<1>1. /\ guild' = saved.guild /\ mapped' = saved.mapped /\ associated' = saved.associated
      /\ UNCHANGED <<saved, overlapped, split>>
  BY DEF SessionEnds
<1>2. /\ \A r \in GuildCalls : guildCall'[r].pc \notin Busy
      /\ guildCall' \in [GuildCalls -> GuildHandlers]
  <2>1. guildCall' = [r \in GuildCalls |->
           IF guildCall[r].pc \in Busy THEN [guildCall[r] EXCEPT !.pc = "500", !.todo = {}]
           ELSE guildCall[r]]
    BY DEF SessionEnds
  <2>2. \A r \in GuildCalls :
            /\ guildCall[r] \in GuildHandlers
            /\ [guildCall[r] EXCEPT !.pc = "500", !.todo = {}] \in GuildHandlers
            /\ [guildCall[r] EXCEPT !.pc = "500", !.todo = {}].pc = "500"
    BY DEF GuildTypes, GuildHandlers, GuildPc
  <2>3. "500" \notin Busy
    BY DEF Busy, Between
  <2> QED
    BY <2>1, <2>2, <2>3
<1>3. GuildTypes'
  BY <1>1, <1>2 DEF GuildTypes
<1>4. WorksOn' /\ WorksAlone' /\ WorkStands' /\ InHalves'
  BY <1>2 DEF WorksOn, WorksAlone, WorkStands, Maps, InHalves, HalfDone, Busy, Between
<1>5. VerifiedHave' /\ AreWhole'
  BY <1>1 DEF VerifiedHave, AreWhole, MembersIn
<1> QED
  BY <1>3, <1>4, <1>5

\* What is written is committed, and of halves it is known that they are.
LEMMA ForeignCommitKeeps == ASSUME GuildInv, ForeignCommit PROVE GuildInv'
<1> USE DEF GuildInv
<1>1. /\ saved' = [guild |-> guild, mapped |-> mapped, associated |-> associated]
      /\ split' = split \cup Halfway(GuildCalls)
      /\ UNCHANGED <<guild, mapped, associated, guildCall, overlapped>>
  BY DEF ForeignCommit
<1>2. Halfway(GuildCalls) \subseteq GuildIds
  BY DEF Halfway, WorksOn, Busy
<1>3. GuildTypes'
  BY <1>1, <1>2 DEF GuildTypes
<1>4. WorksOn' /\ WorksAlone' /\ WorkStands' /\ VerifiedHave'
  BY <1>1 DEF WorksOn, WorksAlone, WorkStands, VerifiedHave
<1>5. InHalves'
  BY <1>1 DEF InHalves, MembersIn
<1>6. AreWhole'
  <2>1. ASSUME NEW g \in GuildIds \ (overlapped \cup split')
        PROVE  IsWhole(saved'.guild[g], MembersIn(saved'.associated, g))
    <3>1. \A s \in GuildCalls : guildCall[s].pc \in Between => guildCall[s].guild # g
      BY <1>1, <2>1 DEF Halfway
    <3>2. IsWhole(saved.guild[g], MembersIn(saved.associated, g))
          /\ guild[g] = saved.guild[g] /\ MembersIn(associated, g) = MembersIn(saved.associated, g)
      BY <1>1, <2>1, <3>1 DEF AreWhole
    <3>3. MembersIn(saved'.associated, g) = MembersIn(associated, g) /\ saved'.guild[g] = guild[g]
      BY <1>1 DEF MembersIn
    <3> QED
      BY <3>2, <3>3
  <2>2. \A g \in GuildIds : guild'[g] = saved'.guild[g] /\ MembersIn(associated', g) = MembersIn(saved'.associated, g)
    BY <1>1 DEF MembersIn
  <2> QED
    BY <1>1, <2>1, <2>2 DEF AreWhole
<1> QED
  BY <1>3, <1>4, <1>5, <1>6

\* A statement that is not sent leaves the half of before, and the handler is no longer at work.
LEMMA GuildFailureKeeps ==
    ASSUME GuildInv, NEW r \in GuildCalls, GuildCallFails(r)
    PROVE  GuildInv'
<1> USE DEF GuildInv
<1>1. /\ guildCall[r].pc \in Busy /\ GuildAnswer(r, "500")
      /\ split' = split \cup Halfway({r})
      /\ UNCHANGED <<guild, mapped, associated, saved, overlapped>>
  BY DEF GuildCallFails
<1>2. PICK c \in GuildHandlers : /\ c.pc = "500" /\ c.guild = guildCall[r].guild
                                 /\ guildCall' = [guildCall EXCEPT ![r] = c]
  BY <1>1, AnswerIsCall
<1>3. /\ guildCall'[r] = c /\ \A s \in GuildCalls \ {r} : guildCall'[s] = guildCall[s]
      /\ guildCall[r].guild \in GuildIds
  BY <1>1, <1>2 DEF GuildTypes, WorksOn
<1>4. Halfway({r}) \subseteq GuildIds
  BY <1>3 DEF Halfway
<1>5. GuildTypes'
  BY <1>1, <1>2, <1>4 DEF GuildTypes
<1>6. WorksOn' /\ WorksAlone'
  <2>1. c.pc \notin Busy /\ c.pc # "associate"
    BY <1>2 DEF Busy, Between
  <2> QED
    BY <1>1, <1>3, <2>1 DEF WorksOn, WorksAlone
<1>7. WorkStands' /\ VerifiedHave'
  BY <1>1, <1>2, <1>3 DEF WorkStands, Maps, VerifiedHave
<1>8. InHalves'
  <2>1. HalfDone("500", guild[c.guild], MembersIn(associated, c.guild))
    BY DEF HalfDone
  <2> QED
    BY <1>1, <1>2, <1>3, <2>1 DEF InHalves, MembersIn
<1>9. AreWhole'
  <2>1. ASSUME NEW g \in GuildIds \ (overlapped \cup split'),
               \A s \in GuildCalls : guildCall'[s].pc \in Between => guildCall'[s].guild # g
        PROVE  \A s \in GuildCalls : guildCall[s].pc \in Between => guildCall[s].guild # g
    BY <1>1, <1>3, <2>1 DEF Halfway
  <2>2. GuildIds \ (overlapped' \cup split') \subseteq GuildIds \ (overlapped \cup split)
    BY <1>1
  <2> QED
    BY <1>1, <2>1, <2>2 DEF AreWhole
<1> QED
  BY <1>5, <1>6, <1>7, <1>8, <1>9

\* create_guild: the row and then the settings.
LEMMA GuildCreateKeeps ==
    ASSUME GuildInv, NEW r \in GuildCalls, CreateGuild(r) \/ CreateSettings(r)
    PROVE  GuildInv'
<1> DEFINE g == guildCall[r].guild
<1>1. guildCall[r].pc \in Busy /\ g \in GuildIds /\ guildCall[r].pc \in {"create", "settings"}
  BY DEF CreateGuild, CreateSettings, GuildInv, WorksOn, Busy, Between
<1>2. guild[g] \in DiscordGuild /\ mapped[g] \in SUBSET Channels
  BY <1>1 DEF GuildInv, GuildTypes
<1>3. CASE SessionEnds
  BY <1>3, SessionEndsKeeps
<1>4. CASE ~SessionEnds
  <2>1. UNCHANGED <<mapped, associated>>
    BY <1>4 DEF CreateGuild, CreateSettings
  <2>2. /\ mapped' = [mapped EXCEPT ![g] = mapped[g]]
        /\ associated' \in [Members -> GuildIds \cup {NoGuild}]
        /\ \A h \in GuildIds : MembersIn(associated', h) = MembersIn(associated, h)
    BY <2>1 DEF GuildInv, GuildTypes, MembersIn
  <2>3. CASE CreateGuild(r)
    <3>1. /\ guild' = [guild EXCEPT ![g].there = TRUE, ![g].verified = FALSE]
          /\ GoOn(r, "settings") /\ NoCommit /\ guildCall[r].pc = "create"
      BY <1>4, <2>3 DEF CreateGuild
    <3>2. PICK row \in DiscordGuild : /\ row = [guild[g] EXCEPT !.there = TRUE, !.verified = FALSE]
                                      /\ row.there = TRUE /\ ~row.verified
      BY <1>2, RowIsGuild
    <3>3. guild' = [guild EXCEPT ![g] = row]
      BY <1>1, <3>1, <3>2 DEF GuildInv, GuildTypes
    <3>4. PICK c \in GuildHandlers : /\ c.pc = "settings" /\ c.guild = g
                                     /\ guildCall' = [guildCall EXCEPT ![r] = c]
      BY <3>1, GoingOnIsCall DEF GuildInv, Busy, Between
    <3>5. Maps(c, row, mapped[g]) /\ HalfDone(c.pc, row, MembersIn(associated', g)) /\ c.pc \in Between
      BY <3>2, <3>4 DEF Maps, HalfDone, Between
    <3>11. GuildStep(r, g, c, row, mapped[g])
      BY <1>1, <1>2, <2>2, <3>1, <3>2, <3>3, <3>4, <3>5 DEF GuildStep
    <3>12. StepBetween(g, c)
      BY <1>1, <1>2, <2>2, <3>1, <3>2, <3>3, <3>4, <3>5 DEF LastStep, StepBetween
    <3> QED
      BY <3>11, <3>12, <1>1, <1>2, <2>2, <3>1, <3>2, <3>3, <3>4, <3>5, GuildStepKeeps
  <2>4. CASE CreateSettings(r)
    <3>1. /\ guild' = [guild EXCEPT ![g].settings = TRUE]
          /\ Commit(r) /\ guildCall[r].pc = "settings"
          /\ IF guildCall[r].member = NoGuild THEN GuildAnswer(r, "200") ELSE GoOn(r, "associate")
      BY <1>4, <2>4 DEF CreateSettings
    <3>2. PICK row \in DiscordGuild :
              /\ row = [guild[g] EXCEPT !.settings = TRUE]
              /\ row.there = guild[g].there /\ row.verified = guild[g].verified /\ row.settings = TRUE
      BY <1>2, RowIsGuild
    <3>3. guild' = [guild EXCEPT ![g] = row]
      BY <1>1, <3>1, <3>2 DEF GuildInv, GuildTypes
    <3>4. PICK c \in GuildHandlers : /\ c.pc \in {"200", "associate"} /\ c.guild = g
                                     /\ c.pc = "associate" => c.member \in Members
                                     /\ guildCall' = [guildCall EXCEPT ![r] = c]
      <4>1. CASE guildCall[r].member = NoGuild
        BY <3>1, <4>1, AnswerIsCall DEF GuildInv
      <4>2. CASE guildCall[r].member # NoGuild
        <5>1. guildCall[r].member \in Members
          BY <4>2 DEF GuildInv, GuildTypes, GuildHandlers
        <5>2. GoOn(r, "associate") /\ "associate" \in Busy
          BY <3>1, <4>2 DEF Busy
        <5> QED
          BY <5>1, <5>2, GoingOnIsCall DEF GuildInv
      <4> QED
        BY <4>1, <4>2
    <3>5. g \notin overlapped \cup split => row.there = TRUE
      BY <1>1, <3>1, <3>2 DEF GuildInv, InHalves, HalfDone
    <3>6. /\ Maps(c, row, mapped[g]) /\ c.pc \notin Between
          /\ g \notin overlapped \cup split => HalfDone(c.pc, row, MembersIn(associated', g))
          /\ g \notin overlapped \cup split => IsWhole(row, MembersIn(associated', g))
      BY <3>2, <3>4, <3>5 DEF Maps, HalfDone, Between, IsWhole
    <3>7. g \notin overlapped => (row.verified => mapped[g] = Channels)
      BY <1>1, <3>2 DEF GuildInv, VerifiedHave
    <3>11. GuildStep(r, g, c, row, mapped[g])
      BY <1>1, <1>2, <2>2, <3>1, <3>3, <3>4, <3>6, <3>7 DEF GuildStep
    <3>12. LastStep(r, g, c, row)
      BY <1>1, <1>2, <2>2, <3>1, <3>3, <3>4, <3>6, <3>7 DEF LastStep, StepBetween
    <3> QED
      BY <3>11, <3>12, <1>1, <1>2, <2>2, <3>1, <3>3, <3>4, <3>6, <3>7, GuildStepKeeps
  <2> QED
    BY <2>3, <2>4
<1> QED
  BY <1>3, <1>4

\* A guild that no handler is halfway through, at a place of this one's, is whole.
LEMMA WholeHere ==
    ASSUME GuildInv, NEW r \in GuildCalls, guildCall[r].pc \in Busy \ Between,
           guildCall[r].guild \notin overlapped \cup split
    PROVE  IsWhole(guild[guildCall[r].guild], MembersIn(associated, guildCall[r].guild))
<1>1. guildCall[r].guild \in GuildIds
  BY DEF GuildInv, WorksOn
<1>2. \A s \in GuildCalls : guildCall[s].pc \in Between => guildCall[s].guild # guildCall[r].guild
  BY DEF GuildInv, WorksAlone, Busy
<1> QED
  BY <1>1, <1>2 DEF GuildInv, AreWhole

\* The machine goes to a guild that is there.
LEMMA AssociateKeeps ==
    ASSUME GuildInv, NEW r \in GuildCalls, AssociateMachine(r)
    PROVE  GuildInv'
<1> DEFINE g == guildCall[r].guild
           m == guildCall[r].member
<1>1. guildCall[r].pc = "associate" /\ guildCall[r].pc \in Busy \ Between /\ g \in GuildIds /\ m \in Members
  BY DEF AssociateMachine, GuildInv, WorksOn, Busy, Between
<1>2. UNCHANGED <<guild, mapped>> /\ GuildAnswer(r, "200") /\ Commit(r)
  BY DEF AssociateMachine
<1>3. associated' = [associated EXCEPT ![m] = g]
  BY DEF AssociateMachine
<1>4. PICK c \in GuildHandlers : /\ c.pc = "200" /\ c.guild = g
                                 /\ guildCall' = [guildCall EXCEPT ![r] = c]
  BY <1>2, AnswerIsCall DEF GuildInv
<1>5. /\ guild[g] \in DiscordGuild /\ mapped[g] \in SUBSET Channels
      /\ guild' = [guild EXCEPT ![g] = guild[g]] /\ mapped' = [mapped EXCEPT ![g] = mapped[g]]
      /\ associated' \in [Members -> GuildIds \cup {NoGuild}]
  BY <1>1, <1>2, <1>3 DEF GuildInv, GuildTypes
<1>6. \A h \in GuildIds \ {g} : MembersIn(associated', h) \subseteq MembersIn(associated, h)
  BY <1>1, <1>3 DEF GuildInv, GuildTypes, MembersIn
<1>7. g \notin overlapped \cup split => IsWhole(guild[g], MembersIn(associated', g))
  <2>1. g \notin overlapped \cup split => guild[g].there
    BY <1>1 DEF GuildInv, InHalves, HalfDone
  <2> QED
    BY <1>1, <2>1, WholeHere DEF IsWhole
<1>8. /\ Maps(c, guild[g], mapped[g]) /\ HalfDone(c.pc, guild[g], MembersIn(associated', g)) /\ c.pc \notin Between
      /\ c.pc # "associate"
  BY <1>4 DEF Maps, HalfDone, Between
<1>9. g \notin overlapped => (guild[g].verified => mapped[g] = Channels)
  BY <1>1 DEF GuildInv, VerifiedHave
<1>11. GuildStep(r, g, c, guild[g], mapped[g])
  BY <1>1, <1>2, <1>4, <1>5, <1>6, <1>7, <1>8, <1>9 DEF GuildStep
<1>12. LastStep(r, g, c, guild[g])
  BY <1>1, <1>2, <1>4, <1>5, <1>6, <1>7, <1>8, <1>9 DEF LastStep, StepBetween
<1> QED
  BY <1>11, <1>12, <1>1, <1>2, <1>4, <1>5, <1>6, <1>7, <1>8, <1>9, GuildStepKeeps

\* One channel more is mapped, and one less is to be.
LEMMA GuildMapKeeps ==
    ASSUME GuildInv, NEW r \in GuildCalls, SetChannelMapping(r)
    PROVE  GuildInv'
<1> DEFINE g == guildCall[r].guild
<1>1. guildCall[r].pc = "map" /\ guildCall[r].pc \in Busy \ Between /\ g \in GuildIds
  BY DEF SetChannelMapping, GuildInv, WorksOn, Busy, Between
<1>2. UNCHANGED <<guild, associated>> /\ Commit(r)
  BY DEF SetChannelMapping
<1>3. PICK x \in guildCall[r].todo :
          /\ mapped' = [mapped EXCEPT ![g] = @ \cup {x}]
          /\ guildCall' = [guildCall EXCEPT
                 ![r].todo = @ \ {x},
                 ![r].pc = IF guildCall[r].todo = {x} THEN "verify" ELSE "map"]
  BY DEF SetChannelMapping
<1> DEFINE c == [guildCall[r] EXCEPT
                     !.todo = @ \ {x},
                     !.pc = IF guildCall[r].todo = {x} THEN "verify" ELSE "map"]
           channels == mapped[g] \cup {x}
<1>4. /\ c \in GuildHandlers /\ c.guild = g /\ c.pc \in {"verify", "map"}
      /\ c.todo = guildCall[r].todo \ {x}
      /\ c.pc = IF guildCall[r].todo = {x} THEN "verify" ELSE "map"
  BY DEF GuildInv, GuildTypes, GuildPc, GuildHandlers, Busy
<1>5. guildCall' = [guildCall EXCEPT ![r] = c]
  BY <1>3 DEF GuildInv, GuildTypes
<1>6. /\ channels \in SUBSET Channels /\ guild[g] \in DiscordGuild
      /\ mapped' = [mapped EXCEPT ![g] = channels] /\ guild' = [guild EXCEPT ![g] = guild[g]]
      /\ associated' \in [Members -> GuildIds \cup {NoGuild}]
      /\ \A h \in GuildIds : MembersIn(associated', h) = MembersIn(associated, h)
  BY <1>1, <1>2, <1>3 DEF GuildInv, GuildTypes, GuildHandlers, MembersIn
<1>7. g \notin overlapped => Maps(c, guild[g], channels)
  <2>1. g \notin overlapped => Channels \subseteq mapped[g] \cup guildCall[r].todo
    BY <1>1 DEF GuildInv, WorkStands, Maps
  <2> HIDE DEF c
  <2> QED
    BY <1>4, <1>6, <2>1 DEF Maps
<1>8. g \notin overlapped => (guild[g].verified => channels = Channels)
  BY <1>1, <1>6 DEF GuildInv, VerifiedHave
<1>9. /\ c.pc \notin Between /\ c.pc # "associate" /\ HalfDone(c.pc, guild[g], MembersIn(associated', g))
      /\ g \notin overlapped \cup split => IsWhole(guild[g], MembersIn(associated', g))
  <2>1. c.pc \notin Between /\ c.pc # "associate" /\ HalfDone(c.pc, guild[g], MembersIn(associated', g))
    BY <1>4 DEF Between, HalfDone
  <2>2. g \notin overlapped \cup split => IsWhole(guild[g], MembersIn(associated', g))
    BY <1>1, <1>6, WholeHere
  <2> QED
    BY <2>1, <2>2
<1> HIDE DEF c, channels
<1>11. GuildStep(r, g, c, guild[g], channels)
  BY <1>1, <1>2, <1>4, <1>5, <1>6, <1>7, <1>8, <1>9 DEF GuildStep
<1>12. LastStep(r, g, c, guild[g])
  BY <1>1, <1>2, <1>4, <1>5, <1>6, <1>7, <1>8, <1>9 DEF LastStep, StepBetween
<1> QED
  BY <1>11, <1>12, <1>1, <1>2, <1>4, <1>5, <1>6, <1>7, <1>8, <1>9, GuildStepKeeps

\* The row is verified once all of the channels are mapped.
LEMMA GuildVerifyKeeps ==
    ASSUME GuildInv, NEW r \in GuildCalls, UpdateGuild(r)
    PROVE  GuildInv'
<1> DEFINE g == guildCall[r].guild
<1>1. guildCall[r].pc = "verify" /\ guildCall[r].pc \in Busy \ Between /\ g \in GuildIds
  BY DEF UpdateGuild, Verified, GuildInv, WorksOn, Busy, Between
<1>2. UNCHANGED <<mapped, associated>> /\ Commit(r) /\ (GuildAnswer(r, "200") \/ GuildAnswer(r, "500"))
  BY DEF UpdateGuild
<1>3. PICK c \in GuildHandlers : /\ c.pc \in {"200", "500"} /\ c.guild = g
                                 /\ guildCall' = [guildCall EXCEPT ![r] = c]
  BY <1>2, AnswerIsCall DEF GuildInv
<1>4. guild[g] \in DiscordGuild /\ mapped[g] \in SUBSET Channels
  BY <1>1 DEF GuildInv, GuildTypes
<1>5. PICK row \in DiscordGuild : /\ guild' = [guild EXCEPT ![g] = row]
                                  /\ row.there = guild[g].there /\ row.settings = guild[g].settings
  <2>1. CASE guild[g].there
    <3>1. guild' = [guild EXCEPT ![g].verified = TRUE]
      BY <2>1 DEF UpdateGuild
    <3>2. PICK row \in DiscordGuild : /\ row = [guild[g] EXCEPT !.verified = TRUE]
                                      /\ row.there = guild[g].there /\ row.settings = guild[g].settings
      <4> DEFINE row == [guild[g] EXCEPT !.verified = TRUE]
      <4>1. row \in DiscordGuild /\ row.there = guild[g].there /\ row.settings = guild[g].settings
        BY <1>4 DEF DiscordGuild
      <4> QED
        BY <4>1
    <3> QED
      BY <1>1, <3>1, <3>2 DEF GuildInv, GuildTypes
  <2>2. CASE ~guild[g].there
    <3>1. guild' = guild
      BY <2>2 DEF UpdateGuild
    <3> QED
      BY <1>1, <1>4, <3>1 DEF GuildInv, GuildTypes
  <2> QED
    BY <2>1, <2>2
<1>6. /\ mapped' = [mapped EXCEPT ![g] = mapped[g]]
      /\ associated' \in [Members -> GuildIds \cup {NoGuild}]
      /\ \A h \in GuildIds : MembersIn(associated', h) = MembersIn(associated, h)
  BY <1>1, <1>2 DEF GuildInv, GuildTypes, MembersIn
<1>7. g \notin overlapped => mapped[g] = Channels
  BY <1>1 DEF GuildInv, WorkStands, Maps
<1>8. Maps(c, row, mapped[g]) /\ HalfDone(c.pc, row, MembersIn(associated', g)) /\ c.pc \notin Between /\ c.pc # "associate"
  BY <1>3 DEF Maps, HalfDone, Between
<1>9. g \notin overlapped \cup split => IsWhole(row, MembersIn(associated', g))
  BY <1>1, <1>5, <1>6, WholeHere DEF IsWhole
<1>11. GuildStep(r, g, c, row, mapped[g])
  BY <1>1, <1>2, <1>3, <1>4, <1>5, <1>6, <1>7, <1>8, <1>9 DEF GuildStep
<1>12. LastStep(r, g, c, row)
  BY <1>1, <1>2, <1>3, <1>4, <1>5, <1>6, <1>7, <1>8, <1>9 DEF LastStep, StepBetween
<1> QED
  BY <1>11, <1>12, <1>1, <1>2, <1>3, <1>4, <1>5, <1>6, <1>7, <1>8, <1>9, GuildStepKeeps

\* One table after the other forgets the guild.
LEMMA GuildRemoveKeeps ==
    ASSUME GuildInv, NEW r \in GuildCalls, RemoveGuild(r) \/ RemoveSettings(r)
    PROVE  GuildInv'
<1> DEFINE g == guildCall[r].guild
<1>1. guildCall[r].pc \in Busy /\ g \in GuildIds
  BY DEF RemoveGuild, RemoveSettings, GuildInv, WorksOn, Busy, Between
<1>2. UNCHANGED <<mapped, associated>> /\ NoCommit
  BY DEF RemoveGuild, RemoveSettings
<1>3. guild[g] \in DiscordGuild /\ mapped[g] \in SUBSET Channels
  BY <1>1 DEF GuildInv, GuildTypes
<1>4. /\ mapped' = [mapped EXCEPT ![g] = mapped[g]]
      /\ associated' \in [Members -> GuildIds \cup {NoGuild}]
      /\ \A h \in GuildIds : MembersIn(associated', h) = MembersIn(associated, h)
  BY <1>1, <1>2 DEF GuildInv, GuildTypes, MembersIn
<1>5. CASE RemoveGuild(r)
  <2>1. /\ guild' = [guild EXCEPT ![g].there = FALSE, ![g].verified = FALSE]
        /\ GoOn(r, "delete settings")
    BY <1>5 DEF RemoveGuild
  <2>2. PICK row \in DiscordGuild : /\ row = [guild[g] EXCEPT !.there = FALSE, !.verified = FALSE]
                                    /\ row.there = FALSE /\ ~row.verified
    BY <1>3, RowIsGuild
  <2>3. guild' = [guild EXCEPT ![g] = row]
    BY <1>1, <2>1, <2>2 DEF GuildInv, GuildTypes
  <2>4. PICK c \in GuildHandlers : /\ c.pc = "delete settings" /\ c.guild = g
                                   /\ guildCall' = [guildCall EXCEPT ![r] = c]
    BY <2>1, GoingOnIsCall DEF GuildInv, Busy, Between
  <2>5. Maps(c, row, mapped[g]) /\ HalfDone(c.pc, row, MembersIn(associated', g)) /\ c.pc \in Between /\ c.pc # "associate"
    BY <2>2, <2>4 DEF Maps, HalfDone, Between
  <2>11. GuildStep(r, g, c, row, mapped[g])
    BY <1>1, <1>2, <1>3, <1>4, <2>2, <2>3, <2>4, <2>5 DEF GuildStep
  <2>12. StepBetween(g, c)
    BY <1>1, <1>2, <1>3, <1>4, <2>2, <2>3, <2>4, <2>5 DEF LastStep, StepBetween
  <2> QED
    BY <2>11, <2>12, <1>1, <1>2, <1>3, <1>4, <2>2, <2>3, <2>4, <2>5, GuildStepKeeps
<1>6. CASE RemoveSettings(r)
  <2>1. /\ guild' = [guild EXCEPT ![g].settings = FALSE]
        /\ GoOn(r, "delete channels") /\ guildCall[r].pc = "delete settings"
    BY <1>6 DEF RemoveSettings
  <2>2. PICK row \in DiscordGuild :
            /\ row = [guild[g] EXCEPT !.settings = FALSE]
            /\ row.there = guild[g].there /\ row.verified = guild[g].verified /\ row.settings = FALSE
    BY <1>3, RowIsGuild
  <2>3. guild' = [guild EXCEPT ![g] = row]
    BY <1>1, <2>1, <2>2 DEF GuildInv, GuildTypes
  <2>4. PICK c \in GuildHandlers : /\ c.pc = "delete channels" /\ c.guild = g
                                   /\ guildCall' = [guildCall EXCEPT ![r] = c]
    BY <2>1, GoingOnIsCall DEF GuildInv, Busy, Between
  <2>5. g \notin overlapped \cup split => ~guild[g].there
    BY <1>1, <2>1 DEF GuildInv, InHalves, HalfDone
  <2>6. /\ g \notin overlapped => Maps(c, row, mapped[g])
        /\ c.pc \in Between /\ c.pc # "associate"
        /\ g \notin overlapped \cup split => HalfDone(c.pc, row, MembersIn(associated', g))
    <3>1. g \notin overlapped => ~guild[g].verified
      BY <1>1, <2>1 DEF GuildInv, WorkStands, Maps
    <3> QED
      BY <2>2, <2>4, <2>5, <3>1 DEF Maps, HalfDone, Between
  <2>7. g \notin overlapped => (row.verified => mapped[g] = Channels)
    BY <1>1, <2>2 DEF GuildInv, VerifiedHave
  <2>11. GuildStep(r, g, c, row, mapped[g])
    BY <1>1, <1>2, <1>3, <1>4, <2>3, <2>4, <2>6, <2>7 DEF GuildStep
  <2>12. StepBetween(g, c)
    BY <1>1, <1>2, <1>3, <1>4, <2>3, <2>4, <2>6, <2>7 DEF LastStep, StepBetween
  <2> QED
    BY <2>11, <2>12, <1>1, <1>2, <1>3, <1>4, <2>3, <2>4, <2>6, <2>7, GuildStepKeeps
<1> QED
  BY <1>5, <1>6

LEMMA GuildClearKeeps ==
    ASSUME GuildInv, NEW r \in GuildCalls, RemoveChannels(r) \/ RemoveMachines(r)
    PROVE  GuildInv'
<1> DEFINE g == guildCall[r].guild
<1>1. guildCall[r].pc \in Busy /\ g \in GuildIds
  BY DEF RemoveChannels, RemoveMachines, GuildInv, WorksOn, Busy, Between
<1>2. UNCHANGED guild /\ NoCommit
  BY DEF RemoveChannels, RemoveMachines
<1>3. /\ guild[g] \in DiscordGuild /\ mapped[g] \in SUBSET Channels
      /\ guild' = [guild EXCEPT ![g] = guild[g]]
  BY <1>1, <1>2 DEF GuildInv, GuildTypes
<1>4. g \notin overlapped \cup split => ~guild[g].there /\ ~guild[g].settings
  BY <1>1 DEF RemoveChannels, RemoveMachines, GuildInv, InHalves, HalfDone
<1>5. CASE RemoveChannels(r)
  <2>1. /\ mapped' = [mapped EXCEPT ![g] = {}] /\ UNCHANGED associated
        /\ GoOn(r, "delete machines")
    BY <1>5 DEF RemoveChannels
  <2>2. /\ associated' \in [Members -> GuildIds \cup {NoGuild}]
        /\ \A h \in GuildIds : MembersIn(associated', h) = MembersIn(associated, h)
    BY <2>1 DEF GuildInv, GuildTypes, MembersIn
  <2>3. PICK c \in GuildHandlers : /\ c.pc = "delete machines" /\ c.guild = g
                                   /\ guildCall' = [guildCall EXCEPT ![r] = c]
    BY <2>1, GoingOnIsCall DEF GuildInv, Busy, Between
  <2>4. /\ Maps(c, guild[g], {}) /\ c.pc \in Between /\ c.pc # "associate"
        /\ g \notin overlapped \cup split => HalfDone(c.pc, guild[g], MembersIn(associated', g))
    BY <1>4, <2>3 DEF Maps, HalfDone, Between
  <2>5. g \notin overlapped => ~guild[g].verified
    BY <1>1, <1>5 DEF RemoveChannels, GuildInv, WorkStands, Maps
  <2>6. {} \in SUBSET Channels
    OBVIOUS
  <2>11. GuildStep(r, g, c, guild[g], {})
    BY <1>1, <1>2, <1>3, <2>1, <2>2, <2>3, <2>4, <2>5 DEF GuildStep
  <2>12. StepBetween(g, c)
    BY <1>1, <1>2, <1>3, <2>1, <2>2, <2>3, <2>4, <2>5 DEF LastStep, StepBetween
  <2> QED
    BY <2>11, <2>12, <2>6, <1>1, <1>2, <1>3, <2>1, <2>2, <2>3, <2>4, <2>5, GuildStepKeeps
<1>6. CASE RemoveMachines(r)
  <2>1. /\ associated' = [m \in Members |-> IF associated[m] = g THEN NoGuild ELSE associated[m]]
        /\ GoOn(r, "delete rest") /\ UNCHANGED mapped
    BY <1>6 DEF RemoveMachines
  <2>2. /\ associated' \in [Members -> GuildIds \cup {NoGuild}]
        /\ \A h \in GuildIds \ {g} : MembersIn(associated', h) = MembersIn(associated, h)
        /\ MembersIn(associated', g) = {}
        /\ mapped' = [mapped EXCEPT ![g] = mapped[g]]
    BY <1>1, <2>1, DiscordGuildsAssumption DEF GuildInv, GuildTypes, MembersIn
  <2>3. PICK c \in GuildHandlers : /\ c.pc = "delete rest" /\ c.guild = g
                                   /\ guildCall' = [guildCall EXCEPT ![r] = c]
    BY <2>1, GoingOnIsCall DEF GuildInv, Busy, Between
  <2>4. /\ Maps(c, guild[g], mapped[g]) /\ c.pc \in Between /\ c.pc # "associate"
        /\ g \notin overlapped \cup split => HalfDone(c.pc, guild[g], MembersIn(associated', g))
    BY <1>4, <2>2, <2>3 DEF Maps, HalfDone, Between
  <2>5. g \notin overlapped => (guild[g].verified => mapped[g] = Channels)
    BY <1>1 DEF GuildInv, VerifiedHave
  <2>11. GuildStep(r, g, c, guild[g], mapped[g])
    BY <1>1, <1>2, <1>3, <2>2, <2>3, <2>4, <2>5 DEF GuildStep
  <2>12. StepBetween(g, c)
    BY <1>1, <1>2, <1>3, <2>2, <2>3, <2>4, <2>5 DEF LastStep, StepBetween
  <2> QED
    BY <2>11, <2>12, <1>1, <1>2, <1>3, <2>2, <2>3, <2>4, <2>5, GuildStepKeeps
<1> QED
  BY <1>5, <1>6

LEMMA GuildFinishKeeps ==
    ASSUME GuildInv, NEW r \in GuildCalls, FinishRemoval(r)
    PROVE  GuildInv'
<1> DEFINE g == guildCall[r].guild
<1>1. guildCall[r].pc \in Busy /\ g \in GuildIds /\ guildCall[r].pc = "delete rest"
  BY DEF FinishRemoval, GuildInv, WorksOn, Busy, Between
<1>2. UNCHANGED <<guild, mapped, associated>> /\ Commit(r) /\ GuildAnswer(r, "200")
  BY DEF FinishRemoval
<1>3. /\ guild[g] \in DiscordGuild /\ mapped[g] \in SUBSET Channels
      /\ guild' = [guild EXCEPT ![g] = guild[g]] /\ mapped' = [mapped EXCEPT ![g] = mapped[g]]
      /\ associated' \in [Members -> GuildIds \cup {NoGuild}]
      /\ \A h \in GuildIds : MembersIn(associated', h) = MembersIn(associated, h)
  BY <1>1, <1>2 DEF GuildInv, GuildTypes, MembersIn
<1>4. PICK c \in GuildHandlers : /\ c.pc = "200" /\ c.guild = g
                                 /\ guildCall' = [guildCall EXCEPT ![r] = c]
  BY <1>2, AnswerIsCall DEF GuildInv
<1>5. g \notin overlapped \cup split => IsWhole(guild[g], MembersIn(associated', g))
  <2>1. g \notin overlapped \cup split => ~guild[g].there /\ ~guild[g].settings /\ MembersIn(associated, g) = {}
    BY <1>1 DEF GuildInv, InHalves, HalfDone
  <2>2. guild[g].there \in BOOLEAN /\ guild[g].settings \in BOOLEAN
    BY <1>3 DEF DiscordGuild
  <2> QED
    BY <1>1, <1>3, <2>1, <2>2 DEF IsWhole
<1>6. Maps(c, guild[g], mapped[g]) /\ HalfDone(c.pc, guild[g], MembersIn(associated', g)) /\ c.pc \notin Between /\ c.pc # "associate"
  BY <1>4 DEF Maps, HalfDone, Between
<1>7. g \notin overlapped => (guild[g].verified => mapped[g] = Channels)
  BY <1>1 DEF GuildInv, VerifiedHave
<1>11. GuildStep(r, g, c, guild[g], mapped[g])
  BY <1>1, <1>2, <1>3, <1>4, <1>5, <1>6, <1>7 DEF GuildStep
<1>12. LastStep(r, g, c, guild[g])
  BY <1>1, <1>2, <1>3, <1>4, <1>5, <1>6, <1>7 DEF LastStep, StepBetween
<1> QED
  BY <1>11, <1>12, <1>1, <1>2, <1>3, <1>4, <1>5, <1>6, <1>7, GuildStepKeeps

-----------------------------------------------------------------------------
LEMMA NextGuilds ==
    ASSUME GuildInv, [DiscordGuildsNext]_guildVars
    PROVE  GuildInv'
<1>1. CASE UNCHANGED guildVars
  <2>1. UNCHANGED <<guild, mapped, associated, saved, guildCall, overlapped, split>>
    BY <1>1 DEF guildVars
  <2>2. GuildTypes' /\ WorksOn' /\ WorksAlone' /\ WorkStands'
    BY <2>1 DEF GuildInv, GuildTypes, WorksOn, WorksAlone, WorkStands
  <2>3. VerifiedHave' /\ InHalves' /\ AreWhole'
    BY <2>1 DEF GuildInv, VerifiedHave, InHalves, AreWhole
  <2> QED
    BY <2>2, <2>3 DEF GuildInv
<1>2. ASSUME NEW r \in GuildCalls, NEW g \in GuildIds, NEW m \in Members \cup {NoGuild},
             RegisterGuild(r, g, m)
      PROVE  GuildInv'
  BY <1>2, GuildAcceptKeeps DEF RegisterGuild
<1>3. ASSUME NEW r \in GuildCalls, NEW g \in GuildIds, NEW cs \in SUBSET Channels,
             VerifyGuild(r, g, cs)
      PROVE  GuildInv'
  <2> DEFINE pc == IF ValidChannels(cs) THEN "map" ELSE "unverified"
  <2>1. Accept(r, pc, g, NoGuild, cs) /\ pc \in {"map", "unverified"}
    BY <1>3 DEF VerifyGuild
  <2>2. pc = "map" => cs = Channels
    BY DEF ValidChannels
  <2> QED
    BY <2>1, <2>2, GuildAcceptKeeps
<1>4. ASSUME NEW r \in GuildCalls, NEW g \in GuildIds, DeleteGuild(r, g)
      PROVE  GuildInv'
  BY <1>4, GuildAcceptKeeps DEF DeleteGuild
<1>5. ASSUME NEW r \in GuildCalls,
             \/ CreateGuild(r) \/ CreateSettings(r) \/ AssociateMachine(r)
             \/ SetChannelMapping(r) \/ UpdateGuild(r)
             \/ RemoveGuild(r) \/ RemoveSettings(r) \/ RemoveChannels(r) \/ RemoveMachines(r)
             \/ FinishRemoval(r) \/ GuildCallFails(r)
      PROVE  GuildInv'
  BY <1>5, GuildCreateKeeps, AssociateKeeps, GuildMapKeeps, GuildVerifyKeeps, GuildRemoveKeeps,
     GuildClearKeeps, GuildFinishKeeps, GuildFailureKeeps
<1> QED
  BY <1>1, <1>2, <1>3, <1>4, <1>5, SessionEndsKeeps, ForeignCommitKeeps DEF DiscordGuildsNext

\* In what is committed, a verified guild has its channels unless two requests about it
\* overlapped; it has its settings, and is there if it has machines, unless they did or a write
\* to it was cut in two: after any sequence of registrations, verifications, deletions, commits
\* of others and sessions lost.
THEOREM TablesAgree == DiscordGuildsSpec => []GuildTablesAgree
<1>1. DiscordGuildsInit => GuildInv
  BY InitGuilds
<1>2. GuildInv /\ [DiscordGuildsNext]_guildVars => GuildInv'
  BY NextGuilds
<1>3. GuildInv => GuildTablesAgree
  BY DEF GuildInv, VerifiedHave, AreWhole, IsWhole, MembersIn, GuildTablesAgree
<1> QED
  BY <1>1, <1>2, <1>3, PTL DEF DiscordGuildsSpec

\* The guild tables keep their types.
THEOREM GuildsTypeCorrect == DiscordGuildsSpec => []DiscordGuildsTypeOK
<1>1. GuildInv => DiscordGuildsTypeOK
  BY DEF GuildInv, GuildTypes, GuildHandlers, DiscordGuildsTypeOK
<1> QED
  BY <1>1, InitGuilds, NextGuilds, PTL DEF DiscordGuildsSpec

-----------------------------------------------------------------------------
(* The audit trail.                                                        *)

RecordingAt == [pc : {"idle", "create", "append", "recorded", "refused", "failed"}, subsystem : Names,
                previous : Recordings \cup {NoEvent}, stamp : Nat]
IsRecording(r) == recording[r].pc \in {"create", "append"}

IsNewest(s) == s \in DOMAIN trail /\ \A t \in DOMAIN trail : t <= s
IsNext(t, s) == t \in Before(s) /\ \A u \in Before(s) : u <= t

AuditTypes ==
    /\ clock \in Nat
    /\ DOMAIN trail \subseteq 1 .. clock
    /\ DOMAIN trail # {} => \E s : IsNewest(s)
    /\ \A s \in DOMAIN trail : trail[s].event \in Recordings
    /\ recording \in [Recordings -> RecordingAt]
    /\ verifier \in [pc : {"idle", "counted"}, total : Nat, grew : BOOLEAN]

\* Recordings that follow each other: one is at work at a time, the hash that it read is still the
\* last one, its stamp is younger than every row, and each row has the hash of the row before it.
Chained ==
    /\ \A r, q \in Recordings : IsRecording(r) /\ IsRecording(q) => r = q
    /\ \A r \in Recordings :
         /\ IsRecording(r) => recording[r].previous = LastHash
         /\ recording[r].pc = "append" => \A s \in DOMAIN trail : s < recording[r].stamp
    /\ \A s \in DOMAIN trail : Before(s) # {} =>
         \E t : IsNext(t, s) /\ trail[s].previous = trail[t].event

StampsAreGiven == \A r \in Recordings : recording[r].pc = "append" => recording[r].stamp \in 1 .. clock
CountIsFresh == verifier.pc = "counted" /\ ~verifier.grew => verifier.total = Cardinality(DOMAIN trail)

AuditInv == AuditTypes /\ StampsAreGiven /\ CountIsFresh /\ (~forked => Chained) /\ AlarmsAreExplained

USE AuditAssumption

\* The last hash is that of the newest row.
LEMMA LastIsNewest ==
    ASSUME AuditTypes, NEW s, IsNewest(s) PROVE LastHash = trail[s].event
<1> DEFINE n == CHOOSE t \in DOMAIN trail : \A u \in DOMAIN trail : u <= t
<1>1. n \in DOMAIN trail /\ \A u \in DOMAIN trail : u <= n
  BY DEF IsNewest
<1> HIDE DEF n
<1>2. n = s
  <2>1. n <= s /\ s <= n /\ n \in Int /\ s \in Int
    BY <1>1 DEF IsNewest, AuditTypes
  <2> QED
    BY <2>1
<1>3. DOMAIN trail # {}
  BY DEF IsNewest
<1> QED
  BY <1>2, <1>3 DEF LastHash, n

LEMMA InitAudit == AuditInit => AuditInv
<1> SUFFICES ASSUME AuditInit PROVE AuditInv
  OBVIOUS
<1>1. DOMAIN trail = {}
  BY DEF AuditInit
<1>2. AuditTypes
  <2>1. (CHOOSE s \in Names : TRUE) \in Names
    BY DEF Names
  <2>2. NoRecording \in RecordingAt
    BY <2>1 DEF NoRecording, RecordingAt
  <2> QED
    BY <1>1, <2>2 DEF AuditInit, AuditTypes, Unused
<1>3. StampsAreGiven /\ CountIsFresh
  BY DEF AuditInit, StampsAreGiven, CountIsFresh, NoRecording, Unused
<1>4. Chained
  BY <1>1 DEF AuditInit, Chained, IsRecording, NoRecording
<1>5. AlarmsAreExplained
  BY DEF AuditInit, AlarmsAreExplained
<1> QED
  BY <1>2, <1>3, <1>4, <1>5 DEF AuditInv

\* A step that leaves the rows and the verdict, and the recordings at work as they are.
LEMMA QuietAudit ==
    ASSUME AuditInv, UNCHANGED <<trail, verdict, clock, recording>>,
           verifier' \in [pc : {"idle", "counted"}, total : Nat, grew : BOOLEAN], CountIsFresh',
           forked' = forked, altered \subseteq altered'
    PROVE  AuditInv'
<1>1. AuditTypes' /\ StampsAreGiven'
  BY DEF AuditInv, AuditTypes, StampsAreGiven, IsNewest
<1>2. Chained' <=> Chained
  BY DEF Chained, IsRecording, IsNewest, IsNext, Before, LastHash
<1>3. AlarmsAreExplained'
  BY DEF AuditInv, AlarmsAreExplained
<1> QED
  BY <1>1, <1>2, <1>3 DEF AuditInv

\* A step of recording r that leaves the rows: r keeps its hash, takes the last one, or stops.
LEMMA RecordingStep ==
    ASSUME AuditInv, NEW r \in Recordings, NEW p \in RecordingAt, recording' = [recording EXCEPT ![r] = p],
           UNCHANGED <<trail, verifier, verdict, altered>>,
           clock' \in {clock, clock + 1},
           forked' <=> (forked \/ (~IsRecording(r) /\ p.pc \in {"create", "append"} /\ Crossed(r))),
           p.pc \in {"create", "append"} =>
               IF IsRecording(r) THEN p.previous = recording[r].previous ELSE p.previous = LastHash,
           p.pc = "append" => clock' = clock + 1 /\ p.stamp = clock'
    PROVE  AuditInv'
<1>1. /\ recording \in [Recordings -> RecordingAt] /\ clock \in Nat
      /\ AuditTypes /\ StampsAreGiven /\ CountIsFresh /\ AlarmsAreExplained
  BY DEF AuditInv, AuditTypes
<1>2. recording'[r] = p /\ \A q \in Recordings \ {r} : recording'[q] = recording[q]
  BY <1>1
<1>3. AuditTypes'
  <2>1. 1 .. clock \subseteq 1 .. clock' /\ clock' \in Nat
    BY <1>1
  <2> QED
    BY <1>1, <2>1 DEF AuditTypes, IsNewest
<1>4. StampsAreGiven' /\ CountIsFresh'
  BY <1>1, <1>2 DEF StampsAreGiven, CountIsFresh
<1>5. AlarmsAreExplained'
  BY <1>1 DEF AlarmsAreExplained
<1>6. ASSUME ~forked' PROVE Chained'
  <2>1. Chained /\ LastHash' = LastHash
    <3>1. Chained
      BY <1>6 DEF AuditInv
    <3>2. LastHash' = LastHash
      BY DEF LastHash
    <3> QED
      BY <3>1, <3>2
  <2>8. (\A s \in DOMAIN trail : Before(s) # {} =>
            \E t : IsNext(t, s) /\ trail[s].previous = trail[t].event)'
    BY <2>1 DEF Chained, IsNext, Before
  <2>2. ASSUME p.pc \in {"create", "append"}, NEW q \in Recordings, q # r, IsRecording(q) PROVE FALSE
    <3>1. CASE IsRecording(r)
      BY <2>1, <2>2, <3>1 DEF Chained
    <3>2. CASE ~IsRecording(r)
      BY <1>6, <2>2, <3>2 DEF Crossed, IsRecording
    <3> QED
      BY <3>1, <3>2
  <2>3. \A q \in Recordings \ {r} : IsRecording(q)' <=> IsRecording(q)
    BY <1>2 DEF IsRecording
  <2>4. IsRecording(r)' <=> p.pc \in {"create", "append"}
    BY <1>2 DEF IsRecording
  <2>5. \A a, b \in Recordings : IsRecording(a)' /\ IsRecording(b)' => a = b
    BY <2>1, <2>2, <2>3, <2>4 DEF Chained
  <2>6. ASSUME NEW q \in Recordings, IsRecording(q)' PROVE recording'[q].previous = LastHash
    <3>1. CASE q = r
      BY <1>2, <2>1, <2>4, <2>6, <3>1 DEF Chained
    <3>2. CASE q # r
      BY <1>2, <2>1, <2>3, <2>6, <3>2 DEF Chained
    <3> QED
      BY <3>1, <3>2
  <2>7. ASSUME NEW q \in Recordings, recording'[q].pc = "append", NEW s \in DOMAIN trail
        PROVE  s < recording'[q].stamp
    <3>1. s \in 1 .. clock
      BY <1>1 DEF AuditTypes
    <3>2. CASE q = r
      BY <1>1, <1>2, <2>7, <3>1, <3>2
    <3>3. CASE q # r
      BY <1>2, <2>1, <2>7, <3>3 DEF Chained
    <3> QED
      BY <3>2, <3>3
  <2> QED
    BY <2>1, <2>5, <2>6, <2>7, <2>8 DEF Chained
<1> QED
  BY <1>3, <1>4, <1>5, <1>6 DEF AuditInv

LEMMA LastHashType ==
    ASSUME AuditTypes PROVE LastHash \in Recordings \cup {NoEvent}
<1>1. CASE DOMAIN trail = {}
  BY <1>1 DEF LastHash
<1>2. CASE DOMAIN trail # {}
  <2>1. PICK s : IsNewest(s)
    BY <1>2 DEF AuditTypes
  <2>2. LastHash = trail[s].event
    BY <2>1, LastIsNewest
  <2> QED
    BY <2>1, <2>2 DEF AuditTypes, IsNewest
<1> QED
  BY <1>1, <1>2

LEMMA ReadAndCreate ==
    ASSUME AuditInv, NEW r \in Recordings,
           (\E name \in Names : ReadLast(r, name)) \/ CreateEvent(r) \/ RecordingFails(r)
    PROVE  AuditInv'
<1>1. /\ recording[r] \in RecordingAt /\ clock \in Nat /\ recording \in [Recordings -> RecordingAt]
      /\ AuditTypes
  BY DEF AuditInv, AuditTypes
<1>2. ASSUME NEW name \in Names, ReadLast(r, name) PROVE AuditInv'
  <2>1. PICK p : p = [pc |-> "create", subsystem |-> name, previous |-> LastHash, stamp |-> 0]
    OBVIOUS
  <2>2. p \in RecordingAt
    BY <1>1, <2>1, LastHashType DEF RecordingAt
  <2>3. recording' = [recording EXCEPT ![r] = p] /\ UNCHANGED <<trail, clock, verifier, verdict, altered>>
    BY <1>2, <2>1 DEF ReadLast
  <2>4. ~IsRecording(r) /\ forked' = (forked \/ Crossed(r))
    BY <1>2 DEF ReadLast, IsRecording
  <2>5. p.pc = "create" /\ p.previous = LastHash
    BY <2>1
  <2> QED
    BY <1>1, <2>2, <2>3, <2>4, <2>5, RecordingStep
<1>3. ASSUME CreateEvent(r) \/ RecordingFails(r) PROVE AuditInv'
  <2>1. PICK p : p = recording'[r]
    OBVIOUS
  <2>2. /\ p \in RecordingAt /\ recording' = [recording EXCEPT ![r] = p]
        /\ p.pc \in {"append", "refused", "failed"}
        /\ p.previous = recording[r].previous /\ IsRecording(r)
        /\ p.pc = "append" => clock' = clock + 1 /\ p.stamp = clock'
        /\ clock' \in {clock, clock + 1}
        /\ UNCHANGED <<trail, verifier, verdict, altered, forked>>
    <3>1. CASE CreateEvent(r) /\ Valid(recording[r].subsystem)
      BY <1>1, <2>1, <3>1 DEF CreateEvent, RecordingAt, IsRecording
    <3>2. CASE CreateEvent(r) /\ ~Valid(recording[r].subsystem)
      BY <1>1, <2>1, <3>2 DEF CreateEvent, RecordingAt, IsRecording
    <3>3. CASE RecordingFails(r)
      BY <1>1, <2>1, <3>3 DEF RecordingFails, RecordingAt, IsRecording
    <3> QED
      BY <1>3, <3>1, <3>2, <3>3
  <2>3. forked' <=> (forked \/ (~IsRecording(r) /\ p.pc \in {"create", "append"} /\ Crossed(r)))
    BY <2>2
  <2> QED
    BY <2>2, <2>3, RecordingStep
<1> QED
  BY <1>2, <1>3

\* A row is committed: it is the newest, and the hash in it is the one of the row before it.
LEMMA AppendAudit ==
    ASSUME AuditInv, NEW r \in Recordings, AppendEvent(r) PROVE AuditInv'
<1>1. PICK n : n = recording[r].stamp
  OBVIOUS
<1>2. PICK row : row = [event |-> r, previous |-> recording[r].previous,
                        subsystem |-> recording[r].subsystem]
  OBVIOUS
<1>3. /\ AuditTypes /\ StampsAreGiven /\ CountIsFresh /\ AlarmsAreExplained
      /\ recording \in [Recordings -> RecordingAt] /\ clock \in Nat
      /\ recording[r].pc = "append" /\ n \in 1 .. clock /\ n \in Nat
  BY <1>1 DEF AuditInv, AuditTypes, AppendEvent, StampsAreGiven
<1>4. /\ DOMAIN trail' = DOMAIN trail \cup {n} /\ trail'[n] = row
      /\ \A s \in DOMAIN trail \ {n} : trail'[s] = trail[s]
  BY <1>1, <1>2 DEF AppendEvent
<1>5. /\ recording' = [recording EXCEPT ![r].pc = "recorded"]
      /\ UNCHANGED <<clock, verdict, forked, altered>>
      /\ verifier' = [verifier EXCEPT !.grew = (verifier.pc = "counted")]
  BY DEF AppendEvent
<1>6. /\ recording'[r].pc = "recorded" /\ \A q \in Recordings \ {r} : recording'[q] = recording[q]
      /\ recording' \in [Recordings -> RecordingAt]
  BY <1>3, <1>5 DEF RecordingAt
<1>7. DOMAIN trail \subseteq 1 .. clock /\ DOMAIN trail \subseteq Nat
  BY <1>3 DEF AuditTypes
<1>8. AuditTypes'
  <2>1. \E s : IsNewest(s)'
    <3>1. CASE \A t \in DOMAIN trail : t <= n
      BY <1>3, <1>4, <3>1 DEF IsNewest
    <3>2. CASE ~ \A t \in DOMAIN trail : t <= n
      <4>1. PICK t \in DOMAIN trail : ~(t <= n)
        BY <3>2
      <4>2. PICK s : IsNewest(s)
        BY <1>3, <4>1 DEF AuditTypes
      <4>3. n <= s /\ s \in DOMAIN trail'
        BY <1>3, <1>4, <1>7, <4>1, <4>2 DEF IsNewest
      <4>4. IsNewest(s)'
        BY <1>4, <4>2, <4>3 DEF IsNewest
      <4> QED
        BY <4>4
    <3> QED
      BY <3>1, <3>2
  <2>2. (\A s \in DOMAIN trail : trail[s].event \in Recordings)'
    BY <1>2, <1>3, <1>4 DEF AuditTypes
  <2>3. verifier' \in [pc : {"idle", "counted"}, total : Nat, grew : BOOLEAN]
    BY <1>3, <1>5 DEF AuditTypes
  <2> QED
    BY <1>3, <1>4, <1>5, <1>6, <1>7, <2>1, <2>2, <2>3 DEF AuditTypes
<1>9. StampsAreGiven'
  BY <1>3, <1>5, <1>6 DEF StampsAreGiven
<1>10. CountIsFresh'
  <2>1. verifier \in [pc : {"idle", "counted"}, total : Nat, grew : BOOLEAN]
    BY <1>3 DEF AuditTypes
  <2> QED
    BY <1>5, <2>1 DEF CountIsFresh
<1>11. AlarmsAreExplained'
  BY <1>3, <1>5 DEF AlarmsAreExplained
<1>12. ASSUME ~forked' PROVE Chained'
  <2>1. Chained /\ IsRecording(r) /\ recording[r].previous = LastHash
    BY <1>3, <1>5, <1>12 DEF AuditInv, Chained, IsRecording
  <2>2. \A s \in DOMAIN trail : s < n
    BY <1>1, <1>3, <2>1 DEF Chained
  <2>3. \A q \in Recordings : ~IsRecording(q)'
    BY <1>6, <2>1 DEF Chained, IsRecording
  <2>4. \A q \in Recordings : recording'[q].pc # "append"
    BY <2>3 DEF IsRecording
  <2>5. n \notin DOMAIN trail /\ Before(n)' = DOMAIN trail
    BY <1>3, <1>4, <1>7, <2>2 DEF Before
  <2>6. ASSUME NEW s \in DOMAIN trail PROVE Before(s)' = Before(s)
    <3>1. ~(n < s)
      BY <1>3, <1>7, <2>2
    <3> QED
      BY <1>4, <3>1 DEF Before
  <2>7. ASSUME NEW s \in DOMAIN trail, Before(s)' # {}
        PROVE  \E t : IsNext(t, s)' /\ trail'[s].previous = trail'[t].event
    <3>1. PICK t : IsNext(t, s) /\ trail[s].previous = trail[t].event
      BY <2>1, <2>6, <2>7 DEF Chained
    <3>2. IsNext(t, s)'
      BY <2>6, <3>1 DEF IsNext
    <3>3. t \in DOMAIN trail /\ t # n /\ s # n
      BY <2>5, <3>1 DEF IsNext, Before
    <3> QED
      BY <1>4, <3>1, <3>2, <3>3
  <2>8. ASSUME Before(n)' # {}
        PROVE  \E t : IsNext(t, n)' /\ trail'[n].previous = trail'[t].event
    <3>1. PICK t : IsNewest(t)
      BY <1>3, <2>5, <2>8 DEF AuditTypes
    <3>2. LastHash = trail[t].event
      BY <1>3, <3>1, LastIsNewest
    <3>3. IsNext(t, n)' /\ t # n /\ t \in DOMAIN trail
      BY <2>5, <3>1 DEF IsNewest, IsNext
    <3> QED
      BY <1>2, <1>4, <2>1, <3>2, <3>3
  <2>9. (\A s \in DOMAIN trail : Before(s) # {} =>
            \E t : IsNext(t, s) /\ trail[s].previous = trail[t].event)'
    BY <1>4, <2>7, <2>8
  <2> QED
    BY <2>3, <2>4, <2>9 DEF Chained
<1> QED
  BY <1>8, <1>9, <1>10, <1>11, <1>12 DEF AuditInv

\* Unaltered, every row is intact, and the rows of a chained trail are linked.
LEMMA ChainVerifies ==
    ASSUME AuditTypes, Chained, altered = {}, NEW events \in SUBSET DOMAIN trail
    PROVE  VerifyChain(events)
<1>1. Linked(events)
  BY DEF Chained, Linked, IsNext
<1> QED
  BY <1>1 DEF VerifyChain, Intact

\* Up to the limit, a verification reads every row.
LEMMA AllAreRead ==
    ASSUME AuditTypes, Cardinality(DOMAIN trail) <= VerifyLimit
    PROVE  Ordered(VerifyLimit) = DOMAIN trail
<1>1. DOMAIN trail \subseteq 1 .. clock /\ clock \in Nat /\ VerifyLimit \in Nat
  BY DEF AuditTypes
<1>2. IsFiniteSet(1 .. clock)
  BY <1>1, FS_Interval
<1>3. IsFiniteSet(DOMAIN trail)
  BY <1>1, <1>2, FS_Subset
<1>4. Cardinality(DOMAIN trail) \in Nat
  BY <1>3, FS_CardinalityType
<1>5. ASSUME NEW s \in DOMAIN trail PROVE Cardinality(Before(s)) < VerifyLimit
  <2>1. Before(s) \subseteq DOMAIN trail /\ s \notin Before(s)
    BY <1>1 DEF Before
  <2>2. Cardinality(Before(s)) \in Nat
    BY <1>3, <2>1, FS_Subset, FS_CardinalityType
  <2>3. Cardinality(Before(s)) < Cardinality(DOMAIN trail)
    <3>1. Cardinality(Before(s)) <= Cardinality(DOMAIN trail)
      BY <1>3, <2>1, FS_Subset
    <3>2. Cardinality(Before(s)) # Cardinality(DOMAIN trail)
      BY <1>3, <2>1, FS_Subset
    <3> QED
      BY <1>4, <2>2, <3>1, <3>2
  <2> QED
    BY <1>1, <1>4, <2>2, <2>3
<1> QED
  BY <1>5 DEF Ordered

LEMMA VerifyAudit ==
    ASSUME AuditInv, VerifyIntegrity PROVE AuditInv'
<1>1. /\ AuditTypes /\ CountIsFresh /\ UNCHANGED <<trail, clock, recording, forked, altered>>
      /\ verifier \in [pc : {"idle", "counted"}, total : Nat, grew : BOOLEAN]
      /\ verifier.pc = "counted" /\ verifier' = Unused
  BY DEF AuditInv, AuditTypes, VerifyIntegrity
<1>2. AuditTypes' /\ StampsAreGiven' /\ CountIsFresh'
  BY <1>1 DEF AuditInv, AuditTypes, StampsAreGiven, CountIsFresh, Unused, IsNewest
<1>3. Chained' <=> Chained
  BY <1>1 DEF Chained, IsRecording, IsNewest, IsNext, Before, LastHash
<1>4. AlarmsAreExplained'
  <2>1. CASE verifier.total = 0
    BY <1>1, <2>1 DEF VerifyIntegrity, AlarmsAreExplained
  <2>2. CASE verifier.total # 0
    <3>1. PICK events : events = Ordered(VerifyLimit)
      OBVIOUS
    <3>2. events \subseteq DOMAIN trail
      BY <3>1 DEF Ordered
    <3>3. /\ verdict'.verified = VerifyChain(events)
          /\ verdict'.total = verifier.total /\ verdict'.grew = verifier.grew
          /\ verdict'.intact = Cardinality({s \in events : Intact(s)})
      BY <1>1, <2>2, <3>1 DEF VerifyIntegrity
    <3>4. ASSUME altered = {}, ~forked PROVE verdict'.verified
      BY <1>1, <3>2, <3>3, <3>4, ChainVerifies DEF AuditInv
    <3>5. ASSUME altered = {}, ~verifier.grew, ~(verifier.total > VerifyLimit)
          PROVE  verdict'.intact = verdict'.total
      <4>1. verifier.total = Cardinality(DOMAIN trail)
        BY <1>1, <3>5 DEF CountIsFresh
      <4>2. Cardinality(DOMAIN trail) <= VerifyLimit
        BY <1>1, <3>5, <4>1
      <4>3. events = DOMAIN trail
        BY <1>1, <3>1, <4>2, AllAreRead
      <4>4. {s \in events : Intact(s)} = events
        BY <3>5 DEF Intact
      <4> QED
        BY <3>3, <4>1, <4>3, <4>4
    <3> QED
      BY <1>1, <3>3, <3>4, <3>5 DEF AlarmsAreExplained
  <2> QED
    BY <2>1, <2>2
<1> QED
  BY <1>1, <1>2, <1>3, <1>4 DEF AuditInv

LEMMA NextAudit == AuditInv /\ [AuditNext]_auditVars => AuditInv'
<1> SUFFICES ASSUME AuditInv, [AuditNext]_auditVars PROVE AuditInv'
  OBVIOUS
<1>1. /\ verifier \in [pc : {"idle", "counted"}, total : Nat, grew : BOOLEAN] /\ CountIsFresh
      /\ AuditTypes
  BY DEF AuditInv, AuditTypes
<1>2. ASSUME NEW r \in Recordings,
             (\E name \in Names : ReadLast(r, name)) \/ CreateEvent(r) \/ RecordingFails(r)
      PROVE  AuditInv'
  BY <1>2, ReadAndCreate
<1>3. ASSUME NEW r \in Recordings, AppendEvent(r) PROVE AuditInv'
  BY <1>3, AppendAudit
<1>4. ASSUME CountEvents PROVE AuditInv'
  <2>1. UNCHANGED <<trail, verdict, clock, recording>> /\ forked' = forked /\ altered' = altered
    BY <1>4 DEF CountEvents
  <2>2. /\ verifier' = [pc |-> "counted", total |-> Cardinality(DOMAIN trail), grew |-> FALSE]
        /\ Cardinality(DOMAIN trail) \in Nat
    <3>1. IsFiniteSet(DOMAIN trail)
      <4>1. DOMAIN trail \subseteq 1 .. clock /\ clock \in Nat
        BY <1>1 DEF AuditTypes
      <4>2. IsFiniteSet(1 .. clock)
        BY <4>1, FS_Interval
      <4> QED
        BY <4>1, <4>2, FS_Subset
    <3> QED
      BY <1>4, <3>1, FS_CardinalityType DEF CountEvents
  <2>3. CountIsFresh'
    BY <2>1, <2>2 DEF CountIsFresh
  <2> QED
    BY <2>1, <2>2, <2>3, QuietAudit
<1>5. ASSUME VerifyIntegrity PROVE AuditInv'
  BY <1>5, VerifyAudit
<1>6. ASSUME UNCHANGED <<trail, clock, recording, verifier, verdict, forked>>, altered \subseteq altered'
      PROVE  AuditInv'
  <2>1. CountIsFresh'
    BY <1>1, <1>6 DEF CountIsFresh
  <2> QED
    BY <1>1, <1>6, <2>1, QuietAudit
<1>7. ASSUME NEW a \in {0} \cup Stamps, NEW b \in {0} \cup Stamps, NEW name \in Names, Export(a, b, name)
      PROVE  AuditInv'
  BY <1>6, <1>7 DEF Export
<1>8. ASSUME NEW s \in DOMAIN trail, Alter(s) PROVE AuditInv'
  BY <1>6, <1>8 DEF Alter
<1>9. CASE UNCHANGED auditVars
  BY <1>6, <1>9 DEF auditVars
<1> QED
  BY <1>2, <1>3, <1>4, <1>5, <1>7, <1>8, <1>9 DEF AuditNext

\* No false alarm: the verification of the trail finds fault with it only if somebody altered a row
\* or two recordings crossed between reading the last hash and committing their own row.
THEOREM AlarmsExplained == AuditSpec => []AlarmsAreExplained
<1>1. AuditInv => AlarmsAreExplained
  BY DEF AuditInv
<1> QED
  BY <1>1, InitAudit, NextAudit, PTL DEF AuditSpec

Stamped == {r \in Recordings : recording[r].stamp # 0}

\* The clock counts the stamps, each of a recording of its own; a row is of a subsystem there is.
StampsAreCounted ==
    /\ clock = Cardinality(Stamped)
    /\ \A r \in Recordings : /\ recording[r].stamp <= clock
                             /\ recording[r].pc \in {"idle", "create"} => recording[r].stamp = 0
                             /\ recording[r].pc = "append" => recording[r].subsystem \in Subsystems
RowsAreTyped ==
    \A s \in DOMAIN trail : /\ trail[s].previous \in Recordings \cup {NoEvent}
                            /\ trail[s].subsystem \in Subsystems
AuditShape ==
    /\ StampsAreCounted /\ RowsAreTyped /\ exported \subseteq Recordings
    /\ verifier.total \in 0 .. Cardinality(Recordings)

LEMMA StampedIsSmall ==
    IsFiniteSet(Stamped) /\ Cardinality(Stamped) <= Cardinality(Recordings)
        /\ Cardinality(Stamped) \in Nat /\ Cardinality(Recordings) \in Nat
<1>1. Stamped \subseteq Recordings
  BY DEF Stamped
<1> QED
  BY <1>1, FS_Subset, FS_CardinalityType

\* A step of recording r that gives no stamp.
LEMMA UnstampedKeeps ==
    ASSUME AuditTypes, StampsAreCounted, NEW r \in Recordings, NEW p \in RecordingAt,
           recording' = [recording EXCEPT ![r] = p], clock' = clock, p.stamp = recording[r].stamp,
           p.pc \in {"idle", "create"} => recording[r].pc = "idle",
           p.pc # "append"
    PROVE  StampsAreCounted'
<1>1. recording \in [Recordings -> RecordingAt]
  BY DEF AuditTypes
<1>2. recording'[r] = p /\ \A q \in Recordings \ {r} : recording'[q] = recording[q]
  BY <1>1
<1>3. Stamped' = Stamped
  BY <1>2 DEF Stamped
<1> QED
  BY <1>2, <1>3 DEF StampsAreCounted

LEMMA CreateCounts ==
    ASSUME AuditTypes, StampsAreCounted, NEW r \in Recordings, CreateEvent(r)
    PROVE  StampsAreCounted'
<1>1. recording \in [Recordings -> RecordingAt] /\ recording[r].pc = "create" /\ clock \in Nat
  BY DEF AuditTypes, CreateEvent
<1>2. CASE ~Valid(recording[r].subsystem)
  <2>1. PICK p : p = [recording[r] EXCEPT !.pc = "refused"]
    OBVIOUS
  <2>2. p \in RecordingAt /\ p.stamp = recording[r].stamp /\ p.pc = "refused"
    BY <1>1, <2>1 DEF RecordingAt
  <2>3. recording' = [recording EXCEPT ![r] = p] /\ clock' = clock
    BY <1>2, <2>1 DEF CreateEvent
  <2> QED
    BY <2>2, <2>3, UnstampedKeeps
<1>3. CASE Valid(recording[r].subsystem)
  <2>1. clock' = clock + 1 /\ recording' = [recording EXCEPT ![r].pc = "append", ![r].stamp = clock + 1]
    BY <1>3 DEF CreateEvent
  <2>2. /\ recording'[r].pc = "append" /\ recording'[r].stamp = clock + 1
        /\ recording'[r].subsystem \in Subsystems
        /\ \A q \in Recordings \ {r} : recording'[q] = recording[q]
    BY <1>1, <1>3, <2>1 DEF RecordingAt, Valid
  <2>3. r \notin Stamped /\ Stamped' = Stamped \cup {r}
    BY <1>1, <2>2 DEF Stamped, StampsAreCounted
  <2>4. Cardinality(Stamped \cup {r}) = Cardinality(Stamped) + 1
    BY <2>3, StampedIsSmall, FS_AddElement
  <2>5. clock' = Cardinality(Stamped')
    BY <2>1, <2>3, <2>4 DEF StampsAreCounted
  <2>6. \A q \in Recordings : recording[q].stamp \in Nat
    BY <1>1 DEF RecordingAt
  <2>7. ASSUME NEW q \in Recordings
        PROVE  /\ recording'[q].stamp <= clock'
               /\ recording'[q].pc \in {"idle", "create"} => recording'[q].stamp = 0
               /\ recording'[q].pc = "append" => recording'[q].subsystem \in Subsystems
    <3>1. CASE q = r
      BY <1>1, <2>1, <2>2, <3>1
    <3>2. CASE q # r
      <4>1. recording'[q] = recording[q] /\ recording[q].stamp <= clock /\ recording[q].stamp \in Nat
        BY <2>2, <2>6, <3>2 DEF StampsAreCounted
      <4>2. recording'[q].stamp <= clock'
        BY <1>1, <2>1, <4>1
      <4> QED
        BY <4>1, <4>2 DEF StampsAreCounted
    <3> QED
      BY <3>1, <3>2
  <2> QED
    BY <2>5, <2>7 DEF StampsAreCounted
<1> QED
  BY <1>2, <1>3

\* Rows stand at stamps, so there are no more of them than recordings.
LEMMA RowsAreFew ==
    ASSUME AuditTypes, StampsAreCounted
    PROVE  IsFiniteSet(DOMAIN trail) /\ Cardinality(DOMAIN trail) \in 0 .. Cardinality(Recordings)
<1>1. DOMAIN trail \subseteq 1 .. clock /\ clock \in Nat
  BY DEF AuditTypes
<1>2. IsFiniteSet(1 .. clock) /\ Cardinality(1 .. clock) = clock
  BY <1>1, FS_Interval
<1>3. IsFiniteSet(DOMAIN trail) /\ Cardinality(DOMAIN trail) <= clock
  BY <1>1, <1>2, FS_Subset
<1>4. Cardinality(DOMAIN trail) \in Nat
  BY <1>3, FS_CardinalityType
<1>5. clock <= Cardinality(Recordings) /\ Cardinality(Recordings) \in Nat
  BY StampedIsSmall DEF StampsAreCounted
<1> QED
  BY <1>1, <1>3, <1>4, <1>5

LEMMA InitAuditShape == AuditInit => AuditShape
<1> SUFFICES ASSUME AuditInit PROVE AuditShape
  OBVIOUS
<1>1. /\ clock = 0 /\ DOMAIN trail = {} /\ exported = {} /\ verifier.total = 0
      /\ \A r \in Recordings : recording[r].stamp = 0 /\ recording[r].pc = "idle"
  BY DEF AuditInit, NoRecording, Unused
<1>2. Stamped = {}
  BY <1>1 DEF Stamped
<1>3. Cardinality(Stamped) = 0
  BY <1>2, FS_EmptySet
<1>4. StampsAreCounted
  BY <1>1, <1>3 DEF StampsAreCounted
<1> QED
  BY <1>1, <1>4, StampedIsSmall DEF AuditShape, RowsAreTyped

LEMMA NextAuditShape == AuditInv /\ AuditShape /\ [AuditNext]_auditVars => AuditShape'
<1> SUFFICES ASSUME AuditInv, AuditShape, [AuditNext]_auditVars PROVE AuditShape'
  OBVIOUS
<1>1. /\ AuditTypes /\ StampsAreCounted /\ RowsAreTyped /\ exported \subseteq Recordings
      /\ verifier.total \in 0 .. Cardinality(Recordings)
      /\ recording \in [Recordings -> RecordingAt]
      /\ verifier \in [pc : {"idle", "counted"}, total : Nat, grew : BOOLEAN]
  BY DEF AuditInv, AuditShape, AuditTypes
<1>2. ASSUME UNCHANGED <<trail, clock, recording>>, exported' \subseteq Recordings,
             verifier'.total \in 0 .. Cardinality(Recordings)
      PROVE  AuditShape'
  <2>1. Stamped' = Stamped
    BY <1>2 DEF Stamped
  <2> QED
    BY <1>1, <1>2, <2>1 DEF AuditShape, StampsAreCounted, RowsAreTyped
<1>3. ASSUME NEW r \in Recordings, NEW name \in Names, ReadLast(r, name) PROVE AuditShape'
  <2>1. PICK p : p = [pc |-> "create", subsystem |-> name, previous |-> LastHash, stamp |-> 0]
    OBVIOUS
  <2>2. p \in RecordingAt /\ p.stamp = 0 /\ p.pc = "create"
    BY <1>1, <2>1, LastHashType DEF RecordingAt
  <2>3. recording[r].pc = "idle" /\ recording[r].stamp = 0
    BY <1>1, <1>3 DEF ReadLast, StampsAreCounted
  <2>4. recording' = [recording EXCEPT ![r] = p] /\ UNCHANGED <<trail, clock, verifier, exported>>
    BY <1>3, <2>1 DEF ReadLast
  <2>5. StampsAreCounted'
    BY <1>1, <2>2, <2>3, <2>4, UnstampedKeeps
  <2> QED
    BY <1>1, <2>4, <2>5 DEF AuditShape, RowsAreTyped
<1>4. ASSUME NEW r \in Recordings, CreateEvent(r) PROVE AuditShape'
  <2>1. StampsAreCounted' /\ UNCHANGED <<trail, verifier, exported>>
    BY <1>1, <1>4, CreateCounts DEF CreateEvent
  <2> QED
    BY <1>1, <2>1 DEF AuditShape, RowsAreTyped
<1>5. ASSUME NEW r \in Recordings, RecordingFails(r) PROVE AuditShape'
  <2>1. PICK p : p = [recording[r] EXCEPT !.pc = "failed"]
    OBVIOUS
  <2>2. p \in RecordingAt /\ p.stamp = recording[r].stamp /\ p.pc = "failed"
    BY <1>1, <2>1 DEF RecordingAt
  <2>3. recording' = [recording EXCEPT ![r] = p] /\ UNCHANGED <<trail, clock, verifier, exported>>
    BY <1>5, <2>1 DEF RecordingFails
  <2>4. StampsAreCounted'
    BY <1>1, <2>2, <2>3, UnstampedKeeps
  <2> QED
    BY <1>1, <2>3, <2>4 DEF AuditShape, RowsAreTyped
<1>6. ASSUME NEW r \in Recordings, AppendEvent(r) PROVE AuditShape'
  <2>1. PICK p : p = [recording[r] EXCEPT !.pc = "recorded"]
    OBVIOUS
  <2>2. p \in RecordingAt /\ p.stamp = recording[r].stamp /\ p.pc = "recorded"
    BY <1>1, <2>1 DEF RecordingAt
  <2>3. recording' = [recording EXCEPT ![r] = p] /\ UNCHANGED <<clock, exported>>
    BY <1>6, <2>1 DEF AppendEvent
  <2>4. StampsAreCounted'
    BY <1>1, <2>2, <2>3, UnstampedKeeps
  <2>5. verifier'.total = verifier.total
    BY <1>1, <1>6 DEF AppendEvent
  <2>6. PICK n : n = recording[r].stamp
    OBVIOUS
  <2>7. PICK row : row = [event |-> r, previous |-> recording[r].previous,
                          subsystem |-> recording[r].subsystem]
    OBVIOUS
  <2>8. trail' = [s \in DOMAIN trail \cup {n} |-> IF s = n THEN row ELSE trail[s]]
    BY <1>6, <2>6, <2>7 DEF AppendEvent
  <2>9. row.previous \in Recordings \cup {NoEvent} /\ row.subsystem \in Subsystems
    BY <1>1, <1>6, <2>7 DEF AppendEvent, RecordingAt, StampsAreCounted
  <2>10. RowsAreTyped'
    BY <1>1, <2>8, <2>9 DEF RowsAreTyped
  <2> QED
    BY <1>1, <2>3, <2>4, <2>5, <2>10 DEF AuditShape
<1>7. CASE CountEvents
  <2>1. verifier'.total = Cardinality(DOMAIN trail) /\ UNCHANGED <<trail, clock, recording, exported>>
    BY <1>7 DEF CountEvents
  <2> QED
    BY <1>1, <1>2, <2>1, RowsAreFew
<1>8. CASE VerifyIntegrity
  <2>1. verifier'.total = 0 /\ UNCHANGED <<trail, clock, recording, exported>>
    BY <1>8 DEF VerifyIntegrity, Unused
  <2> QED
    BY <1>1, <1>2, <2>1, StampedIsSmall
<1>9. ASSUME NEW start \in {0} \cup Stamps, NEW end \in {0} \cup Stamps, NEW name \in Names,
             Export(start, end, name)
      PROVE  AuditShape'
  <2>1. Selected(start, end) \subseteq DOMAIN trail
    BY DEF Selected
  <2>2. \A s \in DOMAIN trail : trail[s].event \in Recordings
    BY <1>1 DEF AuditTypes
  <2>3. exported' \subseteq Recordings /\ UNCHANGED <<trail, clock, recording, verifier>>
    BY <1>9, <2>1, <2>2 DEF Export
  <2> QED
    BY <1>1, <1>2, <2>3
<1>10. CASE (\E s \in DOMAIN trail : Alter(s)) \/ UNCHANGED auditVars
  <2>1. UNCHANGED <<trail, clock, recording, verifier, exported>>
    BY <1>10 DEF Alter, auditVars
  <2> QED
    BY <1>1, <1>2, <2>1
<1> QED
  BY <1>3, <1>4, <1>5, <1>6, <1>7, <1>8, <1>9, <1>10 DEF AuditNext

LEMMA InvariantAudit == AuditSpec => [](AuditInv /\ AuditShape)
<1>1. AuditInit => AuditInv /\ AuditShape
  BY InitAudit, InitAuditShape
<1>2. AuditInv /\ AuditShape /\ [AuditNext]_auditVars => (AuditInv /\ AuditShape)'
  BY NextAudit, NextAuditShape
<1> QED
  BY <1>1, <1>2, PTL DEF AuditSpec

\* The audit trail keeps its types: a row stands at the stamp of a recording and is of a known
\* subsystem, what it follows is a recording, and the clock has not given more stamps than there
\* were calls.
THEOREM AuditTypeCorrect == AuditSpec => []AuditTypeOK
<1>1. AuditInv /\ AuditShape => AuditTypeOK
  <2> SUFFICES ASSUME AuditInv, AuditShape PROVE AuditTypeOK
    OBVIOUS
  <2>1. /\ AuditTypes /\ StampsAreCounted /\ RowsAreTyped /\ exported \subseteq Recordings
        /\ verifier.total \in 0 .. Cardinality(Recordings)
    BY DEF AuditInv, AuditShape
  <2>2. clock \in Nat /\ DOMAIN trail \subseteq 1 .. clock /\ recording \in [Recordings -> RecordingAt]
    BY <2>1 DEF AuditTypes
  <2>3. clock <= Cardinality(Recordings) /\ Cardinality(Recordings) \in Nat
    BY <2>1, StampedIsSmall DEF StampsAreCounted
  <2>4. clock \in 0 .. Cardinality(Recordings) /\ DOMAIN trail \subseteq Stamps
    BY <2>2, <2>3 DEF Stamps
  <2>5. ASSUME NEW r \in Recordings
        PROVE  recording[r].previous \in Recordings \cup {NoEvent} /\ recording[r].stamp \in {0} \cup Stamps
    <3>1. recording[r] \in RecordingAt
      BY <2>2
    <3>2. recording[r].stamp \in Nat /\ recording[r].stamp <= clock
      BY <2>1, <3>1 DEF RecordingAt, StampsAreCounted
    <3>3. recording[r].stamp \in {0} \cup Stamps
      BY <2>2, <2>3, <3>2 DEF Stamps
    <3> QED
      BY <3>1, <3>3 DEF RecordingAt
  <2>6. \A s \in DOMAIN trail : trail[s].event \in Recordings
    BY <2>1 DEF AuditTypes
  <2> QED
    BY <2>1, <2>4, <2>5, <2>6 DEF RowsAreTyped, AuditTypeOK
<1> QED
  BY <1>1, InvariantAudit, PTL

HIDE AuditAssumption

-----------------------------------------------------------------------------
(* Notifications.                                                          *)

CallAt == [pc : {"idle", "mark", "save", "stamp", "drain", "refused", "done"},
           note : Notes \cup {NoNote}, result : DeliveryResultStatus, level : 0 .. 5]

NoteTypes ==
    /\ DOMAIN note = Notes
    /\ \A n \in Notes : note[n] \in [status : NotificationStatus \cup {"absent"},
                                     destination : Destinations, priority : Levels]
    /\ results \in [Notes -> Seq(DeliveryResultStatus)]
    /\ queues \in [Levels -> Seq(Notes)]
    /\ call \in [Calls -> CallAt]

\* n was put into a queue, and where it went from there is known.
Enqueued(n) == n \in Waiting \cup taken \cup lost

\* What the second write of a call will say of a row is already so.
Earned(c) ==
    /\ call[c].pc \in {"mark", "save", "stamp"} => call[c].note \in Notes
    /\ call[c].pc = "mark" => Enqueued(call[c].note)
    /\ call[c].pc = "stamp" => results[call[c].note] # <<>>
EarnedBefore == \A c \in Calls : Earned(c)

DrainsInOrder == \A c \in Calls : call[c].pc = "drain" => call[c].level \in 1 .. 5

NoteInv == NoteTypes /\ EarnedBefore /\ DrainsInOrder /\ StatusIsEarned

LEMMA InitNotes == NotificationsInit => NoteInv
<1> SUFFICES ASSUME NotificationsInit PROVE NoteInv
  OBVIOUS
<1> USE NotificationsAssumption DEF NotificationsInit
<1>1. NoteTypes
  <2>1. NoRow \in [status : NotificationStatus \cup {"absent"}, destination : Destinations,
                   priority : Levels]
    BY DEF NoRow
  <2>2. NoCall \in CallAt
    BY DEF NoCall, CallAt, DeliveryResultStatus
  <2>3. results \in [Notes -> Seq(DeliveryResultStatus)] /\ queues \in [Levels -> Seq(Notes)]
    OBVIOUS
  <2> QED
    BY <2>1, <2>2, <2>3 DEF NoteTypes
<1>2. EarnedBefore /\ DrainsInOrder
  BY DEF EarnedBefore, Earned, DrainsInOrder, NoCall
<1>3. StatusIsEarned
  BY DEF StatusIsEarned, NoRow
<1> QED
  BY <1>1, <1>2, <1>3 DEF NoteInv

\* A step of one call that changes neither a row nor a result nor takes an item from a queue.
LEMMA CallSteps ==
    ASSUME NoteInv, NEW c \in Calls, NEW new \in CallAt, call' = [call EXCEPT ![c] = new],
           UNCHANGED <<note, results, taken, lost>>,
           queues' \in [Levels -> Seq(Notes)], Waiting \subseteq Waiting',
           new.pc \in {"mark", "save", "stamp"} => new.note \in Notes,
           new.pc = "mark" => new.note \in Waiting',
           new.pc = "stamp" => results[new.note] # <<>>,
           new.pc = "drain" => new.level \in 1 .. 5
    PROVE  NoteInv'
<1>1. NoteTypes'
  BY DEF NoteInv, NoteTypes
<1>2. call'[c] = new /\ \A d \in Calls \ {c} : call'[d] = call[d]
  BY DEF NoteInv, NoteTypes
<1>3. \A n : Enqueued(n) => Enqueued(n)'
  BY DEF Enqueued
<1>4. EarnedBefore'
  <2> SUFFICES ASSUME NEW d \in Calls PROVE Earned(d)'
    BY DEF EarnedBefore
  <2>1. CASE d = c
    BY <1>2, <2>1 DEF Earned, Enqueued
  <2>2. CASE d # c
    BY <1>2, <1>3, <2>2 DEF NoteInv, EarnedBefore, Earned
  <2> QED
    BY <2>1, <2>2
<1>5. DrainsInOrder'
  BY <1>2 DEF NoteInv, DrainsInOrder
<1>6. StatusIsEarned'
  BY DEF NoteInv, StatusIsEarned
<1> QED
  BY <1>1, <1>4, <1>5, <1>6 DEF NoteInv

LEMMA NoCallAt == NoCall \in CallAt
  BY NotificationsAssumption DEF NoCall, CallAt, DeliveryResultStatus

LEMMA AnsweredAt ==
    ASSUME NEW p \in {"refused", "done"} PROVE [NoCall EXCEPT !.pc = p] \in CallAt
  BY DEF NoCall, CallAt, DeliveryResultStatus

\* Adding an item leaves those that wait.
LEMMA AppendWaits ==
    ASSUME NoteTypes, NEW p \in Levels, NEW n \in Notes,
           queues' = [queues EXCEPT ![p] = Append(@, n)]
    PROVE  queues' \in [Levels -> Seq(Notes)] /\ Waiting \subseteq Waiting' /\ n \in Waiting'
<1>1. queues \in [Levels -> Seq(Notes)] /\ queues[p] \in Seq(Notes) /\ Len(queues[p]) \in Nat
  BY DEF NoteTypes
<1>2. queues'[p] = Append(queues[p], n) /\ \A l \in Levels \ {p} : queues'[l] = queues[l]
  BY <1>1
<1>3. queues' \in [Levels -> Seq(Notes)]
  BY <1>1
<1>4. n \in Waiting'
  <2>1. Len(queues[p]) + 1 \in DOMAIN queues'[p] /\ queues'[p][Len(queues[p]) + 1] = n
    BY <1>1, <1>2
  <2> QED
    BY <2>1 DEF Waiting
<1>5. ASSUME NEW m \in Waiting PROVE m \in Waiting'
  <2>1. PICK l \in Levels : \E i \in DOMAIN queues[l] : queues[l][i] = m
    BY DEF Waiting
  <2>2. PICK i \in DOMAIN queues[l] : queues[l][i] = m
    BY <2>1
  <2>3. i \in DOMAIN queues'[l] /\ queues'[l][i] = m
    <3>1. CASE l = p
      BY <1>1, <1>2, <2>2, <3>1
    <3>2. CASE l # p
      BY <1>2, <2>2, <3>2
    <3> QED
      BY <3>1, <3>2
  <2> QED
    BY <2>3 DEF Waiting
<1> QED
  BY <1>3, <1>4, <1>5

\* Taking one leaves the others.
LEMMA TailWaits ==
    ASSUME NoteTypes, NEW p \in Levels, queues[p] # <<>>, queues' = [queues EXCEPT ![p] = Tail(@)]
    PROVE  queues' \in [Levels -> Seq(Notes)] /\ Waiting \subseteq Waiting' \cup {Head(queues[p])}
<1>1. PICK q \in Seq(Notes) : q = queues[p]
  BY DEF NoteTypes
<1>2. queues \in [Levels -> Seq(Notes)] /\ Len(q) \in Nat /\ Len(q) > 0 /\ Tail(q) \in Seq(Notes)
  BY <1>1 DEF NoteTypes
<1>3. queues'[p] = Tail(q) /\ \A l \in Levels \ {p} : queues'[l] = queues[l]
  BY <1>1, <1>2
<1>4. ASSUME NEW m \in Waiting, m # Head(q) PROVE m \in Waiting'
  <2>1. PICK l \in Levels : \E i \in DOMAIN queues[l] : queues[l][i] = m
    BY DEF Waiting
  <2>2. PICK i \in DOMAIN queues[l] : queues[l][i] = m
    BY <2>1
  <2>3. CASE l # p
    BY <1>3, <2>2, <2>3 DEF Waiting
  <2>4. CASE l = p
    <3>1. i \in 1 .. Len(q) /\ q[i] = m /\ i # 1
      BY <1>1, <1>2, <1>4, <2>2, <2>4
    <3>2. i - 1 \in 1 .. Len(Tail(q)) /\ Tail(q)[i - 1] = m
      BY <1>2, <3>1
    <3>3. i - 1 \in DOMAIN queues'[p] /\ queues'[p][i - 1] = m
      BY <1>2, <1>3, <3>2
    <3> QED
      BY <3>3 DEF Waiting
  <2> QED
    BY <2>3, <2>4
<1>5. queues' \in [Levels -> Seq(Notes)]
  BY <1>1, <1>2
<1> QED
  BY <1>1, <1>4, <1>5

\* The second write of a call says of the row what is so.
LEMMA StampKeeps ==
    ASSUME NoteInv, NEW c \in Calls, NEW s \in {"queued", "dispatched"}, call[c].note \in Notes,
           s = "queued" => Enqueued(call[c].note),
           s = "dispatched" => results[call[c].note] # <<>>,
           UpdateStatus(call[c].note, s), Answered(c, "done"),
           UNCHANGED <<results, queues, adapters, taken, lost>>
    PROVE  NoteInv'
<1>1. PICK n \in Notes : n = call[c].note
  OBVIOUS
<1>2. /\ note'[n].status = s
      /\ \A m \in Notes : note'[m] \in [status : NotificationStatus \cup {"absent"},
                                        destination : Destinations, priority : Levels]
      /\ DOMAIN note' = Notes
      /\ \A m \in Notes \ {n} : note'[m] = note[m]
  BY <1>1 DEF NoteInv, NoteTypes, UpdateStatus, NotificationStatus
<1>3. PICK new \in CallAt : new = [NoCall EXCEPT !.pc = "done"]
  BY AnsweredAt
<1>4. /\ call' = [call EXCEPT ![c] = new] /\ new.pc = "done" /\ call \in [Calls -> CallAt]
      /\ call'[c] = new /\ \A d \in Calls \ {c} : call'[d] = call[d]
  BY <1>3 DEF NoteInv, NoteTypes, Answered, NoCall
<1>5. NoteTypes'
  BY <1>2, <1>4 DEF NoteInv, NoteTypes
<1>6. \A m : Enqueued(m)' <=> Enqueued(m)
  BY DEF Enqueued, Waiting
<1>7. EarnedBefore'
  <2> SUFFICES ASSUME NEW d \in Calls PROVE Earned(d)'
    BY DEF EarnedBefore
  <2>1. CASE d = c
    BY <1>4, <2>1 DEF Earned
  <2>2. CASE d # c
    BY <1>4, <1>6, <2>2 DEF NoteInv, EarnedBefore, Earned
  <2> QED
    BY <2>1, <2>2
<1>8. DrainsInOrder'
  BY <1>4 DEF NoteInv, DrainsInOrder
<1>9. StatusIsEarned'
  <2> SUFFICES ASSUME NEW m \in Notes
               PROVE  /\ note'[m].status = "dispatched" => results'[m] # <<>>
                      /\ note'[m].status = "queued" => Enqueued(m)'
    BY DEF StatusIsEarned, Enqueued
  <2>1. CASE m = n
    BY <1>1, <1>2, <1>6, <2>1
  <2>2. CASE m # n
    BY <1>2, <1>6, <2>2 DEF NoteInv, StatusIsEarned, Enqueued
  <2> QED
    BY <2>1, <2>2
<1> QED
  BY <1>5, <1>7, <1>8, <1>9 DEF NoteInv

\* A change of rows, results, queues and history that leaves what the calls and the rows rest on.
LEMMA StandingKeeps ==
    ASSUME NoteInv, NoteTypes', \A d \in Calls : call'[d] = call[d] \/ call'[d].pc \in {"idle", "done"},
           \A n \in Notes : Enqueued(n) => Enqueued(n)',
           \A n \in Notes : results[n] # <<>> => results'[n] # <<>>,
           \A n \in Notes : note'[n].status = note[n].status \/ note'[n].status = "pending"
    PROVE  NoteInv'
<1>1. EarnedBefore'
  <2> SUFFICES ASSUME NEW d \in Calls PROVE Earned(d)'
    BY DEF EarnedBefore
  <2>1. CASE call'[d] = call[d]
    BY <2>1 DEF NoteInv, EarnedBefore, Earned
  <2>2. CASE call'[d].pc \in {"idle", "done"}
    BY <2>2 DEF Earned
  <2> QED
    BY <2>1, <2>2
<1>2. DrainsInOrder'
  <2> SUFFICES ASSUME NEW d \in Calls, call'[d].pc = "drain" PROVE call'[d].level \in 1 .. 5
    BY DEF DrainsInOrder
  <2>1. call'[d] = call[d]
    OBVIOUS
  <2> QED
    BY <2>1 DEF NoteInv, DrainsInOrder
<1>3. StatusIsEarned'
  BY DEF NoteInv, StatusIsEarned, Enqueued
<1> QED
  BY <1>1, <1>2, <1>3 DEF NoteInv

LEMMA NextNotes == NoteInv /\ [NotificationsNext]_notificationVars => NoteInv'
<1> SUFFICES ASSUME NoteInv, [NotificationsNext]_notificationVars PROVE NoteInv'
  OBVIOUS
<1>1. NoteTypes /\ call \in [Calls -> CallAt] /\ queues \in [Levels -> Seq(Notes)]
  BY DEF NoteInv, NoteTypes
<1>2. ASSUME NEW n \in Notes, NEW d \in Destinations \cup OddDestinations, NEW p \in Levels,
             CreateNote(n, d, p)
      PROVE  NoteInv'
  <2>1. /\ note' = [note EXCEPT ![n] = [status |-> "pending", destination |-> d, priority |-> p]]
        /\ d \in Destinations /\ UNCHANGED <<results, queues, call, taken, lost>>
    BY <1>2 DEF CreateNote, ValidNote
  <2>2. NoteTypes'
    BY <1>1, <2>1 DEF NoteTypes, NotificationStatus
  <2>3. \A m \in Notes : note'[m].status = note[m].status \/ note'[m].status = "pending"
    BY <1>1, <2>1 DEF NoteTypes
  <2>4. \A m \in Notes : Enqueued(m) => Enqueued(m)'
    BY <2>1 DEF Enqueued, Waiting
  <2> QED
    BY <2>1, <2>2, <2>3, <2>4, StandingKeeps
<1>3. ASSUME UNCHANGED <<note, results, queues, call, taken, lost>> PROVE NoteInv'
  <2>1. NoteTypes' /\ \A m \in Notes : Enqueued(m) => Enqueued(m)'
    BY <1>1, <1>3 DEF NoteTypes, Enqueued, Waiting
  <2> QED
    BY <1>3, <2>1, StandingKeeps
<1>4. ASSUME NEW c \in Calls, NEW n \in Notes, NEW p \in Levels, QueueNote(c, n, p) PROVE NoteInv'
  <2>1. UNCHANGED <<note, results, taken, lost>>
    BY <1>4 DEF QueueNote
  <2>2. CASE note[n].status = "absent" \/ p \notin Levels
    <3>1. call' = [call EXCEPT ![c] = [NoCall EXCEPT !.pc = "refused"]] /\ queues' = queues
      BY <1>4, <2>2 DEF QueueNote, Answered
    <3>2. PICK new \in CallAt : new = [NoCall EXCEPT !.pc = "refused"]
      BY AnsweredAt
    <3>3. new.pc = "refused" /\ call' = [call EXCEPT ![c] = new] /\ Waiting' = Waiting
      BY <3>1, <3>2 DEF NoCall, Waiting
    <3> QED
      BY <1>1, <2>1, <3>1, <3>3, CallSteps
  <2>3. CASE ~(note[n].status = "absent" \/ p \notin Levels)
    <3>1. /\ call' = [call EXCEPT ![c] = [NoCall EXCEPT !.pc = "mark", !.note = n]]
          /\ queues' = [queues EXCEPT ![p] = Append(@, n)]
      BY <1>4, <2>3 DEF QueueNote
    <3>2. PICK new : new = [NoCall EXCEPT !.pc = "mark", !.note = n]
      OBVIOUS
    <3>7. new \in CallAt /\ new.pc = "mark" /\ new.note = n
      BY <3>2, NoCallAt DEF CallAt
    <3>3. new.pc = "mark" /\ new.note = n /\ call' = [call EXCEPT ![c] = new]
      BY <3>1, <3>2, <3>7
    <3>4. queues' \in [Levels -> Seq(Notes)] /\ Waiting \subseteq Waiting' /\ n \in Waiting'
      BY <1>1, <3>1, AppendWaits
    <3> QED
      BY <2>1, <3>3, <3>4, <3>7, CallSteps
  <2> QED
    BY <2>2, <2>3
<1>5. ASSUME NEW c \in Calls, NEW n \in Notes, Dispatch(c, n) PROVE NoteInv'
  <2>1. PICK new \in CallAt : /\ call' = [call EXCEPT ![c] = new]
                              /\ new.pc = "refused" \/ (new.pc = "save" /\ new.note = n)
    <3>1. CASE note[n].status = "absent"
      BY <1>5, <3>1, AnsweredAt DEF Dispatch, Answered, NoCall
    <3>2. CASE note[n].status # "absent"
      <4>1. PICK result \in Deliveries(note[n].destination) :
               call' = [call EXCEPT ![c] = [NoCall EXCEPT !.pc = "save", !.note = n, !.result = result]]
        BY <1>5, <3>2 DEF Dispatch
      <4>2. result \in DeliveryResultStatus
        BY DEF Deliveries, DeliveryResultStatus
      <4>3. PICK new : new = [NoCall EXCEPT !.pc = "save", !.note = n, !.result = result]
        OBVIOUS
      <4>4. new \in CallAt /\ new.pc = "save" /\ new.note = n
        BY <4>2, <4>3, NoCallAt DEF CallAt
      <4> QED
        BY <4>1, <4>3, <4>4
    <3> QED
      BY <3>1, <3>2
  <2>2. UNCHANGED <<note, results, queues, taken, lost>> /\ Waiting' = Waiting
    BY <1>5 DEF Dispatch, Waiting
  <2> QED
    BY <1>1, <2>1, <2>2, CallSteps
<1>6. ASSUME NEW c \in Calls, MarkQueued(c) PROVE NoteInv'
  <2>1. call[c].note \in Notes /\ Enqueued(call[c].note)
    BY <1>6 DEF NoteInv, EarnedBefore, Earned, MarkQueued
  <2> QED
    BY <1>6, <2>1, StampKeeps DEF MarkQueued
<1>7. ASSUME NEW c \in Calls, SaveResult(c) PROVE NoteInv'
  <2>1. PICK n \in Notes : n = call[c].note
    BY <1>7 DEF NoteInv, EarnedBefore, Earned, SaveResult
  <2>2. /\ results' = [results EXCEPT ![n] = Append(@, call[c].result)] /\ call[c].pc = "save"
        /\ call' = [call EXCEPT ![c].pc = "stamp"]
        /\ UNCHANGED <<note, queues, adapters, taken, lost>>
    BY <1>7, <2>1 DEF SaveResult
  <2>3. call[c] \in CallAt /\ call[c].result \in DeliveryResultStatus
    BY <1>1 DEF CallAt
  <2>4. /\ results' \in [Notes -> Seq(DeliveryResultStatus)] /\ results'[n] # <<>>
        /\ \A m \in Notes : results[m] # <<>> => results'[m] # <<>>
    <3>1. results \in [Notes -> Seq(DeliveryResultStatus)] /\ results[n] \in Seq(DeliveryResultStatus)
      BY <1>1 DEF NoteTypes
    <3>4. Append(results[n], call[c].result) \in Seq(DeliveryResultStatus)
      BY <2>3, <3>1
    <3>2. PICK q \in Seq(DeliveryResultStatus) : q = Append(results[n], call[c].result)
      BY <3>4
    <3>3. q # <<>>
      BY <2>3, <3>1, <3>2
    <3> QED
      BY <2>2, <3>1, <3>2, <3>3
  <2>5. /\ call'[c].pc = "stamp" /\ call'[c].note = n /\ call' \in [Calls -> CallAt]
        /\ \A d \in Calls \ {c} : call'[d] = call[d]
    BY <1>1, <2>1, <2>2, <2>3 DEF CallAt
  <2>6. NoteTypes' /\ \A m : Enqueued(m)' <=> Enqueued(m)
    BY <1>1, <2>2, <2>4, <2>5 DEF NoteTypes, Enqueued, Waiting
  <2>7. EarnedBefore'
    <3> SUFFICES ASSUME NEW d \in Calls PROVE Earned(d)'
      BY DEF EarnedBefore
    <3>1. CASE d = c
      BY <2>4, <2>5, <3>1 DEF Earned
    <3>2. CASE d # c
      BY <2>4, <2>5, <2>6, <3>2 DEF NoteInv, EarnedBefore, Earned
    <3> QED
      BY <3>1, <3>2
  <2>8. DrainsInOrder'
    BY <2>5 DEF NoteInv, DrainsInOrder
  <2>9. StatusIsEarned'
    BY <2>2, <2>4 DEF NoteInv, StatusIsEarned, Waiting
  <2> QED
    BY <2>6, <2>7, <2>8, <2>9 DEF NoteInv
<1>8. ASSUME NEW c \in Calls, StampDispatched(c) PROVE NoteInv'
  <2>1. call[c].note \in Notes /\ results[call[c].note] # <<>>
    BY <1>8 DEF NoteInv, EarnedBefore, Earned, StampDispatched, MayStamp
  <2> QED
    BY <1>8, <2>1, StampKeeps DEF StampDispatched
<1>9. ASSUME NEW c \in Calls, DispatchAll(c) PROVE NoteInv'
  <2>1. PICK new : new = [NoCall EXCEPT !.pc = "drain", !.level = 1]
    OBVIOUS
  <2>3. new \in CallAt /\ new.pc = "drain" /\ new.level = 1
    <3>1. 1 \in 0 .. 5
      OBVIOUS
    <3>2. new.pc = "drain" /\ new.level = 1
      BY <2>1, NoCallAt DEF CallAt
    <3>3. new \in CallAt
      BY <2>1, <3>1, NoCallAt DEF CallAt
    <3> QED
      BY <3>2, <3>3
  <2>2. /\ call' = [call EXCEPT ![c] = new] /\ new.pc = "drain" /\ new.level = 1
        /\ UNCHANGED <<note, results, queues, taken, lost>> /\ Waiting' = Waiting
    BY <1>9, <2>1, <2>3 DEF DispatchAll, Waiting
  <2> QED
    <3>1. /\ new.pc = "drain" => new.level \in 1 .. 5
          /\ new.pc \notin {"mark", "save", "stamp"}
          /\ queues' \in [Levels -> Seq(Notes)] /\ Waiting \subseteq Waiting'
      BY <1>1, <2>2
    <3> QED
      BY <2>2, <2>3, <3>1, CallSteps
<1>10. ASSUME NEW c \in Calls, DrainOne(c) PROVE NoteInv'
  <2>1. PICK p \in Levels : p = Here(c)
    BY <1>10 DEF DrainOne
  <2>2. /\ queues[p] # <<>> /\ queues' = [queues EXCEPT ![p] = Tail(@)]
        /\ taken' = taken \cup {Head(queues[p])} /\ UNCHANGED <<note, results, call, lost>>
    BY <1>10, <2>1 DEF DrainOne
  <2>3. queues' \in [Levels -> Seq(Notes)] /\ Waiting \subseteq Waiting' \cup {Head(queues[p])}
    BY <1>1, <2>2, TailWaits
  <2>4. NoteTypes' /\ \A m \in Notes : Enqueued(m) => Enqueued(m)'
    BY <1>1, <2>2, <2>3 DEF NoteTypes, Enqueued
  <2> QED
    BY <2>2, <2>4, StandingKeeps
<1>11. ASSUME NEW c \in Calls, NextLevel(c) PROVE NoteInv'
  <2>1. /\ UNCHANGED <<note, results, queues, taken, lost>> /\ Waiting' = Waiting
        /\ call[c].pc = "drain" /\ Len(PriorityLevels) = 5
    BY <1>11 DEF NextLevel, Waiting, PriorityLevels
  <2>2. call[c].level \in 1 .. 5 /\ call[c] \in CallAt
    BY <1>1, <2>1 DEF NoteInv, DrainsInOrder
  <2>3. CASE call[c].level = 5
    <3>1. PICK new \in CallAt : new = [NoCall EXCEPT !.pc = "done"]
      BY AnsweredAt
    <3>2. call' = [call EXCEPT ![c] = new] /\ new.pc = "done"
      BY <1>11, <2>1, <2>3, <3>1 DEF NextLevel, Answered, NoCall
    <3> QED
      BY <1>1, <2>1, <3>2, CallSteps
  <2>4. CASE call[c].level # 5
    <3>1. call' = [call EXCEPT ![c].level = call[c].level + 1]
      BY <1>11, <2>1, <2>4 DEF NextLevel
    <3>2. PICK new : new = [call[c] EXCEPT !.level = call[c].level + 1]
      OBVIOUS
    <3>3. new \in CallAt /\ new.pc = "drain" /\ new.level \in 1 .. 5
      BY <2>1, <2>2, <2>4, <3>2 DEF CallAt
    <3>4. call' = [call EXCEPT ![c] = new]
      BY <1>1, <3>1, <3>2
    <3> QED
      BY <1>1, <2>1, <3>3, <3>4, CallSteps
  <2> QED
    BY <2>3, <2>4
<1>12. ASSUME ProcessEnds PROVE NoteInv'
  <2>1. /\ queues' = [p \in Levels |-> <<>>] /\ lost' = lost \cup Waiting
        /\ call' = [c \in Calls |-> IF call[c].pc = "idle" THEN call[c]
                                    ELSE [NoCall EXCEPT !.pc = "done"]]
        /\ UNCHANGED <<note, results, taken>>
    BY <1>12 DEF ProcessEnds
  <2>2. [NoCall EXCEPT !.pc = "done"] \in CallAt /\ [NoCall EXCEPT !.pc = "done"].pc = "done"
    BY AnsweredAt DEF NoCall
  <2>3. call' \in [Calls -> CallAt] /\ \A d \in Calls : call'[d] = call[d] \/ call'[d].pc \in {"idle", "done"}
    BY <1>1, <2>1, <2>2
  <2>4. queues' \in [Levels -> Seq(Notes)]
    BY <2>1
  <2>5. NoteTypes' /\ \A m \in Notes : Enqueued(m) => Enqueued(m)'
    BY <1>1, <2>1, <2>3, <2>4 DEF NoteTypes, Enqueued
  <2> QED
    BY <2>1, <2>3, <2>5, StandingKeeps
<1>13. CASE \E d \in CustomAdapters : RegisterAdapter(d)
  BY <1>3, <1>13 DEF RegisterAdapter
<1>14. CASE UNCHANGED notificationVars
  BY <1>3, <1>14 DEF notificationVars
<1> QED
  BY <1>2, <1>4, <1>5, <1>6, <1>7, <1>8, <1>9, <1>10, <1>11, <1>12, <1>13, <1>14
  DEF NotificationsNext

\* The status of a notification is earned: "dispatched" stands for a delivery result on file, and
\* "queued" for an item that was put into a queue, however calls of the two functions cross.
THEOREM StatusesAreEarned == NotificationsSpec => []StatusIsEarned
<1>1. NoteInv => StatusIsEarned
  BY DEF NoteInv
<1> QED
  BY <1>1, InitNotes, NextNotes, PTL DEF NotificationsSpec

\* What the other variables hold.
NoteSets == adapters \subseteq Destinations \cup OddDestinations /\ taken \cup lost \subseteq Notes

LEMMA NextNoteSets == NoteInv /\ NoteSets /\ [NotificationsNext]_notificationVars => NoteSets'
<1> SUFFICES ASSUME NoteInv, NoteSets, [NotificationsNext]_notificationVars PROVE NoteSets'
  OBVIOUS
<1> USE DEF NoteSets
<1>1. queues \in [Levels -> Seq(Notes)]
  BY DEF NoteInv, NoteTypes
<1>2. CASE UNCHANGED <<adapters, taken, lost>>
  BY <1>2
<1>3. ASSUME NEW d \in CustomAdapters, RegisterAdapter(d) PROVE NoteSets'
  BY <1>3, NotificationsAssumption DEF RegisterAdapter
<1>4. ASSUME NEW c \in Calls, DrainOne(c) PROVE NoteSets'
  <2>1. PICK p : p = Here(c)
    OBVIOUS
  <2>2. /\ p \in Levels /\ queues[p] # <<>> /\ taken' = taken \cup {Head(queues[p])}
        /\ UNCHANGED <<adapters, lost>>
    BY <1>4, <2>1 DEF DrainOne
  <2>3. Head(queues[p]) \in Notes
    BY <1>1, <2>2
  <2> QED
    BY <2>2, <2>3
<1>5. CASE ProcessEnds
  <2>1. Waiting \subseteq Notes
    BY DEF Waiting
  <2>2. adapters' = {"console", "archive", "none"} /\ lost' = lost \cup Waiting /\ taken' = taken
    BY <1>5 DEF ProcessEnds
  <2> QED
    BY <2>1, <2>2, NotificationsAssumption
<1>6. CASE UNCHANGED notificationVars
  BY <1>2, <1>6 DEF notificationVars
<1>7. ASSUME NEW n \in Notes, NEW d \in Destinations \cup OddDestinations, NEW p \in Levels,
             CreateNote(n, d, p)
      PROVE  NoteSets'
  BY <1>2, <1>7 DEF CreateNote
<1>8. ASSUME NEW c \in Calls, NEW n \in Notes, (\E p \in Levels : QueueNote(c, n, p)) \/ Dispatch(c, n)
      PROVE  NoteSets'
  BY <1>2, <1>8 DEF QueueNote, Dispatch
<1>9. ASSUME NEW c \in Calls,
             MarkQueued(c) \/ SaveResult(c) \/ StampDispatched(c) \/ DispatchAll(c) \/ NextLevel(c)
      PROVE  NoteSets'
  BY <1>2, <1>9 DEF MarkQueued, SaveResult, StampDispatched, DispatchAll, NextLevel
<1> QED
  BY <1>3, <1>4, <1>5, <1>6, <1>7, <1>8, <1>9 DEF NotificationsNext

LEMMA InvariantNotes == NotificationsSpec => [](NoteInv /\ NoteSets)
<1>1. NotificationsInit => NoteSets
  BY NotificationsAssumption DEF NotificationsInit, NoteSets
<1> QED
  BY <1>1, InitNotes, NextNotes, NextNoteSets, PTL DEF NotificationsSpec

\* The rows, the results and the queues of the notifications keep their types.
THEOREM NotificationsTypeCorrect == NotificationsSpec => []NotificationsTypeOK
<1>1. NoteInv /\ NoteSets => NotificationsTypeOK
  <2> SUFFICES ASSUME NoteInv, NoteSets PROVE NotificationsTypeOK
    OBVIOUS
  <2>1. NoteTypes
    BY DEF NoteInv
  <2>2. ASSUME NEW n \in Notes
        PROVE  /\ note[n].status \in NotificationStatus \cup {"absent"}
               /\ note[n].destination \in Destinations
               /\ \A i \in DOMAIN results[n] : results[n][i] \in DeliveryResultStatus
    <3>1. results[n] \in Seq(DeliveryResultStatus)
      BY <2>1 DEF NoteTypes
    <3> QED
      BY <2>1, <3>1 DEF NoteTypes
  <2>3. \A p \in Levels : \A i \in DOMAIN queues[p] : queues[p][i] \in Notes
    BY <2>1 DEF NoteTypes
  <2>4. \A c \in Calls : call[c].note \in Notes \cup {NoNote} /\ call[c].level \in 0 .. 5
    BY <2>1 DEF NoteTypes, CallAt
  <2> QED
    BY <2>2, <2>3, <2>4 DEF NoteSets, NotificationsTypeOK
<1> QED
  BY <1>1, InvariantNotes, PTL

-----------------------------------------------------------------------------
(* Routing.                                                                *)

AnyRule == UNION {Elements(rules) : rules \in RuleFiles}

ReloadAt == [pc : {"idle", "saving", "answered", "failed"}, router : Routers \cup {NoRouter},
             todo : Seq(AnyRule), valid : Seq(AnyRule)]

\* k[i] is what is valid of the first i rules.
AreKept(k, rules) ==
    /\ k \in [0 .. Len(rules) -> Seq(AnyRule)]
    /\ k[0] = <<>>
    /\ \A i \in 1 .. Len(rules) :
           k[i] = IF ValidRule(rules[i], NamesOf(k[i - 1])) THEN Append(k[i - 1], rules[i])
                  ELSE k[i - 1]

LEMMA RuleFilesAreSequences ==
    ASSUME RoutingAssumption, NEW rules \in RuleFiles PROVE rules \in Seq(AnyRule)
<1>1. rules \in Seq(Elements(rules))
  BY DEF RoutingAssumption
<1>2. Elements(rules) \subseteq AnyRule
  BY DEF AnyRule
<1> QED
  BY <1>1, <1>2

\* The recursive function in KeptUpTo exists.
LEMMA KeptUpToSteps ==
    ASSUME RoutingAssumption, NEW rules \in RuleFiles PROVE AreKept(KeptUpTo(rules), rules)
<1> DEFINE Def(k) == [i \in 0 .. Len(rules) |-> IF i = 0 THEN <<>> ELSE
                         IF ValidRule(rules[i], NamesOf(k[i - 1])) THEN Append(k[i - 1], rules[i])
                         ELSE k[i - 1]]
<1>1. PICK T : T = Seq(AnyRule)
  OBVIOUS
<1>2. PICK step : step = [i \in 1 .. Len(rules) |-> [q \in T |->
                             IF ValidRule(rules[i], NamesOf(q)) THEN Append(q, rules[i]) ELSE q]]
  OBVIOUS
<1>3. rules \in Seq(AnyRule) /\ Len(rules) \in Nat
  BY RuleFilesAreSequences
<1>4. IsStep(step, Len(rules), T) /\ <<>> \in T
  <2>1. ASSUME NEW i \in 1 .. Len(rules), NEW q \in T PROVE Append(q, rules[i]) \in T
    <3>1. rules[i] \in AnyRule
      BY <1>3
    <3> QED
      BY <1>1, <3>1
  <2> QED
    BY <1>1, <1>2, <2>1 DEF IsStep
<1>5. PICK h : IsIteration(h, step, Len(rules), T, <<>>)
  BY <1>3, <1>4, RecursionExists, Zenon
<1>6. h \in [0 .. Len(rules) -> T] /\ h[0] = <<>>
  BY <1>5 DEF IsIteration
<1>7. ASSUME NEW i \in 1 .. Len(rules)
      PROVE  h[i] = IF ValidRule(rules[i], NamesOf(h[i - 1])) THEN Append(h[i - 1], rules[i])
                    ELSE h[i - 1]
  <2>1. h[i - 1] \in T /\ h[i] = step[i][h[i - 1]]
    BY <1>3, <1>5, <1>6 DEF IsIteration
  <2>2. step[i] = [q \in T |-> IF ValidRule(rules[i], NamesOf(q)) THEN Append(q, rules[i]) ELSE q]
    BY <1>2
  <2> QED
    BY <2>1, <2>2
<1>8. h = Def(h)
  <2>1. ASSUME NEW i \in 0 .. Len(rules) PROVE h[i] = Def(h)[i]
    <3>1. CASE i = 0
      BY <1>6, <3>1
    <3>2. CASE i # 0
      <4>1. i \in 1 .. Len(rules)
        BY <1>3, <3>2
      <4> QED
        BY <1>7, <3>2, <4>1
    <3> QED
      BY <3>1, <3>2
  <2> QED
    BY <1>6, <2>1
<1>9. PICK k : k = (CHOOSE g : g = Def(g)) /\ k = Def(k)
  BY <1>8
<1>10. KeptUpTo(rules) = k
  BY <1>9 DEF KeptUpTo
<1>11. /\ k[0] = <<>>
       /\ \A i \in 1 .. Len(rules) :
              k[i] = IF ValidRule(rules[i], NamesOf(k[i - 1])) THEN Append(k[i - 1], rules[i])
                     ELSE k[i - 1]
  <2>1. \A i \in 0 .. Len(rules) : k[i] = Def(k)[i]
    BY <1>9
  <2> QED
    BY <1>3, <2>1
<1>12. PICK S : S = {i \in 0 .. Len(rules) : k[i] \in T}
  OBVIOUS
<1>13. \A i \in 0 .. Len(rules) : i \in S
  <2>1. 0 \in S
    BY <1>3, <1>4, <1>11, <1>12
  <2>2. ASSUME NEW i \in 1 .. Len(rules), i - 1 \in S PROVE i \in S
    <3>1. k[i - 1] \in T /\ rules[i] \in AnyRule
      BY <1>3, <1>12, <2>2
    <3>2. Append(k[i - 1], rules[i]) \in T
      BY <1>1, <3>1
    <3>3. k[i] \in T
      BY <1>11, <3>1, <3>2
    <3> QED
      BY <1>12, <3>3
  <2> QED
    BY <1>3, <2>1, <2>2, InductionUpTo
<1>14. k \in [0 .. Len(rules) -> T]
  <2>1. k = [i \in 0 .. Len(rules) |-> k[i]]
    BY <1>9
  <2> QED
    BY <1>12, <1>13, <2>1
<1> QED
  BY <1>1, <1>10, <1>11, <1>14 DEF AreKept

-----------------------------------------------------------------------------
\* The first rule that is enabled and matches is the head of all that do.
LEMMA FirstIsHead ==
    ASSUME NEW rules \in Seq(AnyRule), NEW event
    PROVE  Evaluate(rules, event) = LET fit == Match(rules, event)
                                    IN  IF fit = <<>> THEN DefaultDecision ELSE FromRule(Head(fit))
<1>1. PICK A : A = {rule \in Elements(rules) : rule.enabled /\ RuleMatches(rule, event)}
  OBVIOUS
<1>2. PICK fit : fit = Match(rules, event)
  OBVIOUS
<1>3. fit = Sifted(rules, A)
  BY <1>1, <1>2 DEF Match
<1>4. PICK E : E = EnabledMatches(rules, event)
  OBVIOUS
<1>5. Len(rules) \in Nat /\ \A i \in 1 .. Len(rules) : i \in E <=> rules[i] \in A
  BY <1>1, <1>4 DEF EnabledMatches, Elements
<1>6. E \subseteq 1 .. Len(rules)
  BY <1>4 DEF EnabledMatches
<1>7. PICK at : ArePlaces(at, fit, rules, A, Len(rules))
  BY <1>3, SiftedPlaces
<1>8. fit \in Seq(AnyRule) /\ Len(fit) \in Nat
  BY <1>3, SiftedPlaces
<1>9. CASE E = {}
  <2>1. fit = <<>>
    <3>1. ASSUME NEW k \in 1 .. Len(fit) PROVE FALSE
      <4>1. at[k] \in 1 .. Len(rules) /\ rules[at[k]] \in A
        BY <1>7 DEF ArePlaces
      <4> QED
        BY <1>5, <1>9, <4>1
    <3>2. Len(fit) = 0
      BY <1>8, <3>1
    <3> QED
      BY <1>8, <3>2
  <2> QED
    BY <1>2, <1>4, <1>9, <2>1 DEF Evaluate, MatchFirst
<1>10. CASE E # {}
  <2>1. PICK m \in E : \A j \in E : m <= j
    <3>1. E \in SUBSET Nat
      BY <1>5, <1>6
    <3> QED
      BY <1>10, <3>1, LeastNatural
  <2>2. PICK i : i = (CHOOSE x \in E : \A j \in E : x <= j) /\ i \in E /\ \A j \in E : i <= j
    BY <2>1
  <2>3. MatchFirst(rules, event) = i /\ i # 0
    BY <1>4, <1>5, <1>6, <1>10, <2>2 DEF MatchFirst
  <2>4. i \in 1 .. Len(rules) /\ rules[i] \in A
    BY <1>5, <1>6, <2>2
  <2>5. PICK k \in 1 .. Len(fit) : at[k] = i
    BY <1>7, <2>4 DEF ArePlaces
  <2>6. 1 \in 1 .. Len(fit)
    BY <1>8
  <2>7. at[1] \in E /\ at[1] \in 1 .. Len(rules)
    <3>1. at[1] \in 1 .. Len(rules) /\ rules[at[1]] \in A
      BY <1>7, <2>6 DEF ArePlaces
    <3> QED
      BY <1>5, <3>1
  <2>8. at[1] = i
    <3>1. CASE k = 1
      BY <2>5, <3>1
    <3>2. CASE k # 1
      <4>1. at[1] < at[k]
        BY <1>7, <1>8, <2>6, <3>2 DEF ArePlaces
      <4> QED
        BY <1>5, <2>2, <2>4, <2>5, <2>7, <4>1
    <3> QED
      BY <3>1, <3>2
  <2>9. fit # <<>> /\ Head(fit) = rules[i]
    <3>1. fit[1] = rules[i]
      BY <1>7, <2>6, <2>8 DEF ArePlaces
    <3> QED
      BY <1>8, <2>6, <3>1
  <2> QED
    BY <1>2, <2>3, <2>9 DEF Evaluate
<1> QED
  BY <1>9, <1>10

-----------------------------------------------------------------------------
RoutingTypes ==
    /\ directory \in RuleFiles
    /\ active \in [Routers -> Seq(AnyRule)]
    /\ reload \in [Reloads -> ReloadAt]

Whole(q) == q = <<>> \/ \E rules \in RuleFiles : q = ValidRules(rules)

\* A reload that saves is somewhere in the rules of one state of the directory, with the valid ones
\* before that kept and the others to do.
Midway(l, rules, n) ==
    /\ reload[l].router \in Routers
    /\ reload[l].todo = SubSeq(rules, n + 1, Len(rules))
    /\ reload[l].valid = KeptUpTo(rules)[n]
SavesInOrder ==
    \A l \in Reloads :
        reload[l].pc = "saving" => \E rules \in RuleFiles : \E n \in 0 .. Len(rules) : Midway(l, rules, n)
KeptHaveRows == \A l \in Reloads : NamesOf(reload[l].valid) \subseteq ruleRows

RoutingInv ==
    /\ RoutingTypes /\ (\A w \in Routers : Whole(active[w])) /\ SavesInOrder /\ KeptHaveRows
    /\ RoutingIsSound

USE RoutingAssumption

LEMMA InitRouting == RoutingInit => RoutingInv
<1> SUFFICES ASSUME RoutingInit PROVE RoutingInv
  OBVIOUS
<1>1. /\ directory \in RuleFiles /\ active = [w \in Routers |-> <<>>] /\ ruleRows = {}
      /\ reload = [l \in Reloads |-> IdleReload] /\ decisions = {}
  BY DEF RoutingInit
<1>2. IdleReload \in ReloadAt
  BY DEF IdleReload, ReloadAt
<1>3. RoutingTypes
  BY <1>1, <1>2 DEF RoutingTypes
<1>4. (\A w \in Routers : Whole(active[w])) /\ SavesInOrder
  BY <1>1 DEF Whole, SavesInOrder, IdleReload
<1>5. NamesOf(<<>>) = {}
  BY DEF NamesOf
<1>6. KeptHaveRows /\ RoutingIsSound
  BY <1>1, <1>5
  DEF KeptHaveRows, RoutingIsSound, DecidedByWholeRules, ActiveRulesHaveRows, IdleReload
<1> QED
  BY <1>3, <1>4, <1>6 DEF RoutingInv

\* A step of reload l to another record, which may add a row.
LEMMA ReloadSteps ==
    ASSUME RoutingInv, NEW l \in Reloads, NEW new \in ReloadAt, reload' = [reload EXCEPT ![l] = new],
           UNCHANGED <<directory, active, decisions>>, ruleRows \subseteq ruleRows',
           NamesOf(new.valid) \subseteq ruleRows',
           new.pc = "saving" => (\E rules \in RuleFiles : \E n \in 0 .. Len(rules) : Midway(l, rules, n))'
    PROVE  RoutingInv'
<1>1. reload \in [Reloads -> ReloadAt]
  BY DEF RoutingInv, RoutingTypes
<1>2. reload'[l] = new /\ \A k \in Reloads \ {l} : reload'[k] = reload[k]
  BY <1>1
<1>3. RoutingTypes' /\ (\A w \in Routers : Whole(active[w]))'
  BY <1>1 DEF RoutingInv, RoutingTypes, Whole
<1>4. SavesInOrder'
  <2> SUFFICES ASSUME NEW k \in Reloads, reload'[k].pc = "saving"
               PROVE  (\E rules \in RuleFiles : \E n \in 0 .. Len(rules) : Midway(k, rules, n))'
    BY DEF SavesInOrder
  <2>1. CASE k = l
    BY <1>2, <2>1
  <2>2. CASE k # l
    <3>1. reload'[k] = reload[k]
      BY <1>2, <2>2
    <3>2. PICK rules \in RuleFiles : \E n \in 0 .. Len(rules) : Midway(k, rules, n)
      BY <3>1 DEF RoutingInv, SavesInOrder
    <3>3. PICK n \in 0 .. Len(rules) : Midway(k, rules, n)
      BY <3>2
    <3>4. Midway(k, rules, n)'
      BY <3>1, <3>3 DEF Midway
    <3> QED
      BY <3>4
  <2> QED
    BY <2>1, <2>2
<1>5. KeptHaveRows'
  BY <1>2 DEF RoutingInv, KeptHaveRows
<1>6. RoutingIsSound'
  BY DEF RoutingInv, RoutingIsSound, DecidedByWholeRules, ActiveRulesHaveRows
<1> QED
  BY <1>3, <1>4, <1>5, <1>6 DEF RoutingInv

LEMMA LoadKeeps ==
    ASSUME RoutingInv, NEW l \in Reloads, NEW w \in Routers, LoadConfig(l, w) PROVE RoutingInv'
<1>1. directory \in RuleFiles /\ directory \in Seq(AnyRule) /\ reload \in [Reloads -> ReloadAt]
  BY RuleFilesAreSequences DEF RoutingInv, RoutingTypes
<1>2. PICK pc \in {"failed", "answered", "saving"} :
         reload' = [reload EXCEPT ![l] = [pc |-> pc, router |-> w, todo |-> directory, valid |-> <<>>]]
  BY DEF LoadConfig
<1>3. PICK new : new = [pc |-> pc, router |-> w, todo |-> directory, valid |-> <<>>]
  OBVIOUS
<1>4. /\ new \in ReloadAt /\ new.router = w /\ new.todo = directory /\ new.valid = <<>>
      /\ reload' = [reload EXCEPT ![l] = new]
  BY <1>1, <1>2, <1>3 DEF ReloadAt
<1>5. UNCHANGED <<directory, active, decisions, ruleRows>>
  BY DEF LoadConfig
<1>6. NamesOf(new.valid) = {}
  BY <1>4 DEF NamesOf
<1>7. (\E rules \in RuleFiles : \E n \in 0 .. Len(rules) : Midway(l, rules, n))'
  <2>1. PICK rules \in RuleFiles : rules = directory
    BY <1>1
  <2>2. rules \in Seq(AnyRule) /\ Len(rules) \in Nat /\ SubSeq(rules, 0 + 1, Len(rules)) = rules
    BY <1>1, <2>1
  <2>3. KeptUpTo(rules)[0] = <<>>
    BY KeptUpToSteps DEF AreKept
  <2>4. reload'[l] = new
    BY <1>1, <1>4
  <2>5. Midway(l, rules, 0)'
    BY <1>4, <2>1, <2>2, <2>3, <2>4 DEF Midway
  <2>6. 0 \in 0 .. Len(rules)
    BY <2>2
  <2> QED
    BY <2>5, <2>6
<1> QED
  BY <1>4, <1>5, <1>6, <1>7, ReloadSteps

LEMMA SaveKeeps ==
    ASSUME RoutingInv, NEW l \in Reloads, SaveRule(l) PROVE RoutingInv'
<1>1. reload \in [Reloads -> ReloadAt] /\ reload[l] \in ReloadAt
  BY DEF RoutingInv, RoutingTypes
<1>2. PICK rules \in RuleFiles : \E n \in 0 .. Len(rules) : Midway(l, rules, n)
  BY DEF SaveRule, RoutingInv, SavesInOrder
<1>3. PICK n \in 0 .. Len(rules) : Midway(l, rules, n)
  BY <1>2
<1>4. rules \in Seq(AnyRule) /\ Len(rules) \in Nat
  BY RuleFilesAreSequences
<1>5. PICK todo, valid : todo = reload[l].todo /\ valid = reload[l].valid
  OBVIOUS
<1>6. /\ todo = SubSeq(rules, n + 1, Len(rules)) /\ valid = KeptUpTo(rules)[n] /\ todo # <<>>
      /\ valid \in Seq(AnyRule) /\ reload[l].router \in Routers
  BY <1>1, <1>3, <1>5 DEF Midway, SaveRule, ReloadAt
<1>7. /\ n + 1 \in 1 .. Len(rules) /\ Head(todo) = rules[n + 1]
      /\ Tail(todo) = SubSeq(rules, n + 2, Len(rules)) /\ Tail(todo) \in Seq(AnyRule)
  <2>1. n + 1 <= Len(rules)
    BY <1>4, <1>6
  <2>2. Head(todo) = rules[n + 1]
    BY <1>4, <1>6, <2>1
  <2>3. Tail(todo) = SubSeq(rules, n + 2, Len(rules))
    BY <1>4, <1>6, <2>1
  <2>4. Tail(todo) \in Seq(AnyRule)
    <3>1. todo \in Seq(AnyRule)
      BY <1>1, <1>5 DEF ReloadAt
    <3> QED
      BY <1>6, <3>1
  <2> QED
    BY <1>4, <2>1, <2>2, <2>3, <2>4
<1>8. PICK rule : rule = Head(todo)
  OBVIOUS
<1>9. PICK kept : kept = IF ValidRule(rule, NamesOf(valid)) THEN Append(valid, rule) ELSE valid
  OBVIOUS
<1>10. kept = KeptUpTo(rules)[n + 1]
  <2>1. AreKept(KeptUpTo(rules), rules)
    BY KeptUpToSteps
  <2>2. (n + 1) - 1 = n
    BY <1>4
  <2> QED
    BY <1>6, <1>7, <1>8, <1>9, <2>1, <2>2 DEF AreKept
<1>11. kept \in Seq(AnyRule)
  <2>1. rule \in AnyRule
    BY <1>4, <1>7, <1>8
  <2> QED
    BY <1>6, <1>9, <2>1
<1>12. PICK new : new = [reload[l] EXCEPT !.todo = Tail(todo), !.valid = kept]
  OBVIOUS
<1>13. /\ new \in ReloadAt /\ new.todo = Tail(todo) /\ new.valid = kept /\ new.router \in Routers
  BY <1>1, <1>6, <1>7, <1>11, <1>12 DEF ReloadAt
<1>14. reload' = [reload EXCEPT ![l] = new] /\ UNCHANGED <<directory, active, decisions>>
  BY <1>1, <1>5, <1>8, <1>9, <1>12 DEF SaveRule
<1>15. ruleRows \subseteq ruleRows' /\ NamesOf(new.valid) \subseteq ruleRows'
  <2>1. NamesOf(valid) \subseteq ruleRows
    BY <1>5 DEF RoutingInv, KeptHaveRows
  <2>2. CASE ValidRule(rule, NamesOf(valid))
    <3>1. ruleRows' = ruleRows \cup {rule.name}
      BY <1>5, <1>8, <2>2 DEF SaveRule
    <3>2. NamesOf(kept) \subseteq NamesOf(valid) \cup {rule.name}
      <4>1. kept = Append(valid, rule)
        BY <1>9, <2>2
      <4>2. \A i \in DOMAIN kept : kept[i] = rule \/ (i \in DOMAIN valid /\ kept[i] = valid[i])
        BY <1>6, <4>1
      <4> QED
        BY <4>2 DEF NamesOf
    <3> QED
      BY <1>13, <2>1, <3>1, <3>2
  <2>3. CASE ~ValidRule(rule, NamesOf(valid))
    BY <1>5, <1>8, <1>9, <1>13, <2>1, <2>3 DEF SaveRule
  <2> QED
    BY <2>2, <2>3
<1>16. (\E r \in RuleFiles : \E k \in 0 .. Len(r) : Midway(l, r, k))'
  <2>1. reload'[l] = new
    BY <1>1, <1>14
  <2>2. (n + 1) + 1 = n + 2 /\ n + 1 \in 0 .. Len(rules)
    BY <1>4, <1>7
  <2>3. Midway(l, rules, n + 1)'
    BY <1>7, <1>10, <1>13, <2>1, <2>2 DEF Midway
  <2> QED
    BY <2>2, <2>3
<1> QED
  BY <1>13, <1>14, <1>15, <1>16, ReloadSteps

LEMMA SetKeeps ==
    ASSUME RoutingInv, NEW l \in Reloads, SetRules(l) PROVE RoutingInv'
<1>1. /\ reload \in [Reloads -> ReloadAt] /\ reload[l] \in ReloadAt /\ active \in [Routers -> Seq(AnyRule)]
      /\ directory \in RuleFiles
  BY DEF RoutingInv, RoutingTypes
<1>2. PICK rules \in RuleFiles : \E n \in 0 .. Len(rules) : Midway(l, rules, n)
  BY DEF SetRules, RoutingInv, SavesInOrder
<1>3. PICK n \in 0 .. Len(rules) : Midway(l, rules, n)
  BY <1>2
<1>4. rules \in Seq(AnyRule) /\ Len(rules) \in Nat
  BY RuleFilesAreSequences
<1>5. PICK w \in Routers, valid \in Seq(AnyRule) : w = reload[l].router /\ valid = reload[l].valid
  BY <1>1, <1>3 DEF Midway, ReloadAt
<1>6. n = Len(rules)
  <2>1. SubSeq(rules, n + 1, Len(rules)) = <<>>
    BY <1>3 DEF Midway, SetRules, AllSaved
  <2>2. Len(SubSeq(rules, n + 1, Len(rules))) = 0
    <3>1. PICK q : q = SubSeq(rules, n + 1, Len(rules))
      OBVIOUS
    <3>2. q = <<>>
      BY <2>1, <3>1
    <3>3. Len(q) = 0
      BY <3>2
    <3> QED
      BY <3>1, <3>3
  <2>3. n < Len(rules) => Len(SubSeq(rules, n + 1, Len(rules))) = Len(rules) - n
    BY <1>4
  <2> QED
    BY <1>4, <2>2, <2>3
<1>7. Whole(valid)
  BY <1>3, <1>5, <1>6 DEF Whole, ValidRules, Midway
<1>8. /\ active' = [active EXCEPT ![w] = valid] /\ reload' = [reload EXCEPT ![l].pc = "answered"]
      /\ UNCHANGED <<directory, ruleRows, decisions>>
  BY <1>5 DEF SetRules
<1>9. active'[w] = valid /\ (\A v \in Routers \ {w} : active'[v] = active[v]) /\ active' \in [Routers -> Seq(AnyRule)]
  BY <1>1, <1>8
<1>10. /\ reload' \in [Reloads -> ReloadAt]
       /\ \A k \in Reloads : /\ reload'[k].valid = reload[k].valid
                             /\ reload'[k].pc = "saving" => reload'[k] = reload[k]
  BY <1>1, <1>8 DEF ReloadAt
<1>11. RoutingTypes' /\ (\A v \in Routers : Whole(active[v]))'
  <2>1. \A v \in Routers : Whole(active'[v])
    BY <1>7, <1>9 DEF RoutingInv
  <2> QED
    BY <1>1, <1>8, <1>9, <1>10, <2>1 DEF RoutingTypes
<1>12. SavesInOrder'
  <2> SUFFICES ASSUME NEW k \in Reloads, reload'[k].pc = "saving"
               PROVE  (\E r \in RuleFiles : \E m \in 0 .. Len(r) : Midway(k, r, m))'
    BY DEF SavesInOrder
  <2>1. reload'[k] = reload[k]
    BY <1>10
  <2>2. PICK r \in RuleFiles : \E m \in 0 .. Len(r) : Midway(k, r, m)
    BY <2>1 DEF RoutingInv, SavesInOrder
  <2>3. PICK m \in 0 .. Len(r) : Midway(k, r, m)
    BY <2>2
  <2>4. Midway(k, r, m)'
    BY <2>1, <2>3 DEF Midway
  <2> QED
    BY <2>4
<1>13. KeptHaveRows'
  BY <1>8, <1>10 DEF RoutingInv, KeptHaveRows
<1>14. ActiveRulesHaveRows'
  <2>1. NamesOf(valid) \subseteq ruleRows
    BY <1>5 DEF RoutingInv, KeptHaveRows
  <2> QED
    BY <1>8, <1>9, <2>1 DEF RoutingInv, RoutingIsSound, ActiveRulesHaveRows
<1>15. DecidedByWholeRules'
  BY <1>8 DEF RoutingInv, RoutingIsSound, DecidedByWholeRules
<1> QED
  BY <1>11, <1>12, <1>13, <1>14, <1>15 DEF RoutingInv, RoutingIsSound

LEMMA RouteKeeps ==
    ASSUME RoutingInv, NEW w \in Routers, NEW event \in RoutedEvents, Route(w, event)
    PROVE  RoutingInv'
<1>1. UNCHANGED <<directory, active, reload, ruleRows>>
  BY DEF Route
<1>2. RoutingTypes' /\ (\A v \in Routers : Whole(active[v]))' /\ SavesInOrder' /\ KeptHaveRows'
  BY <1>1 DEF RoutingInv, RoutingTypes, Whole, SavesInOrder, KeptHaveRows, Midway
<1>3. ActiveRulesHaveRows'
  BY <1>1 DEF RoutingInv, RoutingIsSound, ActiveRulesHaveRows
<1>4. PICK q \in Seq(AnyRule) : q = active[w] /\ Whole(q)
  BY DEF RoutingInv, RoutingTypes
<1>5. Evaluate(q, event) = LET fit == Match(q, event)
                           IN  IF fit = <<>> THEN DefaultDecision ELSE FromRule(Head(fit))
  BY FirstIsHead
<1>6. DecidedByWholeRules'
  <2>1. PICK e : e = [of |-> q, event |-> event, decision |-> Evaluate(q, event)]
    OBVIOUS
  <2>2. decisions' = decisions \cup {e}
    BY <1>4, <2>1 DEF Route
  <2>3. e.of = q /\ e.event = event /\ e.decision = Evaluate(q, event)
    BY <2>1
  <2>4. ASSUME NEW d \in decisions'
        PROVE  /\ d.of = <<>> \/ \E rules \in RuleFiles : d.of = ValidRules(rules)
               /\ d.decision = LET fit == Match(d.of, d.event)
                               IN  IF fit = <<>> THEN DefaultDecision ELSE FromRule(Head(fit))
    <3>1. CASE d = e
      BY <1>4, <1>5, <2>3, <3>1 DEF Whole
    <3>2. CASE d # e
      BY <2>2, <2>4, <3>2 DEF RoutingInv, RoutingIsSound, DecidedByWholeRules
    <3> QED
      BY <3>1, <3>2
  <2> QED
    BY <2>4 DEF DecidedByWholeRules
<1> QED
  BY <1>2, <1>3, <1>6 DEF RoutingInv, RoutingIsSound

LEMMA NextRouting == RoutingInv /\ [RoutingNext]_routingVars => RoutingInv'
<1> SUFFICES ASSUME RoutingInv, [RoutingNext]_routingVars PROVE RoutingInv'
  OBVIOUS
<1>1. ASSUME directory' \in RuleFiles, UNCHANGED <<active, reload, ruleRows, decisions>> PROVE RoutingInv'
  BY <1>1 DEF RoutingInv, RoutingTypes, Whole, SavesInOrder, KeptHaveRows, Midway, RoutingIsSound,
     DecidedByWholeRules, ActiveRulesHaveRows
<1>2. CASE EditRules
  BY <1>1, <1>2 DEF EditRules
<1>3. ASSUME NEW l \in Reloads, ReloadFails(l) PROVE RoutingInv'
  <2>1. reload \in [Reloads -> ReloadAt] /\ reload[l] \in ReloadAt
    BY DEF RoutingInv, RoutingTypes
  <2>2. PICK new : new = [reload[l] EXCEPT !.pc = "failed"]
    OBVIOUS
  <2>3. /\ new \in ReloadAt /\ new.pc = "failed" /\ new.valid = reload[l].valid
        /\ reload' = [reload EXCEPT ![l] = new] /\ UNCHANGED <<directory, active, ruleRows, decisions>>
    BY <1>3, <2>1, <2>2 DEF ReloadFails, ReloadAt
  <2>4. NamesOf(new.valid) \subseteq ruleRows'
    BY <2>3 DEF RoutingInv, KeptHaveRows
  <2> QED
    BY <2>3, <2>4, ReloadSteps
<1>4. CASE UNCHANGED routingVars
  <2>1. directory' \in RuleFiles /\ UNCHANGED <<active, reload, ruleRows, decisions>>
    BY <1>4 DEF routingVars, RoutingInv, RoutingTypes
  <2> QED
    BY <1>1, <2>1
<1> QED
  BY <1>2, <1>3, <1>4, LoadKeeps, SaveKeeps, SetKeeps, RouteKeeps DEF RoutingNext

\* A decision is that of the first rule that is enabled and matches, under all the valid rules of
\* one state of the directory, and the rules in effect are in the table, however reloads cross.
THEOREM RoutesAreSound == RoutingSpec => []RoutingIsSound
<1>1. RoutingInv => RoutingIsSound
  BY DEF RoutingInv
<1> QED
  BY <1>1, InitRouting, NextRouting, PTL DEF RoutingSpec

ParsedRule == {rule \in AnyRule : rule.template \in Template}
GoodRule == {rule \in ParsedRule : rule.destinations \subseteq Destination}
IsDecision(d) == /\ d.destinations \subseteq Destination /\ d.priority \in Priority
                 /\ d.template \in Template

\* A reload saves only what was parsed, and keeps and puts into effect only what is valid.
RulesAreGood ==
    /\ \A l \in Reloads : /\ reload[l].pc = "saving" => reload[l].todo \in Seq(ParsedRule)
                          /\ reload[l].valid \in Seq(GoodRule)
    /\ \A w \in Routers : active[w] \in Seq(GoodRule)
    /\ \A d \in decisions : IsDecision(d.decision)

LEMMA GoodRulesDecide ==
    ASSUME NEW rules \in Seq(GoodRule), NEW event PROVE IsDecision(Evaluate(rules, event))
<1>1. PICK E : E = EnabledMatches(rules, event)
  OBVIOUS
<1>2. CASE E = {}
  BY <1>1, <1>2 DEF Evaluate, MatchFirst, DefaultDecision, IsDecision, Destination, Priority, Template
<1>3. CASE E # {}
  <2>1. E \subseteq 1 .. Len(rules) /\ E \subseteq Nat /\ Len(rules) \in Nat
    BY <1>1 DEF EnabledMatches
  <2>2. PICK i \in E : \A j \in E : i <= j
    BY <1>3, <2>1, LeastNatural
  <2>3. PICK k : k = MatchFirst(rules, event)
    OBVIOUS
  <2>4. k = CHOOSE m \in E : \A j \in E : m <= j
    BY <1>1, <1>3, <2>3 DEF MatchFirst
  <2>5. k \in E
    BY <2>2, <2>4
  <2>6. k # 0 /\ rules[k] \in GoodRule
    BY <2>1, <2>5
  <2>7. Evaluate(rules, event) = FromRule(rules[k])
    BY <2>3, <2>6 DEF Evaluate
  <2>8. rules[k].priority \in Priority
    BY <2>6 DEF GoodRule, ParsedRule, AnyRule
  <2> QED
    BY <2>6, <2>7, <2>8 DEF FromRule, IsDecision, GoodRule, ParsedRule
<1> QED
  BY <1>2, <1>3

LEMMA NextGoodRules == RoutingInv /\ RulesAreGood /\ [RoutingNext]_routingVars => RulesAreGood'
<1> SUFFICES ASSUME RoutingInv, RulesAreGood, [RoutingNext]_routingVars PROVE RulesAreGood'
  OBVIOUS
<1>1. /\ directory \in RuleFiles /\ reload \in [Reloads -> ReloadAt]
      /\ active \in [Routers -> Seq(AnyRule)]
  BY DEF RoutingInv, RoutingTypes
<1>2. CASE UNCHANGED <<active, reload, decisions>>
  BY <1>2 DEF RulesAreGood
<1>3. ASSUME NEW l \in Reloads, NEW new, reload' = [reload EXCEPT ![l] = new],
             new.pc = "saving" => new.todo \in Seq(ParsedRule), new.valid \in Seq(GoodRule),
             UNCHANGED <<active, decisions>>
      PROVE  RulesAreGood'
  <2>1. reload'[l] = new /\ \A m \in Reloads \ {l} : reload'[m] = reload[m]
    BY <1>1, <1>3
  <2> QED
    BY <1>3, <2>1 DEF RulesAreGood
<1>4. ASSUME NEW l \in Reloads, NEW w \in Routers, LoadConfig(l, w) PROVE RulesAreGood'
  <2>1. PICK new : new = [pc |-> IF ~Parses(directory) THEN "failed"
                                 ELSE IF directory = <<>> THEN "answered" ELSE "saving",
                          router |-> w, todo |-> directory, valid |-> <<>>]
    OBVIOUS
  <2>2. reload' = [reload EXCEPT ![l] = new] /\ UNCHANGED <<active, decisions>>
    BY <1>4, <2>1 DEF LoadConfig
  <2>3. new.todo = directory /\ new.valid \in Seq(GoodRule)
    BY <2>1
  <2>4. ASSUME new.pc = "saving" PROVE directory \in Seq(ParsedRule)
    <3>1. Parses(directory)
      BY <2>1, <2>4
    <3>2. directory \in Seq(AnyRule)
      BY <1>1, RuleFilesAreSequences
    <3>3. \A i \in 1 .. Len(directory) : directory[i] \in ParsedRule
      BY <3>1, <3>2 DEF Parses, ParsedRule
    <3> QED
      BY <3>2, <3>3
  <2> QED
    BY <1>3, <2>2, <2>3, <2>4
<1>5. ASSUME NEW l \in Reloads, SaveRule(l) PROVE RulesAreGood'
  <2>1. PICK todo, valid : todo = reload[l].todo /\ valid = reload[l].valid
    OBVIOUS
  <2>2. /\ todo \in Seq(ParsedRule) /\ todo # <<>> /\ valid \in Seq(GoodRule)
        /\ reload[l].pc = "saving" /\ reload[l] \in ReloadAt
    BY <1>1, <1>5, <2>1 DEF SaveRule, RulesAreGood
  <2>3. PICK kept : kept = IF ValidRule(Head(todo), NamesOf(valid)) THEN Append(valid, Head(todo))
                           ELSE valid
    OBVIOUS
  <2>4. PICK new : new = [reload[l] EXCEPT !.todo = Tail(todo), !.valid = kept]
    OBVIOUS
  <2>5. reload' = [reload EXCEPT ![l] = new] /\ UNCHANGED <<active, decisions>>
    BY <1>5, <2>1, <2>3, <2>4 DEF SaveRule
  <2>6. Head(todo) \in ParsedRule /\ Tail(todo) \in Seq(ParsedRule)
    BY <2>2
  <2>7. kept \in Seq(GoodRule)
    <3>1. CASE ValidRule(Head(todo), NamesOf(valid))
      <4>1. Head(todo) \in GoodRule
        BY <2>6, <3>1 DEF ValidRule, GoodRule
      <4> QED
        BY <2>2, <2>3, <3>1, <4>1
    <3>2. CASE ~ValidRule(Head(todo), NamesOf(valid))
      BY <2>2, <2>3, <3>2
    <3> QED
      BY <3>1, <3>2
  <2>8. new.todo = Tail(todo) /\ new.valid = kept
    BY <2>2, <2>4 DEF ReloadAt
  <2> QED
    BY <1>3, <2>5, <2>6, <2>7, <2>8
<1>6. ASSUME NEW l \in Reloads, SetRules(l) PROVE RulesAreGood'
  <2>1. active' = [active EXCEPT ![reload[l].router] = reload[l].valid]
    BY <1>6 DEF SetRules
  <2>2. \A w \in Routers : active'[w] \in Seq(GoodRule)
    BY <1>1, <2>1 DEF RulesAreGood
  <2>3. reload' = [reload EXCEPT ![l].pc = "answered"] /\ decisions' = decisions
    BY <1>6 DEF SetRules
  <2>4. reload[l] \in ReloadAt
    BY <1>1
  <2>5. \A m \in Reloads : /\ reload'[m].valid = reload[m].valid /\ reload'[m].todo = reload[m].todo
                           /\ reload'[m].pc = "saving" => reload[m].pc = "saving"
    BY <1>1, <2>3, <2>4 DEF ReloadAt
  <2> QED
    BY <2>2, <2>3, <2>5 DEF RulesAreGood
<1>7. ASSUME NEW l \in Reloads, ReloadFails(l) PROVE RulesAreGood'
  <2>1. PICK new : new = [reload[l] EXCEPT !.pc = "failed"]
    OBVIOUS
  <2>2. new.pc = "failed" /\ new.valid = reload[l].valid
    BY <1>1, <2>1 DEF ReloadAt
  <2>3. reload' = [reload EXCEPT ![l] = new] /\ UNCHANGED <<active, decisions>>
    BY <1>7, <2>1 DEF ReloadFails
  <2>4. new.valid \in Seq(GoodRule)
    BY <2>2 DEF RulesAreGood
  <2> QED
    BY <1>3, <2>2, <2>3, <2>4
<1>8. ASSUME NEW w \in Routers, NEW event \in RoutedEvents, Route(w, event) PROVE RulesAreGood'
  <2>1. PICK q \in Seq(GoodRule) : q = active[w]
    BY DEF RulesAreGood
  <2>2. PICK e : e = [of |-> q, event |-> event, decision |-> Evaluate(q, event)]
    OBVIOUS
  <2>3. decisions' = decisions \cup {e} /\ UNCHANGED <<active, reload>>
    BY <1>8, <2>1, <2>2 DEF Route
  <2>4. IsDecision(e.decision)
    BY <2>2, GoodRulesDecide
  <2>5. \A d \in decisions' : IsDecision(d.decision)
    BY <2>3, <2>4 DEF RulesAreGood
  <2> QED
    BY <2>3, <2>5 DEF RulesAreGood
<1>9. CASE EditRules \/ UNCHANGED routingVars
  BY <1>2, <1>9 DEF EditRules, routingVars
<1> QED
  BY <1>4, <1>5, <1>6, <1>7, <1>8, <1>9 DEF RoutingNext

LEMMA InvariantRouting == RoutingSpec => [](RoutingInv /\ RulesAreGood)
<1>1. RoutingInit => RulesAreGood
  <2> SUFFICES ASSUME RoutingInit PROVE RulesAreGood
    OBVIOUS
  <2>1. <<>> \in Seq(GoodRule) /\ decisions = {}
    BY DEF RoutingInit
  <2>2. /\ \A l \in Reloads : reload[l].pc = "idle" /\ reload[l].valid = <<>>
        /\ \A w \in Routers : active[w] = <<>>
    BY DEF RoutingInit, IdleReload
  <2> QED
    BY <2>1, <2>2 DEF RulesAreGood
<1> QED
  BY <1>1, InitRouting, NextRouting, NextGoodRules, PTL DEF RoutingSpec

\* The router keeps its types: whatever is edited and reloaded, a decision names destinations, a
\* priority and a template that there are, since files with unknown ones are refused before.
THEOREM RoutingTypeCorrect == RoutingSpec => []RoutingTypeOK
<1>1. RoutingInv /\ RulesAreGood => RoutingTypeOK
  BY DEF RoutingInv, RoutingTypes, ReloadAt, RulesAreGood, IsDecision, RoutingTypeOK
<1> QED
  BY <1>1, InvariantRouting, PTL

HIDE RoutingAssumption

-----------------------------------------------------------------------------
(* The log files.                                                          *)

FileAt == [there : BOOLEAN, entries : SUBSET Entries, mtime : 0 .. LastDay]
ArchiveAt == [there : BOOLEAN, whole : BOOLEAN, entries : SUBSET Entries, mtime : 0 .. LastDay]
PackerAt == [pc : {"idle", "open", "copy", "unlink", "failed"}, file : LogFile \cup {NoLogFile},
             entries : SUBSET Entries]

EnforcedType == enforced \subseteq [plain : SUBSET LogFile, zips : SUBSET LogFile]
LogTypes ==
    /\ today \in 0 .. LastDay
    /\ plain \in [LogFile -> FileAt]
    /\ gz \in [LogFile -> ArchiveAt]
    /\ packer \in [Compressors -> PackerAt]
    /\ sent \in [LogFile -> SUBSET Entries]
    /\ expired \subseteq LogFile /\ contended \subseteq LogFile
    /\ EnforcedType

\* A file is written on its day only, and packed later.
DaysPass ==
    /\ \A f \in LogFile : plain[f].there => plain[f].mtime = f[1]
    /\ \A c \in Compressors :
         packer[c].pc \in {"open", "copy", "unlink"} => /\ packer[c].file \in LogFile
                                                        /\ packer[c].file[1] < today

\* What the run that has a file open finds: nobody else's archive, and later its own.
PackerKnows(c) ==
    LET f == packer[c].file
        Alone == \A d \in Compressors : d \in OpenBy(f) => d = c
    IN  /\ packer[c].pc \in {"open", "copy", "unlink"} =>
              plain[f].there /\ packer[c].entries = plain[f].entries
        /\ packer[c].pc = "open" => ~gz[f].there
        /\ packer[c].pc \in {"copy", "unlink"} => gz[f].there /\ Alone
        /\ packer[c].pc = "copy" => ~gz[f].whole
        /\ packer[c].pc = "unlink" => gz[f].whole /\ gz[f].entries = plain[f].entries

Kept == LogFile \ (expired \cup contended)
PackersKnow == \A c \in Compressors : packer[c].file \in Kept => PackerKnows(c)
NoArchiveIsEmpty == \A f \in LogFile : ~gz[f].there => ~gz[f].whole

LogInv == LogTypes /\ DaysPass /\ PackersKnow /\ NoArchiveIsEmpty /\ EntriesSurvive

USE LogFilesAssumption

LEMMA NothingEnforced == ASSUME enforced' = {} PROVE EnforcedType'
  BY DEF EnforcedType

LEMMA InitLogs == LogFilesInit => LogInv
<1> SUFFICES ASSUME LogFilesInit PROVE LogInv
  OBVIOUS
<1> USE DEF LogFilesInit, NoFile, NoGz, IdlePacker
<1>1. LogTypes
  BY DEF LogTypes, EnforcedType, FileAt, ArchiveAt, PackerAt
<1>2. DaysPass /\ PackersKnow /\ NoArchiveIsEmpty /\ EntriesSurvive
  BY DEF DaysPass, PackersKnow, Kept, NoArchiveIsEmpty, EntriesSurvive
<1> QED
  BY <1>1, <1>2 DEF LogInv

LEMMA WriteKeeps ==
    ASSUME LogInv, NEW e \in Entries, WriteEntry(e) PROVE LogInv'
<1>1. LogTypes /\ DaysPass /\ PackersKnow /\ NoArchiveIsEmpty /\ EntriesSurvive
  BY DEF LogInv
<1>2. UNCHANGED <<today, gz, packer, expired, contended>>
  BY DEF WriteEntry
<1>3. PICK done \in SUBSET {f \in LogFile : f[1] = today} :
        /\ plain' = [f \in LogFile |-> IF f \in done THEN Put(f, e)[f] ELSE plain[f]]
        /\ sent' = [f \in LogFile |-> IF f \in done THEN sent[f] \cup {e} ELSE sent[f]]
  <2>1. \A x \in Extensions : <<today, x>> \in LogFile /\ <<today, x>>[1] = today
    BY <1>1 DEF LogTypes, LogFile
  <2>2. {<<today, x>> : x \in Extensions} \subseteq {f \in LogFile : f[1] = today}
    BY <2>1
  <2>3. {<<today, "log">>} \subseteq {f \in LogFile : f[1] = today}
    BY <2>1 DEF Extensions
  <2> QED
    BY <2>2, <2>3 DEF WriteEntry
<1>4. \A f \in LogFile : f \in done =>
          plain'[f] = [there |-> TRUE, entries |-> plain[f].entries \cup {e}, mtime |-> today]
  BY <1>1, <1>3 DEF LogTypes, Put
<1>5. \A f \in LogFile : f \notin done => plain'[f] = plain[f] /\ sent'[f] = sent[f]
  BY <1>3
<1>6. LogTypes'
  <2>1. \A f \in LogFile : plain'[f] \in FileAt
    <3> SUFFICES ASSUME NEW f \in LogFile PROVE plain'[f] \in FileAt
      OBVIOUS
    <3>1. plain[f] \in FileAt /\ today \in 0 .. LastDay
      BY <1>1 DEF LogTypes
    <3>2. CASE f \in done
      <4>1. plain'[f] = [there |-> TRUE, entries |-> plain[f].entries \cup {e}, mtime |-> today]
        BY <1>4, <3>2
      <4>2. plain[f].entries \cup {e} \in SUBSET Entries
        BY <3>1 DEF FileAt
      <4> QED
        BY <3>1, <4>1, <4>2 DEF FileAt
    <3> QED
      BY <1>5, <3>1, <3>2
  <2>2. plain' \in [LogFile -> FileAt]
    BY <1>3, <2>1
  <2>3. sent' \in [LogFile -> SUBSET Entries]
    BY <1>1, <1>3 DEF LogTypes
  <2> QED
    BY <1>1, <1>2, <2>2, <2>3, NothingEnforced DEF LogTypes, WriteEntry
<1>7. DaysPass'
  <2>1. ASSUME NEW f \in LogFile, plain'[f].there PROVE plain'[f].mtime = f[1]
    <3>1. CASE f \in done
      <4>1. plain'[f] = [there |-> TRUE, entries |-> plain[f].entries \cup {e}, mtime |-> today]
        BY <1>4, <3>1
      <4>2. f[1] = today
        BY <1>3, <3>1
      <4> QED
        BY <4>1, <4>2
    <3> QED
      BY <1>1, <1>5, <2>1, <3>1 DEF DaysPass
  <2> QED
    BY <1>1, <1>2, <2>1 DEF DaysPass
<1>8. PackersKnow'
  <2> SUFFICES ASSUME NEW c \in Compressors, packer[c].file \in Kept PROVE PackerKnows(c)'
    BY <1>2 DEF PackersKnow, Kept
  <2>1. PackerKnows(c)
    BY <1>1 DEF PackersKnow
  <2>2. packer[c].pc \in {"open", "copy", "unlink"} => packer[c].file \notin done
    BY <1>1, <1>3 DEF DaysPass, LogTypes
  <2> QED
    BY <1>2, <1>5, <2>1, <2>2 DEF PackerKnows, Kept, OpenBy
<1>9. EntriesSurvive'
  <2> SUFFICES ASSUME NEW f \in LogFile \ (expired \cup contended)
               PROVE  sent'[f] \subseteq plain'[f].entries \cup (IF gz[f].whole THEN gz[f].entries ELSE {})
    BY <1>2 DEF EntriesSurvive
  <2>1. sent[f] \subseteq plain[f].entries \cup (IF gz[f].whole THEN gz[f].entries ELSE {})
    BY <1>1 DEF EntriesSurvive
  <2>2. CASE f \in done
    <3>1. sent'[f] = sent[f] \cup {e}
      BY <1>3, <2>2
    <3>2. plain'[f] = [there |-> TRUE, entries |-> plain[f].entries \cup {e}, mtime |-> today]
      BY <1>4, <2>2
    <3> QED
      BY <2>1, <3>1, <3>2
  <2> QED
    BY <1>5, <2>1, <2>2
<1> QED
  BY <1>1, <1>2, <1>6, <1>7, <1>8, <1>9 DEF LogInv, NoArchiveIsEmpty

\* A step of run c on a file f: no other file and no other run is touched.
LEMMA PackerStepKeeps ==
    ASSUME LogInv, NEW c \in Compressors,
           NEW f \in LogFile, f[1] < today,
           NEW p \in PackerAt, packer' = [packer EXCEPT ![c] = p], p.file \in {f, NoLogFile},
           packer[c].pc \in {"open", "copy", "unlink"} => packer[c].file = f,
           p.pc \in {"open", "copy", "unlink"} => p.file = f,
           plain' \in [LogFile -> FileAt], \A g \in LogFile \ {f} : plain'[g] = plain[g],
           plain'[f].there => plain'[f] = plain[f],
           gz' \in [LogFile -> ArchiveAt], \A g \in LogFile \ {f} : gz'[g] = gz[g],
           ~gz'[f].there => ~gz'[f].whole,
           UNCHANGED <<today, sent, expired>>, enforced' = {},
           contended' \in {contended, contended \cup {f}},
           f \in Kept' =>
               /\ \A d \in Compressors : packer'[d].file = f => PackerKnows(d)'
               /\ sent[f] \subseteq plain'[f].entries \cup (IF gz'[f].whole THEN gz'[f].entries ELSE {})
    PROVE  LogInv'
<1>1. LogTypes /\ DaysPass /\ PackersKnow /\ NoArchiveIsEmpty /\ EntriesSurvive
  BY DEF LogInv
<1>2. LogTypes'
  BY <1>1, NothingEnforced DEF LogTypes
<1>3. packer'[c] = p /\ \A d \in Compressors \ {c} : packer'[d] = packer[d]
  BY <1>1 DEF LogTypes
<1>4. DaysPass'
  BY <1>1, <1>3 DEF DaysPass
<1>5. NoArchiveIsEmpty'
  BY <1>1 DEF NoArchiveIsEmpty
<1>6. EntriesSurvive'
  BY <1>1 DEF EntriesSurvive, Kept
<1>7. PackersKnow'
  <2> SUFFICES ASSUME NEW d \in Compressors, packer'[d].file \in Kept' PROVE PackerKnows(d)'
    BY DEF PackersKnow
  <2>1. CASE packer'[d].file = f
    BY <2>1
  <2>2. CASE packer'[d].file # f
    <3>1. d # c /\ packer'[d] = packer[d]
      BY <1>3, <2>2 DEF Kept
    <3>2. PICK g \in LogFile : g = packer[d].file /\ g \in Kept /\ g # f
      BY <2>2, <3>1 DEF Kept
    <3>3. PackerKnows(d)
      BY <1>1, <3>2 DEF PackersKnow
    <3>4. \A b \in Compressors : b \in OpenBy(g)' <=> b \in OpenBy(g)
      BY <1>3, <3>2 DEF OpenBy
    <3> QED
      BY <3>1, <3>2, <3>3, <3>4 DEF PackerKnows
  <2> QED
    BY <2>1, <2>2
<1> QED
  BY <1>2, <1>4, <1>5, <1>6, <1>7 DEF LogInv

LEMMA CompressKeeps ==
    ASSUME LogInv, NEW c \in Compressors, NEW f \in LogFile, Compress(c, f) PROVE LogInv'
<1>1. LogTypes /\ DaysPass /\ PackersKnow /\ NoArchiveIsEmpty /\ EntriesSurvive
  BY DEF LogInv
<1>2. PICK p \in PackerAt : /\ p.pc = "open" /\ p.file = f /\ p.entries = plain[f].entries
                            /\ packer' = [packer EXCEPT ![c] = p]
  <2>1. plain[f].entries \in SUBSET Entries
    BY <1>1 DEF LogTypes, FileAt
  <2> QED
    BY <2>1 DEF Compress, PackerAt
<1>3. /\ packer[c].pc = "idle" /\ plain[f].there /\ ~gz[f].there
      /\ UNCHANGED <<today, plain, gz, sent, expired, contended>> /\ enforced' = {}
  BY DEF Compress, NotPackedYet
<1>4. f[1] < today
  <2>1. plain[f].mtime = f[1] /\ plain[f].mtime + 1 < today
    BY <1>1 DEF Compress, OlderThan, DaysPass
  <2>2. f[1] \in Nat /\ today \in Nat
    BY <1>1 DEF LogTypes, LogFile
  <2> QED
    BY <2>1, <2>2
<1>5. packer'[c] = p /\ \A d \in Compressors \ {c} : packer'[d] = packer[d]
  BY <1>1, <1>2 DEF LogTypes
<1>6. f \in Kept' => \A d \in Compressors : packer'[d].file = f => PackerKnows(d)'
  <2> SUFFICES ASSUME f \in Kept, NEW d \in Compressors, packer'[d].file = f PROVE PackerKnows(d)'
    BY <1>3 DEF Kept
  <2>1. d # c => PackerKnows(d) /\ packer'[d] = packer[d]
    BY <1>1, <1>5 DEF PackersKnow
  <2>2. packer'[d].pc \notin {"copy", "unlink"}
    BY <1>2, <1>3, <1>5, <2>1 DEF PackerKnows
  <2>3. packer'[d].pc = "open" => packer'[d].entries = plain[f].entries
    BY <1>2, <1>5, <2>1 DEF PackerKnows
  <2> QED
    BY <1>3, <2>2, <2>3 DEF PackerKnows
<1>7. /\ plain' \in [LogFile -> FileAt] /\ gz' \in [LogFile -> ArchiveAt]
      /\ ~gz'[f].there => ~gz'[f].whole
  BY <1>1, <1>3 DEF LogTypes, NoArchiveIsEmpty
<1>8. f \in Kept' => sent[f] \subseteq plain'[f].entries \cup (IF gz'[f].whole THEN gz'[f].entries ELSE {})
  BY <1>1, <1>3 DEF EntriesSurvive, Kept
<1> QED
  BY <1>2, <1>3, <1>4, <1>6, <1>7, <1>8, PackerStepKeeps

LEMMA ArchiveKeeps ==
    ASSUME LogInv, NEW c \in Compressors,
           CreateArchive(c) \/ Copy(c) \/ Unlink(c) \/ PackerFails(c)
    PROVE  LogInv'
<1>1. LogTypes /\ DaysPass /\ PackersKnow /\ NoArchiveIsEmpty /\ EntriesSurvive
  BY DEF LogInv
<1>2. packer[c].pc \in {"open", "copy", "unlink"} /\ packer[c] \in PackerAt
  BY <1>1 DEF LogTypes, CreateArchive, Copy, Unlink, PackerFails
<1>3. PICK f \in LogFile : f = packer[c].file /\ f[1] < today
  BY <1>1, <1>2 DEF DaysPass
<1>4. /\ plain[f] \in FileAt /\ gz[f] \in ArchiveAt
      /\ NoFile \in FileAt /\ NoGz \in ArchiveAt /\ IdlePacker \in PackerAt /\ FailedPacker \in PackerAt
  BY <1>1 DEF LogTypes, NoFile, NoGz, IdlePacker, FailedPacker, FileAt, ArchiveAt, PackerAt
<1>5. FailedPacker.file = NoLogFile /\ IdlePacker.file = NoLogFile /\ NoLogFile # f
  BY DEF FailedPacker, IdlePacker
<1>6. /\ FailedPacker.pc \notin {"open", "copy", "unlink"}
      /\ IdlePacker.pc \notin {"open", "copy", "unlink"}
  BY DEF FailedPacker, IdlePacker
<1>7. UNCHANGED <<today, sent, expired>> /\ enforced' = {}
  BY DEF CreateArchive, Copy, Unlink, PackerFails
<1>8. f \in Kept => /\ PackerKnows(c)
                    /\ \A d \in Compressors : packer[d].file = f => PackerKnows(d)
                    /\ sent[f] \subseteq plain[f].entries \cup (IF gz[f].whole THEN gz[f].entries ELSE {})
  BY <1>1, <1>3 DEF PackersKnow, EntriesSurvive, Kept
\* The run lets go of f.
<1>9. ASSUME NEW p \in {IdlePacker, FailedPacker}, packer' = [packer EXCEPT ![c] = p],
             UNCHANGED gz, contended' \in {contended, contended \cup {f}},
             \/ UNCHANGED plain
             \/ packer[c].pc = "unlink" /\ plain' = [plain EXCEPT ![f] = NoFile]
      PROVE  LogInv'
  <2>1. packer'[c] = p /\ \A d \in Compressors \ {c} : packer'[d] = packer[d]
    BY <1>1, <1>9 DEF LogTypes
  <2>2. /\ plain' \in [LogFile -> FileAt] /\ \A g \in LogFile \ {f} : plain'[g] = plain[g]
        /\ plain'[f].there => plain'[f] = plain[f]
    <3>1. CASE UNCHANGED plain
      BY <1>1, <3>1 DEF LogTypes
    <3>2. CASE plain' = [plain EXCEPT ![f] = NoFile]
      <4>1. plain'[f] = NoFile /\ ~NoFile.there
        BY <1>1, <3>2 DEF LogTypes, NoFile
      <4> QED
        BY <1>1, <1>4, <3>2, <4>1 DEF LogTypes
    <3> QED
      BY <1>9, <3>1, <3>2
  <2>3. ASSUME f \in Kept'
        PROVE  /\ \A d \in Compressors : packer'[d].file = f => PackerKnows(d)'
               /\ sent[f] \subseteq plain'[f].entries \cup (IF gz'[f].whole THEN gz'[f].entries ELSE {})
    <3>1. f \in Kept
      BY <1>7, <1>9, <2>3 DEF Kept
    <3>2. CASE UNCHANGED plain
      <4> SUFFICES ASSUME NEW d \in Compressors, packer'[d].file = f PROVE PackerKnows(d)'
        BY <1>8, <1>9, <3>1, <3>2
      <4>1. d # c /\ packer'[d] = packer[d] /\ PackerKnows(d)
        BY <1>5, <1>8, <1>9, <2>1, <3>1
      <4>2. \A b \in Compressors : b \in OpenBy(f)' => b \in OpenBy(f)
        BY <1>6, <1>9, <2>1 DEF OpenBy
      <4> QED
        BY <1>9, <3>2, <4>1, <4>2 DEF PackerKnows
    <3>3. CASE packer[c].pc = "unlink" /\ plain' = [plain EXCEPT ![f] = NoFile]
      <4>1. gz[f].whole /\ gz[f].entries = plain[f].entries
            /\ \A d \in Compressors : d \in OpenBy(f) => d = c
        BY <1>3, <1>8, <3>1, <3>3 DEF PackerKnows
      <4>2. \A d \in Compressors : packer'[d].file = f => packer'[d].pc \notin {"open", "copy", "unlink"}
        BY <1>5, <1>9, <2>1, <4>1 DEF OpenBy
      <4> QED
        BY <1>8, <1>9, <3>1, <4>1, <4>2 DEF PackerKnows
    <3> QED
      BY <1>9, <3>2, <3>3
  <2>4. gz' \in [LogFile -> ArchiveAt] /\ (~gz'[f].there => ~gz'[f].whole)
    BY <1>1, <1>9 DEF LogTypes, NoArchiveIsEmpty
  <2>5. p \in PackerAt /\ p.file = NoLogFile /\ p.pc \notin {"open", "copy", "unlink"}
    BY <1>4, <1>5, <1>6, <1>9
  <2> QED
    BY <1>2, <1>3, <1>7, <1>9, <2>2, <2>3, <2>4, <2>5, PackerStepKeeps
\* The run goes on, from pc to its next.
<1>10. ASSUME NEW pc \in {"copy", "unlink"}, packer' = [packer EXCEPT ![c].pc = pc], UNCHANGED plain,
              NEW z \in ArchiveAt, gz' = [gz EXCEPT ![f] = z], ~z.there => ~z.whole,
              contended' \in {contended, contended \cup {f}},
              f \in Kept' => /\ z.there
                             /\ pc = "copy" => ~z.whole
                             /\ packer[c].pc # "unlink"
                             /\ pc = "unlink" => z.whole /\ z.entries = packer[c].entries
                             /\ \A d \in Compressors : d \in OpenBy(f) => d = c
       PROVE  LogInv'
  <2> DEFINE p == [packer[c] EXCEPT !.pc = pc]
  <2>1. p \in PackerAt /\ p.pc = pc /\ p.file = f /\ p.entries = packer[c].entries
        /\ packer' = [packer EXCEPT ![c] = p]
    BY <1>1, <1>2, <1>3, <1>10 DEF PackerAt, LogTypes
  <2> HIDE DEF p
  <2>2. packer'[c] = p /\ \A d \in Compressors \ {c} : packer'[d] = packer[d]
    BY <1>1, <2>1 DEF LogTypes
  <2>3. /\ gz' \in [LogFile -> ArchiveAt] /\ \A g \in LogFile \ {f} : gz'[g] = gz[g]
        /\ gz'[f] = z
    BY <1>1, <1>10 DEF LogTypes
  <2>4. ASSUME f \in Kept'
        PROVE  /\ \A d \in Compressors : packer'[d].file = f => PackerKnows(d)'
               /\ sent[f] \subseteq plain'[f].entries \cup (IF gz'[f].whole THEN gz'[f].entries ELSE {})
    <3>1. f \in Kept
      BY <1>7, <1>10, <2>4 DEF Kept
    <3>2. plain[f].there /\ packer[c].entries = plain[f].entries
      BY <1>2, <1>3, <1>8, <3>1 DEF PackerKnows
    <3>3. sent[f] \subseteq plain[f].entries
      BY <1>2, <1>3, <1>1, <1>8, <1>10, <2>4, <3>1, <3>2 DEF PackerKnows, NoArchiveIsEmpty
    <3> SUFFICES ASSUME NEW d \in Compressors, packer'[d].file = f PROVE PackerKnows(d)'
      BY <1>10, <3>3
    <3>4. CASE d = c
      <4>1. \A b \in Compressors : b \in OpenBy(f)' => b = c
        BY <1>10, <2>2, <2>4 DEF OpenBy
      <4> QED
        BY <1>10, <2>1, <2>2, <2>3, <2>4, <3>2, <3>4, <4>1 DEF PackerKnows
    <3>5. CASE d # c
      <4>1. packer'[d] = packer[d] /\ d \notin OpenBy(f)
        BY <1>10, <2>2, <2>4, <3>5
      <4> QED
        BY <4>1 DEF PackerKnows, OpenBy
    <3> QED
      BY <3>4, <3>5
  <2>5. /\ plain' \in [LogFile -> FileAt] /\ \A g \in LogFile : plain'[g] = plain[g]
        /\ ~gz'[f].there => ~gz'[f].whole
    BY <1>1, <1>10, <2>3 DEF LogTypes
  <2> QED
    BY <1>2, <1>3, <1>7, <1>10, <2>1, <2>3, <2>4, <2>5, PackerStepKeeps, ZenonT(40)
<1>11. CASE CreateArchive(c)
  <2>1. CASE ~plain[f].there
    BY <1>3, <1>9, <1>11, <2>1 DEF CreateArchive
  <2>2. CASE plain[f].there
    <3> DEFINE z == [NoGz EXCEPT !.there = TRUE, !.mtime = today]
    <3>1. z \in ArchiveAt /\ z.there /\ ~z.whole
      BY <1>1 DEF LogTypes, ArchiveAt, NoGz
    <3> HIDE DEF z
    <3>2. /\ gz' = [gz EXCEPT ![f] = z] /\ packer' = [packer EXCEPT ![c].pc = "copy"]
          /\ UNCHANGED plain /\ packer[c].pc = "open"
          /\ contended' = IF OpenBy(f) # {c} THEN contended \cup {f} ELSE contended
      BY <1>3, <1>11, <2>2 DEF CreateArchive, z
    <3>3. f \in Kept' => \A d \in Compressors : d \in OpenBy(f) => d = c
      BY <3>2 DEF Kept
    <3> QED
      BY <1>10, <3>1, <3>2, <3>3
  <2> QED
    BY <2>1, <2>2
<1>12. CASE Copy(c)
  <2>1. /\ packer[c].pc = "copy" /\ packer' = [packer EXCEPT ![c].pc = "unlink"]
        /\ UNCHANGED <<plain, contended>>
    BY <1>12 DEF Copy
  <2>2. f \in Kept' => /\ gz[f].there
                       /\ \A d \in Compressors : d \in OpenBy(f) => d = c
    BY <1>3, <1>7, <1>8, <2>1 DEF Kept, PackerKnows
  <2>3. CASE ~gz[f].there
    <3>1. gz' = [gz EXCEPT ![f] = gz[f]] /\ (~gz[f].there => ~gz[f].whole)
      BY <1>1, <1>3, <1>12, <2>3 DEF Copy, LogTypes, NoArchiveIsEmpty
    <3> QED
      BY <1>4, <1>10, <2>1, <2>2, <2>3, <3>1
  <2>4. CASE gz[f].there
    <3> DEFINE z == [there |-> TRUE, whole |-> TRUE, mtime |-> today, entries |-> packer[c].entries]
    <3>1. z \in ArchiveAt /\ z.there /\ z.whole /\ z.entries = packer[c].entries
      BY <1>1, <1>2 DEF LogTypes, ArchiveAt, PackerAt
    <3>2. gz' = [gz EXCEPT ![f] = z]
      BY <1>3, <1>12, <2>4 DEF Copy
    <3> HIDE DEF z
    <3> QED
      BY <1>10, <2>1, <2>2, <3>1, <3>2
  <2> QED
    BY <2>3, <2>4
<1>13. CASE Unlink(c)
  BY <1>3, <1>9, <1>13 DEF Unlink
<1>14. CASE PackerFails(c)
  BY <1>9, <1>14 DEF PackerFails
<1> QED
  BY <1>11, <1>12, <1>13, <1>14

\* The bytes of a set of files: a number, and no more than what a larger set holds.
LEMMA HeldIsFinite ==
    ASSUME NEW S \in SUBSET LogFile
    PROVE  IsFiniteSet(S) /\ IsFiniteSet(Held(S)) /\ Size(S, {}) \in Nat
<1>1. IsFiniteSet(0 .. LastDay)
  BY FS_Interval
<1>2. IsFiniteSet(LogFile)
  <2>1. IsFiniteSet({"log"} \cup {"jsonl"})
    BY FS_Singleton, FS_Union
  <2>2. Extensions = {"log"} \cup {"jsonl"}
    BY DEF Extensions
  <2> QED
    BY <1>1, <2>1, <2>2, FS_Product DEF LogFile
<1>3. IsFiniteSet(S)
  BY <1>2, FS_Subset
<1>4. IsFiniteSet(S \X Entries) /\ Held(S) \in SUBSET (S \X Entries)
  BY <1>3, FS_Product DEF Held
<1>5. IsFiniteSet(Held(S))
  BY <1>4, FS_Subset
<1> QED
  BY <1>3, <1>5, FS_CardinalityType, FS_EmptySet DEF Size

\* Two finite sets that are apart.
LEMMA SizeOfTwo ==
    ASSUME NEW A, NEW B, IsFiniteSet(A), IsFiniteSet(B), A \cap B = {}
    PROVE  Cardinality(A \cup B) = Cardinality(A) + Cardinality(B)
<1>1. Cardinality(A \cup B) = Cardinality(A) + Cardinality(B) - Cardinality({})
  BY FS_Union
<1>2. Cardinality(A) \in Nat /\ Cardinality(B) \in Nat /\ Cardinality({}) = 0
  BY FS_CardinalityType, FS_EmptySet
<1> QED
  BY <1>1, <1>2

\* Two sets of files that are apart hold together what each of them holds.
LEMMA HeldOfTwo ==
    ASSUME NEW S \in SUBSET LogFile, NEW T \in SUBSET LogFile, S \cap T = {}
    PROVE  Cardinality(Held(S \cup T)) = Cardinality(Held(S)) + Cardinality(Held(T))
<1>1. Held(S \cup T) = Held(S) \cup Held(T) /\ Held(S) \cap Held(T) = {}
  BY DEF Held
<1>2. IsFiniteSet(Held(S)) /\ IsFiniteSet(Held(T))
  BY HeldIsFinite
<1>3. Cardinality(Held(S) \cup Held(T)) = Cardinality(Held(S)) + Cardinality(Held(T))
  BY <1>1, <1>2, SizeOfTwo
<1> QED
  BY <1>1, <1>3

\* enforce() leaves what is within the limit or could not be deleted.
LEMMA EnforceBounds ==
    ASSUME LogTypes, Enforce PROVE StorageIsBounded'
<1> DEFINE P == Plain \ Expired
           Z == Zipped \ ZippedExpired
           total == Size(P, Z)
           target == IF total > MAX_TOTAL
                     THEN RetentionTarget(total - MAX_TOTAL, Size(Expired, ZippedExpired)) ELSE 0
<1>1. PICK kept \in SUBSET Expired, zkept \in SUBSET ZippedExpired :
      \E more \in Oldest(Zipped \ (ZippedExpired \ zkept), target) : \E stay \in SUBSET more :
          /\ Delete(Expired \ kept, (ZippedExpired \ zkept) \cup (more \ stay))
          /\ enforced' = {[plain |-> kept, zips |-> (zkept \ more) \cup stay]}
  BY DEF Enforce
<1>2a. PICK more \in Oldest(Zipped \ (ZippedExpired \ zkept), target) : \E stay \in SUBSET more :
          /\ Delete(Expired \ kept, (ZippedExpired \ zkept) \cup (more \ stay))
          /\ enforced' = {[plain |-> kept, zips |-> (zkept \ more) \cup stay]}
  BY <1>1
<1>2. PICK stay \in SUBSET more :
          /\ Delete(Expired \ kept, (ZippedExpired \ zkept) \cup (more \ stay))
          /\ enforced' = {[plain |-> kept, zips |-> (zkept \ more) \cup stay]}
  BY <1>2a
<1> DEFINE D == Expired
           Y == ZippedExpired
<1>3. /\ D \subseteq Plain /\ Y \subseteq Zipped /\ Plain \subseteq LogFile /\ Zipped \subseteq LogFile
      /\ P = Plain \ D /\ Z = Zipped \ Y
  BY DEF Plain, Zipped, Expired, ZippedExpired
<1>4. /\ more \subseteq Z \cup zkept /\ Zipped \ (Y \ zkept) = Z \cup zkept
      /\ more = Z \cup zkept \/ Cardinality(more) = target
  BY <1>2, <1>3 DEF Oldest
<1>5. /\ plain' = [f \in LogFile |-> IF f \in D \ kept THEN NoFile ELSE plain[f]]
      /\ gz' = [f \in LogFile |-> IF f \in (Y \ zkept) \cup (more \ stay) THEN NoGz ELSE gz[f]]
  BY <1>2 DEF Delete
<1>6. Plain' = P \cup kept /\ Held(Plain)' = Held(P \cup kept) /\ \A f \in kept : plain'[f] = plain[f]
  <2>1. Plain' = P \cup kept
    BY <1>3, <1>5 DEF Plain, NoFile
  <2>2. \A f \in P \cup kept : f \in LogFile /\ plain'[f] = plain[f]
    BY <1>3, <1>5
  <2> QED
    BY <2>1, <2>2 DEF Held
<1>7. Zipped' = ((Z \cup zkept) \ more) \cup stay
  BY <1>3, <1>4, <1>5 DEF Zipped, NoGz
<1>8. /\ Cardinality(Held(P)) \in Nat /\ Cardinality(Held(D)) \in Nat /\ Cardinality(Held(kept)) \in Nat
      /\ Cardinality(Held(P \cup kept)) = Cardinality(Held(P)) + Cardinality(Held(kept))
      /\ Cardinality(Held(kept)) <= Cardinality(Held(D))
  <2>1. Held(kept) \in SUBSET Held(D) /\ kept \in SUBSET LogFile /\ P \in SUBSET LogFile /\ D \in SUBSET LogFile
        /\ P \cap kept = {}
    BY <1>3 DEF Held
  <2>2. IsFiniteSet(Held(D)) /\ IsFiniteSet(Held(P)) /\ IsFiniteSet(Held(kept))
    BY <2>1, HeldIsFinite
  <2> QED
    BY <2>1, <2>2, HeldOfTwo, FS_Subset, FS_CardinalityType
<1> DEFINE left == (zkept \ more) \cup stay
<1>9. /\ IsFiniteSet(Z) /\ IsFiniteSet(Y) /\ IsFiniteSet(zkept) /\ IsFiniteSet(more) /\ IsFiniteSet(stay)
      /\ IsFiniteSet(Z \cup zkept)
  <2>1. Z \in SUBSET LogFile /\ Y \in SUBSET LogFile /\ Z \cup zkept \in SUBSET LogFile
    BY <1>3
  <2>2. IsFiniteSet(Z) /\ IsFiniteSet(Y) /\ IsFiniteSet(Z \cup zkept)
    BY <2>1, HeldIsFinite
  <2> QED
    BY <1>4, <2>2, FS_Subset
<1>10. /\ Cardinality(Z) \in Nat /\ Cardinality(Y) \in Nat /\ Cardinality(zkept) \in Nat
       /\ Cardinality(more) \in Nat /\ Cardinality(stay) \in Nat /\ Cardinality(left) \in Nat
       /\ Cardinality(Z \cup zkept) = Cardinality(Z) + Cardinality(zkept)
       /\ Cardinality(zkept) <= Cardinality(Y)
       /\ Cardinality((Z \cup zkept) \ more) = Cardinality(Z \cup zkept) - Cardinality(more)
  <2>1. Z \cap zkept = {} /\ (Z \cup zkept) \cap more = more
    BY <1>3, <1>4
  <2>2. Cardinality(Z \cup zkept) = Cardinality(Z) + Cardinality(zkept)
    BY <1>9, <2>1, SizeOfTwo
  <2>3. Cardinality((Z \cup zkept) \ more) = Cardinality(Z \cup zkept) - Cardinality(more)
    BY <1>9, <2>1, FS_Difference
  <2>4. IsFiniteSet(left)
    BY <1>9, FS_Union, FS_Difference
  <2>5. Cardinality(zkept) <= Cardinality(Y)
    BY <1>9, FS_Subset
  <2> QED
    BY <1>9, <2>2, <2>3, <2>4, <2>5, FS_CardinalityType
<1>11. /\ Cardinality(Zipped') <= Cardinality((Z \cup zkept) \ more) + Cardinality(stay)
       /\ Cardinality(stay) <= Cardinality(left) /\ Cardinality(Zipped') \in Nat
  <2>1. Zipped' = ((Z \cup zkept) \ more) \cup stay /\ ((Z \cup zkept) \ more) \cap stay = {}
    BY <1>7
  <2>2. IsFiniteSet((Z \cup zkept) \ more) /\ IsFiniteSet(left)
    BY <1>9, FS_Union, FS_Difference
  <2>3. Cardinality(stay) <= Cardinality(left)
    BY <2>2, FS_Subset
  <2>4. IsFiniteSet(((Z \cup zkept) \ more) \cup stay)
    BY <1>9, <2>2, FS_Union
  <2> HIDE DEF Z, left
  <2>5. Cardinality(((Z \cup zkept) \ more) \cup stay)
            = Cardinality((Z \cup zkept) \ more) + Cardinality(stay) - Cardinality({})
    BY <1>9, <2>1, <2>2, FS_Union
  <2>6. Cardinality(((Z \cup zkept) \ more) \cup stay) \in Nat /\ Cardinality(stay) \in Nat
        /\ Cardinality((Z \cup zkept) \ more) \in Nat /\ Cardinality({}) = 0
    BY <1>9, <2>2, <2>4, FS_CardinalityType, FS_EmptySet
  <2> QED
    BY <2>1, <2>3, <2>5, <2>6
<1>12. Size(Plain, Zipped)' = Cardinality(Held(P \cup kept)) + Cardinality(Zipped')
  BY <1>6 DEF Size
<1>13. Size(kept, left)' = Cardinality(Held(kept)) + Cardinality(left)
  <2>1. Held(kept)' = Held(kept)
    BY <1>6 DEF Held
  <2> QED
    BY <2>1 DEF Size
<1>14. SUFFICES \/ Size(Plain, Zipped)' <= MAX_TOTAL + Size(kept, left)'
                \/ Zipped' \subseteq left
  <2>1. enforced' = {[plain |-> kept, zips |-> left]}
    BY <1>2
  <2> QED
    BY <2>1 DEF StorageIsBounded, Size
<1>15. CASE more = Z \cup zkept
  BY <1>7, <1>15
<1>16. CASE Cardinality(more) = target
  <2>1. /\ total = Cardinality(Held(P)) + Cardinality(Z)
        /\ Size(D, Y) = Cardinality(Held(D)) + Cardinality(Y)
    BY DEF Size
  <2>2. \/ /\ total > MAX_TOTAL
           /\ target = Cardinality(Held(D)) + Cardinality(Y) + (total - MAX_TOTAL)
        \/ ~(total > MAX_TOTAL) /\ target = 0
    BY <2>1 DEF RetentionTarget
  <2>3. target = 0 => Cardinality(left) = Cardinality(zkept)
    <3>1. target = 0 => more = {}
      BY <1>9, <1>16, FS_EmptySet
    <3>2. more = {} => stay = {} /\ left = zkept
      BY <1>2
    <3> QED
      BY <3>1, <3>2
  <2> HIDE DEF target, total, left, P, Z, D, Y
  <2>4. MAX_TOTAL \in Nat
    OBVIOUS
  <2>5. CASE total > MAX_TOTAL /\ target = Cardinality(Held(D)) + Cardinality(Y) + (total - MAX_TOTAL)
    <3>1. Size(Plain, Zipped)' <= MAX_TOTAL + Cardinality(Held(kept)) + Cardinality(stay)
      BY <1>8, <1>10, <1>11, <1>12, <1>16, <2>1, <2>4, <2>5
    <3> QED
      BY <1>8, <1>10, <1>11, <1>12, <1>13, <2>4, <3>1
  <2>6. CASE ~(total > MAX_TOTAL) /\ target = 0
    <3>1. Cardinality(stay) <= Cardinality(more) /\ more = {}
      BY <1>2, <1>9, <1>16, <2>6, FS_EmptySet, FS_Subset
    <3>2. Cardinality(stay) = 0
      BY <1>10, <1>16, <2>6, <3>1
    <3> QED
      BY <1>8, <1>10, <1>11, <1>12, <1>13, <1>16, <2>1, <2>3, <2>4, <2>6, <3>2
  <2> QED
    BY <2>2, <2>5, <2>6
<1> QED
  BY <1>4, <1>15, <1>16

\* Deleting files disturbs nothing but them.
LEMMA DeleteKeeps ==
    ASSUME LogInv, NEW D \in SUBSET LogFile, NEW Y \in SUBSET LogFile, Delete(D, Y),
           EnforcedType'
    PROVE  LogInv'
<1>1. LogTypes /\ DaysPass /\ PackersKnow /\ NoArchiveIsEmpty /\ EntriesSurvive
  BY DEF LogInv
<1>2. /\ plain' = [f \in LogFile |-> IF f \in D THEN NoFile ELSE plain[f]]
      /\ gz' = [f \in LogFile |-> IF f \in Y THEN NoGz ELSE gz[f]]
      /\ expired' = expired \cup D \cup Y
      /\ UNCHANGED <<today, packer, sent, contended>>
  BY DEF Delete
<1>3. NoFile \in FileAt /\ NoGz \in ArchiveAt /\ ~NoFile.there /\ ~NoGz.whole
  BY DEF NoFile, NoGz, FileAt, ArchiveAt
<1>4. /\ \A f \in LogFile : plain'[f] \in {plain[f], NoFile} /\ gz'[f] \in {gz[f], NoGz}
      /\ \A f \in Kept' : f \in Kept /\ plain'[f] = plain[f] /\ gz'[f] = gz[f]
  BY <1>2 DEF Kept
<1>5. LogTypes'
  BY <1>1, <1>2, <1>3 DEF LogTypes
<1>6. DaysPass' /\ NoArchiveIsEmpty'
  BY <1>1, <1>2, <1>3, <1>4 DEF DaysPass, NoArchiveIsEmpty
<1>7. PackersKnow'
  BY <1>1, <1>2, <1>4 DEF PackersKnow, PackerKnows, OpenBy
<1>8. EntriesSurvive'
  BY <1>1, <1>2, <1>4 DEF EntriesSurvive, Kept
<1> QED
  BY <1>5, <1>6, <1>7, <1>8 DEF LogInv

LEMMA EnforceKeeps == ASSUME LogInv, Enforce \/ EnforceFails PROVE LogInv'
<1>1. Expired \in SUBSET LogFile /\ ZippedExpired \in SUBSET LogFile /\ Zipped \in SUBSET LogFile
  BY DEF Expired, ZippedExpired, Plain, Zipped
<1>2. CASE EnforceFails
  <2>1. PICK D \in SUBSET LogFile, Y \in SUBSET LogFile : Delete(D, Y) /\ enforced' = {}
    BY <1>1, <1>2 DEF EnforceFails
  <2> QED
    BY <2>1, DeleteKeeps, NothingEnforced
<1>3. CASE Enforce
  <2> DEFINE target == IF Size(Plain \ Expired, Zipped \ ZippedExpired) > MAX_TOTAL
                       THEN RetentionTarget(Size(Plain \ Expired, Zipped \ ZippedExpired) - MAX_TOTAL,
                                            Size(Expired, ZippedExpired))
                       ELSE 0
  <2>1. PICK kept \in SUBSET Expired, zkept \in SUBSET ZippedExpired :
        \E more \in Oldest(Zipped \ (ZippedExpired \ zkept), target) : \E stay \in SUBSET more :
            /\ Delete(Expired \ kept, (ZippedExpired \ zkept) \cup (more \ stay))
            /\ enforced' = {[plain |-> kept, zips |-> (zkept \ more) \cup stay]}
    BY <1>3 DEF Enforce
  <2>2a. PICK more \in Oldest(Zipped \ (ZippedExpired \ zkept), target) : \E stay \in SUBSET more :
            /\ Delete(Expired \ kept, (ZippedExpired \ zkept) \cup (more \ stay))
            /\ enforced' = {[plain |-> kept, zips |-> (zkept \ more) \cup stay]}
    BY <2>1
  <2>2. PICK stay \in SUBSET more :
            /\ Delete(Expired \ kept, (ZippedExpired \ zkept) \cup (more \ stay))
            /\ enforced' = {[plain |-> kept, zips |-> (zkept \ more) \cup stay]}
    BY <2>2a
  <2>3. more \in SUBSET Zipped
    BY <2>2 DEF Oldest
  <2>4. Expired \ kept \in SUBSET LogFile /\ (ZippedExpired \ zkept) \cup (more \ stay) \in SUBSET LogFile
    BY <1>1, <2>3
  <2>5. kept \in SUBSET LogFile /\ (zkept \ more) \cup stay \in SUBSET LogFile
    BY <1>1, <2>3
  <2>6. EnforcedType'
    BY <2>2, <2>5 DEF EnforcedType
  <2> QED
    BY <2>2, <2>4, <2>6, DeleteKeeps
<1> QED
  BY <1>2, <1>3

LEMMA MidnightKeeps == ASSUME LogInv, Midnight PROVE LogInv'
<1>1. /\ UNCHANGED <<plain, gz, packer, sent, expired, contended>>
      /\ today' = today + 1 /\ today < LastDay /\ today \in 0 .. LastDay
  BY DEF Midnight, LogInv, LogTypes
<1>2. DaysPass'
  <2>1. \A c \in Compressors : packer[c].file \in LogFile => packer[c].file[1] \in 0 .. LastDay
    BY DEF LogFile
  <2>2. \A d \in 0 .. LastDay : d < today => d < today + 1
    BY <1>1
  <2> QED
    BY <1>1, <2>1, <2>2 DEF LogInv, DaysPass
<1>3. LogTypes' /\ PackersKnow' /\ NoArchiveIsEmpty' /\ EntriesSurvive'
  BY <1>1, NothingEnforced DEF LogInv, Midnight, LogTypes, PackersKnow, PackerKnows, OpenBy, Kept, NoArchiveIsEmpty, EntriesSurvive
<1> QED
  BY <1>2, <1>3 DEF LogInv

LEMMA NextLogs ==
    LogInv /\ StorageIsBounded /\ [LogFilesNext]_logVars => LogInv' /\ StorageIsBounded'
<1> SUFFICES ASSUME LogInv, StorageIsBounded, [LogFilesNext]_logVars
             PROVE  LogInv' /\ StorageIsBounded'
  OBVIOUS
<1>1. CASE Enforce
  BY <1>1, EnforceKeeps, EnforceBounds DEF LogInv
<1>7. CASE EnforceFails
  <2>1. enforced' = {}
    BY <1>7 DEF EnforceFails
  <2> QED
    BY <1>7, <2>1, EnforceKeeps DEF StorageIsBounded
<1>2. CASE UNCHANGED logVars
  BY <1>2 DEF logVars, LogInv, LogTypes, EnforcedType, DaysPass, PackersKnow, PackerKnows, OpenBy, Kept,
     NoArchiveIsEmpty, EntriesSurvive, StorageIsBounded, Size, Held, Plain, Zipped
<1>3. ASSUME NEW e \in Entries, WriteEntry(e) PROVE LogInv' /\ StorageIsBounded'
  BY <1>3, WriteKeeps DEF WriteEntry, StorageIsBounded
<1>4. CASE Midnight
  BY <1>4, MidnightKeeps DEF Midnight, StorageIsBounded
<1>5. ASSUME NEW c \in Compressors, NEW f \in LogFile, Compress(c, f)
      PROVE  LogInv' /\ StorageIsBounded'
  BY <1>5, CompressKeeps DEF Compress, StorageIsBounded
<1>6. ASSUME NEW c \in Compressors, CreateArchive(c) \/ Copy(c) \/ Unlink(c) \/ PackerFails(c)
      PROVE  LogInv' /\ StorageIsBounded'
  BY <1>6, ArchiveKeeps DEF CreateArchive, Copy, Unlink, PackerFails, StorageIsBounded
<1> QED
  BY <1>1, <1>2, <1>3, <1>4, <1>5, <1>6, <1>7 DEF LogFilesNext

LEMMA InvariantLogs == LogFilesSpec => [](LogInv /\ StorageIsBounded)
<1>1. LogFilesInit => StorageIsBounded
  BY DEF LogFilesInit, StorageIsBounded
<1> QED
  BY <1>1, InitLogs, NextLogs, PTL DEF LogFilesSpec

\* Maintenance removes what it must and nothing else: no entry is lost by compress_file, wherever
\* it is cut short, nor by anything but enforce() or two runs of the compressor at once; and after
\* enforce() what is left exceeds MAX_TOTAL by no more than the files it could not delete, unless
\* no other compressed file is left.
THEOREM LogsSound == LogFilesSpec => []LogsAreSound
<1>1. LogInv /\ StorageIsBounded => LogsAreSound
  BY DEF LogInv, LogsAreSound
<1> QED
  BY <1>1, InvariantLogs, PTL

\* The log files keep their types.
THEOREM LogFilesTypeCorrect == LogFilesSpec => []LogFilesTypeOK
<1>1. LogInv => LogFilesTypeOK
  BY DEF LogInv, LogTypes, EnforcedType, FileAt, ArchiveAt, PackerAt, LogFilesTypeOK
<1> QED
  BY <1>1, InvariantLogs, PTL

HIDE LogFilesAssumption

-----------------------------------------------------------------------------
(* The start-up of the server.                                             *)

\* The managers initialised so far.
Up == {Managers[i] : i \in 1 .. next - 1}
Ready(stages) == \A n \in DOMAIN stages : stages[n] = "ready"

WorkersAreSound ==
    /\ worker \in [BackgroundWorkers -> [status : WorkerStatus, restarts : 0 .. MAX_RESTARTS,
                                         overdue : BOOLEAN]]
    /\ restarting \subseteq BackgroundWorkers
    /\ \A w \in restarting : worker[w].restarts < MAX_RESTARTS

\* Before the server answers: what was marked is what was brought up, all ready; a failure is that
\* of the manager at hand, which may fail.
StartIsOrderly ==
    /\ next \in 0 .. Len(Managers) + 1
    /\ phase = "off" => report = <<>> /\ attributes = {} /\ next = 0 /\ failure = "none"
    /\ phase = "starting" =>
         /\ Ready(report)
         /\ DOMAIN report = {"configuration", "logging"} \cup (IF next = 0 THEN {} ELSE {"database"}) \cup Up
         /\ attributes = {"settings", "logging"} \cup (IF next = 0 THEN {} ELSE {"database"}) \cup Up
         /\ failure # "none" => /\ next \in DOMAIN Managers
                                /\ Managers[next] \in Fallible

ServingIsHealthy ==
    phase = "serving" => /\ Range(Managers) \subseteq attributes
                         /\ Ready(report)
                         /\ health = [n \in STAGES |-> "healthy"]

LifeInv == LifecycleTypeOK /\ WorkersAreSound /\ StartIsOrderly /\ ServingIsHealthy

USE LifecycleAssumption, ValidationAssumption

LEMMA ManagersInOrder ==
    /\ Len(Managers) \in Nat /\ DOMAIN Managers = 1 .. Len(Managers)
    /\ \A i \in 1 .. Len(Managers) : Managers[i] \in Range(Managers)
    /\ \A m \in Range(Managers) : \E i \in 1 .. Len(Managers) : m = Managers[i]
    /\ \A i, j \in 1 .. Len(Managers) : Managers[i] = Managers[j] => i = j
BY DEF Range, IsInjective

LEMMA InitStarts == LifecycleInit => LifeInv
<1> SUFFICES ASSUME LifecycleInit PROVE LifeInv
  OBVIOUS
<1>1. WorkersAreSound
  BY DEF LifecycleInit, WorkersAreSound, WorkerStatus
<1>2. LifecycleTypeOK
  <2>1. backend \in [reachable : BOOLEAN, initialized : BOOLEAN, outages : 0 .. MaxOutages]
    <3>1. 0 \in 0 .. MaxOutages
      OBVIOUS
    <3> QED
      BY <3>1, Zenon DEF LifecycleInit
  <2>2. answer \in [status : {"none", "healthy", "degraded", "failed"}, connected : BOOLEAN]
    BY DEF LifecycleInit, NoAnswer
  <2>3. DOMAIN report = {} /\ DOMAIN health = {}
    BY DEF LifecycleInit
  <2> QED
    BY <1>1, <2>1, <2>2, <2>3, ManagersInOrder DEF LifecycleInit, LifecycleTypeOK, WorkersAreSound
<1> QED
  BY <1>1, <1>2, ManagersInOrder DEF LifeInv, LifecycleInit, StartIsOrderly, ServingIsHealthy

\* A stage that is ready is marked, and the others keep their marks.
LEMMA MarkedReady ==
    ASSUME NEW stages, Ready(stages), NEW n
    PROVE  /\ Ready(Marked(stages, n, "ready"))
           /\ DOMAIN Marked(stages, n, "ready") = DOMAIN stages \cup {n}
BY DEF Ready, Marked

\* The manager at hand is brought up.
LEMMA NextIsUp ==
    ASSUME next \in DOMAIN Managers, next' = next + 1
    PROVE  Up' = Up \cup {Managers[next]}
<1>1. /\ next \in 1 .. Len(Managers) /\ Len(Managers) \in Nat
  BY ManagersInOrder
<1>2. \A i : i \in 1 .. (next + 1) - 1 <=> i \in 1 .. next - 1 \/ i = next
  BY <1>1
<1> QED
  BY <1>2 DEF Up

\* Reading what the validator is given succeeds only if no manager failed.
LEMMA ReadableIsUp ==
    ASSUME StartIsOrderly, phase = "starting", failure # "none" \/ next > Len(Managers),
           Readable(attributes)
    PROVE  /\ Range(Managers) \subseteq attributes
           /\ DOMAIN report = STAGES
<1>1. /\ next \in 0 .. Len(Managers) + 1
      /\ DOMAIN report = {"configuration", "logging"} \cup (IF next = 0 THEN {} ELSE {"database"}) \cup Up
      /\ attributes = {"settings", "logging"} \cup (IF next = 0 THEN {} ELSE {"database"}) \cup Up
      /\ failure # "none" => next \in DOMAIN Managers /\ Managers[next] \in Fallible
  BY DEF StartIsOrderly
<1>2. failure = "none"
  <2> SUFFICES ASSUME failure # "none" PROVE FALSE
    OBVIOUS
  <2>1. PICK j \in next .. Len(Managers) : Managers[j] \in Validated
    BY <1>1
  <2>2. /\ j \in 1 .. Len(Managers) /\ next \in 1 .. Len(Managers)
        /\ \A i \in 1 .. next - 1 : i \in 1 .. Len(Managers) /\ i # j
    BY <1>1, <2>1, ManagersInOrder
  <2>3. Managers[j] \notin Up
    BY <2>2, ManagersInOrder DEF Up
  <2>4. Managers[j] \in Range(Managers) /\ Managers[j] \in attributes
    BY <2>1, <2>2, ManagersInOrder DEF Readable
  <2> QED
    BY <1>1, <2>3, <2>4
<1>3. next = Len(Managers) + 1 /\ next # 0
  BY <1>1, <1>2, ManagersInOrder
<1>4. Up = Range(Managers)
  <2>1. next - 1 = Len(Managers)
    BY <1>3, ManagersInOrder
  <2> QED
    BY <2>1, ManagersInOrder DEF Up
<1> QED
  BY <1>1, <1>3, <1>4 DEF STAGES

\* A step of the workers' supervisor.
LEMMA SupervisorKeeps ==
    ASSUME LifeInv, NEW w \in BackgroundWorkers,
           Heartbeat(w) \/ FallSilent(w) \/ MarkCrashed(w) \/ CheckWorker(w) \/ Restarted(w)
               \/ RestartFails(w)
    PROVE  LifeInv'
<1>1. UNCHANGED <<phase, attributes, report, next, failure, health, backend, answer, emergency>>
  BY DEF Heartbeat, FallSilent, MarkCrashed, CheckWorker, Restarted, RestartFails
<1>2. WorkersAreSound'
  <2> USE DEF LifeInv, WorkersAreSound, WorkerStatus
  <2>1. CASE Heartbeat(w)
    BY <2>1, ZenonT(40) DEF Heartbeat
  <2>2. CASE FallSilent(w)
    BY <2>2 DEF FallSilent
  <2>3. CASE MarkCrashed(w)
    BY <2>3 DEF MarkCrashed
  <2>4. CASE CheckWorker(w)
    BY <2>4 DEF CheckWorker, NeedsRestart
  <2>5. CASE Restarted(w)
    <3>1. /\ w \in restarting /\ restarting' = {}
          /\ worker' = [worker EXCEPT ![w] = [status |-> "running", restarts |-> worker[w].restarts + 1,
                                              overdue |-> FALSE]]
      BY <2>5 DEF Restarted
    <3>2. worker[w].restarts + 1 \in 0 .. MAX_RESTARTS
      BY <3>1
    <3> QED
      BY <3>1, <3>2
  <2>6. CASE RestartFails(w)
    <3>1. /\ w \in restarting /\ restarting' = {}
          /\ worker' = [worker EXCEPT ![w].restarts = @ + 1]
      BY <2>6 DEF RestartFails
    <3>2. worker[w].restarts + 1 \in 0 .. MAX_RESTARTS
      BY <3>1
    <3> QED
      BY <3>1, <3>2
  <2> QED
    BY <2>1, <2>2, <2>3, <2>4, <2>5, <2>6
<1>3. LifecycleTypeOK'
  BY <1>1, <1>2 DEF LifeInv, LifecycleTypeOK, WorkersAreSound
<1>4. StartIsOrderly' /\ ServingIsHealthy'
  BY <1>1 DEF LifeInv, StartIsOrderly, ServingIsHealthy, Up
<1> QED
  BY <1>2, <1>3, <1>4 DEF LifeInv

LEMMA StartupKeeps ==
    ASSUME LifeInv,
           Start \/ InitializeDatabase \/ InitializeManager \/ ManagerFails \/ FinishStartup
    PROVE  LifeInv'
<1>1. UNCHANGED <<worker, restarting>>
  BY DEF Start, InitializeDatabase, InitializeManager, ManagerFails, FinishStartup
<1>2. WorkersAreSound'
  BY <1>1 DEF LifeInv, WorkersAreSound
<1>3. LifecycleTypeOK /\ StartIsOrderly /\ ServingIsHealthy
  BY DEF LifeInv
<1>4. CASE Start
  <2>1. Ready(report) /\ DOMAIN report = {}
    BY <1>3, <1>4 DEF Start, StartIsOrderly, Ready
  <2>2. Ready(report') /\ DOMAIN report' = {"configuration", "logging"}
    <3> DEFINE first == Marked(report, "configuration", "ready")
    <3>1. Ready(first) /\ DOMAIN first = {} \cup {"configuration"}
      BY <2>1, MarkedReady, Zenon
    <3> HIDE DEF first
    <3>2. Ready(Marked(first, "logging", "ready"))
          /\ DOMAIN Marked(first, "logging", "ready") = DOMAIN first \cup {"logging"}
      BY <3>1, MarkedReady, Zenon
    <3> QED
      BY <1>4, <3>1, <3>2 DEF Start, first
  <2>3. attributes' = {"settings", "logging"} /\ next' = 0 /\ failure' = "none" /\ Up' = {}
    BY <1>3, <1>4 DEF Start, StartIsOrderly, Up
  <2>4. StartIsOrderly' /\ ServingIsHealthy'
    BY <1>3, <1>4, <2>2, <2>3 DEF Start, StartIsOrderly, ServingIsHealthy
  <2>5. LifecycleTypeOK'
    BY <1>3, <1>4, <2>2, <2>3 DEF Start, LifecycleTypeOK, STAGES, InitState, Ready
  <2> QED
    BY <1>2, <2>4, <2>5 DEF LifeInv
<1>5. CASE InitializeDatabase /\ backend.reachable
  <2>1. Ready(report') /\ DOMAIN report' = DOMAIN report \cup {"database"}
    <3>1. report' = Marked(report, "database", "ready") /\ Ready(report)
      BY <1>3, <1>5 DEF InitializeDatabase, StartIsOrderly
    <3> QED
      BY <3>1, MarkedReady
  <2>2. attributes' = attributes \cup {"database"} /\ next = 0 /\ next' = 1
        /\ Up' = {} /\ Up = {} /\ UNCHANGED <<phase, failure>> /\ phase = "starting"
    BY <1>5 DEF InitializeDatabase, Up
  <2>3. failure = "none"
    BY <1>3, <2>2, ManagersInOrder DEF StartIsOrderly
  <2>4. StartIsOrderly' /\ ServingIsHealthy'
    BY <1>3, <1>5, <2>1, <2>2, <2>3, ManagersInOrder DEF StartIsOrderly, ServingIsHealthy
  <2>5. LifecycleTypeOK'
    <3>1. DOMAIN report' \subseteq STAGES /\ \A n \in DOMAIN report' : report'[n] \in InitState
      BY <1>3, <2>1 DEF LifecycleTypeOK, STAGES, InitState, Ready
    <3>2. backend' = [backend EXCEPT !.initialized = TRUE] /\ UNCHANGED <<health, answer, emergency>>
      BY <1>5 DEF InitializeDatabase
    <3>3. backend' \in [reachable : BOOLEAN, initialized : BOOLEAN, outages : 0 .. MaxOutages]
      BY <1>3, <3>2 DEF LifecycleTypeOK
    <3> QED
      BY <1>1, <1>3, <2>2, <3>1, <3>2, <3>3, ManagersInOrder DEF LifecycleTypeOK
  <2> QED
    BY <1>2, <2>4, <2>5 DEF LifeInv
<1>6. CASE InitializeDatabase /\ ~backend.reachable
  <2>1. phase' = "aborted" /\ failure' = "database" /\ UNCHANGED <<next, attributes, backend, health, answer, emergency>>
    BY <1>6 DEF InitializeDatabase
  <2>2. DOMAIN report' = DOMAIN report \cup {"database"}
        /\ \A n \in DOMAIN report' : report'[n] \in {report[n], "failed"}
    BY <1>6 DEF InitializeDatabase, Marked
  <2>3. LifecycleTypeOK'
    <3>1. \A n \in DOMAIN report' : report'[n] \in InitState
      BY <1>3, <1>6 DEF InitializeDatabase, Marked, LifecycleTypeOK, InitState
    <3> QED
      BY <1>1, <1>3, <2>1, <2>2, <3>1 DEF LifecycleTypeOK, STAGES
  <2>4. StartIsOrderly' /\ ServingIsHealthy'
    BY <1>3, <2>1 DEF StartIsOrderly, ServingIsHealthy
  <2> QED
    BY <1>2, <2>3, <2>4 DEF LifeInv
<1>7. CASE InitializeManager
  <2>1. Ready(report') /\ DOMAIN report' = DOMAIN report \cup {Managers[next]}
    BY <1>3, <1>7, MarkedReady DEF InitializeManager, StartIsOrderly
  <2>2. attributes' = attributes \cup {Managers[next]} /\ next' = next + 1
        /\ Up' = Up \cup {Managers[next]} /\ UNCHANGED <<phase, failure>> /\ phase = "starting"
        /\ failure = "none" /\ next \in 1 .. Len(Managers)
    BY <1>7, NextIsUp, ManagersInOrder DEF InitializeManager
  <2>3. next # 0 /\ next + 1 # 0 /\ next + 1 \in 0 .. Len(Managers) + 1
    BY <2>2, ManagersInOrder
  <2>4. StartIsOrderly' /\ ServingIsHealthy'
    BY <1>3, <2>1, <2>2, <2>3 DEF StartIsOrderly, ServingIsHealthy
  <2>5. LifecycleTypeOK'
    BY <1>3, <1>7, <2>1, <2>2, <2>3, ManagersInOrder
       DEF InitializeManager, LifecycleTypeOK, STAGES, InitState, Ready
  <2> QED
    BY <1>2, <2>4, <2>5 DEF LifeInv
<1>8. CASE ManagerFails
  <2>1. /\ failure' = Managers[next] /\ Managers[next] \in Fallible /\ next \in DOMAIN Managers
        /\ phase = "starting"
        /\ UNCHANGED <<phase, attributes, report, next, health, backend, answer, emergency>>
    BY <1>8 DEF ManagerFails
  <2>2. StartIsOrderly' /\ ServingIsHealthy'
    BY <1>3, <2>1 DEF StartIsOrderly, ServingIsHealthy, Up
  <2>3. LifecycleTypeOK'
    BY <1>1, <1>3, <2>1 DEF LifecycleTypeOK, STAGES
  <2> QED
    BY <1>2, <2>2, <2>3 DEF LifeInv
<1>9. CASE FinishStartup
  <2>1. /\ phase = "starting"
        /\ failure # "none" \/ next > Len(Managers)
        /\ health' = [n \in STAGES |-> FirstHealth(report, n)]
        /\ phase' \in {"serving", "aborted"} /\ (phase' = "serving" => Readable(attributes))
        /\ UNCHANGED <<attributes, report, next, failure, backend, answer, emergency>>
    BY <1>9 DEF FinishStartup
  <2>2. StartIsOrderly'
    BY <1>3, <2>1 DEF StartIsOrderly
  <2>3. ServingIsHealthy'
    <3> SUFFICES ASSUME phase' = "serving" PROVE ServingIsHealthy'
      BY DEF ServingIsHealthy
    <3>1. Range(Managers) \subseteq attributes /\ DOMAIN report = STAGES
      BY <1>3, <2>1, ReadableIsUp
    <3>2. Ready(report)
      BY <1>3, <2>1 DEF StartIsOrderly
    <3>3. \A n \in STAGES : FirstHealth(report, n) = "healthy"
      BY <3>1, <3>2 DEF FirstHealth, Ready
    <3> QED
      BY <2>1, <3>1, <3>2, <3>3 DEF ServingIsHealthy
  <2>4. LifecycleTypeOK'
    <3>1. \A n \in STAGES : FirstHealth(report, n) \in HealthState
      BY DEF FirstHealth, HealthState
    <3> QED
      BY <1>1, <1>3, <2>1, <3>1 DEF LifecycleTypeOK
  <2> QED
    BY <1>2, <2>2, <2>3, <2>4 DEF LifeInv
<1> QED
  BY <1>4, <1>5, <1>6, <1>7, <1>8, <1>9

\* The rest of a process's life.
LEMMA ServingKeeps ==
    ASSUME LifeInv, Health \/ GoAway \/ ComeBack \/ ShutdownServer \/ Activate \/ Deactivate
    PROVE  LifeInv'
<1>1. UNCHANGED <<worker, restarting, report, next, failure, health>>
  BY DEF Health, GoAway, ComeBack, ShutdownServer, Activate, Deactivate
<1>2. WorkersAreSound'
  BY <1>1 DEF LifeInv, WorkersAreSound
<1>3. LifecycleTypeOK /\ StartIsOrderly /\ ServingIsHealthy
  BY DEF LifeInv
<1>4. CASE UNCHANGED <<phase, attributes>>
  <2>1. StartIsOrderly' /\ ServingIsHealthy'
    BY <1>1, <1>3, <1>4 DEF StartIsOrderly, ServingIsHealthy, Up
  <2>2. LifecycleTypeOK'
    <3> USE DEF LifecycleTypeOK
    <3>1. CASE Health
      <4>1. answer' \in [status : {"none", "healthy", "degraded", "failed"}, connected : BOOLEAN]
        BY <1>3, <3>1 DEF Health
      <4> QED
        BY <1>1, <1>3, <1>4, <3>1, <4>1 DEF Health
    <3>2. CASE GoAway \/ ComeBack
      <4>1. backend' \in [reachable : BOOLEAN, initialized : BOOLEAN, outages : 0 .. MaxOutages]
        <5>1. ASSUME backend.outages < MaxOutages PROVE backend.outages + 1 \in 0 .. MaxOutages
          BY <1>3, <5>1
        <5>2. CASE GoAway
          <6>1. /\ backend.outages + 1 \in 0 .. MaxOutages
                /\ backend' = [backend EXCEPT !.reachable = FALSE, !.outages = backend.outages + 1]
            BY <5>1, <5>2 DEF GoAway
          <6> HIDE DEF LifecycleTypeOK
          <6>2. backend \in [reachable : BOOLEAN, initialized : BOOLEAN, outages : 0 .. MaxOutages]
            BY <1>3 DEF LifecycleTypeOK
          <6> QED
            BY <6>1, <6>2
        <5>3. CASE ComeBack
          BY <1>3, <5>3 DEF ComeBack
        <5> QED
          BY <3>2, <5>2, <5>3
      <4> QED
        BY <1>1, <1>3, <1>4, <3>2, <4>1 DEF GoAway, ComeBack
    <3>3. CASE Activate \/ Deactivate
      BY <1>1, <1>3, <1>4, <3>3 DEF Activate, Deactivate
    <3>4. CASE ShutdownServer
      BY <1>4, <3>4 DEF ShutdownServer
    <3> QED
      BY <3>1, <3>2, <3>3, <3>4
  <2> QED
    BY <1>2, <2>1, <2>2 DEF LifeInv
<1>5. CASE ShutdownServer
  <2>1. phase' = "stopped" /\ attributes' = {"settings"} /\ UNCHANGED <<answer, emergency>>
        /\ backend' = [backend EXCEPT !.initialized = FALSE]
    BY <1>5 DEF ShutdownServer
  <2>2. StartIsOrderly' /\ ServingIsHealthy'
    BY <1>1, <1>3, <2>1 DEF StartIsOrderly, ServingIsHealthy
  <2>3. LifecycleTypeOK'
    BY <1>1, <1>3, <2>1 DEF LifecycleTypeOK
  <2> QED
    BY <1>2, <2>2, <2>3 DEF LifeInv
<1> QED
  BY <1>4, <1>5 DEF Health, GoAway, ComeBack, Activate, Deactivate

LEMMA InvariantLife == LifecycleSpec => []LifeInv
<1>1. LifeInv /\ [LifecycleNext]_lifecycleVars => LifeInv'
  <2> SUFFICES ASSUME LifeInv, [LifecycleNext]_lifecycleVars PROVE LifeInv'
    OBVIOUS
  <2>1. CASE UNCHANGED lifecycleVars
    BY <2>1 DEF lifecycleVars, LifeInv, LifecycleTypeOK, WorkersAreSound, StartIsOrderly,
       ServingIsHealthy, Up
  <2> QED
    BY <2>1, SupervisorKeeps, StartupKeeps, ServingKeeps DEF LifecycleNext
<1> QED
  BY <1>1, InitStarts, PTL DEF LifecycleSpec

\* All the subsystems healthy, the answer is that.
LEMMA HealthyOverall ==
    ASSUME health = [n \in STAGES |-> "healthy"] PROVE Overall = "healthy"
<1>1. IsFiniteSet(STAGES)
  <2>1. Managers \in Surjection(1 .. Len(Managers), Range(Managers))
    BY ManagersInOrder DEF Surjection
  <2>2. IsFiniteSet(Range(Managers))
    BY <2>1, FS_Interval, FS_Surjection, ManagersInOrder
  <2>3. IsFiniteSet({"configuration"} \cup {"logging"} \cup {"database"})
    BY FS_Singleton, FS_Union
  <2> QED
    BY <2>2, <2>3, FS_Union DEF STAGES
<1>2. Count({"healthy"}) # 0 /\ Count({"healthy"}) \in Nat
  <2>1. {n \in DOMAIN health : health[n] \in {"healthy"}} = STAGES
    OBVIOUS
  <2>2. STAGES # {}
    BY DEF STAGES
  <2> QED
    BY <1>1, <2>1, <2>2, FS_EmptySet, FS_CardinalityType DEF Count
<1>3. ASSUME NEW S, "healthy" \notin S PROVE Count(S) = 0
  <2>1. {n \in DOMAIN health : health[n] \in S} = {}
    BY <1>3
  <2> QED
    BY <2>1, FS_EmptySet DEF Count
<1>4. /\ Count({"failed", "uninitialized"}) = 0 /\ Count({"degraded"}) = 0
      /\ Count({"failed", "uninitialized", "degraded"}) = 0
  BY <1>3
<1> QED
  BY <1>2, <1>4 DEF Overall

\* The server's process, its workers and what /health answers keep their types: among them that a
\* worker is never restarted more than MAX_RESTARTS times, however its handlers end and whatever
\* is reported of it meanwhile (WorkerSupervisor.check_all).
THEOREM ServerTypeCorrect == LifecycleSpec => []LifecycleTypeOK
<1>1. LifeInv => LifecycleTypeOK
  BY DEF LifeInv
<1> QED
  BY <1>1, InvariantLife, PTL

\* A process that answers has every manager and says so rightly, wherever in the start-up the
\* database went away (run_startup, _init_db_managers, the validator's reads), for any list of
\* managers of which the failing ones are validated or come before one that is.
THEOREM ServersAreComplete == LifecycleSpec => []ServingIsComplete
<1>1. LifeInv => ServingIsComplete
  <2> SUFFICES ASSUME LifeInv, phase = "serving"
               PROVE  /\ Range(Managers) \subseteq attributes
                      /\ Verdict(report) = "ready" /\ Overall = "healthy"
    BY DEF ServingIsComplete
  <2>1. /\ Range(Managers) \subseteq attributes /\ Ready(report)
        /\ health = [n \in STAGES |-> "healthy"]
    BY DEF LifeInv, ServingIsHealthy
  <2>2. Verdict(report) = "ready"
    BY <2>1 DEF Verdict, AnyFailed, AllReady, Ready
  <2> QED
    BY <2>1, <2>2, HealthyOverall
<1> QED
  BY <1>1, InvariantLife, PTL

HIDE ValidationAssumption

HIDE LifecycleAssumption

-----------------------------------------------------------------------------
(* The Discord bot.                                                        *)

BotTypes ==
    /\ connections \in 0 .. MaxConnections
    /\ statusPlace \in Places \cup {NoPlace}
    /\ messages \in [Places -> Nat]
    /\ updater \in [1 .. MaxConnections -> [pc : {"asleep", "visit", "search", "edit", "send"},
                                            next : DOMAIN BotGuilds]]
    /\ threads \in Seq(Incidents) /\ opening \subseteq Incidents

\* Loops exist from a connection on; the one place is chosen before a message is looked for there,
\* and no message is sent that is not remembered.
LooksFor(n) == updater[n].pc \in {"search", "send"}
PlaceBeforeMessage ==
    /\ \A n \in 1 .. MaxConnections : /\ updater[n].pc # "asleep" => n <= connections
                                      /\ LooksFor(n) => statusPlace \in Places
    /\ \A g \in Places : messages[g] > 0 => g = statusPlace /\ statusKnown

\* Unless two have looked for a message at a time, one at most does, and not after it was found.
OneLooks ==
    ~doubled =>
        /\ \A n, m \in 1 .. MaxConnections : LooksFor(n) /\ LooksFor(m) => n = m
        /\ \A n \in 1 .. MaxConnections : LooksFor(n) => ~statusKnown
        /\ \A g \in Places : messages[g] <= 1

\* A thread that is being created has its place free.
RoomIsKept ==
    ~crowded =>
        \/ opening = {} /\ Len(threads) <= MAX_ACTIVE_THREADS
        \/ Len(threads) < MAX_ACTIVE_THREADS /\ \A i, j \in opening : i = j

BotInv == BotTypes /\ PlaceBeforeMessage /\ OneLooks /\ RoomIsKept

USE DiscordBotAssumption

LEMMA InitBot == DiscordBotInit => BotInv
<1> SUFFICES ASSUME DiscordBotInit PROVE BotInv
  OBVIOUS
<1>1. IdleLoop \in [pc : {"asleep", "visit", "search", "edit", "send"}, next : DOMAIN BotGuilds]
  <2>1. Len(BotGuilds) \in Nat /\ Len(BotGuilds) # 0 /\ DOMAIN BotGuilds = 1 .. Len(BotGuilds)
    OBVIOUS
  <2>2. 1 \in DOMAIN BotGuilds
    BY <2>1
  <2> QED
    BY <2>2 DEF IdleLoop
<1>2. BotTypes
  BY <1>1 DEF BotTypes, DiscordBotInit
<1>3. IdleLoop.pc = "asleep"
  BY DEF IdleLoop
<1>4. PlaceBeforeMessage /\ OneLooks
  BY <1>3 DEF DiscordBotInit, PlaceBeforeMessage, OneLooks, LooksFor
<1>5. RoomIsKept
  BY DEF DiscordBotInit, RoomIsKept
<1> QED
  BY <1>2, <1>4, <1>5 DEF BotInv

\* The threads without one incident.
LEMMA WithoutFacts ==
    ASSUME threads \in Seq(Incidents), NEW i \in Incidents
    PROVE  Without(i) \in Seq(Incidents) /\ Len(Without(i)) \in Nat /\ Len(Without(i)) <= Len(threads)
<1>1. PICK A : A = Incidents \ {i}
  OBVIOUS
<1>2. PICK q : q = Sifted(threads, A)
  OBVIOUS
<1>3. q \in Seq(Incidents) /\ Len(q) \in Nat /\ Len(q) <= Len(threads)
  BY <1>2, SiftedElements
<1> QED
  BY <1>1, <1>2, <1>3 DEF Without

LEMMA BeginKeeps ==
    ASSUME BotInv, NEW i \in Incidents, BeginThread(i) PROVE BotInv'
<1>1. UNCHANGED <<connections, statusPlace, statusKnown, messages, updater, doubled>>
  BY DEF BeginThread
<1>2. threads \in Seq(Incidents) /\ Len(threads) \in Nat /\ opening \subseteq Incidents
  BY DEF BotInv, BotTypes
<1>3. /\ threads' \in Seq(Incidents)
      /\ Len(threads) <= MAX_ACTIVE_THREADS => Len(threads') < MAX_ACTIVE_THREADS
  <2>1. CASE Crowded
    <3>1. Len(threads) > 0
      BY <1>2, <2>1 DEF Crowded
    <3>2. threads' = Tail(threads) /\ threads # <<>>
      BY <1>2, <2>1, <3>1 DEF BeginThread
    <3>3. Tail(threads) \in Seq(Incidents) /\ Len(Tail(threads)) = Len(threads) - 1
      BY <1>2, <3>2
    <3> QED
      BY <1>2, <3>2, <3>3
  <2>2. CASE ~Crowded
    <3>1. threads' = threads
      BY <2>2 DEF BeginThread
    <3> QED
      BY <1>2, <2>2, <3>1 DEF Crowded
  <2> QED
    BY <2>1, <2>2
<1>4. BotTypes'
  BY <1>1, <1>3 DEF BotInv, BotTypes, BeginThread
<1>5. PlaceBeforeMessage' /\ OneLooks'
  BY <1>1 DEF BotInv, PlaceBeforeMessage, OneLooks, LooksFor
<1>6. RoomIsKept'
  <2> SUFFICES ASSUME ~crowded' PROVE Len(threads') < MAX_ACTIVE_THREADS /\ \A j, k \in opening' : j = k
    BY DEF RoomIsKept
  <2>1. ~crowded /\ opening = {} /\ opening' = {i}
    BY DEF BeginThread
  <2>2. Len(threads) <= MAX_ACTIVE_THREADS
    BY <1>2, <2>1 DEF BotInv, RoomIsKept
  <2> QED
    BY <1>3, <2>1, <2>2
<1> QED
  BY <1>4, <1>5, <1>6 DEF BotInv

LEMMA EndKeeps ==
    ASSUME BotInv, NEW i \in Incidents, EndThread(i) PROVE BotInv'
<1>1. UNCHANGED <<connections, statusPlace, statusKnown, messages, updater, doubled, crowded>>
  BY DEF EndThread
<1>2. threads \in Seq(Incidents) /\ Len(threads) \in Nat /\ opening \subseteq Incidents
  BY DEF BotInv, BotTypes
<1>3. threads' \in Seq(Incidents) /\ Len(threads') \in Nat /\ Len(threads') <= Len(threads) + 1
  <2>1. PICK q : q = Without(i)
    OBVIOUS
  <2>2. q \in Seq(Incidents) /\ Len(q) \in Nat /\ Len(q) <= Len(threads)
    BY <1>2, <2>1, WithoutFacts
  <2>3. Append(q, i) \in Seq(Incidents) /\ Len(Append(q, i)) = Len(q) + 1
    BY <2>2
  <2>4. threads' = threads \/ threads' = Append(q, i)
    BY <2>1 DEF EndThread
  <2> QED
    BY <1>2, <2>2, <2>3, <2>4
<1>4. BotTypes'
  BY <1>1, <1>2, <1>3 DEF BotInv, BotTypes, EndThread
<1>5. PlaceBeforeMessage' /\ OneLooks'
  BY <1>1 DEF BotInv, PlaceBeforeMessage, OneLooks, LooksFor
<1>6. RoomIsKept'
  <2> SUFFICES ASSUME ~crowded' PROVE opening' = {} /\ Len(threads') <= MAX_ACTIVE_THREADS
    BY DEF RoomIsKept
  <2>1. i \in opening /\ opening' = opening \ {i}
    BY DEF EndThread
  <2>2. Len(threads) < MAX_ACTIVE_THREADS /\ \A j \in opening : i = j
    BY <1>1, <2>1 DEF BotInv, RoomIsKept
  <2> QED
    BY <1>2, <1>3, <2>1, <2>2
<1> QED
  BY <1>4, <1>5, <1>6 DEF BotInv

LEMMA ForgetKeeps ==
    ASSUME BotInv, NEW i \in Incidents, ForgetThread(i) PROVE BotInv'
<1>1. UNCHANGED <<connections, statusPlace, statusKnown, messages, updater, opening, doubled, crowded>>
  BY DEF ForgetThread
<1>2. threads \in Seq(Incidents) /\ Len(threads) \in Nat
  BY DEF BotInv, BotTypes
<1>3. threads' \in Seq(Incidents) /\ Len(threads') \in Nat /\ Len(threads') <= Len(threads)
  BY <1>2, WithoutFacts DEF ForgetThread
<1>4. BotTypes' /\ PlaceBeforeMessage' /\ OneLooks'
  BY <1>1, <1>3 DEF BotInv, BotTypes, PlaceBeforeMessage, OneLooks, LooksFor
<1>5. RoomIsKept'
  BY <1>1, <1>2, <1>3 DEF BotInv, RoomIsKept
<1> QED
  BY <1>4, <1>5 DEF BotInv

\* The n-th loop goes on to another point of its round, and looks for no message there.
LEMMA LoopKeeps ==
    ASSUME BotInv, NEW n \in 1 .. MaxConnections,
           NEW new \in [pc : {"asleep", "visit", "search", "edit", "send"}, next : DOMAIN BotGuilds],
           updater' = [updater EXCEPT ![n] = new], n <= connections,
           LooksFor(n)' => statusPlace' \in Places,
           new.pc \in {"search", "send"} => LooksFor(n) /\ (statusKnown' <=> statusKnown),
           UNCHANGED <<connections, threads, opening, crowded>>, doubled' = doubled,
           messages' = messages, statusPlace' = statusPlace, statusKnown => statusKnown',
           ~(statusKnown' <=> statusKnown) => LooksFor(n)
    PROVE  BotInv'
<1>1. updater \in [1 .. MaxConnections -> [pc : {"asleep", "visit", "search", "edit", "send"},
                                           next : DOMAIN BotGuilds]]
  BY DEF BotInv, BotTypes
<1>2. updater'[n] = new /\ \A m \in 1 .. MaxConnections \ {n} : updater'[m] = updater[m]
  BY <1>1
<1>3. BotTypes'
  BY <1>1 DEF BotInv, BotTypes
<1>4. PlaceBeforeMessage'
  BY <1>2 DEF BotInv, PlaceBeforeMessage, LooksFor
<1>5. \A m \in 1 .. MaxConnections : LooksFor(m)' => LooksFor(m)
  BY <1>2 DEF LooksFor
<1>6. OneLooks'
  <2> SUFFICES ASSUME ~doubled
               PROVE  /\ \A m, k \in 1 .. MaxConnections : LooksFor(m)' /\ LooksFor(k)' => m = k
                      /\ \A m \in 1 .. MaxConnections : LooksFor(m)' => ~statusKnown'
                      /\ \A g \in Places : messages'[g] <= 1
    BY DEF OneLooks
  <2>1. \A m, k \in 1 .. MaxConnections : LooksFor(m)' /\ LooksFor(k)' => m = k
    BY <1>5 DEF BotInv, OneLooks
  <2>2. ASSUME NEW m \in 1 .. MaxConnections, LooksFor(m)' PROVE ~statusKnown'
    <3>1. LooksFor(m) /\ ~statusKnown
      BY <1>5, <2>2 DEF BotInv, OneLooks
    <3>2. CASE m = n
      <4>1. new.pc \in {"search", "send"}
        BY <1>2, <2>2, <3>2 DEF LooksFor
      <4> QED
        BY <3>1, <4>1
    <3>3. CASE m # n
      <4>1. ~LooksFor(n)
        BY <3>1, <3>3 DEF BotInv, OneLooks
      <4> QED
        BY <3>1, <4>1
    <3> QED
      BY <3>2, <3>3
  <2>3. \A g \in Places : messages'[g] <= 1
    BY DEF BotInv, OneLooks
  <2> QED
    BY <2>1, <2>2, <2>3
<1>7. RoomIsKept'
  BY DEF BotInv, RoomIsKept
<1> QED
  BY <1>3, <1>4, <1>6, <1>7 DEF BotInv

Loops == [pc : {"asleep", "visit", "search", "edit", "send"}, next : DOMAIN BotGuilds]

LEMMA LoopTypes ==
    ASSUME BotInv, NEW n \in 1 .. MaxConnections
    PROVE  /\ updater \in [1 .. MaxConnections -> Loops] /\ updater[n] \in Loops
           /\ IdleLoop \in Loops /\ NextVisit(n) \in Loops
           /\ IdleLoop.pc = "asleep" /\ NextVisit(n).pc \in {"asleep", "visit"}
<1>1. updater \in [1 .. MaxConnections -> Loops] /\ updater[n] \in Loops
  BY DEF BotInv, BotTypes, Loops
<1>2. Len(BotGuilds) \in Nat /\ Len(BotGuilds) # 0 /\ DOMAIN BotGuilds = 1 .. Len(BotGuilds)
  OBVIOUS
<1>3. IdleLoop \in Loops /\ IdleLoop.pc = "asleep"
  <2>1. 1 \in DOMAIN BotGuilds
    BY <1>2
  <2> QED
    BY <2>1 DEF IdleLoop, Loops
<1>4. NextVisit(n) \in Loops /\ NextVisit(n).pc \in {"asleep", "visit"}
  <2>1. CASE updater[n].next < Len(BotGuilds)
    <3>1. updater[n].next + 1 \in DOMAIN BotGuilds
      BY <1>1, <1>2, <2>1 DEF Loops
    <3> QED
      BY <2>1, <3>1 DEF NextVisit, Loops
  <2>2. CASE ~(updater[n].next < Len(BotGuilds))
    BY <1>3, <2>2 DEF NextVisit
  <2> QED
    BY <2>1, <2>2
<1> QED
  BY <1>1, <1>3, <1>4

LEMMA VisitKeeps ==
    ASSUME BotInv, NEW n \in 1 .. MaxConnections, VisitGuild(n) PROVE BotInv'
<1>1. updater \in [1 .. MaxConnections -> Loops] /\ updater[n] \in Loops /\ IdleLoop \in Loops /\ IdleLoop.pc = "asleep"
  BY LoopTypes
<1>2. PICK g : g = BotGuilds[updater[n].next] /\ g \in Places
  BY <1>1 DEF Loops, Places
<1>3. n <= connections /\ updater[n].pc = "visit"
  BY DEF VisitGuild, BotInv, PlaceBeforeMessage
<1>4. UNCHANGED <<connections, threads, opening, crowded>> /\ messages' = messages /\ statusKnown' = statusKnown
  BY DEF VisitGuild
<1>5. CASE ~Remembered(g) /\ g \notin category
  <2>1. updater' = [updater EXCEPT ![n] = IdleLoop] /\ statusPlace' = statusPlace /\ doubled' = doubled
    BY <1>2, <1>5 DEF VisitGuild
  <2>2. ~LooksFor(n)'
    BY <1>1, <2>1 DEF LooksFor
  <2> QED
    BY <1>1, <1>3, <1>4, <2>1, <2>2, LoopKeeps DEF Loops
<1>6. CASE ~(~Remembered(g) /\ g \notin category)
  <2>1. PICK new : new = [updater[n] EXCEPT !.pc = IF statusKnown THEN "edit" ELSE "search"]
    OBVIOUS
  <2>2. /\ new \in Loops /\ (statusKnown => new.pc = "edit") /\ (~statusKnown => new.pc = "search")
        /\ updater' = [updater EXCEPT ![n] = new]
    BY <1>1, <1>2, <1>6, <2>1 DEF Loops, VisitGuild
  <2>3. /\ statusPlace' = (IF Remembered(g) THEN statusPlace ELSE g)
        /\ doubled' = (doubled \/ (~statusKnown /\ Searching # {}))
    BY <1>2, <1>6 DEF VisitGuild
  <2>4. /\ statusPlace' \in Places /\ (statusPlace \in Places => statusPlace' = statusPlace)
        /\ (statusPlace = NoPlace \/ statusPlace' = statusPlace)
    BY <1>2, <2>3 DEF BotInv, BotTypes, Remembered
  <2>5. updater'[n] = new /\ \A m \in 1 .. MaxConnections \ {n} : updater'[m] = updater[m]
    BY <1>1, <2>2
  <2>6. BotTypes'
    BY <1>1, <1>4, <2>2, <2>4 DEF BotInv, BotTypes, Loops
  <2>7. PlaceBeforeMessage'
    <3>1. ASSUME NEW m \in 1 .. MaxConnections
          PROVE  (updater'[m].pc # "asleep" => m <= connections') /\ (LooksFor(m)' => statusPlace' \in Places)
      BY <1>3, <1>4, <2>4, <2>5 DEF BotInv, PlaceBeforeMessage
    <3>2. ASSUME NEW h \in Places, messages'[h] > 0 PROVE h = statusPlace' /\ statusKnown'
      <4>1. h = statusPlace /\ statusKnown
        BY <1>4, <3>2 DEF BotInv, PlaceBeforeMessage
      <4> QED
        BY <1>4, <2>4, <4>1
    <3> QED
      BY <3>1, <3>2 DEF PlaceBeforeMessage
  <2>8. OneLooks'
    <3> SUFFICES ASSUME ~doubled'
                 PROVE  /\ \A m, k \in 1 .. MaxConnections : LooksFor(m)' /\ LooksFor(k)' => m = k
                        /\ \A m \in 1 .. MaxConnections : LooksFor(m)' => ~statusKnown'
                        /\ \A h \in Places : messages'[h] <= 1
      BY DEF OneLooks
    <3>1. ~doubled /\ (statusKnown \/ Searching = {})
      BY <2>3
    <3>2. ASSUME NEW m \in 1 .. MaxConnections, ~statusKnown, LooksFor(m) PROVE FALSE
      <4>1. m <= connections
        BY <3>2 DEF LooksFor, BotInv, PlaceBeforeMessage
      <4>2. m \in Searching
        BY <3>2, <4>1 DEF LooksFor, Searching, BotInv, BotTypes
      <4> QED
        BY <3>1, <3>2, <4>2
    <3>3. ASSUME NEW m \in 1 .. MaxConnections, LooksFor(m)' PROVE m = n /\ ~statusKnown
      <4>1. CASE m = n
        BY <2>2, <2>5, <3>3, <4>1 DEF LooksFor
      <4>2. CASE m # n
        <5>1. LooksFor(m)
          BY <2>5, <3>3, <4>2 DEF LooksFor
        <5>2. ~statusKnown
          BY <3>1, <5>1 DEF BotInv, OneLooks
        <5> QED
          BY <3>2, <5>1, <5>2
      <4> QED
        BY <4>1, <4>2
    <3>4. \A h \in Places : messages'[h] <= 1
      BY <1>4, <3>1 DEF BotInv, OneLooks
    <3> QED
      BY <1>4, <3>3, <3>4
  <2>9. RoomIsKept'
    BY <1>4 DEF BotInv, RoomIsKept
  <2> QED
    BY <2>6, <2>7, <2>8, <2>9 DEF BotInv
<1> QED
  BY <1>5, <1>6

LEMMA SearchKeeps ==
    ASSUME BotInv, NEW n \in 1 .. MaxConnections, SearchMessage(n) PROVE BotInv'
<1>1. updater \in [1 .. MaxConnections -> Loops] /\ updater[n] \in Loops
  BY LoopTypes
<1>2. /\ updater[n].pc = "search" /\ LooksFor(n) /\ n <= connections /\ statusPlace \in Places
      /\ statusKnown' = (statusKnown \/ messages[statusPlace] > 0)
  BY DEF SearchMessage, LooksFor, BotInv, PlaceBeforeMessage
<1>3. PICK new : new = [updater[n] EXCEPT !.pc = IF statusKnown' THEN "edit" ELSE "send"]
  OBVIOUS
<1>4. /\ new \in Loops /\ updater' = [updater EXCEPT ![n] = new]
      /\ statusKnown' => new.pc = "edit"
  BY <1>1, <1>3 DEF Loops, SearchMessage
<1>5. /\ UNCHANGED <<connections, threads, opening, crowded>> /\ doubled' = doubled
      /\ messages' = messages /\ statusPlace' = statusPlace
  BY DEF SearchMessage
<1>6. statusKnown => statusKnown'
  BY <1>2
<1>7. new.pc \in {"search", "send"} => LooksFor(n) /\ (statusKnown' <=> statusKnown)
  <2>1. CASE statusKnown'
    BY <1>4, <2>1
  <2>2. CASE ~statusKnown'
    BY <1>2, <2>2
  <2> QED
    BY <2>1, <2>2
<1> QED
  BY <1>2, <1>4, <1>5, <1>6, <1>7, LoopKeeps DEF Loops

LEMMA SendKeeps ==
    ASSUME BotInv, NEW n \in 1 .. MaxConnections, SendMessage(n) PROVE BotInv'
<1>1. /\ updater \in [1 .. MaxConnections -> Loops] /\ updater[n] \in Loops
      /\ NextVisit(n) \in Loops /\ NextVisit(n).pc \in {"asleep", "visit"}
  BY LoopTypes
<1>2. updater[n].pc = "send" /\ LooksFor(n) /\ n <= connections /\ statusPlace \in Places
  BY DEF SendMessage, LooksFor, BotInv, PlaceBeforeMessage
<1>3. /\ UNCHANGED <<connections, threads, opening, crowded>> /\ doubled' = doubled
      /\ statusPlace' = statusPlace /\ statusKnown' = TRUE
      /\ messages' = [messages EXCEPT ![statusPlace] = @ + 1]
      /\ updater' = [updater EXCEPT ![n] = NextVisit(n)]
  BY DEF SendMessage
<1>4. updater'[n] = NextVisit(n) /\ \A m \in 1 .. MaxConnections \ {n} : updater'[m] = updater[m]
  BY <1>1, <1>3
<1>5. messages \in [Places -> Nat]
  BY DEF BotInv, BotTypes
<1>6. messages'[statusPlace] = messages[statusPlace] + 1 /\ \A g \in Places \ {statusPlace} : messages'[g] = messages[g]
  BY <1>2, <1>3, <1>5
<1>7. BotTypes'
  BY <1>1, <1>2, <1>3, <1>5, SMTT(30) DEF BotInv, BotTypes, Loops
<1>8. PlaceBeforeMessage'
  BY <1>1, <1>2, <1>3, <1>4, <1>6 DEF BotInv, PlaceBeforeMessage, LooksFor
<1>9. OneLooks'
  <2> SUFFICES ASSUME ~doubled
               PROVE  /\ \A m \in 1 .. MaxConnections : ~LooksFor(m)'
                      /\ \A g \in Places : messages'[g] <= 1
    BY <1>3 DEF OneLooks
  <2>1. ASSUME NEW m \in 1 .. MaxConnections, LooksFor(m)' PROVE FALSE
    <3>1. m # n
      BY <1>1, <1>4, <2>1 DEF LooksFor
    <3>2. LooksFor(m)
      BY <1>4, <2>1, <3>1 DEF LooksFor
    <3> QED
      BY <1>2, <3>1, <3>2 DEF BotInv, OneLooks
  <2>2. ASSUME NEW g \in Places PROVE messages[g] = 0
    <3>1. ~statusKnown
      BY <1>2 DEF BotInv, OneLooks
    <3> QED
      BY <1>5, <3>1 DEF BotInv, PlaceBeforeMessage
  <2>3. ASSUME NEW g \in Places PROVE messages'[g] <= 1
    <3>1. CASE g = statusPlace
      BY <1>2, <1>6, <2>2, <3>1
    <3>2. CASE g # statusPlace
      BY <1>6, <2>2, <3>2
    <3> QED
      BY <3>1, <3>2
  <2> QED
    BY <2>1, <2>3
<1>10. RoomIsKept'
  BY <1>3 DEF BotInv, RoomIsKept
<1> QED
  BY <1>7, <1>8, <1>9, <1>10 DEF BotInv

LEMMA NextBot == BotInv /\ [DiscordBotNext]_botVars => BotInv'
<1> SUFFICES ASSUME BotInv, [DiscordBotNext]_botVars PROVE BotInv'
  OBVIOUS
<1>1. ASSUME UNCHANGED <<statusPlace, statusKnown, messages, updater, threads, opening, doubled, crowded>>,
             connections' = connections \/ (connections < MaxConnections /\ connections' = connections + 1)
      PROVE  BotInv'
  <2>1. connections \in 0 .. MaxConnections /\ connections' \in 0 .. MaxConnections /\ connections <= connections'
    BY <1>1 DEF BotInv, BotTypes
  <2>2. BotTypes' /\ OneLooks' /\ RoomIsKept'
    BY <1>1, <2>1 DEF BotInv, BotTypes, OneLooks, RoomIsKept, LooksFor
  <2>3. PlaceBeforeMessage'
    BY <1>1, <2>1 DEF BotInv, PlaceBeforeMessage, LooksFor
  <2> QED
    BY <2>2, <2>3 DEF BotInv
<1>2. CASE OnReady
  BY <1>1, <1>2 DEF OnReady
<1>3. ASSUME NEW g \in Places, MakeCategory(g) \/ VerifyPermissions(g) PROVE BotInv'
  BY <1>1, <1>3 DEF MakeCategory, VerifyPermissions
<1>4. ASSUME NEW n \in 1 .. MaxConnections, WakeUp(n) PROVE BotInv'
  <2>1. PICK new : new = [pc |-> "visit", next |-> 1]
    OBVIOUS
  <2>2. 1 \in DOMAIN BotGuilds
    <3>1. Len(BotGuilds) \in Nat /\ Len(BotGuilds) # 0 /\ DOMAIN BotGuilds = 1 .. Len(BotGuilds)
      OBVIOUS
    <3> QED
      BY <3>1
  <2>3. new \in Loops /\ new.pc = "visit"
    BY <2>1, <2>2 DEF Loops
  <2>4. updater' = [updater EXCEPT ![n] = new] /\ n <= connections
    BY <1>4, <2>1 DEF WakeUp
  <2>5. ~LooksFor(n)'
    BY <2>3, <2>4, LoopTypes DEF LooksFor
  <2>6. UNCHANGED <<connections, threads, opening, crowded, doubled, messages, statusPlace, statusKnown>>
    BY <1>4 DEF WakeUp
  <2> QED
    BY <2>3, <2>4, <2>5, <2>6, LoopKeeps DEF Loops
<1>5. ASSUME NEW n \in 1 .. MaxConnections, EditMessage(n) \/ RoundFails(n) PROVE BotInv'
  <2>1. PICK new \in Loops : new.pc \in {"asleep", "visit"} /\ updater' = [updater EXCEPT ![n] = new]
    BY <1>5, LoopTypes DEF EditMessage, RoundFails
  <2>2. ~LooksFor(n)'
    BY <2>1, LoopTypes DEF LooksFor
  <2>3. n <= connections
    BY <1>5 DEF EditMessage, RoundFails, BotInv, PlaceBeforeMessage
  <2>4. UNCHANGED <<connections, threads, opening, crowded, doubled, messages, statusPlace, statusKnown>>
    BY <1>5 DEF EditMessage, RoundFails
  <2> QED
    BY <2>1, <2>2, <2>3, <2>4, LoopKeeps DEF Loops
<1>6. CASE UNCHANGED botVars
  BY <1>1, <1>6 DEF botVars
<1> QED
  BY <1>2, <1>3, <1>4, <1>5, <1>6, VisitKeeps, SearchKeeps, SendKeeps, BeginKeeps, EndKeeps,
     ForgetKeeps DEF DiscordBotNext

\* There is one status message in one guild, unless two loops looked for it at a time, and the
\* incident threads stay within their limit, unless some were created at a time: for any number
\* of guilds, connections and incidents.
THEOREM BotStaysSmall == DiscordBotSpec => []BotIsSound
<1>1. BotInv => BotIsSound
  <2> SUFFICES ASSUME BotInv PROVE BotIsSound
    OBVIOUS
  <2>1. ~doubled => \A g \in Places : messages[g] <= 1
    BY DEF BotInv, OneLooks
  <2>2. \A g, h \in Places : messages[g] > 0 /\ messages[h] > 0 => g = h
    BY DEF BotInv, PlaceBeforeMessage
  <2>3. ThreadsWithinLimit
    <3>1. Len(threads) \in Nat
      BY DEF BotInv, BotTypes
    <3> QED
      BY <3>1 DEF BotInv, RoomIsKept, ThreadsWithinLimit
  <2> QED
    BY <2>1, <2>2, <2>3 DEF BotIsSound, OneStatusMessage
<1> QED
  BY <1>1, InitBot, NextBot, PTL DEF DiscordBotSpec

CategoriesThere == category \subseteq Places

\* The Discord bot keeps its types, and its loops stay within the guilds that it is in.
THEOREM BotTypeCorrect == DiscordBotSpec => []DiscordBotTypeOK
<1>1. DiscordBotInit => CategoriesThere
  BY DEF DiscordBotInit, CategoriesThere
<1>2. CategoriesThere /\ [DiscordBotNext]_botVars => CategoriesThere'
  BY DEF CategoriesThere, DiscordBotNext, botVars, OnReady, MakeCategory, VerifyPermissions, WakeUp, VisitGuild,
     SearchMessage, EditMessage, SendMessage, RoundFails, BeginThread, EndThread, ForgetThread
<1>3. BotInv /\ CategoriesThere => DiscordBotTypeOK
  <2> SUFFICES ASSUME BotInv, CategoriesThere PROVE DiscordBotTypeOK
    OBVIOUS
  <2>1. BotTypes
    BY DEF BotInv
  <2>2. \A n \in DOMAIN updater : updater[n].next \in DOMAIN BotGuilds
    BY <2>1 DEF BotTypes
  <2>3. \A k \in DOMAIN threads : threads[k] \in Incidents
    BY <2>1 DEF BotTypes
  <2> QED
    BY <2>1, <2>2, <2>3 DEF BotTypes, CategoriesThere, DiscordBotTypeOK
<1> QED
  BY <1>1, <1>2, <1>3, InitBot, NextBot, PTL DEF DiscordBotSpec

HIDE DiscordBotAssumption

-----------------------------------------------------------------------------
(* The services together, as MCServices.tla puts them.                     *)

\* There is a call for each name of one, so that the next one to arrive is one of them.
CallsAreThere ==
    /\ DOMAIN recording = Recordings /\ DOMAIN call = Calls /\ DOMAIN reload = Reloads
    /\ DOMAIN packer = Compressors /\ DOMAIN guildCall = GuildCalls

LEMMA FirstIsThere == ASSUME NEW jobs PROVE First(jobs) \subseteq DOMAIN jobs
<1>1. PICK idle : idle = {r \in DOMAIN jobs : jobs[r].pc = "idle"}
  OBVIOUS
<1>2. First(jobs) = IF idle = {} THEN {} ELSE {CHOOSE r \in idle : TRUE}
  BY <1>1 DEF First
<1>3. First(jobs) \subseteq idle
  BY <1>2
<1> QED
  BY <1>1, <1>3

\* A step of the whole is one of one part, and leaves the others alone.
LEMMA AuditPart == ASSUME CallsAreThere, ServicesNext PROVE [AuditNext]_auditVars
<1>1. First(recording) \subseteq Recordings
  BY FirstIsThere DEF CallsAreThere
<1>2. CASE part # "audit"
  BY <1>2 DEF ServicesNext, Of
<1>3. CASE part = "audit"
  <2>1. \/ \E r \in First(recording), name \in Names : ReadLast(r, name)
        \/ \E r \in Recordings : CreateEvent(r) \/ AppendEvent(r) \/ RecordingFails(r)
        \/ CountEvents \/ VerifyIntegrity
        \/ \E start, end \in {0} \cup Stamps, name \in Names : Export(start, end, name)
        \/ \E s \in DOMAIN trail : Alter(s)
    BY <1>3 DEF ServicesNext, Of
  <2> QED
    BY <1>1, <2>1 DEF AuditNext
<1> QED
  BY <1>2, <1>3

LEMMA NotificationsPart ==
    ASSUME CallsAreThere, ServicesNext PROVE [NotificationsNext]_notificationVars
<1>1. First(call) \subseteq Calls
  BY FirstIsThere DEF CallsAreThere
<1>2. CASE part # "notifications"
  BY <1>2 DEF ServicesNext, Of
<1>3. CASE part = "notifications"
  <2>1. \/ \E n \in Notes, d \in Destinations \cup OddDestinations, p \in Levels : CreateNote(n, d, p)
        \/ \E d \in CustomAdapters : RegisterAdapter(d)
        \/ \E c \in First(call), n \in Notes : (\E p \in Levels : QueueNote(c, n, p)) \/ Dispatch(c, n)
        \/ \E c \in First(call) : DispatchAll(c)
        \/ \E c \in Calls : \/ MarkQueued(c) \/ SaveResult(c) \/ StampDispatched(c)
                            \/ DrainOne(c) \/ NextLevel(c)
        \/ ProcessEnds
    BY <1>3 DEF ServicesNext, Of
  <2> QED
    BY <1>1, <2>1 DEF NotificationsNext
<1> QED
  BY <1>2, <1>3

LEMMA RoutingPart == ASSUME CallsAreThere, ServicesNext PROVE [RoutingNext]_routingVars
<1>1. First(reload) \subseteq Reloads
  BY FirstIsThere DEF CallsAreThere
<1>2. CASE part # "routing"
  BY <1>2 DEF ServicesNext, Of
<1>3. CASE part = "routing"
  <2>1. \/ EditRules
        \/ \E l \in First(reload), w \in Routers : LoadConfig(l, w)
        \/ \E l \in Reloads : SaveRule(l) \/ SetRules(l) \/ ReloadFails(l)
        \/ \E w \in Routers, event \in RoutedEvents : Route(w, event)
    BY <1>3 DEF ServicesNext, Of
  <2> QED
    BY <1>1, <2>1 DEF RoutingNext
<1> QED
  BY <1>2, <1>3

LEMMA LogsPart == ASSUME CallsAreThere, ServicesNext PROVE [LogFilesNext]_logVars
<1>1. First(packer) \subseteq Compressors
  BY FirstIsThere DEF CallsAreThere
<1>2. CASE part # "logging"
  BY <1>2 DEF ServicesNext, Of
<1>3. CASE part = "logging"
  <2>1. \/ \E e \in Entries : WriteEntry(e)
        \/ Midnight
        \/ \E c \in First(packer), f \in LogFile : Compress(c, f)
        \/ \E c \in Compressors : CreateArchive(c) \/ Copy(c) \/ Unlink(c) \/ PackerFails(c)
        \/ Enforce
        \/ EnforceFails
    BY <1>3 DEF ServicesNext, Of
  <2> QED
    BY <1>1, <2>1 DEF LogFilesNext
<1> QED
  BY <1>2, <1>3

LEMMA GuildsPart == ASSUME CallsAreThere, ServicesNext PROVE [DiscordGuildsNext]_guildVars
<1>1. First(guildCall) \subseteq GuildCalls
  BY FirstIsThere DEF CallsAreThere
<1>2. CASE part # "guilds"
  BY <1>2 DEF ServicesNext, Of
<1>3. CASE part = "guilds"
  <2>1. \/ \E r \in First(guildCall), g \in GuildIds : \/ \E m \in Members \cup {NoGuild} : RegisterGuild(r, g, m)
                                                       \/ \E cs \in SUBSET Channels : VerifyGuild(r, g, cs)
                                                       \/ DeleteGuild(r, g)
        \/ \E r \in GuildCalls : \/ CreateGuild(r) \/ CreateSettings(r) \/ AssociateMachine(r)
                                 \/ SetChannelMapping(r) \/ UpdateGuild(r) \/ RemoveGuild(r)
                                 \/ RemoveSettings(r) \/ RemoveChannels(r) \/ RemoveMachines(r)
                                 \/ FinishRemoval(r) \/ GuildCallFails(r)
        \/ ForeignCommit \/ SessionEnds
    BY <1>3 DEF ServicesNext, Of
  <2> QED
    BY <1>1, <2>1 DEF DiscordGuildsNext
<1> QED
  BY <1>2, <1>3

LEMMA BotPart == ASSUME ServicesNext PROVE [DiscordBotNext]_botVars
<1>1. CASE part # "bot"
  BY <1>1 DEF ServicesNext, Of
<1>2. CASE part = "bot"
  BY <1>2 DEF ServicesNext, Of, DiscordBotNext
<1> QED
  BY <1>1, <1>2

LEMMA LifecyclePart == ASSUME ServicesNext PROVE [LifecycleNext]_lifecycleVars
<1>1. CASE part # "lifecycle"
  BY <1>1 DEF ServicesNext, Of
<1>2. CASE part = "lifecycle"
  BY <1>2 DEF ServicesNext, Of, LifecycleNext
<1> QED
  BY <1>1, <1>2

LEMMA CallsStayThere ==
    ASSUME CallsAreThere, [AuditNext]_auditVars, [NotificationsNext]_notificationVars,
           [RoutingNext]_routingVars, [LogFilesNext]_logVars, [DiscordGuildsNext]_guildVars
    PROVE  CallsAreThere'
<1>1. DOMAIN recording' = Recordings
  BY DEF CallsAreThere, AuditNext, auditVars, ReadLast, CreateEvent, AppendEvent, RecordingFails,
     CountEvents, VerifyIntegrity, Export, Alter
<1>2. DOMAIN call' = Calls
  BY DEF CallsAreThere, NotificationsNext, notificationVars, CreateNote, RegisterAdapter, QueueNote,
     Answered, MarkQueued, Dispatch, SaveResult, StampDispatched, DispatchAll, DrainOne, NextLevel,
     ProcessEnds
<1>3. DOMAIN reload' = Reloads
  BY DEF CallsAreThere, RoutingNext, routingVars, EditRules, LoadConfig, SaveRule, SetRules,
     ReloadFails, Route
<1>4. DOMAIN packer' = Compressors
  BY DEF CallsAreThere, LogFilesNext, logVars, WriteEntry, Midnight, Compress, CreateArchive, Copy,
     Unlink, PackerFails, Delete, Enforce, EnforceFails
<1>5. DOMAIN guildCall' = GuildCalls
  BY DEF CallsAreThere, DiscordGuildsNext, guildVars, Accept, GuildAnswer,
     RegisterGuild, VerifyGuild, DeleteGuild,
     GoOn, SessionEnds, CreateGuild, CreateSettings, AssociateMachine, SetChannelMapping, UpdateGuild,
     RemoveGuild, RemoveSettings, RemoveChannels, RemoveMachines, FinishRemoval, GuildCallFails,
     ForeignCommit
<1> QED
  BY <1>1, <1>2, <1>3, <1>4, <1>5 DEF CallsAreThere

\* The services put together behave each as it does alone: every theorem above about one of them
\* holds of the whole that TLC checks.
THEOREM ServicesAreTheirParts ==
    ServicesSpec => /\ AuditSpec /\ NotificationsSpec /\ RoutingSpec /\ LogFilesSpec
                    /\ DiscordGuildsSpec /\ DiscordBotSpec /\ LifecycleSpec
<1>1. ServicesInit => /\ AuditInit /\ NotificationsInit /\ RoutingInit /\ LogFilesInit
                      /\ DiscordGuildsInit /\ DiscordBotInit /\ LifecycleInit
  BY DEF ServicesInit
<1>2. ServicesInit => CallsAreThere
  BY DEF ServicesInit, CallsAreThere, AuditInit, NotificationsInit, RoutingInit, LogFilesInit,
     DiscordGuildsInit
<1>3. CallsAreThere /\ [ServicesNext]_servicesVars =>
          /\ [AuditNext]_auditVars /\ [NotificationsNext]_notificationVars
          /\ [RoutingNext]_routingVars /\ [LogFilesNext]_logVars /\ [DiscordGuildsNext]_guildVars
          /\ [DiscordBotNext]_botVars /\ [LifecycleNext]_lifecycleVars
  <2>1. CASE UNCHANGED servicesVars
    BY <2>1 DEF servicesVars
  <2>2. ASSUME CallsAreThere, ServicesNext
        PROVE  /\ [AuditNext]_auditVars /\ [NotificationsNext]_notificationVars
               /\ [RoutingNext]_routingVars /\ [LogFilesNext]_logVars /\ [DiscordGuildsNext]_guildVars
               /\ [DiscordBotNext]_botVars /\ [LifecycleNext]_lifecycleVars
    BY <2>2, AuditPart, NotificationsPart, RoutingPart, LogsPart, GuildsPart, BotPart, LifecyclePart
  <2> QED
    BY <2>1, <2>2
<1>4. CallsAreThere /\ [ServicesNext]_servicesVars => CallsAreThere'
  BY <1>3, CallsStayThere
<1> QED
  BY <1>1, <1>2, <1>3, <1>4, PTL
  DEF ServicesSpec, AuditSpec, NotificationsSpec, RoutingSpec, LogFilesSpec, DiscordGuildsSpec,
      DiscordBotSpec, LifecycleSpec

\* Every variable of every service has the shape the code gives it, whatever the services do.
THEOREM ServicesTypeCorrect == ServicesSpec => []ServicesTypeOK
<1>1. /\ AuditTypeOK /\ NotificationsTypeOK /\ RoutingTypeOK /\ LogFilesTypeOK
      /\ DiscordGuildsTypeOK /\ DiscordBotTypeOK /\ LifecycleTypeOK
      => ServicesTypeOK
  BY DEF ServicesTypeOK
<1> QED
  BY <1>1, ServicesAreTheirParts, AuditTypeCorrect, NotificationsTypeCorrect, RoutingTypeCorrect,
     LogFilesTypeCorrect, GuildsTypeCorrect, BotTypeCorrect, ServerTypeCorrect, PTL

\* What the run of the services checks, all of it, for any values of the constants.
THEOREM ServicesAreSound ==
    ServicesSpec => /\ []AlarmsAreExplained /\ []StatusIsEarned /\ []RoutingIsSound
                    /\ []LogsAreSound /\ []GuildTablesAgree /\ []BotIsSound
                    /\ []ServingIsComplete
BY ServicesAreTheirParts, AlarmsExplained, StatusesAreEarned, RoutesAreSound, LogsSound,
   TablesAgree, BotStaysSmall, ServersAreComplete
=============================================================================
