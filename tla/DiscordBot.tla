----------------------------- MODULE DiscordBot -----------------------------
(***************************************************************************)
(* The Discord bot: management_server/src/discord_bot.                     *)
(*                                                                         *)
(* Discord calls on_ready at every connection, and the bot then starts     *)
(* three loops beside those it has: one shows its status, one repairs the  *)
(* permissions of its channels, one posts notifications.  The loops        *)
(* interleave wherever they await Discord or the management server.        *)
(*                                                                         *)
(* The bot registers its guilds at a path that the server does not have.   *)
(* The call fails, so that its channels are never created by on_ready and  *)
(* on_guild_join: they are made by hand, which is an action of its own.    *)
(* What messages look like is left out.                                    *)
(***************************************************************************)
EXTENDS Naturals, Sequences, FiniteSets, Selection

CONSTANTS BotGuilds,          \* the guilds the bot is in, in the order it visits them
          MaxConnections,     \* bound on the calls of on_ready
          MAX_ACTIVE_THREADS, \* the limit of incident threads
          Incidents,          \* incidents to open a thread for
          NoPlace             \* no guild

Places == {BotGuilds[i] : i \in DOMAIN BotGuilds}

ASSUME DiscordBotAssumption ==
    /\ BotGuilds \in Seq(Places) /\ BotGuilds # <<>> /\ NoPlace \notin Places
    /\ MaxConnections \in Nat /\ MAX_ACTIVE_THREADS \in Nat \ {0}

VARIABLES
    connections, \* how often on_ready was called; there are as many of each loop
    category,    \* the guilds that have the category
    channel,     \* channel[g]: the bot's rights in the checked channel of g, and whether all see it
    statusPlace, \* StatusMessageManager._channel: the guild of the channel that it remembers
    statusKnown, \* StatusMessageManager._message: whether it remembers a message
    messages,    \* messages[g]: the status messages in g
    updater,     \* updater[n]: where the n-th status loop is in its round of the guilds
    threads,     \* _active_threads: the incidents, in the order they were entered
    opening,     \* the incidents whose thread is being created
    \* History, read by the properties only:
    doubled,     \* whether two loops looked for a message at a time
    crowded      \* whether threads were created at a time

botVars == <<connections, category, channel, statusPlace, statusKnown, messages, updater,
             threads, opening, doubled, crowded>>

IdleLoop == [pc |-> "asleep", next |-> 1]

DiscordBotInit ==
    /\ connections = 0
    /\ category = {}
    /\ channel \in [Places -> [permitted : BOOLEAN, open : BOOLEAN]]
    /\ statusPlace = NoPlace /\ statusKnown = FALSE
    /\ messages = [g \in Places |-> 0]
    /\ updater = [n \in 1 .. MaxConnections |-> IdleLoop]
    /\ threads = <<>> /\ opening = {}
    /\ doubled = FALSE /\ crowded = FALSE

\* on_ready: register_guild fails and is logged, and the tasks are created once more.
OnReady ==
    /\ connections < MaxConnections
    /\ connections' = connections + 1
    /\ UNCHANGED <<category, channel, statusPlace, statusKnown, messages, updater, threads,
                   opening, doubled, crowded>>

MakeCategory(g) ==
    /\ g \notin category
    /\ category' = category \cup {g}
    /\ UNCHANGED <<connections, channel, statusPlace, statusKnown, messages, updater, threads,
                   opening, doubled, crowded>>

-----------------------------------------------------------------------------
(* _status_update_loop and StatusMessageManager *)

\* The next guild of the round, or sleep.
NextVisit(n) == IF updater[n].next < Len(BotGuilds)
             THEN [pc |-> "visit", next |-> updater[n].next + 1] ELSE IdleLoop

WakeUp(n) ==
    /\ n <= connections /\ updater[n].pc = "asleep"
    /\ updater' = [updater EXCEPT ![n] = [pc |-> "visit", next |-> 1]]
    /\ UNCHANGED <<connections, category, channel, statusPlace, statusKnown, messages, threads,
                   opening, doubled, crowded>>

\* ensure_status_channel, for the first guild that has the category: it is remembered for all.
\* Where the category is missing, the round ends.
Remembered(g) == statusPlace # NoPlace
Searching == {n \in 1 .. connections : updater[n].pc \in {"search", "send"}}
VisitGuild(n) ==
    LET g == BotGuilds[updater[n].next]
    IN  /\ updater[n].pc = "visit"
        /\ IF ~Remembered(g) /\ g \notin category
           THEN updater' = [updater EXCEPT ![n] = IdleLoop] /\ UNCHANGED <<statusPlace, doubled>>
           ELSE /\ statusPlace' = IF Remembered(g) THEN statusPlace ELSE g
                /\ updater' = [updater EXCEPT ![n].pc = IF statusKnown THEN "edit" ELSE "search"]
                /\ doubled' = (doubled \/ (~statusKnown /\ Searching # {}))
        /\ UNCHANGED <<connections, category, channel, statusKnown, messages, threads, opening,
                       crowded>>

\* channel.history: a message of the bot's is found, or none.
SearchMessage(n) ==
    /\ updater[n].pc = "search"
    /\ statusKnown' = (statusKnown \/ messages[statusPlace] > 0)
    /\ updater' = [updater EXCEPT ![n].pc = IF statusKnown' THEN "edit" ELSE "send"]
    /\ UNCHANGED <<connections, category, channel, statusPlace, messages, threads, opening,
                   doubled, crowded>>

EditMessage(n) ==
    /\ updater[n].pc = "edit"
    /\ updater' = [updater EXCEPT ![n] = NextVisit(n)]
    /\ UNCHANGED <<connections, category, channel, statusPlace, statusKnown, messages, threads,
                   opening, doubled, crowded>>

SendMessage(n) ==
    /\ updater[n].pc = "send"
    /\ messages' = [messages EXCEPT ![statusPlace] = @ + 1]
    /\ statusKnown' = TRUE
    /\ updater' = [updater EXCEPT ![n] = NextVisit(n)]
    /\ UNCHANGED <<connections, category, channel, statusPlace, threads, opening, doubled, crowded>>

\* Discord or the server fails: the round ends, the loop goes on.
RoundFails(n) ==
    /\ updater[n].pc # "asleep"
    /\ updater' = [updater EXCEPT ![n] = IdleLoop]
    /\ UNCHANGED <<connections, category, channel, statusPlace, statusKnown, messages, threads,
                   opening, doubled, crowded>>

-----------------------------------------------------------------------------
\* PermissionVerifier.verify_guild: a channel where the bot lacks a right is made private, and
\* the bot's own there, or else the edit fails.  A channel where it lacks none is left alone.
VerifyPermissions(g) ==
    /\ connections > 0 /\ g \in category /\ ~channel[g].permitted
    /\ channel' \in {channel, [channel EXCEPT ![g] = [permitted |-> TRUE, open |-> FALSE]]}
    /\ UNCHANGED <<connections, category, statusPlace, statusKnown, messages, updater, threads,
                   opening, doubled, crowded>>

-----------------------------------------------------------------------------
(* IncidentThreadManager *)

IsOpen(i) == \E k \in DOMAIN threads : threads[k] = i

\* create_incident_thread up to the message: at the limit the oldest is forgotten.
CrowdedLate == Len(threads) > MAX_ACTIVE_THREADS
Crowded == Len(threads) >= MAX_ACTIVE_THREADS
BeginThread(i) ==
    /\ i \notin opening /\ category # {}
    /\ threads' = IF Crowded THEN Tail(threads) ELSE threads
    /\ opening' = opening \cup {i}
    /\ crowded' = (crowded \/ opening # {})
    /\ UNCHANGED <<connections, category, channel, statusPlace, statusKnown, messages, updater,
                   doubled>>

\* The thread exists and is entered, in the place of an older one of the same incident, or Discord
\* has failed.
Without(i) == Sifted(threads, Incidents \ {i})
EndThread(i) ==
    /\ i \in opening
    /\ opening' = opening \ {i}
    /\ threads' \in {threads, Append(Without(i), i)}
    /\ UNCHANGED <<connections, category, channel, statusPlace, statusKnown, messages, updater,
                   doubled, crowded>>

\* append_update finds its thread gone from Discord and forgets it.
ForgetThread(i) ==
    /\ IsOpen(i)
    /\ threads' = Without(i)
    /\ UNCHANGED <<connections, category, channel, statusPlace, statusKnown, messages, updater,
                   opening, doubled, crowded>>

DiscordBotNext ==
    \/ OnReady
    \/ \E g \in Places : MakeCategory(g) \/ VerifyPermissions(g)
    \/ \E n \in 1 .. MaxConnections :
        WakeUp(n) \/ VisitGuild(n) \/ SearchMessage(n) \/ EditMessage(n) \/ SendMessage(n)
        \/ RoundFails(n)
    \/ \E i \in Incidents : BeginThread(i) \/ EndThread(i) \/ ForgetThread(i)

DiscordBotSpec == DiscordBotInit /\ [][DiscordBotNext]_botVars

-----------------------------------------------------------------------------
DiscordBotTypeOK ==
    /\ connections \in 0 .. MaxConnections
    /\ category \subseteq Places
    /\ statusPlace \in Places \cup {NoPlace}
    /\ \A n \in DOMAIN updater : updater[n].next \in DOMAIN BotGuilds
    /\ \A k \in DOMAIN threads : threads[k] \in Incidents

\* There is one status message, in one guild, however many guilds there are and however often
\* the bot has reconnected, unless two of its loops looked for the message before it was sent.
OneStatusMessage ==
    /\ ~doubled => \A g \in Places : messages[g] <= 1
    /\ \A g, h \in Places : messages[g] > 0 /\ messages[h] > 0 => g = h

\* Incident threads stay within their limit, unless some were created at a time.
ThreadsWithinLimit == ~crowded => Len(threads) <= MAX_ACTIVE_THREADS

\* Together: what the bot keeps in Discord stays as few as it means to.
BotIsSound == OneStatusMessage /\ ThreadsWithinLimit
=============================================================================
