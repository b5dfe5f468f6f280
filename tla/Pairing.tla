------------------------------ MODULE Pairing ------------------------------
(***************************************************************************)
(* The pairing tokens of the management server:                            *)
(* management_server/src/management_server/pairing.                        *)
(*                                                                         *)
(* A request handler reads the token's row, checks what it read, and       *)
(* writes the row in an UPDATE that names the token and nothing else.  It  *)
(* awaits the database in between, so that other requests, of its own      *)
(* worker process or of another one, run between its read and its write.   *)
(* The UPDATE and its COMMIT are one step: other transactions see them     *)
(* together.                                                               *)
(*                                                                         *)
(* Hashing, the plaintext, metrics and the read-only queries are left out, *)
(* and so is delete_token, which no service calls.                         *)
(***************************************************************************)
EXTENDS Naturals

CONSTANTS Tokens,    \* the tokens that may be generated
          PairingRequests,  \* the requests that may arrive, each of a machine of its own
          Nobody     \* no machine, no token

ASSUME PairingAssumption == Nobody \notin Tokens \cup PairingRequests

VARIABLES
    row,      \* row[t]: status of t's row, "absent" before it is inserted
    stamped,  \* stamped[t]: consumed_at is set
    owner,    \* owner[t]: machine_uuid
    old,      \* old[t]: expires_at is past
    tokenJob,      \* tokenJob[r]: the handler of request r
    \* History, read by the properties only:
    claimed,  \* claimed[t]: some validation turned the token PENDING
    uses,     \* uses[t]: the requests whose consumption was committed
    raced     \* raced[t]: some UPDATE hit a row that was not as its request read it

table == <<row, stamped, owner>>
pairingVars == <<table, old, tokenJob, claimed, uses, raced>>

TokenState == {"unused", "issued", "pending", "consumed", "expired", "revoked"}

\* TokenStateMachine._rules
LegalTokens == {<<"unused", "issued">>, <<"issued", "pending">>, <<"pending", "consumed">>,
          <<"pending", "expired">>, <<"pending", "revoked">>, <<"unused", "expired">>,
          <<"unused", "revoked">>, <<"issued", "expired">>, <<"issued", "revoked">>}

NoTokenJob == [pc |-> "idle", token |-> Nobody, read |-> "absent", to |-> "absent"]

PairingInit ==
    /\ row = [t \in Tokens |-> "absent"]
    /\ stamped = [t \in Tokens |-> FALSE]
    /\ owner = [t \in Tokens |-> Nobody]
    /\ old = [t \in Tokens |-> FALSE]
    /\ tokenJob = [r \in PairingRequests |-> NoTokenJob]
    /\ claimed = [t \in Tokens |-> FALSE]
    /\ uses = [t \in Tokens |-> {}]
    /\ raced = [t \in Tokens |-> FALSE]

-----------------------------------------------------------------------------
\* create_token: one INSERT.
Create(t) ==
    /\ row[t] = "absent"
    /\ row' = [row EXCEPT ![t] = "issued"]
    /\ UNCHANGED <<stamped, owner, old, tokenJob, claimed, uses, raced>>

\* The TTL of t runs out.
Age(t) ==
    /\ row[t] # "absent" /\ ~old[t]
    /\ old' = [old EXCEPT ![t] = TRUE]
    /\ UNCHANGED <<table, tokenJob, claimed, uses, raced>>

\* What the row read must be like for each kind of request to go on.
\* validate_token; the hash matches, as the row was found by it
Passes(t) == row[t] \in {"unused", "issued", "pending"} /\ ~old[t]
MayConsumeUnclaimed(t) == Passes(t) /\ row[t] \in {"issued", "pending"}
MayConsume(t) ==
    /\ Passes(t) /\ row[t] \in {"issued", "pending"}
    /\ <<row[t], "consumed">> \in LegalTokens
MayRevokeAny(t) == row[t] # "absent"
MayRevoke(t) ==
    /\ row[t] \notin {"absent", "consumed", "expired"}
    /\ <<row[t], "revoked">> \in LegalTokens

\* Deciding ends in an answer, or in a write of one status over the one read.
Answer(r, t, pc) == tokenJob' = [tokenJob EXCEPT ![r] = [NoTokenJob EXCEPT !.pc = pc, !.token = t]]
GoOnSwapped(r, t, to) ==
    tokenJob' = [tokenJob EXCEPT ![r] = [pc |-> "writing", token |-> t, read |-> to, to |-> row[t]]]
GoOn(r, t, to) ==
    tokenJob' = [tokenJob EXCEPT ![r] = [pc |-> "writing", token |-> t, read |-> row[t], to |-> to]]

\* The first part of a request: SELECT, checks, and the decision to write.
Validate(r, t) ==
    /\ tokenJob[r].pc = "idle"
    /\ \/ Passes(t) /\ row[t] = "issued" /\ GoOn(r, t, "pending")
       \/ Passes(t) /\ row[t] # "issued" /\ Answer(r, t, "valid")
       \/ ~Passes(t) /\ Answer(r, t, "refused")
    /\ UNCHANGED <<table, old, claimed, uses, raced>>

Consume(r, t) ==
    /\ tokenJob[r].pc = "idle"
    /\ \/ MayConsume(t) /\ GoOn(r, t, "consumed")
       \/ ~MayConsume(t) /\ Answer(r, t, "refused")
    /\ UNCHANGED <<table, old, claimed, uses, raced>>

RevokeToken(r, t) ==
    /\ tokenJob[r].pc = "idle"
    /\ \/ MayRevoke(t) /\ GoOn(r, t, "revoked")
       \/ ~MayRevoke(t) /\ Answer(r, t, "refused")
    /\ UNCHANGED <<table, old, claimed, uses, raced>>

\* update_status: whatever the row says by now.  consumed_at is set or cleared,
\* machine_uuid is replaced unless the request has none, as a revocation.
TokenStamp(t, to) == to = "consumed"

Outcome == [pending |-> "valid", consumed |-> "paired", revoked |-> "revoked"]

WriteToken(r) ==
    LET t == tokenJob[r].token  to == tokenJob[r].to IN
    /\ tokenJob[r].pc = "writing"
    /\ row' = [row EXCEPT ![t] = to]
    /\ stamped' = [stamped EXCEPT ![t] = TokenStamp(t, to)]
    /\ owner' = IF to = "revoked" THEN owner ELSE [owner EXCEPT ![t] = r]
    /\ tokenJob' = [tokenJob EXCEPT ![r].pc = Outcome[to]]
    /\ claimed' = [claimed EXCEPT ![t] = @ \/ to = "pending"]
    /\ uses' = IF to = "consumed" THEN [uses EXCEPT ![t] = @ \cup {r}] ELSE uses
    /\ raced' = [raced EXCEPT ![t] = @ \/ row[t] # tokenJob[r].read]
    /\ UNCHANGED old

\* The worker process ends, or the database fails, and the UPDATE is not made.
\* (One that ends after the COMMIT leaves the row as WriteToken does.)
Abandon(r) ==
    /\ tokenJob[r].pc = "writing"
    /\ tokenJob' = [tokenJob EXCEPT ![r].pc = "lost"]
    /\ UNCHANGED <<table, old, claimed, uses, raced>>

\* expire_stale_tokens: here the UPDATE does look at the status.  (There are two,
\* one for the rows that are "unused"; no row ever is.)
Stale(t) == old[t] /\ row[t] \in {"unused", "issued", "pending"}
Sweep ==
    /\ \E t \in Tokens : Stale(t)
    /\ row' = [t \in Tokens |-> IF Stale(t) THEN "expired" ELSE row[t]]
    /\ UNCHANGED <<stamped, owner, old, tokenJob, claimed, uses, raced>>

PairingNext ==
    \/ \E t \in Tokens : Create(t) \/ Age(t)
    \/ \E r \in PairingRequests, t \in Tokens : Validate(r, t) \/ Consume(r, t) \/ RevokeToken(r, t)
    \/ \E r \in PairingRequests : WriteToken(r) \/ Abandon(r)
    \/ Sweep

PairingSpec == PairingInit /\ [][PairingNext]_pairingVars

-----------------------------------------------------------------------------
\* Every variable has the shape the code gives it.
Answers == {"valid", "paired", "revoked", "refused", "lost"}
PairingTypeOK ==
    /\ row \in [Tokens -> TokenState \cup {"absent"}]
    /\ stamped \in [Tokens -> BOOLEAN]
    /\ owner \in [Tokens -> PairingRequests \cup {Nobody}]
    /\ old \in [Tokens -> BOOLEAN]
    /\ tokenJob \in [PairingRequests -> [pc : {"idle", "writing"} \cup Answers,
                             token : Tokens \cup {Nobody},
                             read : TokenState \cup {"absent"},
                             to : {"absent", "pending", "consumed", "revoked"}]]
    /\ claimed \in [Tokens -> BOOLEAN]
    /\ uses \in [Tokens -> SUBSET PairingRequests]
    /\ raced \in [Tokens -> BOOLEAN]

\* Whatever writes cross each other, a row is CONSUMED exactly if it has a time of
\* consumption, and the machine it then names is one whose consumption succeeded.
ConsumedRowIsWhole ==
    \A t \in Tokens :
        /\ row[t] = "consumed" <=> stamped[t]
        /\ stamped[t] => owner[t] \in uses[t]

\* ISSUED -> PENDING -> CONSUMED: no machine is paired with a token that no
\* validation has claimed before, although validate_for_consumption would do.
ClaimBeforeConsume == \A t \in Tokens : uses[t] # {} => claimed[t]

\* A row moves outside the legal transitions only when the request that writes it
\* read another status than it finds: every path through the handlers checks.
OnlyStaleTokenWritesStep ==
    \A t \in Tokens :
        \/ row'[t] = row[t]
        \/ row[t] = "absent" /\ row'[t] = "issued"
        \/ <<row[t], row'[t]>> \in LegalTokens
        \/ raced'[t]
OnlyStaleWritesBreakTheTokens == [][OnlyStaleTokenWritesStep]_pairingVars

\* Replay protection holds as long as no two writes of a token cross: then one
\* machine at most is paired with it, and no request or sweep takes that back.
SingleUseUnlessRaced ==
    \A t \in Tokens :
        ~raced[t] => \A r \in uses[t] : uses[t] = {r} /\ row[t] = "consumed" /\ owner[t] = r

\* Together: whatever requests, sweeps and losses cross, the token's row and the pairings
\* it stands for agree.
TokensAreSound == ConsumedRowIsWhole /\ ClaimBeforeConsume /\ SingleUseUnlessRaced

\* "Token has not been consumed (replay protection)": a token pairs one machine.
SingleUse == \A t \in Tokens : \A r, s \in uses[t] : r = s
=============================================================================
