---------------------------- MODULE Fleet_proofs ----------------------------
(***************************************************************************)
(* Theorems about pairing tokens, heartbeats, configuration packages and   *)
(* policies, one section for each, for any tokens, requests, machines,     *)
(* capabilities, packages and files; then, with those about registrations  *)
(* and commands, about all that the server keeps of machines together.     *)
(***************************************************************************)
EXTENDS MCFleet, Registration_proofs, Commands_proofs, Induction_proofs, FiniteSetTheorems

-----------------------------------------------------------------------------
(* Pairing tokens.                                                         *)

\* A handler that is about to write has checked the move it makes against the
\* transition table, from the status it read.
CheckedBeforeWrite ==
    \A r \in PairingRequests :
        tokenJob[r].pc = "writing" =>
            /\ tokenJob[r].token \in Tokens
            /\ tokenJob[r].to \in {"pending", "consumed", "revoked"}
            /\ <<tokenJob[r].read, tokenJob[r].to>> \in LegalTokens

\* A row that is PENDING, or that some handler is about to consume, was claimed.
PendingIsClaimed ==
    /\ \A t \in Tokens : row[t] = "pending" => claimed[t]
    /\ \A r \in PairingRequests :
          tokenJob[r].pc = "writing" /\ tokenJob[r].to = "consumed" => claimed[tokenJob[r].token]

PairingInv == PairingTypeOK /\ CheckedBeforeWrite /\ PendingIsClaimed
          /\ ConsumedRowIsWhole /\ ClaimBeforeConsume /\ SingleUseUnlessRaced

LEMMA InitPairing == PairingInit => PairingInv
BY DEF PairingInit, PairingInv, PairingTypeOK, CheckedBeforeWrite, PendingIsClaimed, ConsumedRowIsWhole,
       ClaimBeforeConsume, SingleUseUnlessRaced, NoTokenJob, TokenState

\* The read half of a request touches its tokenJob only, and leaves it checked.
LEMMA ReadStep ==
    ASSUME PairingInv, NEW r \in PairingRequests, NEW t \in Tokens,
           Validate(r, t) \/ Consume(r, t) \/ RevokeToken(r, t)
    PROVE  PairingInv'
<1>1. UNCHANGED <<table, old, claimed, uses, raced>>
  BY DEF Validate, Consume, RevokeToken
<1>2. \/ \E pc \in Answers : Answer(r, t, pc)
      \/ Validate(r, t) /\ row[t] = "issued" /\ GoOn(r, t, "pending")
      \/ row[t] = "pending" /\ GoOn(r, t, "consumed")
      \/ <<row[t], "revoked">> \in LegalTokens /\ GoOn(r, t, "revoked")
  BY DEF Validate, Consume, RevokeToken, MayConsume, MayRevoke, LegalTokens, Answers
<1>3. row[t] \in TokenState \cup {"absent"}
  BY DEF PairingInv, PairingTypeOK
<1>4. PairingTypeOK'
  <2>1. \E j \in [pc : {"idle", "writing"} \cup Answers, token : Tokens \cup {Nobody},
                  read : TokenState \cup {"absent"},
                  to : {"absent", "pending", "consumed", "revoked"}] :
            tokenJob' = [tokenJob EXCEPT ![r] = j]
    BY <1>2, <1>3 DEF Answer, GoOn, NoTokenJob, Answers, TokenState
  <2> QED  BY <1>1, <2>1 DEF PairingInv, PairingTypeOK, table
<1>5. \A q \in PairingRequests : q # r => tokenJob'[q] = tokenJob[q]
  BY <1>2 DEF PairingInv, PairingTypeOK, Answer, GoOn
<1>6. \/ tokenJob'[r].pc \in Answers
      \/ /\ tokenJob'[r].token = t /\ tokenJob'[r].to \in {"pending", "consumed", "revoked"}
         /\ <<tokenJob'[r].read, tokenJob'[r].to>> \in LegalTokens
         /\ tokenJob'[r].to = "consumed" => row[t] = "pending"
  <2>1. CASE \E pc \in Answers : Answer(r, t, pc)
    BY <2>1 DEF PairingInv, PairingTypeOK, Answer, NoTokenJob
  <2>2. CASE \E to \in {"pending", "consumed", "revoked"} :
                /\ <<row[t], to>> \in LegalTokens /\ GoOn(r, t, to)
                /\ to = "consumed" => row[t] = "pending"
    BY <2>2 DEF PairingInv, PairingTypeOK, GoOn
  <2> QED  BY <1>2, <2>1, <2>2 DEF LegalTokens
<1>7. CheckedBeforeWrite'
  <2>1. "writing" \notin Answers
    BY DEF Answers
  <2> QED  BY <1>5, <1>6, <2>1 DEF PairingInv, CheckedBeforeWrite
<1>8. PendingIsClaimed'
  <2>1. "writing" \notin Answers
    BY DEF Answers
  <2> QED  BY <1>1, <1>5, <1>6, <2>1 DEF PairingInv, PendingIsClaimed, table
<1>9. (ConsumedRowIsWhole /\ ClaimBeforeConsume /\ SingleUseUnlessRaced)'
  BY <1>1 DEF PairingInv, ConsumedRowIsWhole, ClaimBeforeConsume, SingleUseUnlessRaced, table
<1> QED  BY <1>4, <1>7, <1>8, <1>9 DEF PairingInv

\* The write half: if the row is still as it was read the move is legal, and if it
\* is not, the token counts as raced from now on.
LEMMA WriteStep ==
    ASSUME PairingInv, NEW r \in PairingRequests, WriteToken(r)
    PROVE  PairingInv'
<1> DEFINE t == tokenJob[r].token
           to == tokenJob[r].to
<1>1. /\ t \in Tokens /\ to \in {"pending", "consumed", "revoked"}
      /\ <<tokenJob[r].read, to>> \in LegalTokens
  BY DEF PairingInv, CheckedBeforeWrite, WriteToken
<1>2. PairingTypeOK'
  <2>1. Outcome[to] \in Answers
    BY <1>1 DEF Outcome, Answers
  <2>2. (stamped \in [Tokens -> BOOLEAN] /\ claimed \in [Tokens -> BOOLEAN] /\ raced \in [Tokens -> BOOLEAN])'
    BY <1>1 DEF PairingInv, PairingTypeOK, WriteToken, TokenStamp
  <2> QED  BY <1>1, <2>1, <2>2 DEF PairingInv, PairingTypeOK, WriteToken, TokenState
<1>3. CheckedBeforeWrite'
  BY <1>1 DEF PairingInv, PairingTypeOK, CheckedBeforeWrite, WriteToken, Outcome
<1>4. PendingIsClaimed'
  <2>1. \A u \in Tokens : (row[u] = "pending" => claimed[u])'
    BY <1>1 DEF PairingInv, PairingTypeOK, PendingIsClaimed, WriteToken
  <2>2. \A u \in Tokens : claimed[u] => claimed'[u]
    BY <1>1 DEF PairingInv, PairingTypeOK, WriteToken
  <2>3. \A q \in PairingRequests :
           tokenJob'[q].pc = "writing" => tokenJob[q].pc = "writing" /\ tokenJob'[q] = tokenJob[q]
    BY <1>1 DEF PairingInv, PairingTypeOK, WriteToken, Outcome
  <2> QED  BY <2>1, <2>2, <2>3 DEF PairingInv, PendingIsClaimed, CheckedBeforeWrite
<1>5. ConsumedRowIsWhole'
  BY <1>1 DEF PairingInv, PairingTypeOK, ConsumedRowIsWhole, WriteToken, TokenStamp
<1>6. ClaimBeforeConsume'
  BY <1>1 DEF PairingInv, PairingTypeOK, ClaimBeforeConsume, PendingIsClaimed, WriteToken
<1>7. SingleUseUnlessRaced'
  <2>1. SUFFICES ASSUME NEW u \in Tokens, ~raced'[u], NEW s \in uses'[u]
                 PROVE  uses'[u] = {s} /\ row'[u] = "consumed" /\ owner'[u] = s
    BY DEF SingleUseUnlessRaced
  <2>2. CASE u # t
    BY <1>1, <2>1, <2>2 DEF PairingInv, PairingTypeOK, SingleUseUnlessRaced, WriteToken
  <2>3. CASE u = t
    <3>1. ~raced[t] /\ row[t] = tokenJob[r].read
      BY <1>1, <2>1, <2>3 DEF PairingInv, PairingTypeOK, WriteToken
    <3>2. row[t] # "consumed"
      BY <1>1, <3>1 DEF LegalTokens
    <3>3. uses[t] = {}
      BY <1>1, <3>1, <3>2 DEF PairingInv, SingleUseUnlessRaced
    <3> QED  BY <1>1, <2>1, <2>3, <3>3 DEF PairingInv, PairingTypeOK, WriteToken
  <2> QED  BY <2>2, <2>3
<1> QED  BY <1>2, <1>3, <1>4, <1>5, <1>6, <1>7 DEF PairingInv

\* The steps that are not requests, and the end of one that was cut off.
LEMMA OtherStep ==
    ASSUME PairingInv,
           \/ \E t \in Tokens : Create(t) \/ Age(t)
           \/ \E r \in PairingRequests : Abandon(r)
           \/ Sweep
    PROVE  PairingInv'
<1>1. ASSUME NEW t \in Tokens, Create(t) PROVE PairingInv'
  BY <1>1 DEF PairingInv, PairingTypeOK, CheckedBeforeWrite, PendingIsClaimed, ConsumedRowIsWhole,
              ClaimBeforeConsume, SingleUseUnlessRaced, Create, TokenState
<1>2. ASSUME NEW t \in Tokens, Age(t) PROVE PairingInv'
  BY <1>2 DEF PairingInv, PairingTypeOK, CheckedBeforeWrite, PendingIsClaimed, ConsumedRowIsWhole,
              ClaimBeforeConsume, SingleUseUnlessRaced, Age, table
<1>3. ASSUME NEW r \in PairingRequests, Abandon(r) PROVE PairingInv'
  BY <1>3 DEF PairingInv, PairingTypeOK, CheckedBeforeWrite, PendingIsClaimed, ConsumedRowIsWhole,
              ClaimBeforeConsume, SingleUseUnlessRaced, Abandon, Answers, table
<1>4. ASSUME Sweep PROVE PairingInv'
  BY <1>4 DEF PairingInv, PairingTypeOK, CheckedBeforeWrite, PendingIsClaimed, ConsumedRowIsWhole,
              ClaimBeforeConsume, SingleUseUnlessRaced, Sweep, Stale, TokenState
<1> QED  BY <1>1, <1>2, <1>3, <1>4

LEMMA PairingInvariance == PairingSpec => []PairingInv
<1>1. PairingInv /\ [PairingNext]_pairingVars => PairingInv'
  <2>1. SUFFICES ASSUME PairingInv, [PairingNext]_pairingVars PROVE PairingInv'
    OBVIOUS
  <2>2. CASE UNCHANGED pairingVars
    BY <2>1, <2>2 DEF PairingInv, PairingTypeOK, CheckedBeforeWrite, PendingIsClaimed, ConsumedRowIsWhole,
                      ClaimBeforeConsume, SingleUseUnlessRaced, pairingVars, table
  <2>3. CASE PairingNext
    BY <2>1, <2>3, ReadStep, WriteStep, OtherStep DEF PairingNext
  <2> QED  BY <2>1, <2>2, <2>3
<1> QED  BY <1>1, InitPairing, PTL DEF PairingSpec

-----------------------------------------------------------------------------
\* The variables keep their types.
THEOREM TokensTypeCorrect == PairingSpec => []PairingTypeOK
BY PairingInvariance, PTL DEF PairingInv

\* However the writes of any number of requests cross each other, a CONSUMED row
\* is whole: it has its time of consumption and names a machine that consumed it.
THEOREM ConsumedRowsAreWhole == PairingSpec => []ConsumedRowIsWhole
BY PairingInvariance, PTL DEF PairingInv

\* No machine is paired with a token no validation claimed.
THEOREM ConsumptionFollowsClaim == PairingSpec => []ClaimBeforeConsume
BY PairingInvariance, PTL DEF PairingInv

\* Replay protection: without crossing writes, a token pairs at most one machine.
THEOREM ReplayProtection == PairingSpec => []SingleUseUnlessRaced
BY PairingInvariance, PTL DEF PairingInv

\* Every move of a row that the transition table forbids is a write on top of a
\* row another request changed meanwhile.
THEOREM TokensBreakOnlyByRace == PairingSpec => OnlyStaleWritesBreakTheTokens
<1>1. ASSUME PairingInv, [PairingNext]_pairingVars PROVE [OnlyStaleTokenWritesStep]_pairingVars
  <2>1. ASSUME NEW r \in PairingRequests, WriteToken(r) PROVE OnlyStaleTokenWritesStep
    <3>1. tokenJob[r].token \in Tokens /\ <<tokenJob[r].read, tokenJob[r].to>> \in LegalTokens
      BY <1>1, <2>1 DEF PairingInv, CheckedBeforeWrite, WriteToken
    <3>2. \/ row[tokenJob[r].token] = tokenJob[r].read
          \/ raced'[tokenJob[r].token]
      BY <1>1, <2>1, <3>1 DEF PairingInv, PairingTypeOK, WriteToken
    <3> QED  BY <1>1, <2>1, <3>1, <3>2 DEF PairingInv, PairingTypeOK, WriteToken, OnlyStaleTokenWritesStep
  <2>2. ASSUME NEW t \in Tokens, Create(t) PROVE OnlyStaleTokenWritesStep
    BY <1>1, <2>2 DEF PairingInv, PairingTypeOK, Create, OnlyStaleTokenWritesStep
  <2>3. ASSUME Sweep PROVE OnlyStaleTokenWritesStep
    BY <1>1, <2>3 DEF PairingInv, PairingTypeOK, Sweep, Stale, LegalTokens, OnlyStaleTokenWritesStep
  <2>4. ASSUME UNCHANGED row PROVE OnlyStaleTokenWritesStep
    BY <2>4 DEF OnlyStaleTokenWritesStep
  <2>5. CASE PairingNext
    BY <2>1, <2>2, <2>3, <2>4, <2>5
       DEF PairingNext, Age, Validate, Consume, RevokeToken, Abandon, table
  <2> QED  BY <1>1, <2>5
<1> QED  BY <1>1, PairingInvariance, PTL DEF PairingSpec, OnlyStaleWritesBreakTheTokens

\* The three facts about a token, its row and the machines it pairs, together.
THEOREM TokensSound == PairingSpec => []TokensAreSound
BY ConsumedRowsAreWhole, ConsumptionFollowsClaim, ReplayProtection, PTL DEF TokensAreSound

-----------------------------------------------------------------------------
(* Heartbeats.                                                             *)

USE HeartbeatAssumption

\* A set of positions in a sequence has a last one.
LEMMA LastPosition ==
    ASSUME NEW n \in Nat, NEW S \in SUBSET (1 .. n), S # {}
    PROVE  \E m \in S : \A i \in S : i <= m
<1>1. PICK T : T = {i \in 0 .. n : \A j \in S : j <= n - i}
  OBVIOUS
<1>2. CASE \E i \in 1 .. n : i - 1 \in T /\ i \notin T
  <2>1. PICK i \in 1 .. n : i - 1 \in T /\ i \notin T
    BY <1>2
  <2>2. PICK m \in S : ~(m <= n - i)
    BY <1>1, <2>1
  <2>3. \A j \in S : j <= n - (i - 1)
    BY <1>1, <2>1
  <2>4. n - (i - 1) = n - i + 1 /\ m <= n - (i - 1) /\ m \in Nat /\ n - i \in Int
    BY <2>2, <2>3
  <2> QED
    BY <2>2, <2>3, <2>4
<1>3. CASE \A i \in 1 .. n : i - 1 \in T => i \in T
  <2>1. 0 \in T
    BY <1>1
  <2>2. n \in T
    BY <1>3, <2>1, InductionUpTo
  <2>3. \A j \in S : j <= n - n
    BY <1>1, <2>2
  <2>4. PICK m \in S : m <= n - n
    BY <2>3
  <2>5. m \in 1 .. n /\ n - n = 0
    OBVIOUS
  <2> QED
    BY <2>4, <2>5
<1> QED
  BY <1>2, <1>3

Differing(s, f) == {p \in (DOMAIN s) \X (DOMAIN s) : Differ(s, f, p[1], p[2])}
LatestOf(s) ==
    LET sent == {i \in DOMAIN s : s[i].caps.sent}
    IN  IF sent = {} THEN NoCapabilities
        ELSE s[CHOOSE i \in sent : \A j \in sent : j <= i].caps

\* A row with the capabilities that were reported.
Reported(rec) == rec.caps.sent

\* The last of them in s.
IsLastReport(l, s) ==
    l \in 1 .. Len(s) /\ Reported(s[l]) /\ \A k \in 1 .. Len(s) : Reported(s[k]) => k <= l

\* Two reports differ in f.
Disagree(f, was, new) == f \in was.on <=> f \notin new.on

\* The pair of their positions, if they do.
PairOf(f, was, new, pair) == {p \in {pair} : Disagree(f, was, new)}

\* A row after s differs from the report i, the last before it.
DiffersFrom(rec, s, f, i) ==
    /\ s[i].caps.sent /\ rec.caps.sent
    /\ \A k \in (i + 1) .. Len(s) : ~s[k].caps.sent
    /\ Disagree(f, s[i].caps, rec.caps)

\* Which pairs of rows differ after another row.
LEMMA DifferBefore ==
    ASSUME NEW s \in Seq(BeatRow), NEW rec \in BeatRow, NEW f, NEW t, t = Append(s, rec),
           NEW i \in 1 .. Len(s) + 1, NEW j \in 1 .. Len(s)
    PROVE  /\ Differ(t, f, i, j) => i <= Len(s) /\ Differ(s, f, i, j)
           /\ i <= Len(s) /\ Differ(s, f, i, j) => Differ(t, f, i, j)
<1>1. Len(s) \in Nat /\ Len(t) = Len(s) + 1 /\ \A k \in 1 .. Len(s) : t[k] = s[k]
  OBVIOUS
<1>2. CASE ~(i < j)
  BY <1>1, <1>2 DEF Differ
<1>3. CASE i < j
  <2>1. i \in 1 .. Len(s) /\ \A k \in (i + 1) .. (j - 1) : k \in 1 .. Len(s)
    BY <1>1, <1>3
  <2>2. t[i] = s[i] /\ t[j] = s[j] /\ \A k \in (i + 1) .. (j - 1) : t[k] = s[k]
    BY <1>1, <2>1
  <2>3. Differ(t, f, i, j) <=> Differ(s, f, i, j)
    BY <2>2 DEF Differ
  <2> QED
    BY <1>1, <2>1, <2>3
<1> QED
  BY <1>2, <1>3
LEMMA DifferAfter ==
    ASSUME NEW s \in Seq(BeatRow), NEW rec \in BeatRow, NEW f, NEW t, t = Append(s, rec),
           NEW i \in 1 .. Len(s) + 1, NEW j, j = Len(s) + 1
    PROVE  /\ Differ(t, f, i, j) => i <= Len(s) /\ DiffersFrom(rec, s, f, i)
           /\ i <= Len(s) /\ DiffersFrom(rec, s, f, i) => Differ(t, f, i, j)
<1>1. Len(s) \in Nat /\ Len(t) = Len(s) + 1 /\ t[Len(s) + 1] = rec
      /\ \A k \in 1 .. Len(s) : t[k] = s[k]
  OBVIOUS
<1>2. CASE i = Len(s) + 1
  BY <1>1, <1>2 DEF Differ
<1>3. CASE i <= Len(s)
  <2>1. i \in 1 .. Len(s) /\ i < j /\ j - 1 = Len(s) /\ \A k \in (i + 1) .. Len(s) : k \in 1 .. Len(s)
    BY <1>1, <1>3
  <2>2. t[i] = s[i] /\ t[j] = rec /\ \A k \in (i + 1) .. Len(s) : t[k] = s[k]
    BY <1>1, <2>1
  <2> QED
    BY <2>1, <2>2 DEF Differ, DiffersFrom, Disagree
<1> QED
  BY <1>1, <1>2, <1>3

LEMMA DifferingIsFinite ==
    ASSUME NEW s \in Seq(BeatRow), NEW f
    PROVE  IsFiniteSet(Differing(s, f)) /\ Cardinality(Differing(s, f)) \in Nat
<1>1. DOMAIN s = 1 .. Len(s) /\ Len(s) \in Nat
  OBVIOUS
<1>2. IsFiniteSet(1 .. Len(s))
  BY <1>1, FS_Interval
<1>3. IsFiniteSet((DOMAIN s) \X (DOMAIN s))
  BY <1>1, <1>2, FS_Product
<1>4. Differing(s, f) \in SUBSET ((DOMAIN s) \X (DOMAIN s))
  BY DEF Differing
<1> QED
  BY <1>3, <1>4, FS_Subset, FS_CardinalityType

\* A row adds no pair of differing reports if it is none or the first one.
LEMMA NoneDiffersMore ==
    ASSUME NEW s \in Seq(BeatRow), NEW rec \in BeatRow, NEW f, NEW t, t = Append(s, rec),
           ~rec.caps.sent \/ \A i \in 1 .. Len(s) : ~s[i].caps.sent
    PROVE  Differing(t, f) = Differing(s, f)
<1>1. Len(s) \in Nat /\ DOMAIN s = 1 .. Len(s) /\ DOMAIN t = 1 .. Len(s) + 1
  OBVIOUS
<1>2. ASSUME NEW i \in 1 .. Len(s) + 1, NEW j \in 1 .. Len(s) + 1, Differ(t, f, i, j)
      PROVE  i \in 1 .. Len(s) /\ j \in 1 .. Len(s) /\ Differ(s, f, i, j)
  <2>1. j <= Len(s)
    <3>1. j = Len(s) + 1 => i <= Len(s) /\ DiffersFrom(rec, s, f, i)
      BY <1>2, DifferAfter
    <3>2. j = Len(s) + 1 => i \in 1 .. Len(s) /\ s[i].caps.sent /\ rec.caps.sent
      BY <1>1, <3>1 DEF DiffersFrom
    <3> QED
      BY <1>1, <3>2
  <2>2. i <= Len(s) /\ Differ(s, f, i, j)
    <3>1. j \in 1 .. Len(s)
      BY <1>1, <2>1
    <3> QED
      BY <1>2, <3>1, DifferBefore
  <2> QED
    BY <1>1, <2>1, <2>2
<1>3. ASSUME NEW i \in 1 .. Len(s), NEW j \in 1 .. Len(s), Differ(s, f, i, j) PROVE Differ(t, f, i, j)
  <2>1. i \in 1 .. Len(s) + 1 /\ i <= Len(s)
    BY <1>1
  <2> QED
    BY <1>3, <2>1, DifferBefore
<1>4. \A p : p \in Differing(t, f) <=> p \in Differing(s, f)
  <2>1. ASSUME NEW p \in Differing(t, f) PROVE p \in Differing(s, f)
    <3>1. p \in (1 .. Len(s) + 1) \X (1 .. Len(s) + 1) /\ Differ(t, f, p[1], p[2])
      BY <1>1, <2>1 DEF Differing
    <3>2. p[1] \in 1 .. Len(s) /\ p[2] \in 1 .. Len(s) /\ Differ(s, f, p[1], p[2])
      BY <1>2, <3>1
    <3>3. p \in (1 .. Len(s)) \X (1 .. Len(s))
      BY <3>1, <3>2
    <3> QED
      BY <1>1, <3>2, <3>3 DEF Differing
  <2>2. ASSUME NEW p \in Differing(s, f) PROVE p \in Differing(t, f)
    <3>1. p \in (1 .. Len(s)) \X (1 .. Len(s)) /\ Differ(s, f, p[1], p[2])
      BY <1>1, <2>2 DEF Differing
    <3>2. p \in (1 .. Len(s) + 1) \X (1 .. Len(s) + 1)
      BY <1>1, <3>1
    <3> QED
      BY <1>1, <1>3, <3>1, <3>2 DEF Differing
  <2> QED
    BY <2>1, <2>2
<1> QED
  BY <1>4

\* t adds the pair of the reports l and its last, if they differ, to the pairs of s.
AddsPair(t, s, f, l, rec) ==
    /\ <<l, Len(s) + 1>> \notin Differing(s, f)
    /\ Differing(t, f) = Differing(s, f) \cup PairOf(f, s[l].caps, rec.caps, <<l, Len(s) + 1>>)

\* A report after the report l adds the pair of the two, if they differ.
LEMMA OneDiffersMore ==
    ASSUME NEW s \in Seq(BeatRow), NEW rec \in BeatRow, NEW f, NEW t, t = Append(s, rec), Reported(rec),
           NEW l, IsLastReport(l, s)
    PROVE  AddsPair(t, s, f, l, rec)
<1>0. PICK new : new = <<l, Len(s) + 1>>
  OBVIOUS
<1>1. /\ Len(s) \in Nat /\ DOMAIN s = 1 .. Len(s) /\ DOMAIN t = 1 .. Len(s) + 1
      /\ l \in 1 .. Len(s) /\ Reported(s[l]) /\ \A k \in 1 .. Len(s) : Reported(s[k]) => k <= l
  BY DEF IsLastReport
<1>2. new \notin Differing(s, f)
  BY <1>0, <1>1 DEF Differing
<1>3. PICK extra : extra = PairOf(f, s[l].caps, rec.caps, new)
  OBVIOUS
<1>4. ASSUME NEW i \in 1 .. Len(s) + 1, NEW j \in 1 .. Len(s) + 1, Differ(t, f, i, j)
      PROVE  \/ i \in 1 .. Len(s) /\ j \in 1 .. Len(s) /\ Differ(s, f, i, j)
             \/ <<i, j>> \in extra
  <2>1. CASE j <= Len(s)
    <3>1. j \in 1 .. Len(s)
      BY <1>1, <2>1
    <3>2. i <= Len(s) /\ Differ(s, f, i, j)
      BY <1>4, <3>1, DifferBefore
    <3> QED
      BY <1>1, <3>1, <3>2
  <2>2. CASE j = Len(s) + 1
    <3>0. i <= Len(s) /\ DiffersFrom(rec, s, f, i)
      BY <1>4, <2>2, DifferAfter
    <3>1. i <= Len(s) /\ Reported(s[i]) /\ (\A k \in (i + 1) .. Len(s) : ~Reported(s[k]))
          /\ Disagree(f, s[i].caps, rec.caps)
      BY <3>0 DEF DiffersFrom, Reported
    <3>2. i <= l /\ ~(l \in (i + 1) .. Len(s))
      BY <1>1, <3>1
    <3>3. i = l
      BY <1>1, <3>1, <3>2
    <3> QED
      BY <1>0, <1>3, <2>2, <3>1, <3>3 DEF PairOf
  <2>3. j <= Len(s) \/ j = Len(s) + 1
    BY <1>1
  <2> QED
    BY <2>1, <2>2, <2>3, Zenon
<1>5. ASSUME NEW i \in 1 .. Len(s), NEW j \in 1 .. Len(s), Differ(s, f, i, j) PROVE Differ(t, f, i, j)
  <2>1. i \in 1 .. Len(s) + 1 /\ i <= Len(s)
    BY <1>1
  <2> QED
    BY <1>5, <2>1, DifferBefore
<1>6. \A p \in extra : p = new /\ Differ(t, f, l, Len(s) + 1)
  <2> SUFFICES ASSUME NEW p \in extra PROVE p = new /\ Differ(t, f, l, Len(s) + 1)
    OBVIOUS
  <2>1. p = new /\ Disagree(f, s[l].caps, rec.caps)
    BY <1>3 DEF PairOf
  <2>2. l \in 1 .. Len(s) + 1 /\ Len(s) + 1 \in 1 .. Len(s) + 1 /\ l <= Len(s)
        /\ \A k \in (l + 1) .. Len(s) : ~Reported(s[k])
    BY <1>1
  <2>3. DiffersFrom(rec, s, f, l)
    BY <1>1, <2>1, <2>2 DEF DiffersFrom, Reported
  <2>4. PICK j : j = Len(s) + 1
    OBVIOUS
  <2>5. Differ(t, f, l, j)
    BY <2>2, <2>3, <2>4, DifferAfter
  <2> QED
    BY <2>1, <2>4, <2>5
<1>7. ASSUME NEW p \in Differing(t, f) PROVE p \in Differing(s, f) \cup extra
  <2>1. p \in (1 .. Len(s) + 1) \X (1 .. Len(s) + 1) /\ Differ(t, f, p[1], p[2])
    BY <1>1, <1>7 DEF Differing
  <2>2. CASE p[1] \in 1 .. Len(s) /\ p[2] \in 1 .. Len(s) /\ Differ(s, f, p[1], p[2])
    <3>1. p \in (1 .. Len(s)) \X (1 .. Len(s))
      BY <2>1, <2>2
    <3>2. p \in Differing(s, f)
      BY <1>1, <2>2, <3>1 DEF Differing
    <3> QED
      BY <3>2
  <2>3. CASE <<p[1], p[2]>> \in extra
    <3>1. p = <<p[1], p[2]>>
      BY <2>1
    <3> QED
      BY <2>3, <3>1
  <2> QED
    BY <1>4, <2>1, <2>2, <2>3
<1>8. ASSUME NEW p \in Differing(s, f) PROVE p \in Differing(t, f)
  <2>1. p \in (1 .. Len(s)) \X (1 .. Len(s)) /\ Differ(s, f, p[1], p[2])
    BY <1>1, <1>8 DEF Differing
  <2>2. p \in (1 .. Len(s) + 1) \X (1 .. Len(s) + 1)
    BY <1>1, <2>1
  <2> QED
    BY <1>1, <1>5, <2>1, <2>2 DEF Differing
<1>9. ASSUME NEW p \in extra PROVE p \in Differing(t, f)
  <2>1. new \in (1 .. Len(s) + 1) \X (1 .. Len(s) + 1) /\ new[1] = l /\ new[2] = Len(s) + 1
    BY <1>0, <1>1
  <2> QED
    BY <1>1, <1>6, <1>9, <2>1 DEF Differing
<1>10. Differing(t, f) = Differing(s, f) \cup extra
  BY <1>7, <1>8, <1>9
<1> QED
  BY <1>0, <1>2, <1>3, <1>10 DEF AddsPair

\* The history owes a row for a flag when a row of heartbeats is added: if the comparison says so.
LEMMA ChangesAreCounted ==
    ASSUME NEW s \in Seq(BeatRow), NEW rec \in BeatRow, NEW f \in Flags, NEW t, t = Append(s, rec),
           NEW todo, todo = IF rec.caps.sent THEN Changes(LatestOf(s), rec.caps) ELSE {}
    PROVE  Cardinality(Differing(t, f)) =
               IF <<f, "changed">> \in todo THEN Cardinality(Differing(s, f)) + 1 ELSE Cardinality(Differing(s, f))
<1>1. Len(s) \in Nat /\ DOMAIN s = 1 .. Len(s)
  OBVIOUS
<1>2. PICK sent : sent = {i \in 1 .. Len(s) : s[i].caps.sent}
  OBVIOUS
<1>3. CASE ~rec.caps.sent
  BY <1>3, NoneDiffersMore
<1>4. CASE rec.caps.sent /\ sent = {}
  <2>1. \A i \in 1 .. Len(s) : ~s[i].caps.sent
    BY <1>2, <1>4
  <2>2. Differing(t, f) = Differing(s, f)
    BY <2>1, NoneDiffersMore
  <2>3. LatestOf(s) = NoCapabilities
    BY <1>1, <2>1 DEF LatestOf
  <2>4. todo = {<<g, "added">> : g \in Flags}
    BY <1>4, <2>3 DEF Changes, NoCapabilities
  <2>5. <<f, "changed">> \notin todo
    BY <2>4
  <2> QED
    BY <2>2, <2>5
<1>5. CASE rec.caps.sent /\ sent # {}
  <2>1. sent \in SUBSET (1 .. Len(s))
    BY <1>2
  <2>2. \E m \in sent : \A i \in sent : i <= m
    BY <1>1, <1>5, <2>1, LastPosition
  <2>3. PICK l : l = CHOOSE i \in sent : \A j \in sent : j <= i
    OBVIOUS
  <2>4. l \in sent /\ \A j \in sent : j <= l
    BY <2>2, <2>3
  <2>5. l \in 1 .. Len(s) /\ s[l].caps.sent /\ \A k \in 1 .. Len(s) : s[k].caps.sent => k <= l
    BY <1>2, <2>4
  <2>6. LatestOf(s) = s[l].caps
    BY <1>1, <1>2, <1>5, <2>3 DEF LatestOf
  <2>7. PICK was : was = s[l].caps
    OBVIOUS
  <2>8. todo = {<<g, "changed">> : g \in (was.on \ rec.caps.on) \cup (rec.caps.on \ was.on)}
               \cup {<<"feature_flags", "removed">>}
    BY <1>5, <2>5, <2>6, <2>7 DEF Changes
  <2>9. <<f, "changed">> \in todo <=> Disagree(f, was, rec.caps)
    BY <2>8 DEF Disagree
  <2>10. PICK new : new = <<l, Len(s) + 1>>
    OBVIOUS
  <2>11. /\ new \notin Differing(s, f)
         /\ <<f, "changed">> \in todo => Differing(t, f) = Differing(s, f) \cup {new}
         /\ <<f, "changed">> \notin todo => Differing(t, f) = Differing(s, f)
    <3>1. Reported(rec)
      BY <1>5 DEF Reported
    <3>2. IsLastReport(l, s)
      BY <2>5 DEF IsLastReport, Reported
    <3>3. /\ new \notin Differing(s, f)
          /\ Differing(t, f) = Differing(s, f) \cup PairOf(f, s[l].caps, rec.caps, new)
      <4>1. AddsPair(t, s, f, l, rec)
        BY <3>1, <3>2, OneDiffersMore
      <4> QED
        BY <2>10, <4>1 DEF AddsPair
    <3> QED
      BY <2>7, <2>9, <3>3 DEF PairOf
  <2>12. IsFiniteSet(Differing(s, f))
    BY DifferingIsFinite
  <2>13. Cardinality(Differing(s, f) \cup {new}) = Cardinality(Differing(s, f)) + 1
    BY <2>11, <2>12, FS_AddElement
  <2> QED
    BY <2>11, <2>13
<1> QED
  BY <1>3, <1>4, <1>5

-----------------------------------------------------------------------------
(* What holds of the heartbeats of each machine *)

Todo == (Flags \X {"added", "changed"}) \cup {<<"feature_flags", "removed">>}
BeatJob == [pc : {"idle", "compare", "record", "note", "answered", "replayed", "failed"},
            host : Hosts \cup {NoHost}, sequence : 0 .. MaxSequence, version : Versions,
            caps : Capabilities, todo : SUBSET Todo]
HeartbeatTypes ==
    /\ contact \in [Hosts -> [status : MachineStatus, last : 0 .. MaxSequence]]
    /\ beats \in [Hosts -> Seq(BeatRow)]
    /\ changed \in [Hosts -> [Flags -> Nat]]
    /\ silence \in [Hosts -> 0 .. 2]
    /\ beat \in [Beats -> BeatJob]
    /\ crossed \in SUBSET Hosts

\* The row of the machine's status tells of the last of its heartbeats.
StatusTells(h) ==
    /\ contact[h].status = "unknown" <=> beats[h] = <<>>
    /\ beats[h] # <<>> => contact[h].last = beats[h][Len(beats[h])].sequence

IsAt(r, h) == UnderWay(r) /\ beat[r].host = h
Alone(h) == \A r, s \in Beats : IsAt(r, h) /\ IsAt(s, h) => r = s

\* A handler that nothing crossed is still as right as when it read.
HandlerIsRight(r, h) ==
    /\ beat[r].pc \in {"compare", "record"} => Fresh(h, beat[r].sequence)
    /\ beat[r].pc = "compare" => beat[r].caps.sent
    /\ beat[r].pc = "record" =>
         beat[r].todo = IF beat[r].caps.sent THEN Changes(LatestOf(beats[h]), beat[r].caps) ELSE {}
Grows(s) == \A i, j \in DOMAIN s : i < j => s[i].sequence < s[j].sequence

\* The history lacks at most the rows that a handler has still to write.
IsOwed(h, f) == \E r \in Beats : IsAt(r, h) /\ beat[r].pc = "note" /\ <<f, "changed">> \in beat[r].todo
IsCounted(h, f) ==
    /\ IsOwed(h, f) => changed[h][f] + 1 = Cardinality(Differing(beats[h], f))
    /\ ~IsOwed(h, f) => changed[h][f] = Cardinality(Differing(beats[h], f))

Uncrossed(h) ==
    /\ Alone(h) /\ Grows(beats[h]) /\ \A f \in Flags : IsCounted(h, f)
    /\ \A r \in Beats : IsAt(r, h) => HandlerIsRight(r, h)
TellsSilence(h) ==
    /\ contact[h].status = "delayed" => silence[h] >= 1
    /\ contact[h].status = "offline" => silence[h] = 2

HeartbeatInv ==
    /\ HeartbeatTypes
    /\ \A r \in Beats : UnderWay(r) => beat[r].host \in Hosts
    /\ \A h \in Hosts : StatusTells(h) /\ TellsSilence(h) /\ (h \notin crossed => Uncrossed(h))

LEMMA InitHeartbeat == HeartbeatInit => HeartbeatInv
<1> SUFFICES ASSUME HeartbeatInit PROVE HeartbeatInv
  OBVIOUS
<1>1. NoBeat \in BeatJob
  BY DEF NoBeat, BeatJob, Capabilities, NoCapabilities
<1>2. HeartbeatTypes
  BY <1>1 DEF HeartbeatInit, HeartbeatTypes, MachineStatus
<1>3. \A r \in Beats : ~UnderWay(r)
  BY DEF HeartbeatInit, UnderWay, NoBeat
<1>4. ASSUME NEW h \in Hosts PROVE StatusTells(h) /\ TellsSilence(h) /\ Uncrossed(h)
  <2>1. beats[h] = <<>> /\ contact[h].status = "unknown"
    BY DEF HeartbeatInit
  <2>2. ASSUME NEW f \in Flags PROVE IsCounted(h, f)
    <3>1. Differing(beats[h], f) = {}
      BY <2>1 DEF Differing
    <3>2. Cardinality(Differing(beats[h], f)) = 0
      BY <3>1, FS_EmptySet
    <3>3. changed[h][f] = 0
      BY DEF HeartbeatInit
    <3> QED
      BY <1>3, <3>2, <3>3 DEF IsCounted, IsOwed, IsAt
  <2>3. Grows(beats[h])
    BY <2>1 DEF Grows
  <2> QED
    BY <1>3, <2>1, <2>2, <2>3 DEF StatusTells, TellsSilence, Uncrossed, Alone, IsAt
<1> QED
  BY <1>2, <1>3, <1>4 DEF HeartbeatInv

\* A step that leaves the machine h and its handlers alone keeps what holds of it.
LEMMA OthersBeat ==
    ASSUME NEW h \in Hosts, Uncrossed(h), beats'[h] = beats[h], changed'[h] = changed[h],
           contact'[h].last = contact[h].last,
           (contact'[h].status = "unknown") <=> (contact[h].status = "unknown"),
           \A r \in Beats : beat'[r] = beat[r] \/ (~IsAt(r, h) /\ ~IsAt(r, h)')
    PROVE  Uncrossed(h)'
<1>1. ASSUME NEW r \in Beats PROVE IsAt(r, h)' <=> IsAt(r, h)
  BY DEF IsAt, UnderWay
<1>2. ASSUME NEW r \in Beats, IsAt(r, h) PROVE beat'[r] = beat[r]
  BY <1>2
<1>3. Alone(h)'
  BY <1>1 DEF Uncrossed, Alone
<1>4. ASSUME NEW f \in Flags PROVE IsCounted(h, f)'
  <2>1. IsOwed(h, f)' <=> IsOwed(h, f)
    BY <1>1, <1>2 DEF IsOwed
  <2>2. (Differing(beats[h], f))' = Differing(beats[h], f)
    BY DEF Differing, Differ
  <2> QED
    BY <2>1, <2>2 DEF Uncrossed, IsCounted
<1>5. ASSUME NEW r \in Beats, IsAt(r, h)' PROVE HandlerIsRight(r, h)'
  <2>1. beat'[r] = beat[r] /\ HandlerIsRight(r, h)
    BY <1>1, <1>2, <1>5 DEF Uncrossed
  <2>2. (LatestOf(beats[h]))' = LatestOf(beats[h])
    BY DEF LatestOf
  <2> QED
    BY <2>1, <2>2 DEF HandlerIsRight, Fresh
<1> QED
  BY <1>3, <1>4, <1>5 DEF Uncrossed, Grows

\* In a machine's rows grows what is put after them, if it is fresh.
LEMMA FreshGrows ==
    ASSUME NEW h \in Hosts, HeartbeatInv, Grows(beats[h]), NEW rec \in BeatRow, Fresh(h, rec.sequence),
           NEW t, t = Append(beats[h], rec)
    PROVE  Grows(t)
<1>1. PICK s \in Seq(BeatRow) : s = beats[h]
  BY DEF HeartbeatInv, HeartbeatTypes
<1>2. /\ Len(s) \in Nat /\ DOMAIN s = 1 .. Len(s) /\ DOMAIN t = 1 .. Len(s) + 1
      /\ t[Len(s) + 1] = rec /\ \A i \in 1 .. Len(s) : t[i] = s[i] /\ s[i] \in BeatRow
  BY <1>1
<1>3. \A i \in 1 .. Len(s) : s[i].sequence \in Int
  BY <1>2 DEF BeatRow, HeartbeatAssumption
<1>4. ASSUME NEW i \in 1 .. Len(s) PROVE s[i].sequence < rec.sequence
  <2>1. s # <<>> /\ Len(s) \in 1 .. Len(s)
    BY <1>2
  <2>2. rec.sequence > s[Len(s)].sequence
    BY <1>1, <2>1 DEF HeartbeatInv, StatusTells, Fresh
  <2>3. i = Len(s) \/ s[i].sequence < s[Len(s)].sequence
    BY <1>1, <1>2, <2>1 DEF Grows
  <2>4. rec.sequence \in Int
    BY DEF BeatRow, HeartbeatAssumption
  <2> QED
    BY <1>3, <2>1, <2>2, <2>3, <2>4
<1>5. ASSUME NEW i \in 1 .. Len(s) + 1, NEW j \in 1 .. Len(s) + 1, i < j PROVE t[i].sequence < t[j].sequence
  <2>1. i \in 1 .. Len(s) /\ t[i] = s[i]
    BY <1>2, <1>5
  <2>2. CASE j = Len(s) + 1
    BY <1>2, <1>4, <2>1, <2>2
  <2>3. CASE j # Len(s) + 1
    <3>1. j \in 1 .. Len(s) /\ t[j] = s[j]
      BY <1>2, <2>3
    <3> QED
      BY <1>1, <1>2, <1>5, <2>1, <3>1 DEF Grows
  <2> QED
    BY <2>2, <2>3
<1> QED
  BY <1>2, <1>5 DEF Grows

-----------------------------------------------------------------------------
(* Each action *)

\* A job put in the place of r's leaves all handlers typed and at hosts.
LEMMA JobsAreTyped ==
    ASSUME HeartbeatInv, NEW r \in Beats, NEW b \in BeatJob, beat' = [beat EXCEPT ![r] = b],
           b.pc \in {"compare", "record", "note"} => b.host \in Hosts
    PROVE  /\ beat' \in [Beats -> BeatJob] /\ beat'[r] = b /\ \A s \in Beats : s # r => beat'[s] = beat[s]
           /\ \A s \in Beats : UnderWay(s)' => beat'[s].host \in Hosts
<1>1. beat \in [Beats -> BeatJob]
  BY DEF HeartbeatInv, HeartbeatTypes
<1>2. beat' \in [Beats -> BeatJob] /\ beat'[r] = b /\ \A s \in Beats : s # r => beat'[s] = beat[s]
  BY <1>1
<1>3. ASSUME NEW s \in Beats, UnderWay(s)' PROVE beat'[s].host \in Hosts
  <2>1. CASE s = r
    BY <1>2, <1>3, <2>1 DEF UnderWay
  <2>2. CASE s # r
    BY <1>2, <1>3, <2>2 DEF UnderWay, HeartbeatInv
  <2> QED
    BY <2>1, <2>2
<1> QED
  BY <1>2, <1>3

LEMMA EndedIsTyped ==
    ASSUME NEW a \in {"answered", "replayed", "failed"}
    PROVE  BeatEnded(a) \in BeatJob /\ BeatEnded(a).pc = a
<1>1. PICK b : b = NoBeat
  OBVIOUS
<1>2. b \in BeatJob
  BY <1>1 DEF NoBeat, BeatJob, Capabilities, NoCapabilities, HeartbeatAssumption
<1>3. [b EXCEPT !.pc = a] \in BeatJob /\ [b EXCEPT !.pc = a].pc = a
  BY <1>2 DEF BeatJob
<1> QED
  BY <1>1, <1>3 DEF BeatEnded

LEMMA SubmitKeeps ==
    ASSUME HeartbeatInv, NEW r \in Beats, NEW q \in Request, Submit(r, q)
    PROVE  HeartbeatInv'
<1> USE DEF UnderWay
<1>1. PICK b : b = [pc |-> IF q.caps.sent THEN "compare" ELSE "record", host |-> q.host,
                    sequence |-> q.sequence, version |-> Negotiated(q.version),
                    caps |-> q.caps, todo |-> {}]
  OBVIOUS
<1>2. q.host \in Hosts /\ q.sequence \in 0 .. MaxSequence /\ q.version \in Versions /\ q.caps \in Capabilities
  BY DEF Request
<1>3. b \in BeatJob /\ b.host = q.host /\ b.sequence = q.sequence /\ b.caps = q.caps /\ b.todo = {}
      /\ b.pc = (IF q.caps.sent THEN "compare" ELSE "record")
  BY <1>1, <1>2 DEF BeatJob, Negotiated, HeartbeatAssumption
<1>4. PICK c : c = IF Fresh(q.host, q.sequence) THEN b ELSE BeatEnded("replayed")
  OBVIOUS
<1>5. c \in BeatJob /\ (c.pc \in {"compare", "record", "note"} => c = b /\ Fresh(q.host, q.sequence))
  BY <1>3, <1>4, EndedIsTyped
<1>6. /\ beat[r].pc = "idle" /\ beat' = [beat EXCEPT ![r] = c]
      /\ crossed' = IF InFlight(q.host) # {} THEN crossed \cup {q.host} ELSE crossed
      /\ UNCHANGED <<contact, beats, changed, silence>>
  BY <1>1, <1>4 DEF Submit
<1>7. /\ beat' \in [Beats -> BeatJob] /\ beat'[r] = c /\ \A s \in Beats : s # r => beat'[s] = beat[s]
      /\ \A s \in Beats : UnderWay(s)' => beat'[s].host \in Hosts
  <2>1. c.pc \in {"compare", "record", "note"} => c.host \in Hosts
    BY <1>2, <1>3, <1>5
  <2> HIDE DEF UnderWay
  <2> QED
    BY <1>5, <1>6, <2>1, JobsAreTyped
<1>8. HeartbeatTypes'
  BY <1>2, <1>6, <1>7 DEF HeartbeatInv, HeartbeatTypes
<1>9. ASSUME NEW h \in Hosts, h \notin crossed' PROVE Uncrossed(h)'
  <2>0. h \notin crossed /\ Uncrossed(h)
    BY <1>6, <1>9 DEF HeartbeatInv
  <2>1. CASE h # q.host \/ c.pc \notin {"compare", "record", "note"}
    <3>1. ~IsAt(r, h) /\ ~IsAt(r, h)'
      BY <1>3, <1>5, <1>6, <1>7, <2>1 DEF IsAt
    <3>2. \A s \in Beats : beat'[s] = beat[s] \/ (~IsAt(s, h) /\ ~IsAt(s, h)')
      BY <1>7, <3>1
    <3> QED
      BY <1>6, <2>0, <3>2, OthersBeat
  <2>2. CASE h = q.host /\ c.pc \in {"compare", "record", "note"}
    <3>1. c = b /\ Fresh(h, q.sequence)
      BY <1>5, <2>2
    <3>2. \A s \in Beats : ~IsAt(s, h)
      BY <1>6, <1>9, <2>2 DEF InFlight, IsAt
    <3>3. \A s \in Beats : IsAt(s, h)' => s = r
      BY <1>7, <3>2 DEF IsAt
    <3>4. beat'[r].pc # "note"
      BY <1>3, <1>7, <3>1
    <3>5. ASSUME NEW f \in Flags PROVE IsCounted(h, f)'
      <4>1. ~IsOwed(h, f) /\ ~IsOwed(h, f)'
        BY <3>2, <3>3, <3>4 DEF IsOwed
      <4>2. (Differing(beats[h], f))' = Differing(beats[h], f)
        BY <1>6 DEF Differing, Differ
      <4> QED
        BY <1>6, <2>0, <4>1, <4>2 DEF Uncrossed, IsCounted
    <3>6. HandlerIsRight(r, h)'
      BY <1>3, <1>6, <1>7, <3>1 DEF HandlerIsRight, Fresh
    <3>7. Grows(beats[h])'
      BY <1>6, <2>0 DEF Uncrossed, Grows
    <3>8. Alone(h)'
      BY <3>3 DEF Alone
    <3> QED
      BY <3>3, <3>5, <3>6, <3>7, <3>8 DEF Uncrossed
  <2> QED
    BY <2>1, <2>2
<1>10. \A h \in Hosts : StatusTells(h)' /\ TellsSilence(h)'
  BY <1>6 DEF HeartbeatInv, StatusTells, TellsSilence
<1> QED
  BY <1>7, <1>8, <1>9, <1>10 DEF HeartbeatInv

\* The capabilities on file are a request's.
LEMMA LatestIsTyped ==
    ASSUME NEW s \in Seq(BeatRow) PROVE LatestOf(s) \in Capabilities
<1>1. Len(s) \in Nat /\ DOMAIN s = 1 .. Len(s)
  OBVIOUS
<1>2. PICK sent : sent = {i \in 1 .. Len(s) : s[i].caps.sent}
  OBVIOUS
<1>3. CASE sent = {}
  BY <1>1, <1>2, <1>3 DEF LatestOf, Capabilities
<1>4. CASE sent # {}
  <2>1. sent \in SUBSET (1 .. Len(s))
    BY <1>2
  <2>2. \E m \in sent : \A i \in sent : i <= m
    BY <1>1, <1>4, <2>1, LastPosition
  <2>3. PICK l : l = CHOOSE i \in sent : \A j \in sent : j <= i
    OBVIOUS
  <2>4. l \in 1 .. Len(s)
    BY <1>2, <2>2, <2>3
  <2>5. LatestOf(s) = s[l].caps
    BY <1>1, <1>2, <1>4, <2>3 DEF LatestOf
  <2>6. s[l] \in BeatRow
    BY <2>4
  <2> QED
    BY <2>5, <2>6 DEF BeatRow
<1> QED
  BY <1>3, <1>4

LEMMA ChangesAreTodo ==
    ASSUME NEW was \in Capabilities, NEW new \in Capabilities PROVE Changes(was, new) \in SUBSET Todo
<1>1. ASSUME NEW c \in Capabilities PROVE c.on \in SUBSET Flags
  <2>1. CASE c = NoCapabilities
    BY <2>1 DEF NoCapabilities
  <2>2. CASE c \in [sent : {TRUE}, on : SUBSET Flags]
    BY <2>2
  <2> QED
    BY <2>1, <2>2 DEF Capabilities
<1>2. was.on \in SUBSET Flags /\ new.on \in SUBSET Flags
  BY <1>1
<1> QED
  BY <1>2 DEF Changes, Todo

LEMMA CompareKeeps ==
    ASSUME HeartbeatInv, NEW r \in Beats, Compare(r)
    PROVE  HeartbeatInv'
<1>1. PICK h : h = beat[r].host
  OBVIOUS
<1>2. beat[r] \in BeatJob /\ h \in Hosts /\ IsAt(r, h) /\ beats[h] \in Seq(BeatRow)
  BY <1>1 DEF HeartbeatInv, HeartbeatTypes, Compare, UnderWay, IsAt
<1>3. PICK new : new = Changes(LatestOf(beats[h]), beat[r].caps)
  OBVIOUS
<1>4. new \in SUBSET Todo
  <2>1. beat[r].caps \in Capabilities
    BY <1>2 DEF BeatJob
  <2> QED
    BY <1>2, <1>3, <2>1, LatestIsTyped, ChangesAreTodo
<1>5. PICK b : b = [beat[r] EXCEPT !.pc = "record", !.todo = new]
  OBVIOUS
<1>6. b \in BeatJob /\ b.pc = "record" /\ b.todo = new /\ b.host = h
      /\ b.caps = beat[r].caps /\ b.sequence = beat[r].sequence
  BY <1>1, <1>2, <1>4, <1>5 DEF BeatJob
<1>7. /\ beat[r].pc = "compare" /\ beat' = [beat EXCEPT ![r] = b]
      /\ UNCHANGED <<contact, beats, changed, silence, crossed>>
  <2>1. LatestCapabilities(beat[r].host) = LatestOf(beats[h])
    BY <1>1 DEF LatestCapabilities, LatestOf
  <2>2. beat' = [beat EXCEPT ![r].pc = "record", ![r].todo = new]
    BY <1>3, <2>1 DEF Compare
  <2> QED
    BY <1>5, <2>2 DEF Compare
<1>8. /\ beat' \in [Beats -> BeatJob] /\ beat'[r] = b /\ \A s \in Beats : s # r => beat'[s] = beat[s]
      /\ \A s \in Beats : UnderWay(s)' => beat'[s].host \in Hosts
  BY <1>2, <1>6, <1>7, JobsAreTyped
<1>9. HeartbeatTypes'
  BY <1>7, <1>8 DEF HeartbeatInv, HeartbeatTypes
<1>10. ASSUME NEW g \in Hosts, g \notin crossed' PROVE Uncrossed(g)'
  <2>0. Uncrossed(g)
    BY <1>7, <1>10 DEF HeartbeatInv
  <2>1. CASE g # h
    <3>1. ~IsAt(r, g) /\ ~IsAt(r, g)'
      BY <1>1, <1>6, <1>8, <2>1 DEF IsAt
    <3>2. \A s \in Beats : beat'[s] = beat[s] \/ (~IsAt(s, g) /\ ~IsAt(s, g)')
      BY <1>8, <3>1
    <3> QED
      BY <1>7, <2>0, <3>2, OthersBeat
  <2>2. CASE g = h
    <3>1. \A s \in Beats : IsAt(s, h)' => s = r
      <4>1. ASSUME NEW s \in Beats, IsAt(s, h)', s # r PROVE FALSE
        BY <1>2, <1>8, <2>0, <2>2, <4>1 DEF IsAt, UnderWay, Uncrossed, Alone
      <4> QED
        BY <4>1
    <3>2. ASSUME NEW f \in Flags PROVE IsCounted(h, f)'
      <4>1. ~IsOwed(h, f)
        BY <1>2, <1>7, <2>0, <2>2 DEF IsOwed, Uncrossed, Alone
      <4>2. ~IsOwed(h, f)'
        BY <1>6, <1>8, <3>1 DEF IsOwed
      <4>3. (Differing(beats[h], f))' = Differing(beats[h], f)
        BY <1>7 DEF Differing, Differ
      <4> QED
        BY <1>7, <2>0, <2>2, <4>1, <4>2, <4>3 DEF Uncrossed, IsCounted
    <3>3. HandlerIsRight(r, h)'
      <4>1. HandlerIsRight(r, h)
        BY <1>2, <2>0, <2>2 DEF Uncrossed
      <4>2. (LatestOf(beats[h]))' = LatestOf(beats[h])
        BY <1>7 DEF LatestOf
      <4>3. Fresh(h, b.sequence) /\ b.caps.sent
        BY <1>6, <1>7, <4>1 DEF HandlerIsRight
      <4> QED
        BY <1>3, <1>6, <1>7, <1>8, <4>2, <4>3 DEF HandlerIsRight, Fresh
    <3>4. Grows(beats[h])' /\ Alone(h)'
      BY <1>7, <2>0, <2>2, <3>1 DEF Uncrossed, Grows, Alone
    <3> QED
      BY <2>2, <3>1, <3>2, <3>3, <3>4 DEF Uncrossed
  <2> QED
    BY <2>1, <2>2
<1>11. \A g \in Hosts : StatusTells(g)' /\ TellsSilence(g)'
  BY <1>7 DEF HeartbeatInv, StatusTells, TellsSilence
<1> QED
  BY <1>8, <1>9, <1>10, <1>11 DEF HeartbeatInv

LEMMA RecordKeeps ==
    ASSUME HeartbeatInv, NEW r \in Beats, Record(r)
    PROVE  HeartbeatInv'
<1>1. PICK h, mine : h = beat[r].host /\ mine = beat[r]
  OBVIOUS
<1>2. /\ mine \in BeatJob /\ mine.pc = "record" /\ h \in Hosts /\ IsAt(r, h) /\ beats[h] \in Seq(BeatRow)
      /\ mine.host = h
  BY <1>1 DEF HeartbeatInv, HeartbeatTypes, Record, UnderWay, IsAt
<1>3. PICK rec : rec = [sequence |-> mine.sequence, version |-> mine.version, caps |-> mine.caps]
  OBVIOUS
<1>4. rec \in BeatRow /\ rec.sequence = mine.sequence /\ rec.caps = mine.caps
  BY <1>2, <1>3 DEF BeatJob, BeatRow
<1>5. PICK t : t = Append(beats[h], rec)
  OBVIOUS
<1>6. t \in Seq(BeatRow) /\ t # <<>> /\ t[Len(t)] = rec
  BY <1>2, <1>4, <1>5
<1>7. PICK b : b = IF mine.todo = {} THEN BeatEnded("answered") ELSE [mine EXCEPT !.pc = "note"]
  OBVIOUS
<1>8. /\ b \in BeatJob /\ (b.pc \in {"compare", "record", "note"} => b.pc = "note" /\ b.host = h /\ b.todo = mine.todo)
      /\ (mine.todo # {} => b.pc = "note")
  <2>1. CASE mine.todo = {}
    BY <1>7, <2>1, EndedIsTyped
  <2>2. CASE mine.todo # {}
    BY <1>2, <1>7, <2>2 DEF BeatJob
  <2> QED
    BY <2>1, <2>2
<1>9. /\ beats' = [beats EXCEPT ![h] = t]
      /\ contact' = [contact EXCEPT ![h] = [status |-> "healthy", last |-> mine.sequence]]
      /\ silence' = [silence EXCEPT ![h] = 0]
      /\ beat' = [beat EXCEPT ![r] = b]
      /\ UNCHANGED <<changed, crossed>>
  BY <1>1, <1>3, <1>5, <1>7 DEF Record
<1>10. /\ beat' \in [Beats -> BeatJob] /\ beat'[r] = b /\ \A s \in Beats : s # r => beat'[s] = beat[s]
       /\ \A s \in Beats : UnderWay(s)' => beat'[s].host \in Hosts
  BY <1>2, <1>8, <1>9, JobsAreTyped
<1>11. HeartbeatTypes'
  <2>1. [status |-> "healthy", last |-> mine.sequence] \in [status : MachineStatus, last : 0 .. MaxSequence]
    BY <1>2 DEF BeatJob, MachineStatus
  <2> QED
    BY <1>2, <1>6, <1>9, <1>10, <2>1 DEF HeartbeatInv, HeartbeatTypes
<1>12. beats'[h] = t /\ contact'[h].status = "healthy" /\ contact'[h].last = mine.sequence /\ silence'[h] = 0
  BY <1>2, <1>9 DEF HeartbeatInv, HeartbeatTypes
<1>13. \A g \in Hosts : g # h => beats'[g] = beats[g] /\ contact'[g] = contact[g] /\ silence'[g] = silence[g]
  BY <1>9 DEF HeartbeatInv, HeartbeatTypes
<1>14. ASSUME NEW g \in Hosts, g \notin crossed' PROVE Uncrossed(g)'
  <2>0. Uncrossed(g)
    BY <1>9, <1>14 DEF HeartbeatInv
  <2>1. CASE g # h
    <3>1. ~IsAt(r, g) /\ ~IsAt(r, g)'
      BY <1>1, <1>8, <1>10, <2>1 DEF IsAt, UnderWay
    <3>2. \A s \in Beats : beat'[s] = beat[s] \/ (~IsAt(s, g) /\ ~IsAt(s, g)')
      BY <1>10, <3>1
    <3> QED
      BY <1>9, <1>13, <2>0, <2>1, <3>2, OthersBeat
  <2>2. CASE g = h
    <3>1. \A s \in Beats : IsAt(s, h)' => s = r
      <4>1. ASSUME NEW s \in Beats, IsAt(s, h)', s # r PROVE FALSE
        BY <1>2, <1>10, <2>0, <2>2, <4>1 DEF IsAt, UnderWay, Uncrossed, Alone
      <4> QED
        BY <4>1
    <3>2. Fresh(h, mine.sequence)
          /\ mine.todo = IF mine.caps.sent THEN Changes(LatestOf(beats[h]), mine.caps) ELSE {}
      BY <1>1, <1>2, <2>0, <2>2 DEF Uncrossed, HandlerIsRight
    <3>3. ASSUME NEW f \in Flags PROVE IsCounted(h, f)'
      <4>1. ~IsOwed(h, f)
        BY <1>1, <1>2, <2>0, <2>2 DEF IsOwed, Uncrossed, Alone
      <4>2. IsOwed(h, f)' <=> <<f, "changed">> \in mine.todo
        BY <1>8, <1>10, <3>1 DEF IsOwed, IsAt, UnderWay
      <4>3. changed'[h][f] = Cardinality(Differing(beats[h], f))
        BY <1>9, <2>0, <2>2, <4>1 DEF Uncrossed, IsCounted
      <4>4. mine.todo = IF rec.caps.sent THEN Changes(LatestOf(beats[h]), rec.caps) ELSE {}
        BY <1>4, <3>2
      <4>5. Cardinality(Differing(t, f)) = IF <<f, "changed">> \in mine.todo
                                           THEN Cardinality(Differing(beats[h], f)) + 1
                                           ELSE Cardinality(Differing(beats[h], f))
        BY <1>2, <1>4, <1>5, <4>4, ChangesAreCounted, ZenonT(40)
      <4>6. (Differing(beats[h], f))' = Differing(t, f)
        BY <1>12 DEF Differing, Differ
      <4> QED
        BY <4>2, <4>3, <4>5, <4>6 DEF IsCounted
    <3>4. ASSUME NEW s \in Beats, IsAt(s, h)' PROVE HandlerIsRight(s, h)'
      BY <1>8, <1>10, <3>1, <3>4 DEF HandlerIsRight, IsAt, UnderWay
    <3>5. Grows(t)
      BY <1>2, <1>4, <1>5, <2>0, <2>2, <3>2, FreshGrows DEF Uncrossed
    <3>6. Grows(beats[h])'
      BY <1>12, <3>5 DEF Grows
    <3>7. Alone(h)'
      BY <3>1 DEF Alone
    <3> QED
      BY <2>2, <3>3, <3>4, <3>6, <3>7 DEF Uncrossed
  <2> QED
    BY <2>1, <2>2
<1>15. ASSUME NEW g \in Hosts PROVE StatusTells(g)' /\ TellsSilence(g)'
  <2>1. CASE g = h
    BY <1>4, <1>6, <1>12, <2>1 DEF StatusTells, TellsSilence
  <2>2. CASE g # h
    BY <1>13, <2>2 DEF HeartbeatInv, StatusTells, TellsSilence
  <2> QED
    BY <2>1, <2>2
<1> QED
  BY <1>10, <1>11, <1>14, <1>15 DEF HeartbeatInv

LEMMA NoteKeeps ==
    ASSUME HeartbeatInv, NEW r \in Beats, Note(r)
    PROVE  HeartbeatInv'
<1>1. PICK h, mine : h = beat[r].host /\ mine = beat[r]
  OBVIOUS
<1>2. mine \in BeatJob /\ mine.pc = "note" /\ h \in Hosts /\ IsAt(r, h) /\ mine.host = h
  BY <1>1 DEF HeartbeatInv, HeartbeatTypes, Note, UnderWay, IsAt
<1>3. PICK c \in mine.todo :
        /\ changed' = IF c[2] # "changed" THEN changed ELSE [changed EXCEPT ![h][c[1]] = @ + 1]
        /\ beat' = [beat EXCEPT ![r] = IF mine.todo = {c} THEN BeatEnded("answered")
                                       ELSE [mine EXCEPT !.todo = mine.todo \ {c}]]
  BY <1>1 DEF Note
<1>4. UNCHANGED <<contact, beats, silence, crossed>>
  BY DEF Note
<1>5. c \in Todo
  BY <1>2 DEF BeatJob
<1>6. c[2] = "changed" => c = <<c[1], "changed">> /\ c[1] \in Flags
  BY <1>5 DEF Todo
<1>7. PICK b : b = IF mine.todo = {c} THEN BeatEnded("answered") ELSE [mine EXCEPT !.todo = mine.todo \ {c}]
  OBVIOUS
<1>8. /\ b \in BeatJob /\ (b.pc \in {"compare", "record", "note"} => b.pc = "note" /\ b.host = h)
      /\ \A d : d \in mine.todo /\ d # c <=> b.pc = "note" /\ d \in b.todo
  <2>1. CASE mine.todo = {c}
    BY <1>3, <1>7, <2>1, EndedIsTyped
  <2>2. CASE mine.todo # {c}
    BY <1>2, <1>7, <2>2 DEF BeatJob
  <2> QED
    BY <2>1, <2>2
<1>9. beat' = [beat EXCEPT ![r] = b]
  BY <1>1, <1>3, <1>7
<1>10. /\ beat' \in [Beats -> BeatJob] /\ beat'[r] = b /\ \A s \in Beats : s # r => beat'[s] = beat[s]
       /\ \A s \in Beats : UnderWay(s)' => beat'[s].host \in Hosts
  BY <1>2, <1>8, <1>9, JobsAreTyped
<1>11. changed \in [Hosts -> [Flags -> Nat]]
  BY DEF HeartbeatInv, HeartbeatTypes
<1>12. /\ changed' \in [Hosts -> [Flags -> Nat]]
       /\ \A g \in Hosts : g # h => changed'[g] = changed[g]
       /\ \A f \in Flags : c # <<f, "changed">> => changed'[h][f] = changed[h][f]
       /\ \A f \in Flags : c = <<f, "changed">> => changed'[h][f] = changed[h][f] + 1
  <2>1. CASE c[2] # "changed"
    <3>1. \A f \in Flags : c # <<f, "changed">>
      BY <2>1
    <3> QED
      BY <1>3, <1>11, <2>1, <3>1
  <2>2. CASE c[2] = "changed"
    <3>1. PICK f \in Flags : c = <<f, "changed">> /\ f = c[1]
      BY <1>6, <2>2
    <3>2. PICK n \in Nat : n = changed[h][f] + 1
      BY <1>2, <1>11
    <3>3. changed' = [changed EXCEPT ![h] = [changed[h] EXCEPT ![f] = n]]
      BY <1>3, <2>2, <3>1, <3>2
    <3>4. [changed[h] EXCEPT ![f] = n] \in [Flags -> Nat]
      BY <1>2, <1>11, <3>2
    <3>5. changed'[h] = [changed[h] EXCEPT ![f] = n]
      BY <1>2, <1>11, <3>3
    <3>6. \A g \in Flags : c = <<g, "changed">> <=> g = f
      BY <3>1
    <3>7. changed' \in [Hosts -> [Flags -> Nat]] /\ \A g \in Hosts : g # h => changed'[g] = changed[g]
      BY <1>11, <3>3, <3>4
    <3>8. \A g \in Flags : changed'[h][g] = IF g = f THEN n ELSE changed[h][g]
      BY <1>2, <1>11, <3>5
    <3> QED
      BY <3>2, <3>6, <3>7, <3>8
  <2> QED
    BY <2>1, <2>2
<1>13. HeartbeatTypes'
  BY <1>4, <1>10, <1>12 DEF HeartbeatInv, HeartbeatTypes
<1>14. ASSUME NEW g \in Hosts, g \notin crossed' PROVE Uncrossed(g)'
  <2>0. Uncrossed(g)
    BY <1>4, <1>14 DEF HeartbeatInv
  <2>1. CASE g # h
    <3>1. ~IsAt(r, g) /\ ~IsAt(r, g)'
      BY <1>1, <1>8, <1>10, <2>1 DEF IsAt, UnderWay
    <3>2. \A s \in Beats : beat'[s] = beat[s] \/ (~IsAt(s, g) /\ ~IsAt(s, g)')
      BY <1>10, <3>1
    <3> QED
      BY <1>4, <1>12, <2>0, <2>1, <3>2, OthersBeat
  <2>2. CASE g = h
    <3>1. \A s \in Beats : (IsAt(s, h) => s = r) /\ (IsAt(s, h)' => s = r)
      <4>1. ASSUME NEW s \in Beats, IsAt(s, h)', s # r PROVE FALSE
        BY <1>2, <1>10, <2>0, <2>2, <4>1 DEF IsAt, UnderWay, Uncrossed, Alone
      <4>2. ASSUME NEW s \in Beats, IsAt(s, h) PROVE s = r
        BY <1>2, <2>0, <2>2, <4>2 DEF Uncrossed, Alone
      <4> QED
        BY <4>1, <4>2
    <3>2. ASSUME NEW f \in Flags PROVE IsCounted(h, f)'
      <4>1. IsOwed(h, f) <=> <<f, "changed">> \in mine.todo
        BY <1>1, <1>2, <3>1 DEF IsOwed
      <4>2. IsOwed(h, f)' <=> b.pc = "note" /\ <<f, "changed">> \in b.todo
        BY <1>8, <1>10, <3>1 DEF IsOwed, IsAt, UnderWay
      <4>3. IsOwed(h, f)' <=> <<f, "changed">> \in mine.todo /\ <<f, "changed">> # c
        BY <1>8, <4>2
      <4>4. (Differing(beats[h], f))' = Differing(beats[h], f)
        BY <1>4 DEF Differing, Differ
      <4>5. IsCounted(h, f) /\ changed[h][f] \in Nat
        BY <1>2, <1>11, <2>0, <2>2 DEF Uncrossed
      <4>6. CASE c = <<f, "changed">>
        <5>1. IsOwed(h, f) /\ ~IsOwed(h, f)' /\ changed'[h][f] = changed[h][f] + 1
          BY <1>3, <1>12, <4>1, <4>3, <4>6
        <5> QED
          BY <4>4, <4>5, <5>1 DEF IsCounted
      <4>7. CASE c # <<f, "changed">>
        <5>1. (IsOwed(h, f)' <=> IsOwed(h, f)) /\ changed'[h][f] = changed[h][f]
          BY <1>12, <4>1, <4>3, <4>7
        <5> QED
          BY <4>4, <4>5, <5>1 DEF IsCounted
      <4> QED
        BY <4>6, <4>7
    <3>3. ASSUME NEW s \in Beats, IsAt(s, h)' PROVE HandlerIsRight(s, h)'
      BY <1>8, <1>10, <3>1, <3>3 DEF HandlerIsRight, IsAt, UnderWay
    <3>4. Grows(beats[h])' /\ Alone(h)'
      BY <1>4, <2>0, <2>2, <3>1 DEF Uncrossed, Grows, Alone
    <3> QED
      BY <2>2, <3>2, <3>3, <3>4 DEF Uncrossed
  <2> QED
    BY <2>1, <2>2
<1>15. \A g \in Hosts : StatusTells(g)' /\ TellsSilence(g)'
  BY <1>4 DEF HeartbeatInv, StatusTells, TellsSilence
<1> QED
  BY <1>10, <1>13, <1>14, <1>15 DEF HeartbeatInv

LEMMA FailKeeps ==
    ASSUME HeartbeatInv, NEW r \in Beats, BeatFails(r)
    PROVE  HeartbeatInv'
<1>1. PICK b : b = BeatEnded("failed")
  OBVIOUS
<1>2. b \in BeatJob /\ b.pc = "failed"
  BY <1>1, EndedIsTyped
<1>3. /\ UnderWay(r) /\ beat' = [beat EXCEPT ![r] = b] /\ crossed' = crossed \cup {beat[r].host}
      /\ UNCHANGED <<contact, beats, changed, silence>> /\ beat[r].host \in Hosts
  BY <1>1 DEF BeatFails, HeartbeatInv
<1>4. /\ beat' \in [Beats -> BeatJob] /\ beat'[r] = b /\ \A s \in Beats : s # r => beat'[s] = beat[s]
      /\ \A s \in Beats : UnderWay(s)' => beat'[s].host \in Hosts
  BY <1>2, <1>3, JobsAreTyped
<1>5. HeartbeatTypes'
  BY <1>3, <1>4 DEF HeartbeatInv, HeartbeatTypes
<1>6. ASSUME NEW g \in Hosts, g \notin crossed' PROVE Uncrossed(g)'
  <2>1. Uncrossed(g) /\ g # beat[r].host
    BY <1>3, <1>6 DEF HeartbeatInv
  <2>2. ~IsAt(r, g) /\ ~IsAt(r, g)'
    BY <1>2, <1>4, <2>1 DEF IsAt, UnderWay
  <2>3. \A s \in Beats : beat'[s] = beat[s] \/ (~IsAt(s, g) /\ ~IsAt(s, g)')
    BY <1>4, <2>2
  <2> QED
    BY <1>3, <2>1, <2>3, OthersBeat
<1>7. \A g \in Hosts : StatusTells(g)' /\ TellsSilence(g)'
  BY <1>3 DEF HeartbeatInv, StatusTells, TellsSilence
<1> QED
  BY <1>4, <1>5, <1>6, <1>7 DEF HeartbeatInv

\* Detection, for one machine: it never forgets one, nor calls one late that is not.
DetectedFrom(was, new, quiet) ==
    /\ new \in MachineStatus /\ (new = "unknown" <=> was = "unknown")
    /\ new = "delayed" => (was = "delayed" \/ quiet >= 1)
    /\ new = "offline" => (was = "offline" \/ quiet >= 2)

LEMMA DetectionIsSound ==
    ASSUME NEW before \in [Hosts -> MachineStatus], HeartbeatTypes, NEW after, after = Offline(Delayed(before))
    PROVE  after \in [Hosts -> MachineStatus] /\ \A h \in Hosts : DetectedFrom(before[h], after[h], silence[h])
<1>1. Late["healthy"] = 1 /\ Late["delayed"] = 2
  BY DEF Late
<1>2. PICK mid : mid = Delayed(before)
  OBVIOUS
<1>3. \A h \in Hosts : silence[h] \in Nat
  BY DEF HeartbeatTypes
<1>4. mid \in [Hosts -> MachineStatus]
      /\ \A h \in Hosts : mid[h] = IF before[h] = "healthy" /\ silence[h] >= 1 THEN "delayed" ELSE before[h]
  BY <1>1, <1>2 DEF Delayed, MachineStatus
<1>5. after \in [Hosts -> MachineStatus]
      /\ \A h \in Hosts : after[h] = IF mid[h] = "delayed" /\ silence[h] >= 2 THEN "offline" ELSE mid[h]
  BY <1>1, <1>2, <1>4 DEF Offline, MachineStatus
<1>6. ASSUME NEW h \in Hosts PROVE DetectedFrom(before[h], after[h], silence[h])
  <2>1. before[h] \in MachineStatus /\ after[h] \in MachineStatus
    BY <1>5
  <2> QED
    BY <1>3, <1>4, <1>5, <2>1 DEF DetectedFrom
<1> QED
  BY <1>5, <1>6

LEMMA DetectKeeps == HeartbeatInv /\ DetectTimeouts => HeartbeatInv'
<1> SUFFICES ASSUME HeartbeatInv, DetectTimeouts PROVE HeartbeatInv'
  OBVIOUS
<1>1. PICK before : before = [h \in Hosts |-> contact[h].status]
  OBVIOUS
<1>2. PICK once : once = Offline(Delayed(before))
  OBVIOUS
<1>3. PICK twice : twice = Offline(Delayed(once))
  OBVIOUS
<1>4. /\ contact' = [h \in Hosts |-> [contact[h] EXCEPT !.status = twice[h]]]
      /\ UNCHANGED <<beats, changed, silence, beat, crossed>>
  BY <1>1, <1>2, <1>3 DEF DetectTimeouts
<1>5. contact \in [Hosts -> [status : MachineStatus, last : 0 .. MaxSequence]] /\ HeartbeatTypes
  BY DEF HeartbeatInv, HeartbeatTypes
<1>6. before \in [Hosts -> MachineStatus] /\ \A h \in Hosts : before[h] = contact[h].status
  BY <1>1, <1>5
<1>7. once \in [Hosts -> MachineStatus] /\ \A h \in Hosts : DetectedFrom(before[h], once[h], silence[h])
  BY <1>2, <1>5, <1>6, DetectionIsSound
<1>8. twice \in [Hosts -> MachineStatus] /\ \A h \in Hosts : DetectedFrom(once[h], twice[h], silence[h])
  BY <1>3, <1>5, <1>7, DetectionIsSound
<1>9. ASSUME NEW h \in Hosts
      PROVE  /\ contact'[h] \in [status : MachineStatus, last : 0 .. MaxSequence]
             /\ contact'[h].last = contact[h].last /\ contact'[h].status = twice[h]
  <2>1. PICK new \in MachineStatus : new = twice[h]
    BY <1>8
  <2>2. contact'[h] = [contact[h] EXCEPT !.status = new]
    BY <1>4, <2>1
  <2> QED
    BY <1>5, <2>1, <2>2
<1>10. HeartbeatTypes'
  <2>1. contact' \in [Hosts -> [status : MachineStatus, last : 0 .. MaxSequence]]
    BY <1>4, <1>9
  <2> QED
    BY <1>4, <1>5, <2>1 DEF HeartbeatTypes
<1>11. \A h \in Hosts : (contact'[h].status = "unknown") <=> (contact[h].status = "unknown")
  BY <1>6, <1>7, <1>8, <1>9 DEF DetectedFrom
<1>12. ASSUME NEW h \in Hosts, h \notin crossed' PROVE Uncrossed(h)'
  <2>1. Uncrossed(h)
    BY <1>4, <1>12 DEF HeartbeatInv
  <2>2. \A s \in Beats : beat'[s] = beat[s] \/ (~IsAt(s, h) /\ ~IsAt(s, h)')
    BY <1>4
  <2> QED
    BY <1>4, <1>9, <1>11, <2>1, <2>2, OthersBeat
<1>13. ASSUME NEW h \in Hosts PROVE StatusTells(h)' /\ TellsSilence(h)'
  <2>1. StatusTells(h) /\ TellsSilence(h) /\ silence[h] \in 0 .. 2
    BY <1>5 DEF HeartbeatInv, HeartbeatTypes
  <2>2. StatusTells(h)'
    BY <1>4, <1>9, <1>11, <2>1 DEF StatusTells
  <2>3. (contact'[h].status = "delayed" => silence[h] >= 1) /\ (contact'[h].status = "offline" => silence[h] = 2)
    BY <1>6, <1>7, <1>8, <1>9, <2>1 DEF TellsSilence, DetectedFrom
  <2> QED
    BY <1>4, <2>2, <2>3 DEF TellsSilence
<1> QED
  BY <1>4, <1>10, <1>12, <1>13 DEF HeartbeatInv, UnderWay

LEMMA SilenceKeeps ==
    ASSUME HeartbeatInv, NEW h \in Hosts, Silence(h)
    PROVE  HeartbeatInv'
<1>1. silence \in [Hosts -> 0 .. 2] /\ silence[h] < 2
  BY DEF HeartbeatInv, HeartbeatTypes, Silence
<1>2. PICK n \in 0 .. 2 : n = silence[h] + 1
  BY <1>1
<1>3. silence' = [silence EXCEPT ![h] = n] /\ UNCHANGED <<contact, beats, changed, beat, crossed>>
  BY <1>2 DEF Silence
<1>4. silence' \in [Hosts -> 0 .. 2] /\ \A g \in Hosts : silence'[g] >= silence[g]
  BY <1>1, <1>2, <1>3
<1>5. HeartbeatTypes'
  BY <1>3, <1>4 DEF HeartbeatInv, HeartbeatTypes
<1>6. ASSUME NEW g \in Hosts, g \notin crossed' PROVE Uncrossed(g)'
  <2>1. Uncrossed(g)
    BY <1>3, <1>6 DEF HeartbeatInv
  <2>2. \A s \in Beats : beat'[s] = beat[s] \/ (~IsAt(s, g) /\ ~IsAt(s, g)')
    BY <1>3
  <2> QED
    BY <1>3, <2>1, <2>2, OthersBeat
<1>7. ASSUME NEW g \in Hosts PROVE StatusTells(g)' /\ TellsSilence(g)'
  <2>1. silence[g] \in 0 .. 2 /\ silence'[g] \in 0 .. 2 /\ silence'[g] >= silence[g]
    BY <1>1, <1>4
  <2> QED
    BY <1>3, <2>1 DEF HeartbeatInv, StatusTells, TellsSilence
<1> QED
  BY <1>3, <1>5, <1>6, <1>7 DEF HeartbeatInv, UnderWay

LEMMA NextHeartbeat == HeartbeatInv /\ [HeartbeatNext]_heartbeatVars => HeartbeatInv'
<1> SUFFICES ASSUME HeartbeatInv, [HeartbeatNext]_heartbeatVars PROVE HeartbeatInv'
  OBVIOUS
<1>1. CASE UNCHANGED heartbeatVars
  <2>1. UNCHANGED <<contact, beats, changed, silence, beat, crossed>>
    BY <1>1 DEF heartbeatVars
  <2>2. ASSUME NEW g \in Hosts, g \notin crossed' PROVE Uncrossed(g)'
    <3>1. Uncrossed(g)
      BY <2>1, <2>2 DEF HeartbeatInv
    <3>2. \A s \in Beats : beat'[s] = beat[s] \/ (~IsAt(s, g) /\ ~IsAt(s, g)')
      BY <2>1
    <3> QED
      BY <2>1, <3>1, <3>2, OthersBeat
  <2>3. HeartbeatTypes' /\ \A r \in Beats : UnderWay(r)' => beat'[r].host \in Hosts
    BY <2>1 DEF HeartbeatInv, HeartbeatTypes, UnderWay
  <2>4. \A g \in Hosts : StatusTells(g)' /\ TellsSilence(g)'
    BY <2>1 DEF HeartbeatInv, StatusTells, TellsSilence
  <2> QED
    BY <2>2, <2>3, <2>4 DEF HeartbeatInv
<1> QED
  BY <1>1, SubmitKeeps, CompareKeeps, RecordKeeps, NoteKeeps, FailKeeps, DetectKeeps, SilenceKeeps
     DEF HeartbeatNext

LEMMA HeartbeatInvariance == HeartbeatSpec => []HeartbeatInv
  BY InitHeartbeat, NextHeartbeat, PTL DEF HeartbeatSpec

\* Statuses, heartbeats, histories and handlers keep the shape that the code gives them, for any
\* machines, requests and capabilities.
THEOREM HeartbeatTypeCorrect == HeartbeatSpec => []HeartbeatTypeOK
<1>1. HeartbeatInv => HeartbeatTypeOK
  <2> SUFFICES ASSUME HeartbeatInv PROVE HeartbeatTypeOK
    OBVIOUS
  <2>1. ASSUME NEW h \in Hosts PROVE \A i \in DOMAIN beats[h] : beats[h][i] \in BeatRow
    <3>1. beats[h] \in Seq(BeatRow)
      BY DEF HeartbeatInv, HeartbeatTypes
    <3> QED
      BY <3>1
  <2>2. \A r \in Beats : beat[r].host \in Hosts \cup {NoHost}
    BY DEF HeartbeatInv, HeartbeatTypes, BeatJob
  <2> QED
    BY <2>1, <2>2 DEF HeartbeatInv, HeartbeatTypes, HeartbeatTypeOK
<1> QED
  BY <1>1, HeartbeatInvariance, PTL

\* What the server knows of a machine from its heartbeats is what it was told: unless two of them
\* crossed or one was cut short, the sequence numbers on file grow and the history of capabilities
\* has a row for each change between two successive reports; and whatever crosses, a machine is
\* called delayed or offline only after such a silence (HeartbeatService.process_heartbeat).
THEOREM HeartbeatsSound == HeartbeatSpec => []HeartbeatsAreSound
<1>1. HeartbeatInv => HeartbeatsAreSound
  <2> SUFFICES ASSUME HeartbeatInv PROVE HeartbeatsAreSound
    OBVIOUS
  <2>1. SequenceGrowsUnlessCrossed
    BY DEF HeartbeatInv, Uncrossed, Grows, SequenceGrowsUnlessCrossed
  <2>2. ASSUME NEW h \in Hosts \ crossed, InFlight(h) = {}, NEW f \in Flags
        PROVE  changed[h][f] = Cardinality(Flips(h, f))
    <3>1. ~IsOwed(h, f)
      BY <2>2 DEF IsOwed, IsAt, InFlight
    <3>2. Flips(h, f) = Differing(beats[h], f)
      BY DEF Flips, Differing
    <3> QED
      BY <3>1, <3>2 DEF HeartbeatInv, Uncrossed, IsCounted
  <2>3. CapabilityHistoryIsComplete
    BY <2>2 DEF CapabilityHistoryIsComplete
  <2>4. OfflineMeansSilent
    BY DEF HeartbeatInv, TellsSilence, OfflineMeansSilent
  <2> QED
    BY <2>1, <2>3, <2>4 DEF HeartbeatsAreSound
<1> QED
  BY <1>1, HeartbeatInvariance, PTL

HIDE HeartbeatAssumption

-----------------------------------------------------------------------------
(* Configuration packages.                                                 *)

PackageRow == [state : PackageState \cup {"none"}, version : VersionStrings \cup {<<>>},
               minimum : VersionStrings \cup {<<>>}]
Published == {"signed", "published", "available"}
PendingRow == [by : PackageServers \cup {NoPackage}, state : Published \cup {"none"}]
AtWork == {"update", "record"}
PublicationShape == [pc : {"idle", "404", "400", "500", "200"} \cup AtWork,
                     package : PackageIds \cup {NoPackage},
                     server : PackageServers \cup {NoPackage}, to : Published]

\* Variables keep their shape; a row that is not there is nothing but that.
ConfigShape ==
    /\ package \in [PackageIds -> PackageRow]
    /\ pending \in [PackageIds -> PendingRow]
    /\ ruined \subseteq PackageServers
    /\ trace \in [PackageIds -> Seq(PackageState)]
    /\ publication \in [Publications -> PublicationShape]
    /\ interleaved \subseteq PackageIds /\ split \subseteq PackageIds
    /\ \A p \in PackageIds : package[p].state = "none" => package[p] = NoPackageRow

\* Request r has package p under way, and its UPDATE waits for its row of history.
TakesOn(r, p) == publication[r].package = p /\ publication[r].pc \in AtWork
Updated(r, p, w) == /\ publication[r].package = p /\ publication[r].server = w
                    /\ publication[r].pc = "record"

\* A publication that is going to write is of a package that exists.
PublishesWhatIs ==
    \A r \in Publications : publication[r].pc \in AtWork =>
        /\ publication[r].package \in PackageIds /\ publication[r].server \in PackageServers
        /\ package[publication[r].package].state # "none"

\* So is what a session has not committed; a failed one has nothing.
PendingIsSound ==
    \A p \in PackageIds :
        \/ pending[p] = NothingPending
        \/ /\ pending[p].by \in PackageServers \ ruined
           /\ pending[p].state # "none" /\ package[p].state # "none"

\* Unless it was split, it is of a publication that will write its history.
PendingIsHeld ==
    \A p \in PackageIds \ split : pending[p].by # NoPackage =>
        \E r \in Publications : Updated(r, p, pending[p].by)

\* Unless two took it on, a publication is alone, and unless it was split, it found the
\* package as its last transition left it.
PublishesAlone ==
    \A p \in PackageIds \ interleaved : \A r, o \in Publications :
        TakesOn(r, p) /\ TakesOn(o, p) => o = r
Before == [signed |-> "created", published |-> "signed", available |-> "published"]
PublishesInStep ==
    \A r \in Publications, p \in PackageIds \ (interleaved \cup split) :
        TakesOn(r, p) /\ publication[r].server \notin ruined =>
            /\ package[p].state = Before[publication[r].to]
            /\ pending[p] = IF publication[r].pc = "update" THEN NothingPending
                            ELSE [by |-> publication[r].server, state |-> publication[r].to]

\* The history of a package is a path of legal transitions from "created" to the state of its row.
FollowsTo(h, last) ==
    /\ h = <<>> => last = "created"
    /\ h # <<>> => <<"created", h[1]>> \in LEGAL_TRANSITIONS /\ last = h[Len(h)]
    /\ \A i \in 1 .. (Len(h) - 1) : <<h[i], h[i + 1]>> \in LEGAL_TRANSITIONS
HistoryFollows ==
    \A p \in PackageIds :
        /\ package[p].state = "none" => trace[p] = <<>>
        /\ package[p].state # "none" /\ p \notin interleaved \cup split
           => FollowsTo(trace[p], package[p].state)

ConfigSyncInv == /\ ConfigShape /\ PublishesWhatIs /\ PendingIsSound /\ PendingIsHeld
                 /\ PublishesAlone /\ PublishesInStep /\ HistoryFollows

USE ConfigSyncAssumption

LEMMA PathFollows ==
    ASSUME NEW h \in Seq(PackageState), NEW last, FollowsTo(h, last)
    PROVE  LET path == <<"created">> \o h
           IN  /\ \A i \in 1 .. (Len(path) - 1) : <<path[i], path[i + 1]>> \in LEGAL_TRANSITIONS
               /\ last = path[Len(path)]
<1> DEFINE path == <<"created">> \o h
<1>1. /\ Len(path) = Len(h) + 1 /\ path[1] = "created"
      /\ \A i \in 1 .. Len(h) : path[i + 1] = h[i]
  OBVIOUS
<1>2. Len(h) \in Nat /\ (h = <<>> <=> Len(h) = 0)
  OBVIOUS
<1>3. ASSUME NEW i \in 1 .. (Len(path) - 1)
      PROVE  <<path[i], path[i + 1]>> \in LEGAL_TRANSITIONS
  <2>1. CASE i = 1
    BY <1>1, <1>2, <1>3, <2>1 DEF FollowsTo
  <2>2. CASE i # 1
    <3>1. i - 1 \in 1 .. (Len(h) - 1) /\ i - 1 \in 1 .. Len(h) /\ i \in 1 .. Len(h)
      BY <1>1, <1>2, <1>3, <2>2
    <3>2. path[i] = h[i - 1] /\ path[i + 1] = h[i]
      BY <1>1, <3>1
    <3>3. <<h[i - 1], h[(i - 1) + 1]>> \in LEGAL_TRANSITIONS
      BY <3>1 DEF FollowsTo
    <3> QED
      BY <3>1, <3>2, <3>3
  <2> QED
    BY <2>1, <2>2
<1>4. last = path[Len(path)]
  BY <1>1, <1>2 DEF FollowsTo
<1> QED
  BY <1>3, <1>4

\* A write appends a legal transition.
LEMMA FollowsOn ==
    ASSUME NEW h \in Seq(PackageState), NEW last, NEW next \in PackageState, FollowsTo(h, last),
           <<last, next>> \in LEGAL_TRANSITIONS
    PROVE  FollowsTo(Append(h, next), next)
<1> DEFINE g == Append(h, next)
<1>1. /\ Len(g) = Len(h) + 1 /\ g[Len(g)] = next /\ Len(h) \in Nat /\ g # <<>>
      /\ \A i \in 1 .. Len(h) : g[i] = h[i]
      /\ h = <<>> <=> Len(h) = 0
  OBVIOUS
<1>2. <<"created", g[1]>> \in LEGAL_TRANSITIONS
  <2>1. CASE h = <<>>
    BY <1>1, <2>1 DEF FollowsTo
  <2>2. CASE h # <<>>
    BY <1>1, <2>2 DEF FollowsTo
  <2> QED
    BY <2>1, <2>2
<1>3. ASSUME NEW i \in 1 .. (Len(g) - 1) PROVE <<g[i], g[i + 1]>> \in LEGAL_TRANSITIONS
  <2>1. CASE i = Len(h)
    BY <1>1, <1>3, <2>1 DEF FollowsTo
  <2>2. CASE i # Len(h)
    BY <1>1, <1>3, <2>2 DEF FollowsTo
  <2> QED
    BY <2>1, <2>2
<1> HIDE DEF g
<1> QED
  BY <1>1, <1>2, <1>3 DEF FollowsTo, g

LEMMA InitConfigSync == ConfigSyncInit => ConfigSyncInv
BY DEF ConfigSyncInit, ConfigSyncInv, ConfigShape, PublishesWhatIs, PendingIsSound, PendingIsHeld,
       PublishesAlone, PublishesInStep, HistoryFollows, TakesOn, PackageRow, PackageState, PendingRow,
       NothingPending, NoPublication, PublicationShape, Published, NoPackageRow, AtWork

\* What a COMMIT of process w makes of the rows, and of what was pending; a package that it
\* does not split has no UPDATE of another request at w.
LEMMA CommitGives ==
    ASSUME ConfigShape, NEW w \in PackageServers, NEW r, NEW rows \in [PackageIds -> PackageRow],
           CommitPackages(w, r, rows)
    PROVE  /\ package' \in [PackageIds -> PackageRow] /\ pending' \in [PackageIds -> PendingRow]
           /\ split \subseteq split' /\ split' \subseteq PackageIds
           /\ \A p \in PackageIds :
                 IF pending[p].by = w
                 THEN /\ package'[p] = [rows[p] EXCEPT !.state = pending[p].state]
                      /\ package'[p].state = pending[p].state /\ pending'[p] = NothingPending
                 ELSE package'[p] = rows[p] /\ pending'[p] = pending[p]
           /\ \A p \in PackageIds \ split' : \A o \in Publications : o # r => ~Updated(o, p, w)
<1>1. /\ package' = [p \in PackageIds |-> IF pending[p].by = w
                        THEN [rows[p] EXCEPT !.state = pending[p].state] ELSE rows[p]]
      /\ pending' = [p \in PackageIds |-> IF pending[p].by = w THEN NothingPending ELSE pending[p]]
      /\ split' = split \cup HalfwayAt(w, r)
  BY DEF CommitPackages, ClearPending, PendingOf
<1>2. ASSUME NEW p \in PackageIds
      PROVE  /\ rows[p] \in PackageRow /\ [rows[p] EXCEPT !.state = pending[p].state] \in PackageRow
             /\ [rows[p] EXCEPT !.state = pending[p].state].state = pending[p].state
  BY DEF ConfigShape, PackageRow, PendingRow, Published, PackageState
<1>3. NothingPending \in PendingRow
  BY DEF NothingPending, PendingRow
<1>4. package' \in [PackageIds -> PackageRow]
  BY <1>1, <1>2
<1>5. pending' \in [PackageIds -> PendingRow]
  BY <1>1, <1>3 DEF ConfigShape
<1>6. split \subseteq split' /\ split' \subseteq PackageIds
  BY <1>1 DEF HalfwayAt, ConfigShape
<1>7. ASSUME NEW p \in PackageIds \ split', NEW o \in Publications, o # r PROVE ~Updated(o, p, w)
  BY <1>1, <1>7 DEF HalfwayAt, Updated, Publishing
<1>8. ASSUME NEW p \in PackageIds
      PROVE  IF pending[p].by = w
             THEN /\ package'[p] = [rows[p] EXCEPT !.state = pending[p].state]
                  /\ package'[p].state = pending[p].state /\ pending'[p] = NothingPending
             ELSE package'[p] = rows[p] /\ pending'[p] = pending[p]
  BY <1>1, <1>2
<1> QED
  BY <1>4, <1>5, <1>6, <1>7, <1>8

\* A package that no COMMIT splits, and that no request of process w has UPDATEd but r, has
\* nothing pending there but of r.
LEMMA PendingIsOf ==
    ASSUME ConfigSyncInv, NEW w \in PackageServers, NEW r, NEW p \in PackageIds \ split,
           \A o \in Publications : o # r => ~Updated(o, p, w), pending[p].by = w
    PROVE  r \in Publications /\ Updated(r, p, w)
BY DEF ConfigSyncInv, PendingIsHeld

\* A COMMIT that no publication makes: by another manager's request, or after the INSERT of
\* a new package.
LEMMA QuietCommit ==
    ASSUME ConfigSyncInv, NEW w \in PackageServers \ ruined, NEW rows \in [PackageIds -> PackageRow],
           CommitPackages(w, NoPackage, rows),
           \A p \in PackageIds : \/ rows[p] = package[p]
                                 \/ /\ package[p].state = "none" /\ rows[p].state = "created"
                                    /\ pending[p].by # w,
           UNCHANGED <<ruined, trace, publication, offered, interleaved>>
    PROVE  ConfigSyncInv'
<1>1. /\ package' \in [PackageIds -> PackageRow] /\ pending' \in [PackageIds -> PendingRow]
      /\ split \subseteq split' /\ split' \subseteq PackageIds
      /\ \A p \in PackageIds :
            IF pending[p].by = w
            THEN /\ package'[p] = [rows[p] EXCEPT !.state = pending[p].state]
                 /\ package'[p].state = pending[p].state /\ pending'[p] = NothingPending
            ELSE package'[p] = rows[p] /\ pending'[p] = pending[p]
      /\ \A p \in PackageIds \ split' : \A o \in Publications : ~Updated(o, p, w)
  BY CommitGives DEF ConfigSyncInv
<1>2. \A p \in PackageIds \ split' : pending[p].by # w /\ package'[p] = rows[p] /\ pending'[p] = pending[p]
  BY <1>1, PendingIsOf
<1>3. \A p \in PackageIds : package[p].state # "none" => package'[p].state # "none" /\ rows[p] = package[p]
  BY <1>1 DEF ConfigSyncInv, PendingIsSound, NothingPending
<1>4. ConfigShape'
  <2>1. ASSUME NEW p \in PackageIds, package'[p].state = "none" PROVE package'[p] = NoPackageRow
    BY <1>1, <1>3, <2>1 DEF ConfigSyncInv, ConfigShape, PendingIsSound, NothingPending
  <2> QED
    BY <1>1, <2>1 DEF ConfigSyncInv, ConfigShape
<1>5. PublishesWhatIs'
  BY <1>3 DEF ConfigSyncInv, PublishesWhatIs
<1>6. PendingIsSound'
  BY <1>1, <1>3 DEF ConfigSyncInv, PendingIsSound, NothingPending
<1>7. PendingIsHeld'
  BY <1>1, <1>2 DEF ConfigSyncInv, PendingIsHeld, Updated
<1>8. PublishesAlone'
  BY DEF ConfigSyncInv, PublishesAlone, TakesOn
<1>9. PublishesInStep'
  <2> SUFFICES ASSUME NEW r \in Publications, NEW p \in PackageIds \ (interleaved \cup split'),
                      TakesOn(r, p), publication[r].server \notin ruined
               PROVE  /\ package'[p].state = Before[publication[r].to]
                      /\ pending'[p] = IF publication[r].pc = "update" THEN NothingPending
                                       ELSE [by |-> publication[r].server, state |-> publication[r].to]
    BY DEF PublishesInStep, TakesOn
  <2>1. package[p].state # "none"
    BY DEF ConfigSyncInv, PublishesWhatIs, TakesOn
  <2>2. package'[p] = package[p] /\ pending'[p] = pending[p]
    BY <1>2, <1>3, <2>1
  <2> QED
    BY <1>1, <2>2 DEF ConfigSyncInv, PublishesInStep
<1>10. HistoryFollows'
  <2> SUFFICES ASSUME NEW p \in PackageIds
               PROVE  /\ package'[p].state = "none" => trace[p] = <<>>
                      /\ package'[p].state # "none" /\ p \notin interleaved \cup split'
                         => FollowsTo(trace[p], package'[p].state)
    BY DEF HistoryFollows
  <2>1. package'[p].state = "none" => trace[p] = <<>>
    BY <1>3 DEF ConfigSyncInv, HistoryFollows
  <2>2. CASE package[p].state # "none"
    BY <1>1, <1>2, <1>3, <2>1, <2>2 DEF ConfigSyncInv, HistoryFollows
  <2>3. CASE package[p].state = "none"
    <3>1. trace[p] = <<>>
      BY <2>3 DEF ConfigSyncInv, HistoryFollows
    <3>2. p \notin split' => package'[p].state \in {"none", "created"}
      BY <1>2, <2>3
    <3>3. FollowsTo(<<>>, "created")
      BY DEF FollowsTo
    <3> QED
      BY <2>1, <3>1, <3>2, <3>3
  <2> QED
    BY <2>2, <2>3
<1> QED
  BY <1>4, <1>5, <1>6, <1>7, <1>8, <1>9, <1>10 DEF ConfigSyncInv

LEMMA CreateKeeps ==
    ASSUME ConfigSyncInv, NEW p \in PackageIds, NEW w \in PackageServers, CreatePackage(p, w)
    PROVE  ConfigSyncInv'
<1>1. PICK q \in CreatePackageRequest :
          ValidPackage(q) /\ CommitPackages(w, NoPackage, [package EXCEPT ![p] = NewPackage(q)])
  BY DEF CreatePackage
<1>2. PICK rows : rows = [package EXCEPT ![p] = NewPackage(q)]
  OBVIOUS
<1>3. NewPackage(q) \in PackageRow /\ NewPackage(q).state = "created"
  BY DEF NewPackage, CreatePackageRequest, PackageRow, PackageState
<1>4. package[p].state = "none" /\ w \notin ruined
  BY DEF CreatePackage, NoPackageRow
<1>5. rows \in [PackageIds -> PackageRow]
  BY <1>2, <1>3 DEF ConfigSyncInv, ConfigShape
<1>6. pending[p].by # w
  BY <1>4 DEF ConfigSyncInv, PendingIsSound, NothingPending
<1>7. \A o \in PackageIds : \/ rows[o] = package[o]
                            \/ /\ package[o].state = "none" /\ rows[o].state = "created"
                               /\ pending[o].by # w
  BY <1>2, <1>3, <1>4, <1>6 DEF ConfigSyncInv, ConfigShape
<1>8. UNCHANGED <<ruined, trace, publication, offered, interleaved>>
  BY DEF CreatePackage
<1>9. CommitPackages(w, NoPackage, rows) /\ w \in PackageServers \ ruined
  BY <1>1, <1>2, <1>4
<1> QED
  BY <1>5, <1>7, <1>8, <1>9, QuietCommit

LEMMA SharedCommitKeeps ==
    ASSUME ConfigSyncInv, NEW w \in PackageServers, SharedCommit(w)
    PROVE  ConfigSyncInv'
<1>1. PICK p \in PackageIds : pending[p].by = w
  BY DEF SharedCommit, PendingOf
<1>2. w \notin ruined
  BY <1>1 DEF ConfigSyncInv, PendingIsSound, NothingPending
<1>3. package \in [PackageIds -> PackageRow]
  BY DEF ConfigSyncInv, ConfigShape
<1>4. /\ CommitPackages(w, NoPackage, package)
      /\ UNCHANGED <<ruined, trace, publication, offered, interleaved>>
  BY DEF SharedCommit
<1>5. PICK rows : rows = package
  OBVIOUS
<1>6. /\ rows \in [PackageIds -> PackageRow] /\ CommitPackages(w, NoPackage, rows)
      /\ w \in PackageServers \ ruined
  BY <1>2, <1>3, <1>4, <1>5
<1>7. \A o \in PackageIds : rows[o] = package[o]
  BY <1>5
<1> QED
  BY <1>4, <1>6, <1>7, QuietCommit

LEMMA PublishKeeps ==
    ASSUME ConfigSyncInv, NEW r \in Publications, NEW p \in PackageIds, NEW w \in PackageServers,
           Publish(r, p, w)
    PROVE  ConfigSyncInv'
<1>1. PICK b : b = [pc |-> Reply(p, w), package |-> p, server |-> w, to |-> "signed"]
  OBVIOUS
<1>2. /\ b.pc \in {"500", "404", "400", "update"} /\ b.package = p /\ b.server = w /\ b.to = "signed"
      /\ b \in PublicationShape
      /\ b.pc = "update" => /\ package[p] # NoPackageRow /\ w \notin ruined
                            /\ IsLegal(StateSeen(w, p), "signed")
  BY <1>1 DEF Reply, PublicationShape, AtWork, Published
<1>3. /\ UNCHANGED <<package, pending, ruined, trace, split, offered>>
      /\ publication[r].pc = "idle"
      /\ publication' = [publication EXCEPT ![r] = b]
      /\ interleaved' = IF Publishing(p) # {} THEN interleaved \cup {p} ELSE interleaved
  BY <1>1 DEF Publish, packageRows
<1>4. \A o \in Publications : publication'[o] = IF o = r THEN b ELSE publication[o]
  BY <1>3 DEF ConfigSyncInv, ConfigShape
<1>5. b.pc = "update" => package[p].state # "none"
  BY <1>2 DEF ConfigSyncInv, ConfigShape
<1>6. ConfigShape'
  BY <1>2, <1>3 DEF ConfigSyncInv, ConfigShape
<1>7. PublishesWhatIs'
  BY <1>2, <1>3, <1>4, <1>5 DEF ConfigSyncInv, PublishesWhatIs, AtWork
<1>8. PendingIsSound'
  BY <1>3 DEF ConfigSyncInv, PendingIsSound, NothingPending
<1>9. PendingIsHeld'
  <2>1. \A o \in Publications : \A s, a : Updated(o, s, a) => Updated(o, s, a)'
    BY <1>3, <1>4 DEF Updated
  <2> QED
    BY <1>3, <2>1 DEF ConfigSyncInv, PendingIsHeld
<1>10. ASSUME NEW o \in Publications, NEW s \in PackageIds \ interleaved',
              TakesOn(o, s)'
       PROVE  /\ s \notin interleaved
              /\ o # r => TakesOn(o, s)
              /\ o = r => s = p /\ \A u \in Publications : ~TakesOn(u, p)
  <2>1. s \notin interleaved /\ (s = p => Publishing(p) = {})
    BY <1>3, <1>10
  <2>2. Publishing(p) = {} => \A u \in Publications : ~TakesOn(u, p)
    BY DEF Publishing, TakesOn, AtWork
  <2> QED
    BY <1>2, <1>4, <1>10, <2>1, <2>2 DEF TakesOn
<1>11. PublishesAlone'
  <2> SUFFICES ASSUME NEW s \in PackageIds \ interleaved', NEW u \in Publications,
                      NEW o \in Publications, TakesOn(u, s)', TakesOn(o, s)'
               PROVE  o = u
    BY DEF PublishesAlone
  <2> QED
    BY <1>10 DEF ConfigSyncInv, PublishesAlone
<1>12. PublishesInStep'
  <2> SUFFICES ASSUME NEW o \in Publications, NEW s \in PackageIds \ (interleaved' \cup split),
                      TakesOn(o, s)', publication'[o].server \notin ruined
               PROVE  /\ package[s].state = Before[publication'[o].to]
                      /\ pending[s] = IF publication'[o].pc = "update" THEN NothingPending
                                      ELSE [by |-> publication'[o].server, state |-> publication'[o].to]
    BY <1>3 DEF PublishesInStep
  <2>1. CASE o # r
    BY <1>4, <1>10, <2>1 DEF ConfigSyncInv, PublishesInStep
  <2>2. CASE o = r
    <3>1. s = p /\ \A u \in Publications : ~TakesOn(u, p)
      BY <1>10, <2>2
    <3>2. pending[p].by = NoPackage
      BY <3>1 DEF ConfigSyncInv, PendingIsHeld, TakesOn, Updated, AtWork
    <3>3. publication'[o] = b /\ b.pc = "update"
      BY <1>2, <1>4, <2>2 DEF TakesOn, AtWork
    <3>4. package[p].state = "created"
      BY <1>2, <3>2, <3>3 DEF StateSeen, IsLegal, LEGAL_TRANSITIONS
    <3>5. pending[p] = NothingPending
      BY <3>2 DEF ConfigSyncInv, PendingIsSound, NothingPending
    <3> QED
      BY <1>2, <3>1, <3>3, <3>4, <3>5 DEF Before
  <2> QED
    BY <2>1, <2>2
<1>13. HistoryFollows'
  BY <1>3 DEF ConfigSyncInv, HistoryFollows
<1> QED
  BY <1>6, <1>7, <1>8, <1>9, <1>11, <1>12, <1>13 DEF ConfigSyncInv

LEMMA UpdateKeeps ==
    ASSUME ConfigSyncInv, NEW r \in Publications, UpdateState(r)
    PROVE  ConfigSyncInv'
<1>1. PICK p, w, to : /\ p = publication[r].package /\ w = publication[r].server
                      /\ to = publication[r].to
  OBVIOUS
<1>2. /\ publication[r].pc = "update" /\ w \notin ruined /\ pending[p].by \in {NoPackage, w}
      /\ pending' = [pending EXCEPT ![p] = [by |-> w, state |-> to]]
      /\ publication' = [publication EXCEPT ![r].pc = "record"]
      /\ UNCHANGED <<package, ruined, trace, split, offered, interleaved>>
  BY <1>1 DEF UpdateState
<1>3. p \in PackageIds /\ w \in PackageServers /\ to \in Published /\ package[p].state # "none"
  BY <1>1, <1>2 DEF ConfigSyncInv, PublishesWhatIs, ConfigShape, PublicationShape, AtWork
<1>4. /\ \A o \in PackageIds : o # p => pending'[o] = pending[o]
      /\ pending'[p] = [by |-> w, state |-> to] /\ pending' \in [PackageIds -> PendingRow]
  BY <1>2, <1>3 DEF ConfigSyncInv, ConfigShape, PendingRow
<1>5. /\ \A o \in Publications : o # r => publication'[o] = publication[o]
      /\ publication'[r].pc = "record" /\ publication'[r].package = p
      /\ publication'[r].server = w /\ publication'[r].to = to
      /\ publication' \in [Publications -> PublicationShape]
  BY <1>1, <1>2 DEF ConfigSyncInv, ConfigShape, PublicationShape, AtWork
<1>6. /\ \A o \in Publications : \A s : TakesOn(o, s)' <=> TakesOn(o, s)
      /\ \A o \in Publications : \A s, a : Updated(o, s, a) => Updated(o, s, a)'
  BY <1>1, <1>2, <1>5 DEF TakesOn, Updated, AtWork
<1>7. ConfigShape'
  BY <1>2, <1>4, <1>5 DEF ConfigSyncInv, ConfigShape
<1>8. PublishesWhatIs'
  BY <1>2, <1>3, <1>5 DEF ConfigSyncInv, PublishesWhatIs
<1>9. PendingIsSound'
  BY <1>2, <1>3, <1>4 DEF ConfigSyncInv, PendingIsSound, Published
<1>10. PendingIsHeld'
  <2> SUFFICES ASSUME NEW o \in PackageIds \ split, pending'[o].by # NoPackage
               PROVE  \E u \in Publications :
                           /\ publication'[u].package = o /\ publication'[u].pc = "record"
                           /\ publication'[u].server = pending'[o].by
    BY <1>2 DEF PendingIsHeld, Updated
  <2>1. CASE o = p
    BY <1>4, <1>5, <2>1 DEF Updated
  <2>2. CASE o # p
    <3>1. PICK u \in Publications : Updated(u, o, pending[o].by)
      BY <1>4, <2>2 DEF ConfigSyncInv, PendingIsHeld
    <3>2. pending'[o] = pending[o] /\ u # r
      BY <1>1, <1>4, <2>2, <3>1 DEF Updated
    <3> QED
      BY <1>5, <3>1, <3>2 DEF Updated
  <2> QED
    BY <2>1, <2>2
<1>11. PublishesAlone'
  BY <1>2, <1>6 DEF ConfigSyncInv, PublishesAlone
<1>12. PublishesInStep'
  <2> SUFFICES ASSUME NEW o \in Publications, NEW s \in PackageIds \ (interleaved \cup split),
                      TakesOn(o, s), publication'[o].server \notin ruined
               PROVE  /\ package[s].state = Before[publication'[o].to]
                      /\ pending'[s] = IF publication'[o].pc = "update" THEN NothingPending
                                       ELSE [by |-> publication'[o].server, state |-> publication'[o].to]
    BY <1>2, <1>6 DEF PublishesInStep
  <2>1. CASE o = r
    <3>1. s = p /\ publication[r].server \notin ruined
      BY <1>1, <1>2, <2>1 DEF TakesOn
    <3>2. package[p].state = Before[to]
      BY <1>1, <2>1, <3>1 DEF ConfigSyncInv, PublishesInStep
    <3> QED
      BY <1>4, <1>5, <2>1, <3>1, <3>2
  <2>2. CASE o # r
    <3>1. s # p
      BY <1>1, <1>2, <2>2 DEF ConfigSyncInv, PublishesAlone, TakesOn, AtWork
    <3>2. publication'[o] = publication[o] /\ publication[o].server \notin ruined
      BY <1>5, <2>2
    <3>3. /\ package[s].state = Before[publication[o].to]
          /\ pending[s] = IF publication[o].pc = "update" THEN NothingPending
                          ELSE [by |-> publication[o].server, state |-> publication[o].to]
      BY <3>2 DEF ConfigSyncInv, PublishesInStep
    <3> QED
      BY <1>4, <3>1, <3>2, <3>3
  <2> QED
    BY <2>1, <2>2
<1>13. HistoryFollows'
  BY <1>2 DEF ConfigSyncInv, HistoryFollows
<1> QED
  BY <1>7, <1>8, <1>9, <1>10, <1>11, <1>12, <1>13 DEF ConfigSyncInv

LEMMA RecordHistoryKeeps ==
    ASSUME ConfigSyncInv, NEW r \in Publications, RecordHistory(r)
    PROVE  ConfigSyncInv'
<1>1. PICK p, w, to : /\ p = publication[r].package /\ w = publication[r].server
                      /\ to = publication[r].to
  OBVIOUS
<1>2. /\ publication[r].pc = "record" /\ w \notin ruined
      /\ trace' = [trace EXCEPT ![p] = Append(trace[p], to)]
      /\ CommitPackages(w, r, package)
      /\ publication' = [publication EXCEPT ![r] = Onwards(publication[r])]
      /\ UNCHANGED <<ruined, offered, interleaved>>
  BY <1>1 DEF RecordHistory
<1>3. p \in PackageIds /\ w \in PackageServers /\ to \in Published /\ package[p].state # "none"
  BY <1>1, <1>2 DEF ConfigSyncInv, PublishesWhatIs, ConfigShape, PublicationShape, AtWork
<1>4. /\ package' \in [PackageIds -> PackageRow] /\ pending' \in [PackageIds -> PendingRow]
      /\ split \subseteq split' /\ split' \subseteq PackageIds
      /\ \A o \in PackageIds :
            IF pending[o].by = w
            THEN /\ package'[o] = [package[o] EXCEPT !.state = pending[o].state]
                 /\ package'[o].state = pending[o].state /\ pending'[o] = NothingPending
            ELSE package'[o] = package[o] /\ pending'[o] = pending[o]
      /\ \A o \in PackageIds \ split' : \A u \in Publications : u # r => ~Updated(u, o, w)
  BY <1>2, <1>3, CommitGives DEF ConfigSyncInv, ConfigShape
<1>5. \A o \in PackageIds \ split' :
          o # p => pending[o].by # w /\ package'[o] = package[o] /\ pending'[o] = pending[o]
  <2> SUFFICES ASSUME NEW o \in PackageIds \ split', o # p, pending[o].by = w PROVE FALSE
    BY <1>4
  <2>1. Updated(r, o, w)
    BY <1>3, <1>4, PendingIsOf
  <2> QED
    BY <1>1, <2>1 DEF Updated
<1>6. \A o \in PackageIds : package[o].state # "none" <=> package'[o].state # "none"
  BY <1>3, <1>4 DEF ConfigSyncInv, PendingIsSound, NothingPending
<1>7. PICK b : b = Onwards(publication[r])
  OBVIOUS
<1>8. /\ b.pc \in {"200", "update"} /\ b.package = p /\ b.server = w /\ b.to \in Published
      /\ b.pc = "update" => Before[b.to] = to
      /\ b \in PublicationShape
  <2>1. publication[r] \in PublicationShape
    BY DEF ConfigSyncInv, ConfigShape
  <2>2. CASE to = "available"
    BY <1>1, <1>7, <2>1, <2>2 DEF Onwards, PublicationShape, AtWork, Published
  <2>3. CASE to # "available"
    <3>1. b = [publication[r] EXCEPT !.pc = "update", !.to = NextState[to]]
      BY <1>1, <1>7, <2>3 DEF Onwards
    <3>2. NextState[to] \in Published /\ Before[NextState[to]] = to
      BY <1>3, <2>3 DEF NextState, Published, Before
    <3> QED
      BY <1>1, <2>1, <3>1, <3>2 DEF PublicationShape, AtWork
  <2> QED
    BY <2>2, <2>3
<1>9. /\ \A o \in Publications : publication'[o] = IF o = r THEN b ELSE publication[o]
      /\ publication' \in [Publications -> PublicationShape]
  BY <1>2, <1>7, <1>8 DEF ConfigSyncInv, ConfigShape
<1>10. /\ trace' \in [PackageIds -> Seq(PackageState)]
       /\ \A o \in PackageIds : o # p => trace'[o] = trace[o]
       /\ trace'[p] = Append(trace[p], to) /\ to \in PackageState
  BY <1>2, <1>3 DEF ConfigSyncInv, ConfigShape, Published, PackageState
<1>11. ConfigShape'
  <2>1. ASSUME NEW o \in PackageIds, package'[o].state = "none" PROVE package'[o] = NoPackageRow
    BY <1>3, <1>4, <1>6, <2>1 DEF ConfigSyncInv, ConfigShape, PendingIsSound, NothingPending
  <2> QED
    BY <1>2, <1>4, <1>9, <1>10, <2>1 DEF ConfigSyncInv, ConfigShape
<1>12. PublishesWhatIs'
  BY <1>3, <1>6, <1>8, <1>9 DEF ConfigSyncInv, PublishesWhatIs
<1>13. PendingIsSound'
  BY <1>2, <1>4, <1>6 DEF ConfigSyncInv, PendingIsSound
<1>14. PendingIsHeld'
  <2> SUFFICES ASSUME NEW o \in PackageIds \ split', pending'[o].by # NoPackage
               PROVE  \E u \in Publications :
                           /\ publication'[u].package = o /\ publication'[u].pc = "record"
                           /\ publication'[u].server = pending'[o].by
    BY DEF PendingIsHeld, Updated
  <2>1. pending[o].by # w /\ pending'[o] = pending[o] /\ o \notin split
    BY <1>4 DEF NothingPending
  <2>2. PICK u \in Publications : Updated(u, o, pending[o].by)
    BY <2>1 DEF ConfigSyncInv, PendingIsHeld
  <2>3. u # r
    BY <1>1, <2>1, <2>2 DEF Updated
  <2> QED
    BY <1>9, <2>1, <2>2, <2>3 DEF Updated
<1>15. \A o \in Publications : \A s : TakesOn(o, s)' => TakesOn(o, s)
  BY <1>1, <1>2, <1>8, <1>9 DEF TakesOn, AtWork
<1>16. PublishesAlone'
  BY <1>2, <1>15 DEF ConfigSyncInv, PublishesAlone
<1>17. p \notin interleaved \cup split' =>
           pending[p] = [by |-> w, state |-> to] /\ package[p].state = Before[to]
  BY <1>1, <1>2, <1>3, <1>4 DEF ConfigSyncInv, PublishesInStep, TakesOn, AtWork
<1>18. PublishesInStep'
  <2> SUFFICES ASSUME NEW o \in Publications, NEW s \in PackageIds \ (interleaved \cup split'),
                      TakesOn(o, s)', publication'[o].server \notin ruined
               PROVE  /\ package'[s].state = Before[publication'[o].to]
                      /\ pending'[s] = IF publication'[o].pc = "update" THEN NothingPending
                                       ELSE [by |-> publication'[o].server, state |-> publication'[o].to]
    BY <1>2 DEF PublishesInStep
  <2>1. CASE o = r
    <3>1. s = p /\ publication'[o] = b /\ b.pc = "update"
      BY <1>8, <1>9, <2>1 DEF TakesOn, AtWork
    <3>2. package'[p].state = to /\ pending'[p] = NothingPending
      BY <1>3, <1>4, <1>17, <3>1
    <3> QED
      BY <1>8, <3>1, <3>2
  <2>2. CASE o # r
    <3>1. TakesOn(o, s) /\ publication'[o] = publication[o]
      BY <1>9, <1>15, <2>2
    <3>2. s # p
      BY <1>1, <1>2, <2>2, <3>1 DEF ConfigSyncInv, PublishesAlone, TakesOn, AtWork
    <3>3. package'[s] = package[s] /\ pending'[s] = pending[s] /\ s \notin interleaved \cup split
      BY <1>4, <1>5, <3>2
    <3>4. publication[o].server \notin ruined
      BY <3>1
    <3> QED
      BY <3>1, <3>3, <3>4 DEF ConfigSyncInv, PublishesInStep
  <2> QED
    BY <2>1, <2>2
<1>19. HistoryFollows'
  <2> SUFFICES ASSUME NEW o \in PackageIds
               PROVE  /\ package'[o].state = "none" => trace'[o] = <<>>
                      /\ package'[o].state # "none" /\ o \notin interleaved \cup split'
                         => FollowsTo(trace'[o], package'[o].state)
    BY <1>2 DEF HistoryFollows
  <2>1. CASE o # p
    BY <1>4, <1>5, <1>6, <1>10, <2>1 DEF ConfigSyncInv, HistoryFollows
  <2>2. CASE o = p
    <3>1. package'[p].state # "none"
      BY <1>3, <1>6
    <3>2. ASSUME p \notin interleaved \cup split' PROVE FollowsTo(trace'[p], package'[p].state)
      <4>1. package'[p].state = to
        BY <1>3, <1>4, <1>17, <3>2
      <4>2. FollowsTo(trace[p], Before[to])
        BY <1>3, <1>4, <1>17, <3>2 DEF ConfigSyncInv, HistoryFollows
      <4>3. <<Before[to], to>> \in LEGAL_TRANSITIONS
        BY <1>3 DEF Before, Published, LEGAL_TRANSITIONS
      <4>4. trace[p] \in Seq(PackageState)
        BY <1>3 DEF ConfigSyncInv, ConfigShape
      <4> QED
        BY <1>10, <4>1, <4>2, <4>3, <4>4, FollowsOn
    <3> QED
      BY <2>2, <3>1, <3>2
  <2> QED
    BY <2>1, <2>2
<1> QED
  BY <1>11, <1>12, <1>13, <1>14, <1>16, <1>18, <1>19 DEF ConfigSyncInv

\* A process that loses what is pending leaves rows and histories alone, and publications,
\* unless it ends those it serves or can serve them no more.
LEMMA LossKeeps ==
    ASSUME ConfigSyncInv, NEW w \in PackageServers, LosePending(w),
           UNCHANGED <<offered, interleaved>>,
           ruined' \subseteq ruined \cup {w}, ruined \ {w} \subseteq ruined',
           publication' \in [Publications -> PublicationShape],
           \A r \in Publications :
              \/ publication'[r] = publication[r]
                 /\ (publication[r].pc \in AtWork /\ publication[r].server = w => w \in ruined')
              \/ publication'[r].pc \notin AtWork /\ publication[r].server = w
    PROVE  ConfigSyncInv'
<1>1. /\ UNCHANGED <<package, trace, split, interleaved>>
      /\ pending' = [p \in PackageIds |-> IF pending[p].by = w THEN NothingPending ELSE pending[p]]
  BY DEF LosePending, ClearPending, PendingOf
<1>2. \A r \in Publications : publication'[r].pc \in AtWork =>
          /\ publication'[r] = publication[r]
          /\ publication[r].server = w => w \in ruined'
  OBVIOUS
<1>3. ConfigShape'
  <2>1. NothingPending \in PendingRow
    BY DEF NothingPending, PendingRow
  <2>2. pending' \in [PackageIds -> PendingRow]
    BY <1>1, <2>1 DEF ConfigSyncInv, ConfigShape
  <2>3. ruined' \subseteq PackageServers
    BY DEF ConfigSyncInv, ConfigShape
  <2> QED
    BY <1>1, <2>2, <2>3 DEF ConfigSyncInv, ConfigShape
<1>4. PublishesWhatIs'
  BY <1>1, <1>2 DEF ConfigSyncInv, PublishesWhatIs
<1>5. PendingIsSound'
  BY <1>1 DEF ConfigSyncInv, PendingIsSound
<1>6. PendingIsHeld'
  <2> SUFFICES ASSUME NEW p \in PackageIds \ split, pending'[p].by # NoPackage
               PROVE  \E u \in Publications :
                           /\ publication'[u].package = p /\ publication'[u].pc = "record"
                           /\ publication'[u].server = pending'[p].by
    BY <1>1 DEF PendingIsHeld, Updated
  <2>1. pending[p].by # w /\ pending'[p] = pending[p]
    BY <1>1 DEF NothingPending
  <2>2. PICK u \in Publications : Updated(u, p, pending[p].by)
    BY <2>1 DEF ConfigSyncInv, PendingIsHeld
  <2>3. publication'[u] = publication[u]
    BY <2>1, <2>2 DEF Updated
  <2> QED
    BY <2>1, <2>2, <2>3 DEF Updated
<1>7. \A r \in Publications : \A p : TakesOn(r, p)' => TakesOn(r, p) /\ publication'[r] = publication[r]
  BY <1>2 DEF TakesOn
<1>8. PublishesAlone'
  BY <1>1, <1>7 DEF ConfigSyncInv, PublishesAlone
<1>9. PublishesInStep'
  <2> SUFFICES ASSUME NEW r \in Publications, NEW p \in PackageIds \ (interleaved \cup split),
                      TakesOn(r, p)', publication'[r].server \notin ruined'
               PROVE  /\ package[p].state = Before[publication'[r].to]
                      /\ pending'[p] = IF publication'[r].pc = "update" THEN NothingPending
                                       ELSE [by |-> publication'[r].server, state |-> publication'[r].to]
    BY <1>1 DEF PublishesInStep
  <2>1. /\ publication'[r] = publication[r] /\ TakesOn(r, p) /\ publication[r].server # w
        /\ publication[r].server \notin ruined
    BY <1>2, <1>7 DEF TakesOn
  <2>2. /\ package[p].state = Before[publication[r].to]
        /\ pending[p] = IF publication[r].pc = "update" THEN NothingPending
                        ELSE [by |-> publication[r].server, state |-> publication[r].to]
    BY <2>1 DEF ConfigSyncInv, PublishesInStep
  <2>3. pending[p].by # w
    BY <2>1, <2>2 DEF NothingPending
  <2> QED
    BY <1>1, <2>1, <2>2, <2>3
<1>10. HistoryFollows'
  BY <1>1 DEF ConfigSyncInv, HistoryFollows
<1> QED
  BY <1>3, <1>4, <1>5, <1>6, <1>8, <1>9, <1>10 DEF ConfigSyncInv

LEMMA SessionKeeps ==
    ASSUME ConfigSyncInv, NEW w \in PackageServers, SharedFailure(w) \/ ServerEnds(w)
    PROVE  ConfigSyncInv'
<1>1. CASE SharedFailure(w)
  BY <1>1, LossKeeps DEF SharedFailure, ConfigSyncInv, ConfigShape
<1>2. CASE ServerEnds(w)
  <2>1. /\ LosePending(w) /\ ruined' = ruined \ {w} /\ UNCHANGED <<offered, interleaved>>
        /\ publication' = [r \in Publications |->
               IF publication[r].pc \in AtWork /\ publication[r].server = w
               THEN [publication[r] EXCEPT !.pc = "500"] ELSE publication[r]]
    BY <1>2 DEF ServerEnds, AtWork
  <2>2. ASSUME NEW r \in Publications
        PROVE  [publication[r] EXCEPT !.pc = "500"] \in PublicationShape
               /\ [publication[r] EXCEPT !.pc = "500"].pc = "500"
    BY DEF ConfigSyncInv, ConfigShape, PublicationShape
  <2>3. publication' \in [Publications -> PublicationShape]
    BY <2>1, <2>2 DEF ConfigSyncInv, ConfigShape
  <2>4. "500" \notin AtWork
    BY DEF AtWork
  <2> QED
    BY <2>1, <2>2, <2>3, <2>4, LossKeeps
<1> QED
  BY <1>1, <1>2

LEMMA FailureKeeps ==
    ASSUME ConfigSyncInv, NEW r \in Publications, PublicationFails(r)
    PROVE  ConfigSyncInv'
<1>1. PICK p, w : p = publication[r].package /\ w = publication[r].server
  OBVIOUS
<1>2. /\ UNCHANGED <<package, pending, ruined, trace, offered, interleaved>>
      /\ publication[r].pc \in AtWork
      /\ publication' = [publication EXCEPT ![r].pc = "500"]
      /\ split' = IF publication[r].pc = "record" /\ w \notin ruined THEN split \cup {p} ELSE split
  BY <1>1 DEF PublicationFails, AtWork
<1>3. p \in PackageIds
  BY <1>1, <1>2 DEF ConfigSyncInv, PublishesWhatIs
<1>4. /\ \A o \in Publications : o # r => publication'[o] = publication[o]
      /\ publication'[r].pc = "500"
      /\ publication' \in [Publications -> PublicationShape]
  BY <1>2 DEF ConfigSyncInv, ConfigShape, PublicationShape
<1>5. \A o \in Publications : publication'[o].pc \in AtWork => publication'[o] = publication[o]
  BY <1>4 DEF AtWork
<1>6. ConfigShape'
  BY <1>2, <1>3, <1>4 DEF ConfigSyncInv, ConfigShape
<1>7. PublishesWhatIs'
  BY <1>2, <1>5 DEF ConfigSyncInv, PublishesWhatIs
<1>8. PendingIsSound'
  BY <1>2 DEF ConfigSyncInv, PendingIsSound
<1>9. PendingIsHeld'
  <2> SUFFICES ASSUME NEW o \in PackageIds \ split', pending[o].by # NoPackage
               PROVE  \E u \in Publications :
                           /\ publication'[u].package = o /\ publication'[u].pc = "record"
                           /\ publication'[u].server = pending[o].by
    BY <1>2 DEF PendingIsHeld, Updated
  <2>1. PICK u \in Publications : Updated(u, o, pending[o].by)
    BY <1>2 DEF ConfigSyncInv, PendingIsHeld
  <2>2. u # r
    BY <1>1, <1>2, <2>1 DEF Updated, ConfigSyncInv, PendingIsSound, NothingPending
  <2> QED
    BY <1>4, <2>1, <2>2 DEF Updated
<1>10. \A o \in Publications : \A s : TakesOn(o, s)' => TakesOn(o, s) /\ publication'[o] = publication[o]
  BY <1>5 DEF TakesOn
<1>11. PublishesAlone'
  BY <1>2, <1>10 DEF ConfigSyncInv, PublishesAlone
<1>12. PublishesInStep'
  <2> SUFFICES ASSUME NEW o \in Publications, NEW s \in PackageIds \ (interleaved \cup split'),
                      TakesOn(o, s)', publication'[o].server \notin ruined
               PROVE  /\ package[s].state = Before[publication'[o].to]
                      /\ pending[s] = IF publication'[o].pc = "update" THEN NothingPending
                                      ELSE [by |-> publication'[o].server, state |-> publication'[o].to]
    BY <1>2 DEF PublishesInStep
  <2>1. /\ publication'[o] = publication[o] /\ TakesOn(o, s) /\ s \notin split
        /\ publication[o].server \notin ruined
    BY <1>2, <1>10
  <2> QED
    BY <2>1 DEF ConfigSyncInv, PublishesInStep
<1>13. HistoryFollows'
  BY <1>2 DEF ConfigSyncInv, HistoryFollows
<1> QED
  BY <1>6, <1>7, <1>8, <1>9, <1>11, <1>12, <1>13 DEF ConfigSyncInv

LEMMA ConfigSyncStep == ConfigSyncInv /\ [ConfigSyncNext]_configSyncVars => ConfigSyncInv'
<1> SUFFICES ASSUME ConfigSyncInv, [ConfigSyncNext]_configSyncVars PROVE ConfigSyncInv'
  OBVIOUS
<1>1. CASE UNCHANGED <<packageRows, publication, interleaved>>
  BY <1>1 DEF packageRows, ConfigSyncInv, ConfigShape, PublishesWhatIs, PendingIsSound, PendingIsHeld,
              PublishesAlone, PublishesInStep, HistoryFollows, TakesOn, Updated
<1>2. CASE \E p \in PackageIds, w \in PackageServers : CreatePackage(p, w)
  BY <1>2, CreateKeeps
<1>3. CASE \E r \in Publications : \/ \E p \in PackageIds, w \in PackageServers : Publish(r, p, w)
                                   \/ UpdateState(r)
                                   \/ RecordHistory(r)
                                   \/ PublicationFails(r)
  BY <1>3, PublishKeeps, UpdateKeeps, RecordHistoryKeeps, FailureKeeps
<1>4. CASE \E w \in PackageServers : SharedCommit(w) \/ SharedFailure(w) \/ ServerEnds(w)
  BY <1>4, SharedCommitKeeps, SessionKeeps
<1> QED
  BY <1>1, <1>2, <1>3, <1>4 DEF ConfigSyncNext, configSyncVars, PollConfig

\* A COMMIT changes the state of a package that nobody is at work on only if it was split.
Stays(p) == \/ package'[p].state = package[p].state
            \/ p \in split /\ package'[p].state = pending[p].state
LEMMA CommitStays ==
    ASSUME ConfigSyncInv, NEW w \in PackageServers, NEW r, NEW rows \in [PackageIds -> PackageRow],
           CommitPackages(w, r, rows), NEW p \in PackageIds, rows[p] = package[p],
           \A o \in Publications : ~TakesOn(o, p)
    PROVE  Stays(p)
<1>0. \A o \in PackageIds :
          IF pending[o].by = w
          THEN /\ package'[o] = [rows[o] EXCEPT !.state = pending[o].state]
               /\ package'[o].state = pending[o].state /\ pending'[o] = NothingPending
          ELSE package'[o] = rows[o] /\ pending'[o] = pending[o]
  BY CommitGives DEF ConfigSyncInv
<1>1. IF pending[p].by = w THEN package'[p].state = pending[p].state ELSE package'[p] = rows[p]
  BY <1>0
<1>2. pending[p].by = w => p \in split
  BY DEF ConfigSyncInv, PendingIsHeld, Updated, TakesOn, AtWork
<1> QED
  BY <1>1, <1>2 DEF Stays

\* What is half published, with nobody at work on it, stays so.
LEMMA StuckStep ==
    ASSUME ConfigSyncInv, [ConfigSyncNext]_configSyncVars, NEW p \in PackageIds,
           package[p].state \in {"signed", "published"}, Publishing(p) = {}
    PROVE  Publishing(p)' = {} /\ Stays(p)
<1>0. /\ \A r \in Publications : ~TakesOn(r, p)
      /\ (\A r \in Publications : ~TakesOn(r, p)') => Publishing(p)' = {}
  BY DEF Publishing, TakesOn, AtWork
<1>1. package \in [PackageIds -> PackageRow]
  BY DEF ConfigSyncInv, ConfigShape
<1>2. CASE UNCHANGED <<package, publication>>
  BY <1>0, <1>2 DEF Stays, TakesOn
<1>3. ASSUME NEW o \in PackageIds, NEW w \in PackageServers, CreatePackage(o, w)
      PROVE  Publishing(p)' = {} /\ Stays(p)
  <2>1. PICK q \in CreatePackageRequest :
            CommitPackages(w, NoPackage, [package EXCEPT ![o] = NewPackage(q)])
    BY <1>3 DEF CreatePackage
  <2>2. PICK rows : rows = [package EXCEPT ![o] = NewPackage(q)]
    OBVIOUS
  <2>3. UNCHANGED publication /\ o # p
    BY <1>3 DEF CreatePackage, NoPackageRow
  <2>4. NewPackage(q) \in PackageRow
    BY DEF NewPackage, CreatePackageRequest, PackageRow, PackageState
  <2>5. rows \in [PackageIds -> PackageRow] /\ rows[p] = package[p] /\ CommitPackages(w, NoPackage, rows)
    BY <1>1, <2>1, <2>2, <2>3, <2>4
  <2>6. Stays(p)
    BY <1>0, <2>5, CommitStays
  <2> QED
    BY <1>0, <2>3, <2>6 DEF TakesOn
<1>4. ASSUME NEW r \in Publications, NEW o \in PackageIds, NEW w \in PackageServers, Publish(r, o, w)
      PROVE  Publishing(p)' = {} /\ Stays(p)
  <2>1. PICK b : b = [pc |-> Reply(o, w), package |-> o, server |-> w, to |-> "signed"]
    OBVIOUS
  <2>2. UNCHANGED package /\ publication' = [publication EXCEPT ![r] = b]
    BY <1>4, <2>1 DEF Publish, packageRows
  <2>3. StateSeen(w, p) # "created"
    BY DEF StateSeen, ConfigSyncInv, ConfigShape, PendingRow, Published
  <2>4. o = p => b.pc \notin AtWork
    BY <2>1, <2>3 DEF Reply, IsLegal, LEGAL_TRANSITIONS, AtWork
  <2>5. \A u \in Publications : publication'[u] = IF u = r THEN b ELSE publication[u]
    BY <2>2 DEF ConfigSyncInv, ConfigShape
  <2> QED
    BY <1>0, <2>1, <2>2, <2>4, <2>5 DEF TakesOn, Stays
<1>5. ASSUME NEW r \in Publications, UpdateState(r) \/ PublicationFails(r)
      PROVE  Publishing(p)' = {} /\ Stays(p)
  <2>1. /\ UNCHANGED package /\ publication[r].package # p
        /\ \/ publication' = [publication EXCEPT ![r].pc = "record"]
           \/ publication' = [publication EXCEPT ![r].pc = "500"]
    BY <1>0, <1>5 DEF UpdateState, PublicationFails, TakesOn, AtWork
  <2>2. \A u \in Publications : /\ publication'[u].package = publication[u].package
                                /\ u # r => publication'[u] = publication[u]
    BY <2>1 DEF ConfigSyncInv, ConfigShape, PublicationShape
  <2> QED
    BY <1>0, <2>1, <2>2 DEF TakesOn, Stays
<1>6. ASSUME NEW r \in Publications, RecordHistory(r)
      PROVE  Publishing(p)' = {} /\ Stays(p)
  <2>1. PICK w, b : w = publication[r].server /\ b = Onwards(publication[r])
    OBVIOUS
  <2>2. /\ CommitPackages(w, r, package) /\ publication[r].package # p
        /\ publication' = [publication EXCEPT ![r] = b]
    BY <1>0, <1>6, <2>1 DEF RecordHistory, TakesOn, AtWork
  <2>3. w \in PackageServers
    BY <1>6, <2>1 DEF RecordHistory, ConfigSyncInv, PublishesWhatIs, AtWork
  <2>4. Stays(p)
    <3>1. PICK rows : rows = package
      OBVIOUS
    <3>2. rows \in [PackageIds -> PackageRow] /\ rows[p] = package[p] /\ CommitPackages(w, r, rows)
      BY <1>1, <2>2, <3>1
    <3> QED
      BY <1>0, <2>3, <3>2, CommitStays
  <2>5. \A u \in Publications : publication'[u] = IF u = r THEN b ELSE publication[u]
    BY <2>2 DEF ConfigSyncInv, ConfigShape
  <2>6. b.package = publication[r].package
    BY <2>1 DEF Onwards, ConfigSyncInv, ConfigShape, PublicationShape
  <2> QED
    BY <1>0, <2>2, <2>4, <2>5, <2>6 DEF TakesOn
<1>7. ASSUME NEW w \in PackageServers, SharedCommit(w)
      PROVE  Publishing(p)' = {} /\ Stays(p)
  <2>1. UNCHANGED publication /\ CommitPackages(w, NoPackage, package)
    BY <1>7 DEF SharedCommit
  <2>2. PICK rows : rows = package
    OBVIOUS
  <2>3. rows \in [PackageIds -> PackageRow] /\ rows[p] = package[p] /\ CommitPackages(w, NoPackage, rows)
    BY <1>1, <2>1, <2>2
  <2>4. Stays(p)
    BY <1>0, <2>3, CommitStays
  <2> QED
    BY <1>0, <2>1, <2>4 DEF TakesOn
<1>8. ASSUME NEW w \in PackageServers, SharedFailure(w) \/ ServerEnds(w)
      PROVE  Publishing(p)' = {} /\ Stays(p)
  <2>1. UNCHANGED package
    BY <1>8 DEF SharedFailure, ServerEnds, LosePending
  <2>2. \A u \in Publications :
            publication'[u] = publication[u] \/ publication'[u] = [publication[u] EXCEPT !.pc = "500"]
    BY <1>8 DEF SharedFailure, ServerEnds
  <2>3. \A u \in Publications : [publication[u] EXCEPT !.pc = "500"].pc = "500"
    BY DEF ConfigSyncInv, ConfigShape, PublicationShape
  <2>4. "500" \notin AtWork
    BY DEF AtWork
  <2> QED
    BY <1>0, <2>1, <2>2, <2>3, <2>4 DEF TakesOn, Stays
<1> QED
  BY <1>2, <1>3, <1>4, <1>5, <1>6, <1>7, <1>8 DEF ConfigSyncNext, configSyncVars, packageRows, PollConfig

\* Packages go through their lifecycle, and one whose publication was cut short is never taken
\* any further, by any publications of any packages, whatever the sessions of the processes
\* commit or lose meanwhile.
THEOREM PublicationsSound == ConfigSyncSpec => PublicationIsSound
<1>1. ConfigSyncInv => HistoryFollowsLifecycle
  <2> SUFFICES ASSUME ConfigSyncInv, NEW p \in PackageIds \ (interleaved \cup split),
                      package[p] # NoPackageRow
               PROVE  LET path == <<"created">> \o trace[p]
                      IN  /\ \A i \in 1 .. (Len(path) - 1) :
                                <<path[i], path[i + 1]>> \in LEGAL_TRANSITIONS
                          /\ package[p].state = path[Len(path)]
    BY DEF HistoryFollowsLifecycle
  <2>1. trace[p] \in Seq(PackageState) /\ FollowsTo(trace[p], package[p].state)
    BY DEF ConfigSyncInv, ConfigShape, HistoryFollows
  <2> QED
    BY <2>1, PathFollows
<1>2. ConfigSyncInv /\ [ConfigSyncNext]_configSyncVars =>
          [\A p \in PackageIds :
              package[p].state \in {"signed", "published"} /\ Publishing(p) = {} =>
                  /\ Publishing(p)' = {}
                  /\ \/ package'[p].state = package[p].state
                     \/ p \in split /\ package'[p].state = pending[p].state]_configSyncVars
  BY StuckStep DEF Stays
<1> QED
  BY InitConfigSync, ConfigSyncStep, <1>1, <1>2, PTL
     DEF ConfigSyncSpec, PublicationIsSound, HalfPublishedIsStuck

LEMMA InvariantConfigSync == ConfigSyncSpec => [](ConfigSyncInv /\ offered \subseteq PackageIds)
<1> DEFINE OfferIsKnown == offered \subseteq PackageIds
<1>1. ConfigSyncInit => OfferIsKnown
  BY DEF ConfigSyncInit
<1>2. OfferIsKnown /\ [ConfigSyncNext]_configSyncVars => OfferIsKnown'
  BY DEF ConfigSyncNext, configSyncVars, CreatePackage, Publish, UpdateState, RecordHistory,
     PublicationFails, SharedCommit, SharedFailure, ServerEnds, PollConfig, OfferTo, AvailablePackages
<1> QED
  BY <1>1, <1>2, InitConfigSync, ConfigSyncStep, PTL DEF ConfigSyncSpec

\* Packages, their histories, what sessions have pending and the offers to agents keep their types.
THEOREM ConfigSyncTypeCorrect == ConfigSyncSpec => []ConfigSyncTypeOK
<1>1. ConfigSyncInv /\ offered \subseteq PackageIds => ConfigSyncTypeOK
  <2> SUFFICES ASSUME ConfigSyncInv, offered \subseteq PackageIds PROVE ConfigSyncTypeOK
    OBVIOUS
  <2>1. ConfigShape
    BY DEF ConfigSyncInv
  <2>2. ASSUME NEW p \in PackageIds
        PROVE  /\ package[p].state \in PackageState \cup {"none"}
               /\ pending[p].by \in PackageServers \cup {NoPackage}
               /\ pending[p].state \in PackageState \cup {"none"}
               /\ \A i \in DOMAIN trace[p] : trace[p][i] \in PackageState
    <3>1. package[p] \in PackageRow /\ pending[p] \in PendingRow /\ trace[p] \in Seq(PackageState)
      BY <2>1 DEF ConfigShape
    <3> QED
      BY <3>1 DEF PackageRow, PendingRow, Published, PackageState
  <2>3. \A r \in Publications : publication[r].package \in PackageIds \cup {NoPackage}
    BY <2>1 DEF ConfigShape, PublicationShape
  <2> QED
    BY <2>1, <2>2, <2>3 DEF ConfigShape, ConfigSyncTypeOK
<1> QED
  BY <1>1, InvariantConfigSync, PTL

HIDE ConfigSyncAssumption

-----------------------------------------------------------------------------
(* Policies.                                                               *)

USE PoliciesAssumption

\* A memory of policies.
IsMemory(p) == DOMAIN p \subseteq PolicyNames /\ \A n \in DOMAIN p : p[n] \in Policy

Depth == Cardinality(PolicyNames)
LEMMA DepthIsNatural == Depth \in Nat
  BY FS_CardinalityType DEF Depth

Chains(n) == {s \in Seq(PolicyNames) : s # <<>> /\ s[1] = n}

LEMMA ChainsGrow ==
    ASSUME NEW n \in PolicyNames, NEW s \in Chains(n), NEW m \in PolicyNames
    PROVE  Append(s, m) \in Chains(n)
<1>1. s \in Seq(PolicyNames) /\ Len(s) \in Nat /\ Len(s) # 0 /\ s[1] = n
  BY DEF Chains
<1>2. PICK t : t = Append(s, m)
  OBVIOUS
<1>3. t \in Seq(PolicyNames) /\ t[1] = n /\ Len(t) # 0
  BY <1>1, <1>2
<1>4. t # <<>>
  BY <1>3
<1> QED
  BY <1>2, <1>3, <1>4 DEF Chains

\* The chain of a policy begins with it.
LEMMA ChainBegins ==
    ASSUME NEW p, IsMemory(p), NEW n \in PolicyNames
    PROVE  Chain(p, n) \in Chains(n)
<1> DEFINE Longer(s) == IF s[Len(s)] \in DOMAIN p /\ p[s[Len(s)]].parent # NoName
                        THEN Append(s, p[s[Len(s)]].parent) ELSE s
           Def(f) == [k \in 0 .. Depth |-> IF k = 0 THEN <<n>> ELSE Longer(f[k - 1])]
<1>1. Depth \in Nat
  BY DepthIsNatural
<1>2. PICK a : a = <<n>>
  OBVIOUS
<1>3. a \in Chains(n)
  BY <1>2 DEF Chains
<1>4. ASSUME NEW s \in Chains(n) PROVE Longer(s) \in Chains(n)
  <2>1. CASE s[Len(s)] \in DOMAIN p /\ p[s[Len(s)]].parent # NoName
    <3>1. p[s[Len(s)]].parent \in PolicyNames
      BY <2>1 DEF IsMemory, Policy
    <3> QED
      BY <2>1, <3>1, ChainsGrow
  <2>2. CASE ~(s[Len(s)] \in DOMAIN p /\ p[s[Len(s)]].parent # NoName)
    BY <2>2
  <2> QED
    BY <2>1, <2>2
<1> HIDE DEF Longer
<1>5. PICK step : step = [k \in 1 .. Depth |-> [s \in Chains(n) |-> Longer(s)]]
  OBVIOUS
<1>6. IsStep(step, Depth, Chains(n))
  BY <1>4, <1>5 DEF IsStep
<1>7. PICK h : IsIteration(h, step, Depth, Chains(n), a)
  BY <1>1, <1>3, <1>6, RecursionExists, Zenon
<1>8. h = Def(h)
  <2>1. h \in [0 .. Depth -> Chains(n)] /\ h[0] = a /\ \A k \in 1 .. Depth : h[k] = step[k][h[k - 1]]
    BY <1>7 DEF IsIteration
  <2>2. ASSUME NEW k \in 0 .. Depth, k # 0 PROVE h[k] = Longer(h[k - 1])
    <3>1. k \in 1 .. Depth /\ k - 1 \in 0 .. Depth
      BY <1>1, <2>2
    <3>2. h[k - 1] \in Chains(n)
      BY <2>1, <3>1
    <3> QED
      BY <1>5, <2>1, <3>1, <3>2
  <2> QED
    BY <1>2, <2>1, <2>2
<1>9. PICK f : f = (CHOOSE g : g = Def(g)) /\ f = Def(f)
  BY <1>8
<1>10. Chain(p, n) = f[Depth]
  BY <1>9 DEF Chain, UpTo, Depth, Longer
<1>11. DOMAIN f = 0 .. Depth /\ f = [k \in 0 .. Depth |-> f[k]] /\ f[0] = a
  <2>1. DOMAIN f = 0 .. Depth
    BY <1>9
  <2>2. \A k \in 0 .. Depth : f[k] = Def(f)[k]
    BY <1>9
  <2>3. 0 \in 0 .. Depth
    BY <1>1
  <2>4. f[0] = a
    BY <1>2, <2>2, <2>3
  <2>5. f = [k \in DOMAIN f |-> f[k]]
    BY <1>9
  <2> QED
    BY <2>1, <2>4, <2>5
<1>12. \A k \in 1 .. Depth : f[k - 1] \in Chains(n) => f[k] = step[k][f[k - 1]]
  <2> SUFFICES ASSUME NEW k \in 1 .. Depth, f[k - 1] \in Chains(n) PROVE f[k] = step[k][f[k - 1]]
    OBVIOUS
  <2>1. \A i \in 0 .. Depth : f[i] = Def(f)[i]
    BY <1>9
  <2>2. k \in 0 .. Depth /\ k # 0
    BY <1>1
  <2>3. f[k] = Longer(f[k - 1])
    BY <2>1, <2>2
  <2> QED
    BY <1>5, <2>3
<1>13. IsIteration(f, step, Depth, Chains(n), a)
  BY <1>1, <1>3, <1>6, <1>11, <1>12, IterationIsTyped
<1>14. f[Depth] \in Chains(n)
  BY <1>1, <1>13 DEF IsIteration
<1> QED
  BY <1>10, <1>14

LEMMA OverridesAreTyped ==
    ASSUME NEW t \in Policy, NEW s \in Policy, NEW r, r = ApplyOverrides(t, s)
    PROVE  /\ r \in Policy /\ r.interval = s.interval /\ r.flags = t.flags \cup s.flags
           /\ r.described <=> t.described \/ s.described
<1>1. PICK i \in Nat : i = s.interval
  BY DEF Policy
<1>2. PICK fl \in SUBSET KnownFlags : fl = t.flags \cup s.flags
  BY DEF Policy
<1>3. PICK d \in BOOLEAN : d = (t.described \/ s.described)
  OBVIOUS
<1>4. r = [t EXCEPT !.interval = i, !.flags = fl, !.described = d]
  BY <1>1, <1>2, <1>3 DEF ApplyOverrides, Policy
<1>5. r \in Policy /\ r.interval = i /\ r.flags = fl /\ r.described = d
  BY <1>4 DEF Policy
<1> QED
  BY <1>1, <1>2, <1>3, <1>5

\* r is made of the last k + 1 policies of the chain.
Merges(r, p, c, k) ==
    /\ r.interval = p[c[Len(c) - k]].interval
    /\ r.flags = UNION {p[c[j]].flags : j \in Len(c) - k .. Len(c)}
    /\ r.described <=> \E j \in Len(c) - k .. Len(c) : p[c[j]].described

LEMMA MergesOneMore ==
    ASSUME NEW p, IsMemory(p), NEW c \in Seq(DOMAIN p), NEW k \in 1 .. Len(c) - 1,
           NEW t \in Policy, Merges(t, p, c, k - 1), NEW r, r = ApplyOverrides(t, p[c[Len(c) - k]])
    PROVE  r \in Policy /\ Merges(r, p, c, k)
<1>1. PICK m : m = Len(c) - k
  OBVIOUS
<1>2. Len(c) \in Nat /\ m \in 1 .. Len(c) /\ c[m] \in DOMAIN p /\ Len(c) - (k - 1) = m + 1
  BY <1>1
<1>3. p[c[m]] \in Policy
  BY <1>2 DEF IsMemory
<1>4. r \in Policy /\ r.interval = p[c[m]].interval /\ r.flags = t.flags \cup p[c[m]].flags
      /\ (r.described <=> t.described \/ p[c[m]].described)
  BY <1>1, <1>3, OverridesAreTyped
<1>5. \A j : j \in m .. Len(c) <=> j = m \/ j \in m + 1 .. Len(c)
  BY <1>2
<1>6. t.flags = UNION {p[c[j]].flags : j \in m + 1 .. Len(c)}
      /\ (t.described <=> \E j \in m + 1 .. Len(c) : p[c[j]].described)
  BY <1>2 DEF Merges
<1>7. (UNION {p[c[j]].flags : j \in m .. Len(c)}) = (UNION {p[c[j]].flags : j \in m + 1 .. Len(c)}) \cup p[c[m]].flags
  BY <1>5
<1>8. r.flags = UNION {p[c[j]].flags : j \in m .. Len(c)}
  BY <1>4, <1>6, <1>7
<1>9. r.described <=> \E j \in m .. Len(c) : p[c[j]].described
  <2>1. r.described <=> (\E j \in m + 1 .. Len(c) : p[c[j]].described) \/ p[c[m]].described
    BY <1>4, <1>6
  <2> QED
    BY <1>5, <2>1, Zenon
<1> QED
  BY <1>1, <1>4, <1>8, <1>9 DEF Merges

\* A chain merges into its first policy's number and parent, and what any of its policies has.
LEMMA ChainMerges ==
    ASSUME NEW p, IsMemory(p), NEW c \in Seq(DOMAIN p), c # <<>>
    PROVE  \E r \in Policy : Merges(r, p, c, Len(c) - 1) /\ MergeChain(p, c) = [r EXCEPT !.parent = p[c[1]].parent]
<1>1. PICK n \in Nat : n = Len(c) - 1
  OBVIOUS
<1>2. Len(c) = n + 1 /\ \A k \in 0 .. n : Len(c) - k \in 1 .. Len(c)
  BY <1>1
<1>3. PICK at : at = [k \in 0 .. n |-> p[c[Len(c) - k]]]
  OBVIOUS
<1>4. at \in [0 .. n -> Policy]
  <2>1. ASSUME NEW k \in 0 .. n PROVE p[c[Len(c) - k]] \in Policy
    <3>1. c[Len(c) - k] \in DOMAIN p
      BY <1>2
    <3> QED
      BY <3>1 DEF IsMemory
  <2> QED
    BY <1>3, <2>1
<1> DEFINE Def(f) == [k \in 0 .. n |-> IF k = 0 THEN p[c[Len(c)]]
                                       ELSE ApplyOverrides(f[k - 1], p[c[Len(c) - k]])]
<1>5. PICK a \in Policy : a = p[c[Len(c)]] /\ a = at[0]
  <2>1. Len(c) - 0 = Len(c) /\ 0 \in 0 .. n
    BY <1>2
  <2>2. at[0] = p[c[Len(c)]]
    BY <1>3, <2>1
  <2> QED
    BY <1>4, <2>1, <2>2
<1>6. PICK step : step = [k \in 1 .. n |-> [t \in Policy |-> ApplyOverrides(t, at[k])]]
  OBVIOUS
<1>7. IsStep(step, n, Policy)
  <2>1. ASSUME NEW k \in 1 .. n, NEW t \in Policy PROVE ApplyOverrides(t, at[k]) \in Policy
    <3>1. at[k] \in Policy
      BY <1>4
    <3> QED
      BY <3>1, OverridesAreTyped
  <2> QED
    BY <1>6, <2>1 DEF IsStep
<1>8. PICK h : IsIteration(h, step, n, Policy, a)
  BY <1>7, RecursionExists, Zenon
<1>9. h \in [0 .. n -> Policy] /\ h[0] = a /\ \A k \in 1 .. n : h[k] = step[k][h[k - 1]]
  BY <1>8 DEF IsIteration
<1>10. h = Def(h)
  <2>1. ASSUME NEW k \in 0 .. n, k # 0 PROVE h[k] = ApplyOverrides(h[k - 1], p[c[Len(c) - k]])
    <3>1. k \in 1 .. n /\ k - 1 \in 0 .. n
      BY <2>1
    <3>2. h[k - 1] \in Policy /\ at[k] = p[c[Len(c) - k]]
      BY <1>3, <1>9, <3>1
    <3>3. step[k][h[k - 1]] = ApplyOverrides(h[k - 1], at[k])
      BY <1>6, <3>1, <3>2
    <3> QED
      BY <1>9, <3>1, <3>2, <3>3
  <2> QED
    BY <1>5, <1>9, <2>1
<1>11. PICK f : f = (CHOOSE g : g = Def(g)) /\ f = Def(f)
  BY <1>10
<1>12. MergeChain(p, c) = [f[n] EXCEPT !.parent = p[c[1]].parent]
  BY <1>1, <1>11 DEF MergeChain
<1>13. PICK S : S = {k \in 0 .. n : f[k] \in Policy /\ Merges(f[k], p, c, k)}
  OBVIOUS
<1>14. \A k \in 0 .. n : k \in S
  <2>1. 0 \in S
    <3>1. f[0] = a
      <4>1. \A k \in 0 .. n : f[k] = Def(f)[k]
        BY <1>11
      <4>2. 0 \in 0 .. n
        OBVIOUS
      <4> QED
        BY <1>5, <4>1, <4>2
    <3>2. \A j : j \in Len(c) - 0 .. Len(c) <=> j = Len(c)
      BY <1>2
    <3>3. UNION {p[c[j]].flags : j \in Len(c) - 0 .. Len(c)} = p[c[Len(c)]].flags
      BY <3>2
    <3>4. Len(c) - 0 = Len(c)
      BY <1>2
    <3>5. Merges(a, p, c, 0)
      BY <1>5, <3>2, <3>3, <3>4 DEF Merges
    <3> QED
      BY <1>13, <3>1, <3>5
  <2>2. ASSUME NEW k \in 1 .. n, k - 1 \in S PROVE k \in S
    <3>1. f[k - 1] \in Policy /\ Merges(f[k - 1], p, c, k - 1)
      BY <1>13, <2>2
    <3>2. f[k] = ApplyOverrides(f[k - 1], p[c[Len(c) - k]])
      <4>1. \A i \in 0 .. n : f[i] = Def(f)[i]
        BY <1>11
      <4>2. k \in 0 .. n /\ k # 0
        OBVIOUS
      <4> QED
        BY <4>1, <4>2
    <3>3. k \in 1 .. Len(c) - 1
      BY <1>2
    <3>4. f[k] \in Policy /\ Merges(f[k], p, c, k)
      BY <3>1, <3>2, <3>3, MergesOneMore
    <3> QED
      BY <1>13, <3>4
  <2> QED
    BY <2>1, <2>2, InductionUpTo
<1>15. f[n] \in Policy /\ Merges(f[n], p, c, n)
  BY <1>13, <1>14
<1> QED
  BY <1>1, <1>12, <1>15

\* So inheritance is over the ancestors, for any memory of policies.
LEMMA Inheritance ==
    ASSUME NEW p, IsMemory(p), NEW n \in DOMAIN p, Resolvable(p, n)
    PROVE  Resolve(p, n) =
                [parent |-> p[n].parent, interval |-> p[n].interval,
                 flags |-> UNION {p[m].flags : m \in Ancestors(p, n)},
                 described |-> \E m \in Ancestors(p, n) : p[m].described]
<1>1. PICK c : c = Chain(p, n)
  OBVIOUS
<1>2. c \in Seq(PolicyNames) /\ c # <<>> /\ c[1] = n
  <2>1. n \in PolicyNames
    BY DEF IsMemory
  <2>2. Chain(p, n) \in Chains(n)
    BY <2>1, ChainBegins
  <2> QED
    BY <1>1, <2>2 DEF Chains
<1>3. \A i \in 1 .. Len(c) : c[i] \in DOMAIN p
  BY <1>1, <1>2 DEF Resolvable
<1>4. c \in Seq(DOMAIN p) /\ Len(c) \in Nat /\ Len(c) - (Len(c) - 1) = 1
  BY <1>2, <1>3
<1>5. PICK r \in Policy : Merges(r, p, c, Len(c) - 1) /\ MergeChain(p, c) = [r EXCEPT !.parent = p[c[1]].parent]
  BY <1>2, <1>4, ChainMerges
<1>6. Ancestors(p, n) = {c[i] : i \in 1 .. Len(c)}
  BY <1>1, <1>2, <1>3 DEF Ancestors
<1>7. /\ r.interval = p[n].interval
      /\ r.flags = UNION {p[c[j]].flags : j \in 1 .. Len(c)}
      /\ r.described <=> \E j \in 1 .. Len(c) : p[c[j]].described
  BY <1>2, <1>4, <1>5 DEF Merges
<1>8. UNION {p[c[j]].flags : j \in 1 .. Len(c)} = UNION {p[m].flags : m \in Ancestors(p, n)}
  BY <1>6
<1>9. (\E j \in 1 .. Len(c) : p[c[j]].described) <=> \E m \in Ancestors(p, n) : p[m].described
  BY <1>6
<1>10. PICK d \in BOOLEAN : d = (\E m \in Ancestors(p, n) : p[m].described)
  OBVIOUS
<1>11. r.described = d
  <2>1. r.described \in BOOLEAN
    BY DEF Policy
  <2> QED
    BY <1>7, <1>9, <1>10, <2>1
<1>12. PICK q, fl : q = p[n].parent /\ fl = UNION {p[m].flags : m \in Ancestors(p, n)}
  OBVIOUS
<1>13. [r EXCEPT !.parent = q] = [parent |-> q, interval |-> p[n].interval, flags |-> fl, described |-> d]
  <2>1. PICK iv : iv = p[n].interval
    OBVIOUS
  <2>2. r.interval = iv /\ r.flags = fl /\ r.described = d
    BY <1>7, <1>8, <1>11, <1>12, <2>1
  <2>3. DOMAIN r = {"parent", "interval", "described", "flags"}
    BY DEF Policy
  <2>4. [r EXCEPT !.parent = q] = [parent |-> q, interval |-> iv, flags |-> fl, described |-> d]
    BY <2>2 DEF Policy
  <2> QED
    BY <2>1, <2>4
<1>14. Resolve(p, n) = [r EXCEPT !.parent = q]
  BY <1>1, <1>2, <1>5, <1>12 DEF Resolve
<1> QED
  BY <1>10, <1>12, <1>13, <1>14

-----------------------------------------------------------------------------
\* A process that has started has a row of every policy that it knows; nothing is assigned on
\* PostgreSQL, and no session refused on SQLite; what is assigned has a row, which stays.
Started(w) ==
    /\ IsMemory(known[w])
    /\ \A n \in DOMAIN known[w] : n \in unsaved[w] \/ n \in DOMAIN policyRows
    /\ w \in up => unsaved[w] = {}
PolicyInv ==
    /\ files \in Editions /\ dialect \in DatabaseDialect
    /\ DOMAIN known = PolicyServers /\ DOMAIN unsaved = PolicyServers /\ DOMAIN assigned = Assignees
    /\ \A w \in PolicyServers : Started(w)
    /\ dialect = "sqlite" => refused = {}
    /\ dialect = "postgresql" => \A m \in Assignees : assigned[m] = NoName
    /\ \A m \in Assignees : assigned[m] = NoName \/ assigned[m] \in DOMAIN policyRows
    /\ up \subseteq PolicyServers

LEMMA InitPolicies == PoliciesInit => PolicyInv
  BY DEF PoliciesInit, PolicyInv, Started, IsMemory, NoPolicies

\* Started survives whatever leaves w alone and only adds rows.
LEMMA StartedStays ==
    ASSUME NEW w, Started(w), known'[w] = known[w], unsaved'[w] = unsaved[w], w \in up' => w \in up,
           DOMAIN policyRows \subseteq DOMAIN policyRows'
    PROVE  Started(w)'
  BY DEF Started, IsMemory

LEMMA NextPolicies == PolicyInv /\ [PoliciesNext]_policiesVars => PolicyInv'
<1> SUFFICES ASSUME PolicyInv, [PoliciesNext]_policiesVars PROVE PolicyInv'
  OBVIOUS
<1>1. CASE UNCHANGED policiesVars
  <2>1. \A w \in PolicyServers : Started(w)'
    BY <1>1, StartedStays DEF PolicyInv, policiesVars
  <2> QED
    BY <1>1, <2>1 DEF PolicyInv, policiesVars
<1>2. CASE Edit
  <2>1. \A w \in PolicyServers : Started(w)'
    BY <1>2, StartedStays DEF PolicyInv, Edit
  <2> QED
    BY <1>2, <2>1 DEF PolicyInv, Edit
<1>3. ASSUME NEW w \in PolicyServers, LoadPolicies(w) PROVE PolicyInv'
  <2>1. /\ known'[w] = Loaded /\ unsaved'[w] = DOMAIN Loaded
        /\ \A v \in PolicyServers : v # w => known'[v] = known[v] /\ unsaved'[v] = unsaved[v] /\ (v \in up' => v \in up)
        /\ w \in up' => DOMAIN Loaded = {}
        /\ DOMAIN known' = PolicyServers /\ DOMAIN unsaved' = PolicyServers /\ up' \subseteq PolicyServers
        /\ UNCHANGED <<files, policyRows, assigned, dialect, refused>>
    BY <1>3 DEF LoadPolicies, PolicyInv
  <2>2. IsMemory(Loaded)
    BY DEF IsMemory, Loaded, PolicyInv
  <2>3. Started(w)'
    BY <2>1, <2>2 DEF Started, IsMemory
  <2>4. \A v \in PolicyServers : v # w => Started(v)'
    BY <2>1, StartedStays DEF PolicyInv
  <2> QED
    BY <2>1, <2>3, <2>4 DEF PolicyInv
<1>4. ASSUME NEW w \in PolicyServers, SavePolicy(w) PROVE PolicyInv'
  <2>1. PICK n \in unsaved[w] :
            /\ DOMAIN policyRows' = DOMAIN policyRows \cup {n}
            /\ unsaved' = [unsaved EXCEPT ![w] = unsaved[w] \ {n}]
            /\ up' = IF unsaved[w] = {n} THEN up \cup {w} ELSE up
            /\ UNCHANGED <<files, known, assigned, dialect, refused>>
    BY <1>4 DEF SavePolicy
  <2>2. unsaved'[w] = unsaved[w] \ {n} /\ \A v \in PolicyServers : v # w => unsaved'[v] = unsaved[v]
    BY <2>1 DEF PolicyInv
  <2>3. Started(w)'
    <3>1. w \notin up
      BY DEF PolicyInv, Started
    <3>2. w \in up' => unsaved'[w] = {}
      BY <2>1, <2>2, <3>1
    <3> QED
      BY <2>1, <2>2, <3>2 DEF Started, PolicyInv, IsMemory
  <2>4. \A v \in PolicyServers : v # w => Started(v)'
    BY <2>1, <2>2, StartedStays DEF PolicyInv
  <2> QED
    BY <2>1, <2>3, <2>4 DEF PolicyInv
<1>5. ASSUME NEW w \in PolicyServers, EndServer(w) PROVE PolicyInv'
  <2>1. /\ known'[w] = NoPolicies /\ unsaved'[w] = {}
        /\ \A v \in PolicyServers : v # w => known'[v] = known[v] /\ unsaved'[v] = unsaved[v] /\ (v \in up' => v \in up)
        /\ DOMAIN known' = PolicyServers /\ DOMAIN unsaved' = PolicyServers /\ up' \subseteq PolicyServers
        /\ refused' \subseteq refused /\ UNCHANGED <<files, policyRows, assigned, dialect>>
    BY <1>5 DEF EndServer, PolicyInv
  <2>2. Started(w)'
    BY <2>1 DEF Started, IsMemory, NoPolicies
  <2>3. \A v \in PolicyServers : v # w => Started(v)'
    BY <2>1, StartedStays DEF PolicyInv
  <2> QED
    BY <2>1, <2>2, <2>3 DEF PolicyInv
<1>6. ASSUME NEW w \in PolicyServers, NEW m \in Assignees, NEW n \in PolicyNames, AssignPolicy(w, m, n)
      PROVE  PolicyInv'
  <2>1. UNCHANGED <<files, known, unsaved, up, policyRows, dialect>>
    BY <1>6 DEF AssignPolicy
  <2>2. \A v \in PolicyServers : Started(v)'
    BY <2>1, StartedStays DEF PolicyInv
  <2>3. n \in DOMAIN policyRows
    BY <1>6 DEF AssignPolicy, Assignable, Stored, PolicyInv, Started
  <2>4. CASE dialect = "sqlite"
    BY <1>6, <2>1, <2>2, <2>3, <2>4 DEF PolicyInv, AssignPolicy
  <2>5. CASE dialect # "sqlite"
    BY <1>6, <2>1, <2>2, <2>5 DEF PolicyInv, AssignPolicy
  <2> QED
    BY <2>4, <2>5
<1> QED
  BY <1>1, <1>2, <1>3, <1>4, <1>5, <1>6 DEF PoliciesNext

\* The answers about a policy exist when they are needed and are made of all of its chain, for any
\* policies, files, processes and machines, either database, and over edits and restarts
\* (PolicyService.get_policy and PolicyInheritanceEngine.resolve).
THEOREM PoliciesSound == PoliciesSpec => []PoliciesAreSound
<1>1. PolicyInv => AssignedIsAnswered
  BY DEF PolicyInv, AssignedIsAnswered, PolicyAnswers, Stored, DatabaseDialect
<1>2. PolicyInv => InheritsFromAll
  <2> SUFFICES ASSUME PolicyInv, NEW w \in PolicyServers, NEW n \in DOMAIN known[w], Resolvable(known[w], n)
               PROVE  Resolve(known[w], n) =
                        [parent |-> known[w][n].parent, interval |-> known[w][n].interval,
                         flags |-> UNION {known[w][m].flags : m \in Ancestors(known[w], n)},
                         described |-> \E m \in Ancestors(known[w], n) : known[w][m].described]
    BY DEF InheritsFromAll
  <2>1. IsMemory(known[w])
    BY DEF PolicyInv, Started
  <2> QED
    BY <2>1, Inheritance
<1> QED
  BY <1>1, <1>2, InitPolicies, NextPolicies, PTL DEF PoliciesSpec, PoliciesAreSound

\* What is still to be saved is known, a row is a policy, and a session is refused to a process
\* that has started.
PolicyRows ==
    /\ \A w \in PolicyServers : unsaved[w] \subseteq DOMAIN known[w]
    /\ \A n \in DOMAIN policyRows : n \in PolicyNames /\ policyRows[n] \in Policy
    /\ assigned \in [Assignees -> PolicyNames \cup {NoName}]
    /\ refused \subseteq up

LEMMA NextPolicyRows == PolicyInv /\ PolicyRows /\ [PoliciesNext]_policiesVars => PolicyRows'
<1> SUFFICES ASSUME PolicyInv, PolicyRows, [PoliciesNext]_policiesVars PROVE PolicyRows'
  OBVIOUS
<1>1. DOMAIN known = PolicyServers /\ DOMAIN unsaved = PolicyServers
  BY DEF PolicyInv
<1>2. CASE Edit \/ UNCHANGED policiesVars
  BY <1>2 DEF PolicyRows, Edit, policiesVars
<1>3. ASSUME NEW w \in PolicyServers, LoadPolicies(w) PROVE PolicyRows'
  <2>1. /\ known' = [known EXCEPT ![w] = Loaded] /\ unsaved' = [unsaved EXCEPT ![w] = DOMAIN Loaded]
        /\ up \subseteq up' /\ UNCHANGED <<policyRows, assigned, refused>>
    BY <1>3 DEF LoadPolicies
  <2>2. \A v \in PolicyServers : unsaved'[v] \subseteq DOMAIN known'[v]
    BY <1>1, <2>1 DEF PolicyRows
  <2> QED
    BY <2>1, <2>2 DEF PolicyRows
<1>4. ASSUME NEW w \in PolicyServers, SavePolicy(w) PROVE PolicyRows'
  <2>1. PICK n \in unsaved[w] :
            /\ policyRows' = [m \in DOMAIN policyRows \cup {n} |->
                   IF m = n THEN (IF n \in DOMAIN policyRows
                                  THEN SavedParent(policyRows[n], known[w][n]) ELSE known[w][n])
                   ELSE policyRows[m]]
            /\ unsaved' = [unsaved EXCEPT ![w] = unsaved[w] \ {n}]
            /\ up \subseteq up' /\ UNCHANGED <<known, assigned, refused>>
    BY <1>4 DEF SavePolicy
  <2>2. n \in PolicyNames /\ known[w][n] \in Policy
    BY DEF PolicyRows, PolicyInv, Started, IsMemory
  <2>3. n \in DOMAIN policyRows => SavedParent(policyRows[n], known[w][n]) \in Policy
    BY <2>2 DEF PolicyRows, SavedParent, Policy
  <2>4. \A m \in DOMAIN policyRows' : m \in PolicyNames /\ policyRows'[m] \in Policy
    BY <2>1, <2>2, <2>3 DEF PolicyRows
  <2>5. \A v \in PolicyServers : unsaved'[v] \subseteq DOMAIN known'[v]
    BY <1>1, <2>1 DEF PolicyRows
  <2> QED
    BY <2>1, <2>4, <2>5 DEF PolicyRows
<1>5. ASSUME NEW w \in PolicyServers, EndServer(w) PROVE PolicyRows'
  <2>1. /\ known' = [known EXCEPT ![w] = NoPolicies] /\ unsaved' = [unsaved EXCEPT ![w] = {}]
        /\ up' = up \ {w} /\ refused' = refused \ {w} /\ UNCHANGED <<policyRows, assigned>>
    BY <1>5 DEF EndServer
  <2>2. \A v \in PolicyServers : unsaved'[v] \subseteq DOMAIN known'[v]
    BY <1>1, <2>1 DEF PolicyRows
  <2> QED
    BY <2>1, <2>2 DEF PolicyRows
<1>6. ASSUME NEW w \in PolicyServers, NEW m \in Assignees, NEW n \in PolicyNames, AssignPolicy(w, m, n)
      PROVE  PolicyRows'
  <2>1. w \in up /\ UNCHANGED <<known, unsaved, up, policyRows>>
    BY <1>6 DEF AssignPolicy
  <2>2. CASE dialect = "sqlite"
    BY <1>6, <2>1, <2>2 DEF PolicyRows, AssignPolicy
  <2>3. CASE dialect # "sqlite"
    BY <1>6, <2>1, <2>3 DEF PolicyRows, AssignPolicy
  <2> QED
    BY <2>2, <2>3
<1> QED
  BY <1>2, <1>3, <1>4, <1>5, <1>6 DEF PoliciesNext

\* Policies in memory and in rows, and what is assigned, keep their types.
THEOREM PoliciesTypeCorrect == PoliciesSpec => []PoliciesTypeOK
<1>1. PoliciesInit => PolicyRows
  BY DEF PoliciesInit, PolicyRows, NoPolicies
<1>2. PolicyInv /\ PolicyRows => PoliciesTypeOK
  BY DEF PolicyInv, PolicyRows, Started, IsMemory, PoliciesTypeOK
<1> QED
  BY <1>1, <1>2, InitPolicies, NextPolicies, NextPolicyRows, PTL DEF PoliciesSpec

HIDE PoliciesAssumption

-----------------------------------------------------------------------------
(* What the server keeps of machines, put together as in MCFleet.tla.      *)

\* There is a handler for each request, so that the next one to arrive is one of them.
HandlersAreThere ==
    /\ DOMAIN tokenJob = PairingRequests /\ DOMAIN job = Requests
    /\ DOMAIN commandJob = CommandRequests /\ DOMAIN beat = Beats
    /\ DOMAIN publication = Publications

LEMMA FirstIsThere == ASSUME NEW jobs PROVE First(jobs) \subseteq DOMAIN jobs
<1>1. PICK idle : idle = {r \in DOMAIN jobs : jobs[r].pc = "idle"}
  OBVIOUS
<1>2. First(jobs) = IF idle = {} THEN {} ELSE {CHOOSE r \in idle : TRUE}
  BY <1>1 DEF First
<1>3. First(jobs) \subseteq idle
  BY <1>2
<1> QED
  BY <1>1, <1>3

\* A step of the whole is one of one part, and leaves the others alone.
LEMMA PairingPart == ASSUME HandlersAreThere, FleetNext PROVE [PairingNext]_pairingVars
<1>1. First(tokenJob) \subseteq PairingRequests
  BY FirstIsThere DEF HandlersAreThere
<1>2. CASE part # "pairing"
  BY <1>2 DEF FleetNext, Of
<1>3. CASE part = "pairing"
  <2>1. \/ \E t \in Tokens : Create(t) \/ Age(t)
        \/ \E r \in First(tokenJob), t \in Tokens : Validate(r, t) \/ Consume(r, t) \/ RevokeToken(r, t)
        \/ \E r \in PairingRequests : WriteToken(r) \/ Abandon(r)
        \/ Sweep
    BY <1>3 DEF FleetNext, Of
  <2> QED
    BY <1>1, <2>1 DEF PairingNext
<1> QED
  BY <1>2, <1>3

LEMMA RegistrationPart == ASSUME HandlersAreThere, FleetNext PROVE [Next]_vars
<1>1. First(job) \subseteq Requests
  BY FirstIsThere DEF HandlersAreThere
<1>2. CASE part # "registration"
  BY <1>2 DEF FleetNext, Of
<1>3. CASE part = "registration"
  <2>1. \/ \E q \in First(job), m \in Machines, w \in Workers :
              \/ Register(q, m, w) \/ Approve(q, m, w)
              \/ Reject(q, m, w) \/ Expire(q, m, w) \/ Revoke(q, m, w)
        \/ \E q \in Requests : Step(q)
        \/ \E w \in Workers : OthersCommit(w) \/ OthersFail(w) \/ Restart(w)
    BY <1>3 DEF FleetNext, Of
  <2> QED
    BY <1>1, <2>1 DEF Next
<1> QED
  BY <1>2, <1>3

LEMMA CommandsPart == ASSUME HandlersAreThere, FleetNext PROVE [CommandsNext]_commandVars
<1>1. First(commandJob) \subseteq CommandRequests
  BY FirstIsThere DEF HandlersAreThere
<1>2. CASE part # "commands"
  BY <1>2 DEF FleetNext, Of
<1>3. CASE part = "commands"
  <2>1. \/ \E q \in First(commandJob), c \in Commands, w \in CommandWorkers :
              CreateCommand(q, c, w) \/ Authorize(q, c, w) \/ Cancel(q, c, w)
        \/ \E q \in CommandRequests :
              WriteState(q) \/ LogState(q) \/ Check(q) \/ Enqueue(q) \/ Fail(q)
        \/ \E w \in CommandWorkers :
              SessionCommits(w) \/ SessionFails(w) \/ RestartWorker(w) \/ Poll(w)
    BY <1>3 DEF FleetNext, Of
  <2> QED
    BY <1>1, <2>1 DEF CommandsNext
<1> QED
  BY <1>2, <1>3

LEMMA HeartbeatPart == ASSUME HandlersAreThere, FleetNext PROVE [HeartbeatNext]_heartbeatVars
<1>1. First(beat) \subseteq Beats
  BY FirstIsThere DEF HandlersAreThere
<1>2. CASE part # "heartbeat"
  BY <1>2 DEF FleetNext, Of
<1>3. CASE part = "heartbeat"
  <2>1. \/ \E r \in First(beat), q \in Request : Submit(r, q)
        \/ \E r \in Beats : Compare(r) \/ Record(r) \/ Note(r) \/ BeatFails(r)
        \/ DetectTimeouts
        \/ \E h \in Hosts : Silence(h)
    BY <1>3 DEF FleetNext, Of
  <2> QED
    BY <1>1, <2>1 DEF HeartbeatNext
<1> QED
  BY <1>2, <1>3

LEMMA ConfigSyncPart == ASSUME HandlersAreThere, FleetNext PROVE [ConfigSyncNext]_configSyncVars
<1>1. First(publication) \subseteq Publications
  BY FirstIsThere DEF HandlersAreThere
<1>2. CASE part # "configsync"
  BY <1>2 DEF FleetNext, Of
<1>3. CASE part = "configsync"
  <2>1. \/ \E p \in PackageIds, w \in PackageServers : CreatePackage(p, w)
        \/ \E r \in First(publication), p \in PackageIds, w \in PackageServers : Publish(r, p, w)
        \/ \E r \in Publications : UpdateState(r) \/ RecordHistory(r) \/ PublicationFails(r)
        \/ \E w \in PackageServers : SharedCommit(w) \/ SharedFailure(w) \/ ServerEnds(w)
        \/ \E agent \in VersionStrings \cup {<<>>}, w \in PackageServers : PollConfig(agent, w)
    BY <1>3 DEF FleetNext, Of
  <2> QED
    BY <1>1, <2>1 DEF ConfigSyncNext
<1> QED
  BY <1>2, <1>3

LEMMA PoliciesPart == ASSUME FleetNext PROVE [PoliciesNext]_policiesVars
<1>1. CASE part # "policies"
  BY <1>1 DEF FleetNext, Of
<1>2. CASE part = "policies"
  BY <1>2 DEF FleetNext, Of, PoliciesNext
<1> QED
  BY <1>1, <1>2

LEMMA HandlersStayThere ==
    ASSUME HandlersAreThere, [PairingNext]_pairingVars, [Next]_vars, [CommandsNext]_commandVars,
           [HeartbeatNext]_heartbeatVars, [ConfigSyncNext]_configSyncVars
    PROVE  HandlersAreThere'
<1>1. DOMAIN tokenJob' = PairingRequests
  BY DEF HandlersAreThere, PairingNext, pairingVars, Create, Age, Validate, Consume, RevokeToken,
     WriteToken, Abandon, Sweep, Answer, GoOn
<1>2. DOMAIN job' = Requests
  <2>1. ASSUME NEW q \in Requests, NEW m \in Machines, NEW w \in Workers, NEW k, NEW pc,
               Arrive(q, k, m, w, pc)
        PROVE  DOMAIN job' = DOMAIN job
    BY <2>1 DEF Arrive
  <2>2. ASSUME NEW q \in Requests, NEW pc, GoTo(q, pc) PROVE DOMAIN job' = DOMAIN job
    BY <2>2 DEF GoTo
  <2>3. ASSUME NEW q \in Requests, Step(q) PROVE DOMAIN job' = DOMAIN job
    <3>1. Recheck(q) => DOMAIN job' = DOMAIN job
      BY DEF Recheck
    <3> QED
      BY <2>2, <2>3, <3>1 DEF Step, Insert, InsertFails, File, Issue, IssueFails, Write, FollowUp,
         WriteAlone, Stamp, Uncertify, UncertifyFails, StatementRaises
  <2>4. ASSUME NEW w \in Workers, Restart(w) PROVE DOMAIN job' = Requests
    BY <2>4 DEF Restart
  <2>5. CASE UNCHANGED vars
    BY <2>5 DEF vars, HandlersAreThere
  <2> QED
    BY <2>1, <2>3, <2>4, <2>5
       DEF HandlersAreThere, Next, Register, Approve, Reject, Expire, Revoke, OthersCommit, OthersFail
<1>3. DOMAIN commandJob' = CommandRequests
  BY DEF HandlersAreThere, CommandsNext, commandVars, CreateCommand, Read, Ask, Authorize, Cancel,
     WriteState, LogState, Check, Enqueue, Fail, SessionCommits, SessionFails, RestartWorker, Poll
<1>4. DOMAIN beat' = Beats
  BY DEF HandlersAreThere, HeartbeatNext, heartbeatVars, Submit, Compare, Record, Note, BeatFails,
     DetectTimeouts, Silence
<1>5. DOMAIN publication' = Publications
  BY DEF HandlersAreThere, ConfigSyncNext, configSyncVars, CreatePackage, Publish, UpdateState,
     RecordHistory, PublicationFails, SharedCommit, SharedFailure, ServerEnds, PollConfig
<1> QED
  BY <1>1, <1>2, <1>3, <1>4, <1>5 DEF HandlersAreThere

\* The components put together behave each as it does alone: every theorem about one of them, those
\* of Registration_proofs.tla and Commands_proofs.tla included, holds of the whole that TLC checks.
THEOREM FleetIsItsParts ==
    FleetSpec => /\ PairingSpec /\ Spec /\ CommandsSpec /\ HeartbeatSpec /\ ConfigSyncSpec
                 /\ PoliciesSpec
<1>1. FleetInit => /\ PairingInit /\ Init /\ CommandsInit /\ HeartbeatInit /\ ConfigSyncInit
                   /\ PoliciesInit
  BY DEF FleetInit
<1>2. FleetInit => HandlersAreThere
  BY DEF FleetInit, HandlersAreThere, PairingInit, Init, CommandsInit, HeartbeatInit, ConfigSyncInit
<1>3. HandlersAreThere /\ [FleetNext]_fleetVars =>
          /\ [PairingNext]_pairingVars /\ [Next]_vars /\ [CommandsNext]_commandVars
          /\ [HeartbeatNext]_heartbeatVars /\ [ConfigSyncNext]_configSyncVars
          /\ [PoliciesNext]_policiesVars
  <2>1. CASE UNCHANGED fleetVars
    BY <2>1 DEF fleetVars
  <2>2. ASSUME HandlersAreThere, FleetNext
        PROVE  /\ [PairingNext]_pairingVars /\ [Next]_vars /\ [CommandsNext]_commandVars
               /\ [HeartbeatNext]_heartbeatVars /\ [ConfigSyncNext]_configSyncVars
               /\ [PoliciesNext]_policiesVars
    BY <2>2, PairingPart, RegistrationPart, CommandsPart, HeartbeatPart, ConfigSyncPart, PoliciesPart
  <2> QED
    BY <2>1, <2>2
<1>4. HandlersAreThere /\ [FleetNext]_fleetVars => HandlersAreThere'
  BY <1>3, HandlersStayThere
<1> QED
  BY <1>1, <1>2, <1>3, <1>4, PTL
  DEF FleetSpec, PairingSpec, Spec, CommandsSpec, HeartbeatSpec, ConfigSyncSpec, PoliciesSpec

\* Every variable of every component has the shape the code gives it, whatever the requests do.
THEOREM FleetTypeCorrect == FleetSpec => []FleetTypeOK
<1>1. /\ PairingTypeOK /\ TypeOK /\ CommandsTypeOK /\ HeartbeatTypeOK /\ ConfigSyncTypeOK
      /\ PoliciesTypeOK
      => FleetTypeOK
  BY DEF FleetTypeOK
<1> QED
  BY <1>1, FleetIsItsParts, TokensTypeCorrect, RegistrationTypeCorrect, CommandsTypeCorrect,
     HeartbeatTypeCorrect, ConfigSyncTypeCorrect, PoliciesTypeCorrect, PTL

\* What the run of the composition checks, all of it, for any values of the constants.
THEOREM FleetIsSound ==
    FleetSpec => /\ []TokensAreSound /\ OnlyStaleWritesBreakTheTokens
                 /\ []RegistryIsSound /\ []UndisturbedIsConsistent
                 /\ OnlyStaleWritesBreakTheLifecycle
                 /\ []CommandsAreSound /\ []UndisturbedIsSettled /\ OnlyStaleWritesBreakCommands
                 /\ []HeartbeatsAreSound /\ PublicationIsSound /\ []PoliciesAreSound
BY FleetIsItsParts, TokensSound, TokensBreakOnlyByRace, RegistrySound, OrderLeavesConsistency,
   LifecycleBreaksOnlyByRace, CommandsSound, OrderLeavesSettled, CommandsBreakOnlyByRace,
   HeartbeatsSound, PublicationsSound, PoliciesSound
=============================================================================
