--------------------------- MODULE Sessions_proofs ---------------------------
(***************************************************************************)
(* Proofs about Sessions: for any finite set of calls, and whatever is     *)
(* lost, ended or answered late, the single flight presents no token       *)
(* twice, leaves one session live, and costs nobody the session.           *)
(***************************************************************************)
EXTENDS Sessions, FiniteSetTheorems, TLAPS

RotationRecords == [stage : RotationStages, presented : Ids, issued : Tokens]
CallRecords == [stage : Stages, token : Tokens, retrying : BOOLEAN]

-----------------------------------------------------------------------------
\* The first session has an identifier, and no token has that of none.
LEMMA IdsLemma == 1 \in Ids /\ 0 \notin Ids /\ Ids \subseteq Nat
<1>1. Cardinality(Calls) \in Nat
  BY CallsAssumption, FS_CardinalityType
<1> QED BY <1>1 DEF Ids

\* What every rotation and every call is made of.
LEMMA ShapeLemma ==
    ASSUME TypeOK
    PROVE  /\ rotations \in Seq(RotationRecords)
           /\ \A i \in DOMAIN rotations :
                 /\ rotations[i].presented \in Ids
                 /\ rotations[i].issued \in Tokens
                 /\ rotations[i].stage \in RotationStages
           /\ call \in [Calls -> CallRecords]
           /\ \A c \in Calls : call[c].stage \in Stages /\ call[c].token \in Tokens
           /\ store.access \in Tokens /\ store.refresh \in Tokens
<1>1. rotations \in Seq(RotationRecords) /\ call \in [Calls -> CallRecords]
  BY DEF TypeOK, RotationRecords, CallRecords
<1>2. \A i \in DOMAIN rotations : rotations[i] \in RotationRecords
  BY <1>1
<1>3. \A c \in Calls : call[c] \in CallRecords
  BY <1>1
<1>4. store.access \in Tokens /\ store.refresh \in Tokens
  BY DEF TypeOK
<1> QED BY <1>1, <1>2, <1>3, <1>4 DEF RotationRecords, CallRecords

\* A rotation that takes a step stays where it is, with its tokens.
LEMMA TurnLemma ==
    ASSUME TypeOK, NEW i \in DOMAIN rotations, NEW stage \in RotationStages, Turn(i, stage)
    PROVE  /\ rotations' \in Seq(RotationRecords)
           /\ Len(rotations') = Len(rotations) /\ DOMAIN rotations' = DOMAIN rotations
           /\ \A j \in DOMAIN rotations :
                 /\ rotations'[j].presented = rotations[j].presented
                 /\ rotations'[j].issued = rotations[j].issued
                 /\ rotations'[j].stage = IF j = i THEN stage ELSE rotations[j].stage
<1>1. rotations \in Seq(RotationRecords)
  BY ShapeLemma
<1>2. \A j \in DOMAIN rotations : rotations[j] \in RotationRecords
  BY <1>1
<1>3. rotations' = [j \in DOMAIN rotations |->
                       IF j = i THEN [rotations[j] EXCEPT !.stage = stage] ELSE rotations[j]]
  BY <1>1 DEF Turn
<1>4. \A j \in DOMAIN rotations : rotations'[j] \in RotationRecords
  BY <1>2, <1>3 DEF RotationRecords
<1>5. rotations' \in Seq(RotationRecords) /\ Len(rotations') = Len(rotations)
  BY <1>1, <1>3, <1>4
<1> QED BY <1>2, <1>3, <1>5 DEF RotationRecords

\* And so does one that is granted a session.
LEMMA GrantLemma ==
    ASSUME TypeOK, NEW i \in DOMAIN rotations, NEW s \in Ids,
           rotations' = [rotations EXCEPT ![i] = [@ EXCEPT !.stage = "granted", !.issued = s]]
    PROVE  /\ rotations' \in Seq(RotationRecords)
           /\ Len(rotations') = Len(rotations) /\ DOMAIN rotations' = DOMAIN rotations
           /\ \A j \in DOMAIN rotations :
                 /\ rotations'[j].presented = rotations[j].presented
                 /\ rotations'[j].issued = IF j = i THEN s ELSE rotations[j].issued
                 /\ rotations'[j].stage = IF j = i THEN "granted" ELSE rotations[j].stage
<1>1. rotations \in Seq(RotationRecords)
  BY ShapeLemma
<1>2. \A j \in DOMAIN rotations : rotations[j] \in RotationRecords
  BY <1>1
<1> DEFINE g == [rotations[i] EXCEPT !.stage = "granted", !.issued = s]
<1>3. /\ g \in RotationRecords
      /\ g.stage = "granted" /\ g.presented = rotations[i].presented /\ g.issued = s
  BY <1>2 DEF RotationRecords, RotationStages, Tokens
<1>4. rotations' = [rotations EXCEPT ![i] = g]
  OBVIOUS
<1> HIDE DEF g
<1>5. /\ rotations' \in Seq(RotationRecords) /\ Len(rotations') = Len(rotations)
      /\ DOMAIN rotations' = DOMAIN rotations
      /\ rotations'[i] = g /\ \A j \in DOMAIN rotations : j # i => rotations'[j] = rotations[j]
  BY <1>1, <1>3, <1>4
<1> QED BY <1>3, <1>5

\* A call that goes on to its next stage keeps its token.
LEMMA GotoLemma ==
    ASSUME TypeOK, NEW c \in Calls, NEW stage \in Stages, Goto(c, stage)
    PROVE  /\ call' \in [Calls -> CallRecords]
           /\ \A d \in Calls : call'[d].stage = IF d = c THEN stage ELSE call[d].stage
BY DEF TypeOK, Goto, CallRecords

\* What a call does to the page: it may clear the tokens or sign the page out,
\* but only once something has happened.
LEMMA CallLemma ==
    ASSUME IInv, call' \in [Calls -> CallRecords],
           UNCHANGED <<server, latch, rotations, causes>>,
           store' \in {store, Empty}, user' \in {"in", "out", "lost"},
           causes = {} => /\ store' = store /\ user' = user
                          /\ \A c \in Logouts : call[c].stage = "idle" =>
                                call'[c].stage = "idle",
           EffectsFollowStages'
    PROVE  IInv'
<1> USE DEF IInv, server
<1>1. Empty \in [access : Tokens, refresh : Tokens] /\ Empty.refresh = 0
  BY DEF Empty, Tokens
<1>2. TypeOK'
  BY <1>1 DEF TypeOK, CallRecords
<1>3. (PresentedOnce /\ OneLiveSession /\ RotationsTakeTurns)'
  BY DEF PresentedOnce, OneLiveSession, RotationsTakeTurns
<1>4. TokensAreFresh'
  BY <1>1, ShapeLemma, IdsLemma DEF TokensAreFresh, RotationAt
<1>5. NoOtherIsLive'
  BY <1>1 DEF NoOtherIsLive, RotationAt, Live
<1>6. NothingAmiss'
  BY DEF NothingAmiss, RotationAt, Live, At
<1> QED BY <1>2, <1>3, <1>4, <1>5, <1>6

-----------------------------------------------------------------------------
LEMMA InitLemma == Init => IInv
<1> SUFFICES ASSUME Init PROVE IInv
  OBVIOUS
<1> USE IdsLemma
<1>1. rotations = << >> /\ DOMAIN rotations = {}
  BY DEF Init
<1>2. TypeOK
  BY <1>1 DEF Init, TypeOK, Tokens, Stages, RotationStages
<1>3. PresentedOnce /\ OneLiveSession /\ RotationsTakeTurns
  BY <1>1 DEF Init, PresentedOnce, OneLiveSession, RotationsTakeTurns
<1>4. TokensAreFresh /\ NoOtherIsLive
  BY <1>1 DEF Init, TokensAreFresh, NoOtherIsLive, Live
<1>5. NothingAmiss
  BY <1>1, CallsAssumption DEF Init, NothingAmiss, At, Live
<1>6. EffectsFollowStages
  BY DEF Init, EffectsFollowStages
<1> QED BY <1>2, <1>3, <1>4, <1>5, <1>6 DEF IInv

-----------------------------------------------------------------------------
\* The world around the page.

LEMMA EndSessionLemma ==
    ASSUME IInv, NEW s \in Ids, EndSession(s)
    PROVE  IInv'
<1> USE IdsLemma DEF IInv, EndSession, page
<1>1. /\ sessions \in [Ids -> {"none", "live", "ended"}]
      /\ sessions' \in [Ids -> {"none", "live", "ended"}]
      /\ \A t \in Ids : sessions'[t] = "live" => sessions[t] = "live"
      /\ \A t \in Ids : sessions[t] # "none" <=> sessions'[t] # "none"
  BY DEF TypeOK
<1>2. TypeOK'
  BY <1>1 DEF TypeOK
<1>3. (PresentedOnce /\ OneLiveSession /\ RotationsTakeTurns)'
  BY <1>1 DEF PresentedOnce, OneLiveSession, RotationsTakeTurns
<1>4. TokensAreFresh'
  BY <1>1, ShapeLemma DEF TokensAreFresh, RotationAt, Tokens
<1>5. NoOtherIsLive'
  BY <1>1 DEF NoOtherIsLive, RotationAt, Live
<1>6. NothingAmiss' /\ EffectsFollowStages'
  BY DEF NothingAmiss, EffectsFollowStages
<1> QED BY <1>2, <1>3, <1>4, <1>5, <1>6

LEMMA RunOutLemma ==
    ASSUME IInv, NEW s \in Ids, RunOut(s)
    PROVE  IInv'
<1> USE DEF IInv, RunOut, page
<1>1. TypeOK'
  BY DEF TypeOK
<1>2. (PresentedOnce /\ OneLiveSession /\ RotationsTakeTurns /\ EffectsFollowStages)'
  BY DEF PresentedOnce, OneLiveSession, RotationsTakeTurns, EffectsFollowStages
<1>3. (TokensAreFresh /\ NoOtherIsLive /\ NothingAmiss)'
  BY DEF TokensAreFresh, NoOtherIsLive, NothingAmiss, RotationAt, Live, At
<1> QED BY <1>1, <1>2, <1>3
-----------------------------------------------------------------------------
\* A call.

LEMMA SendLemma ==
    ASSUME IInv, NEW c \in Calls, Send(c)
    PROVE  IInv'
<1> USE DEF IInv, Send, At, server, page
<1>1. call' \in [Calls -> CallRecords]
  BY ShapeLemma DEF CallRecords, Stages
<1>2. \A d \in Calls : d # c => call'[d] = call[d]
  BY ShapeLemma
<1>3. call'[c].stage = "sent"
  BY ShapeLemma DEF CallRecords
<1>4. TypeOK'
  BY <1>1 DEF TypeOK, CallRecords
<1>5. (PresentedOnce /\ OneLiveSession /\ RotationsTakeTurns)'
  BY DEF PresentedOnce, OneLiveSession, RotationsTakeTurns
<1>6. (TokensAreFresh /\ NoOtherIsLive)'
  BY DEF TokensAreFresh, NoOtherIsLive, RotationAt, Live
<1>7. NothingAmiss'
  <2>1. CASE c \in Logouts
    BY <2>1 DEF NothingAmiss
  <2>2. CASE c \notin Logouts
    BY <1>2, <2>2, CallsAssumption DEF NothingAmiss, RotationAt, Live
  <2> QED BY <2>1, <2>2
<1>8. EffectsFollowStages'
  BY <1>2, <1>3 DEF EffectsFollowStages
<1> QED BY <1>4, <1>5, <1>6, <1>7, <1>8

LEMMA ServeLemma ==
    ASSUME IInv, NEW c \in Calls, Serve(c)
    PROVE  IInv'
<1> USE DEF IInv, At, page
<1>1. At(c, "sent") /\ effects[c] = 0
  BY DEF Serve, EffectsFollowStages
<1>2. CASE Authentic(call[c].token)
  <2> DEFINE t == call[c].token
  <2>1. t \in Ids
    BY <1>2, ShapeLemma DEF Authentic, Tokens
  <2>2. /\ Goto(c, "ok") /\ effects' = [effects EXCEPT ![c] = @ + 1]
        /\ sessions' = IF c \in Logouts THEN [sessions EXCEPT ![t] = "ended"] ELSE sessions
        /\ UNCHANGED <<stale, store, user, latch, rotations, causes>>
    BY <1>2 DEF Serve
  <2>3. /\ call' \in [Calls -> CallRecords]
        /\ \A d \in Calls : call'[d].stage = IF d = c THEN "ok" ELSE call[d].stage
    BY <2>2, GotoLemma DEF Stages
  <2>4. /\ sessions' \in [Ids -> {"none", "live", "ended"}]
        /\ \A s \in Ids : sessions'[s] = "live" => sessions[s] = "live"
        /\ \A s \in Ids : sessions[s] # "none" <=> sessions'[s] # "none"
    BY <1>2, <2>1, <2>2 DEF TypeOK, Authentic
  <2>5. effects' \in [Calls -> 0..1] /\ effects'[c] = 1
        /\ \A d \in Calls : d # c => effects'[d] = effects[d]
    <3>1. effects \in [Calls -> 0..1]
      BY DEF TypeOK
    <3>2. effects[c] + 1 = 1
      BY <1>1
    <3>3. effects' = [effects EXCEPT ![c] = 1]
      BY <2>2, <3>2, Zenon
    <3> QED BY <3>1, <3>3
  <2> HIDE DEF t
  <2>6. TypeOK'
    BY <2>2, <2>3, <2>4, <2>5 DEF TypeOK, CallRecords
  <2>7. (PresentedOnce /\ OneLiveSession /\ RotationsTakeTurns)'
    BY <2>2, <2>4 DEF PresentedOnce, OneLiveSession, RotationsTakeTurns
  <2>8. TokensAreFresh'
    BY <2>2, <2>4, ShapeLemma DEF TokensAreFresh, RotationAt, Tokens
  <2>9. NoOtherIsLive'
    BY <2>2, <2>4 DEF NoOtherIsLive, RotationAt, Live
  <2>10. NothingAmiss'
    <3>1. CASE causes = {}
      <4>1. c \notin Logouts
        BY <1>1, <3>1 DEF NothingAmiss
      <4>2. sessions' = sessions /\ \A d \in Logouts : call'[d].stage = "idle"
        BY <2>2, <2>3, <3>1, <4>1, CallsAssumption DEF NothingAmiss
      <4> QED BY <2>2, <3>1, <4>2 DEF NothingAmiss, RotationAt, Live
    <3>2. CASE causes # {}
      BY <2>2, <3>2 DEF NothingAmiss
    <3> QED BY <3>1, <3>2
  <2>11. EffectsFollowStages'
    BY <2>3, <2>5 DEF EffectsFollowStages
  <2> QED BY <2>6, <2>7, <2>8, <2>9, <2>10, <2>11
<1>3. CASE ~Authentic(call[c].token)
  <2>1. Goto(c, "refused") /\ UNCHANGED <<sessions, effects, stale, page, rotations, causes>>
    BY <1>3 DEF Serve
  <2>2. /\ call' \in [Calls -> CallRecords]
        /\ \A d \in Calls : call'[d].stage = IF d = c THEN "refused" ELSE call[d].stage
    BY <2>1, GotoLemma DEF Stages
  <2>3. EffectsFollowStages'
    BY <1>1, <2>1, <2>2 DEF EffectsFollowStages
  <2>4. \A d \in Logouts : call[d].stage = "idle" => call'[d].stage = "idle"
    BY <1>1, <2>2, CallsAssumption
  <2>5. UNCHANGED <<server, latch, rotations, causes>> /\ store' = store /\ user' = user
    BY <2>1 DEF server
  <2>6. user \in {"in", "out", "lost"}
    BY DEF TypeOK
  <2> QED BY <2>2, <2>3, <2>4, <2>5, <2>6, CallLemma
<1> QED BY <1>2, <1>3
\* A call of a logout that was made is one of the things that may happen.
LEMMA LogoutLemma ==
    ASSUME NothingAmiss, NEW c \in Calls, ~At(c, "idle"), causes = {}
    PROVE  c \notin Logouts /\ Left(c) = store
BY DEF NothingAmiss, Left

LEMMA SucceedLemma ==
    ASSUME IInv, NEW c \in Calls, Succeed(c)
    PROVE  IInv'
<1> USE DEF IInv, At, server
<1>1. /\ call' \in [Calls -> CallRecords] /\ call[c].stage = "ok"
      /\ \A d \in Calls : call'[d].stage = IF d = c THEN "done" ELSE call[d].stage
  BY GotoLemma DEF Succeed, Stages
<1>2. /\ UNCHANGED <<server, latch, rotations, causes>>
      /\ store' \in {store, Empty} /\ user' \in {"in", "out", "lost"}
  BY DEF Succeed, Left, TypeOK
<1>3. EffectsFollowStages'
  BY <1>1, <1>2 DEF EffectsFollowStages
<1>4. causes = {} => /\ store' = store /\ user' = user
                     /\ \A d \in Logouts : call[d].stage = "idle" => call'[d].stage = "idle"
  BY <1>1, LogoutLemma, CallsAssumption DEF Succeed
<1> QED BY <1>1, <1>2, <1>3, <1>4, CallLemma

LEMMA LoseLemma ==
    ASSUME IInv, NEW c \in Calls, Lose(c)
    PROVE  IInv'
<1> USE DEF IInv, At, server
<1>1. /\ call' \in [Calls -> CallRecords] /\ call[c].stage \in {"sent", "ok", "refused"}
      /\ \A d \in Calls : call'[d].stage = IF d = c THEN "failed" ELSE call[d].stage
  BY GotoLemma DEF Lose, Stages
<1>2. /\ UNCHANGED <<server, latch, rotations, causes>>
      /\ store' \in {store, Empty} /\ user' = user /\ user' \in {"in", "out", "lost"}
  BY DEF Lose, Left, TypeOK
<1>3. EffectsFollowStages'
  BY <1>1, <1>2 DEF EffectsFollowStages
<1>4. causes = {} => /\ store' = store
                     /\ \A d \in Logouts : call[d].stage = "idle" => call'[d].stage = "idle"
  BY <1>1, LogoutLemma, CallsAssumption DEF Lose
<1> QED BY <1>1, <1>2, <1>3, <1>4, CallLemma

LEMMA GiveUpLemma ==
    ASSUME IInv, NEW c \in Calls, GiveUp(c)
    PROVE  IInv'
<1> USE DEF IInv, At, server
<1>1. /\ call' \in [Calls -> CallRecords] /\ call[c].stage = "refused"
      /\ \A d \in Calls : call'[d].stage = IF d = c THEN "denied" ELSE call[d].stage
  BY GotoLemma DEF GiveUp, Stages
<1>2. /\ UNCHANGED <<server, latch, rotations, causes>>
      /\ store' \in {store, Empty} /\ user' = user /\ user' \in {"in", "out", "lost"}
  BY DEF GiveUp, Left, TypeOK
<1>3. EffectsFollowStages'
  BY <1>1, <1>2 DEF EffectsFollowStages
<1>4. causes = {} => /\ store' = store
                     /\ \A d \in Logouts : call[d].stage = "idle" => call'[d].stage = "idle"
  BY <1>1, LogoutLemma, CallsAssumption DEF GiveUp
<1> QED BY <1>1, <1>2, <1>3, <1>4, CallLemma

\* Without a cause there is a refresh token, and no rotation has failed.
LEMMA LoseSessionLemma ==
    ASSUME IInv, NEW c \in Calls, LoseSession(c)
    PROVE  IInv'
<1> USE DEF IInv, At, server
<1>1. /\ call' \in [Calls -> CallRecords] /\ call[c].stage = "refused"
      /\ \A d \in Calls : call'[d].stage = IF d = c THEN "denied" ELSE call[d].stage
  BY GotoLemma DEF LoseSession, Stages
<1>2. /\ UNCHANGED <<server, latch, rotations, causes>>
      /\ store' \in {store, Empty} /\ user' \in {"in", "out", "lost"}
  BY DEF LoseSession
<1>3. EffectsFollowStages'
  BY <1>1, <1>2 DEF EffectsFollowStages
<1>4. causes # {}
  BY DEF LoseSession, NothingAmiss
<1> QED BY <1>1, <1>2, <1>3, <1>4, CallLemma

\* The latch is open only when all rotations are over: the token in store was
\* presented by none of them, and whatever session is live is its session.
LEMMA StartRotationLemma ==
    ASSUME IInv, NEW c \in Calls, StartRotation(c)
    PROVE  IInv'
<1> USE DEF IInv, At, server
<1> DEFINE n == Len(rotations)
<1>1. /\ call' \in [Calls -> CallRecords] /\ call[c].stage = "refused"
      /\ \A d \in Calls : call'[d].stage = IF d = c THEN "waiting" ELSE call[d].stage
  BY GotoLemma DEF StartRotation, Stages
<1>2. /\ UNCHANGED <<sessions, stale, effects, store, user, causes>>
      /\ latch = "open" /\ latch' = "flying" /\ store.refresh # 0
      /\ rotations' = Append(rotations, Rotation)
  BY DEF StartRotation
<1>3. store.refresh \in Ids
  BY <1>2, ShapeLemma DEF Tokens
<1>4. /\ Rotation \in RotationRecords
      /\ Rotation.stage = "asked" /\ Rotation.presented = store.refresh
  BY <1>3 DEF Rotation, RotationRecords, RotationStages, Tokens
<1>5. rotations \in Seq(RotationRecords)
  BY ShapeLemma
<1> HIDE DEF n
<1>6. /\ n \in Nat /\ DOMAIN rotations = 1..n
      /\ rotations' \in Seq(RotationRecords) /\ Len(rotations') = n + 1
      /\ DOMAIN rotations' = 1..(n + 1)
      /\ rotations'[n + 1] = Rotation
      /\ \A i \in 1..n : rotations'[i] = rotations[i]
  BY <1>2, <1>4, <1>5 DEF n
<1>7. \A i \in 1..n : rotations[i].stage = "over" /\ rotations[i].presented # store.refresh
  BY <1>2, <1>6 DEF RotationsTakeTurns, TokensAreFresh
<1>8. \A i \in 1..(n + 1) : i \in 1..n \/ i = n + 1
  BY <1>6
<1>9. TypeOK'
  BY <1>1, <1>2, <1>6 DEF TypeOK, CallRecords, RotationRecords
<1>10. PresentedOnce'
  BY <1>4, <1>6, <1>7, <1>8 DEF PresentedOnce
<1>11. OneLiveSession' /\ RotationsTakeTurns'
  BY <1>2, <1>6, <1>7, <1>8 DEF OneLiveSession, RotationsTakeTurns
<1>12. TokensAreFresh'
  BY <1>2, <1>4, <1>6, <1>7, <1>8 DEF TokensAreFresh, RotationAt
<1>13. NoOtherIsLive'
  BY <1>2, <1>4, <1>6, <1>7, <1>8 DEF NoOtherIsLive, RotationAt, Live
<1>14. NothingAmiss'
  <2>1. CASE causes = {}
    <3>1. \A d \in Logouts : call'[d].stage = "idle"
      BY <1>1, <2>1, LogoutLemma, CallsAssumption DEF NothingAmiss
    <3> QED BY <1>2, <1>4, <1>6, <1>7, <1>8, <2>1, <3>1 DEF NothingAmiss, RotationAt, Live
  <2>2. CASE causes # {}
    BY <1>2, <2>2 DEF NothingAmiss
  <2> QED BY <2>1, <2>2
<1>15. EffectsFollowStages'
  BY <1>1, <1>2 DEF EffectsFollowStages
<1> QED BY <1>9, <1>10, <1>11, <1>12, <1>13, <1>14, <1>15

LEMMA JoinLemma ==
    ASSUME IInv, NEW c \in Calls, Join(c)
    PROVE  IInv'
<1> USE DEF IInv, At, server
<1>1. call[c].stage = "refused" /\ UNCHANGED <<server, page, rotations, causes>>
  BY DEF Join
<1>2. /\ call' \in [Calls -> CallRecords] /\ call'[c].stage \in {"sent", "waiting"}
      /\ \A d \in Calls : d # c => call'[d] = call[d]
  BY ShapeLemma DEF Join, CallRecords, Stages
<1>3. EffectsFollowStages'
  BY <1>1, <1>2 DEF EffectsFollowStages
<1>4. \A d \in Logouts : call[d].stage = "idle" => call'[d].stage = "idle"
  BY <1>1, <1>2, CallsAssumption
<1>5. user \in {"in", "out", "lost"}
  BY DEF TypeOK
<1> QED BY <1>1, <1>2, <1>3, <1>4, <1>5, CallLemma DEF page
-----------------------------------------------------------------------------
\* A rotation.

LEMMA CheckSessionLemma ==
    ASSUME IInv, NEW i \in DOMAIN rotations, CheckSession(i)
    PROVE  IInv'
<1> USE DEF IInv, server, page
<1> DEFINE st == IF Live(rotations[i].presented) THEN "checked" ELSE "refused"
<1>1. /\ rotations[i].stage = "asked" /\ Turn(i, st)
      /\ UNCHANGED <<sessions, stale, effects, store, user, latch, call, causes>>
  BY DEF CheckSession, RotationAt, Live
<1>2. st \in {"checked", "refused"} /\ st \in RotationStages
  BY DEF RotationStages
<1>3. /\ rotations' \in Seq(RotationRecords)
      /\ Len(rotations') = Len(rotations) /\ DOMAIN rotations' = DOMAIN rotations
      /\ \A j \in DOMAIN rotations :
            /\ rotations'[j].presented = rotations[j].presented
            /\ rotations'[j].issued = rotations[j].issued
            /\ rotations'[j].stage = IF j = i THEN st ELSE rotations[j].stage
  BY <1>1, <1>2, TurnLemma
<1>4. causes = {} => st = "checked"
  BY <1>1 DEF NothingAmiss, RotationAt
<1> HIDE DEF st
<1>5. TypeOK'
  BY <1>1, <1>3 DEF TypeOK, RotationRecords
<1>6. (PresentedOnce /\ OneLiveSession /\ RotationsTakeTurns)'
  BY <1>1, <1>2, <1>3 DEF PresentedOnce, OneLiveSession, RotationsTakeTurns
<1>7. TokensAreFresh'
  BY <1>1, <1>2, <1>3 DEF TokensAreFresh, RotationAt
<1>8. NoOtherIsLive'
  BY <1>1, <1>2, <1>3 DEF NoOtherIsLive, RotationAt, Live
<1>9. NothingAmiss'
  BY <1>1, <1>2, <1>3, <1>4 DEF NothingAmiss, RotationAt, Live, At
<1>10. EffectsFollowStages'
  BY <1>1 DEF EffectsFollowStages
<1> QED BY <1>5, <1>6, <1>7, <1>8, <1>9, <1>10

\* The session that was live ends, and no other was.
LEMMA RevokeLemma ==
    ASSUME IInv, NEW i \in DOMAIN rotations, Revoke(i)
    PROVE  IInv'
<1> USE DEF IInv, page
<1>1. /\ rotations[i].stage = "checked" /\ Turn(i, "revoked")
      /\ sessions' = [sessions EXCEPT ![rotations[i].presented] = "ended"]
      /\ UNCHANGED <<stale, effects, store, user, latch, call, causes>>
  BY DEF Revoke, RotationAt
<1>2. /\ rotations' \in Seq(RotationRecords)
      /\ Len(rotations') = Len(rotations) /\ DOMAIN rotations' = DOMAIN rotations
      /\ \A j \in DOMAIN rotations :
            /\ rotations'[j].presented = rotations[j].presented
            /\ rotations'[j].issued = rotations[j].issued
            /\ rotations'[j].stage = IF j = i THEN "revoked" ELSE rotations[j].stage
  BY <1>1, TurnLemma DEF RotationStages
<1>3. /\ rotations[i].presented \in Ids /\ sessions[rotations[i].presented] # "none"
      /\ \A s \in Ids : sessions[s] = "live" => s = rotations[i].presented
  BY <1>1, ShapeLemma DEF TokensAreFresh, NoOtherIsLive, Live
<1>4. /\ sessions' \in [Ids -> {"none", "live", "ended"}]
      /\ \A s \in Ids : sessions'[s] # "live"
      /\ \A s \in Ids : sessions[s] # "none" <=> sessions'[s] # "none"
  BY <1>1, <1>3 DEF TypeOK
<1>5. latch = "flying" /\ \A j \in DOMAIN rotations : j # i => rotations[j].stage = "over"
  BY <1>1 DEF RotationsTakeTurns
<1>6. TypeOK'
  BY <1>1, <1>2, <1>4 DEF TypeOK, RotationRecords
<1>7. (PresentedOnce /\ OneLiveSession /\ RotationsTakeTurns)'
  BY <1>1, <1>2, <1>4 DEF PresentedOnce, OneLiveSession, RotationsTakeTurns
<1>8. TokensAreFresh'
  <2>1. store.refresh # 0 => sessions'[store.refresh] # "none"
    BY <1>4, ShapeLemma DEF TokensAreFresh, Tokens
  <2>2. \A j \in DOMAIN rotations : sessions'[rotations[j].presented] # "none"
    BY <1>4, ShapeLemma DEF TokensAreFresh
  <2>3. \A j \in DOMAIN rotations : rotations'[j].stage = "granted" =>
           j # i /\ rotations[j].stage = "granted" /\ sessions'[rotations[j].issued] # "none"
    BY <1>2, <1>4 DEF TokensAreFresh, RotationAt
  <2> QED BY <1>1, <1>2, <2>1, <2>2, <2>3 DEF TokensAreFresh, RotationAt
<1>9. NoOtherIsLive'
  BY <1>1, <1>2, <1>4 DEF NoOtherIsLive, RotationAt, Live
<1>10. NothingAmiss'
  BY <1>1, <1>2, <1>5 DEF NothingAmiss, RotationAt, At
<1>11. EffectsFollowStages'
  BY <1>1 DEF EffectsFollowStages
<1> QED BY <1>6, <1>7, <1>8, <1>9, <1>10, <1>11

\* A session is issued while none is live, under a name no token has had.
LEMMA IssueLemma ==
    ASSUME IInv, NEW i \in DOMAIN rotations, Issue(i)
    PROVE  IInv'
<1> USE DEF IInv, page
<1>1. PICK s \in Ids :
         /\ sessions[s] = "none" /\ sessions' = [sessions EXCEPT ![s] = "live"]
         /\ rotations' = [rotations EXCEPT ![i] = [@ EXCEPT !.stage = "granted", !.issued = s]]
  BY DEF Issue
<1>2. /\ rotations[i].stage = "revoked"
      /\ UNCHANGED <<stale, effects, store, user, latch, call, causes>>
  BY DEF Issue, RotationAt
<1>3. /\ rotations' \in Seq(RotationRecords)
      /\ Len(rotations') = Len(rotations) /\ DOMAIN rotations' = DOMAIN rotations
      /\ \A j \in DOMAIN rotations :
            /\ rotations'[j].presented = rotations[j].presented
            /\ rotations'[j].issued = IF j = i THEN s ELSE rotations[j].issued
            /\ rotations'[j].stage = IF j = i THEN "granted" ELSE rotations[j].stage
  BY <1>1, GrantLemma
<1>4. \A t \in Ids : sessions[t] # "live"
  BY <1>2 DEF NoOtherIsLive, RotationAt, Live
<1>5. /\ sessions' \in [Ids -> {"none", "live", "ended"}] /\ sessions'[s] = "live"
      /\ \A t \in Ids : sessions'[t] = "live" => t = s
      /\ \A t \in Ids : sessions[t] # "none" => sessions'[t] # "none" /\ t # s
  BY <1>1, <1>4 DEF TypeOK
<1>6. latch = "flying" /\ \A j \in DOMAIN rotations : j # i => rotations[j].stage = "over"
  BY <1>2 DEF RotationsTakeTurns
<1>7. TypeOK'
  BY <1>2, <1>3, <1>5 DEF TypeOK, RotationRecords
<1>8. (PresentedOnce /\ OneLiveSession /\ RotationsTakeTurns)'
  BY <1>2, <1>3, <1>5 DEF PresentedOnce, OneLiveSession, RotationsTakeTurns
<1>9. TokensAreFresh'
  <2>1. store.refresh # 0 => sessions'[store.refresh] # "none"
    BY <1>5, ShapeLemma DEF TokensAreFresh, Tokens
  <2>2. \A j \in DOMAIN rotations : sessions'[rotations[j].presented] # "none"
                                   /\ rotations[j].presented # s
    BY <1>5, ShapeLemma DEF TokensAreFresh
  <2>3. \A j \in DOMAIN rotations : rotations'[j].stage = "granted" => j = i
    BY <1>3, <1>6
  <2>4. \A j \in DOMAIN rotations :
           rotations'[j].presented = store.refresh => rotations'[j].stage # "over"
    BY <1>3 DEF TokensAreFresh
  <2> QED BY <1>2, <1>3, <1>5, <2>1, <2>2, <2>3, <2>4 DEF TokensAreFresh, RotationAt
<1>10. NoOtherIsLive'
  BY <1>2, <1>3, <1>5, <1>6 DEF NoOtherIsLive, RotationAt, Live
<1>11. NothingAmiss'
  BY <1>2, <1>3, <1>5, <1>6 DEF NothingAmiss, RotationAt, Live, At
<1>12. EffectsFollowStages'
  BY <1>2 DEF EffectsFollowStages
<1> QED BY <1>7, <1>8, <1>9, <1>10, <1>11, <1>12

\* A rotation that fails is one of the things that may happen.
LEMMA FailureLemma ==
    ASSUME IInv, NEW i \in DOMAIN rotations, BreakRotation(i) \/ LoseRotation(i)
    PROVE  IInv'
<1> USE DEF IInv, server, page
<1>1. PICK st \in {"refused", "lost"} : Turn(i, st)
  BY DEF BreakRotation, LoseRotation
<1>2. /\ UNCHANGED <<sessions, stale, effects, store, user, latch, call>>
      /\ causes' \subseteq {"ended", "signing out", "broken", "lost"} /\ causes' # {}
      /\ rotations[i].stage # "over"
  BY DEF BreakRotation, LoseRotation, TypeOK
<1>3. /\ rotations' \in Seq(RotationRecords)
      /\ Len(rotations') = Len(rotations) /\ DOMAIN rotations' = DOMAIN rotations
      /\ \A j \in DOMAIN rotations :
            /\ rotations'[j].presented = rotations[j].presented
            /\ rotations'[j].issued = rotations[j].issued
            /\ rotations'[j].stage = IF j = i THEN st ELSE rotations[j].stage
  BY <1>1, TurnLemma DEF RotationStages
<1>4. TypeOK'
  BY <1>2, <1>3 DEF TypeOK, RotationRecords
<1>5. (PresentedOnce /\ OneLiveSession /\ RotationsTakeTurns)'
  BY <1>2, <1>3 DEF PresentedOnce, OneLiveSession, RotationsTakeTurns
<1>6. /\ DOMAIN rotations' = DOMAIN rotations
      /\ \A j \in DOMAIN rotations :
            /\ rotations'[j].presented = rotations[j].presented
            /\ rotations'[j].issued = rotations[j].issued
            /\ rotations'[j].stage = "over" => rotations[j].stage = "over"
            /\ rotations'[j].stage = "asked" => rotations[j].stage = "asked"
            /\ rotations'[j].stage = "checked" => rotations[j].stage = "checked"
            /\ rotations'[j].stage = "revoked" => rotations[j].stage = "revoked"
            /\ rotations'[j].stage = "granted" => rotations[j].stage = "granted"
  BY <1>3
<1>7. TokensAreFresh'
  <2>1. \A j \in DOMAIN rotations' : rotations'[j].stage = "granted" =>
           /\ rotations'[j].issued \in Ids /\ sessions[rotations'[j].issued] # "none"
           /\ \A k \in DOMAIN rotations' : rotations'[k].presented # rotations'[j].issued
    BY <1>3, <1>6 DEF TokensAreFresh, RotationAt
  <2>2. \A j \in DOMAIN rotations' :
           /\ sessions[rotations'[j].presented] # "none"
           /\ rotations'[j].presented = store.refresh => rotations'[j].stage # "over"
    BY <1>6 DEF TokensAreFresh
  <2> QED BY <1>2, <2>1, <2>2 DEF TokensAreFresh, RotationAt
<1>8. NoOtherIsLive'
  BY <1>2, <1>6 DEF NoOtherIsLive, RotationAt, Live
<1>9. NothingAmiss' /\ EffectsFollowStages'
  BY <1>2 DEF NothingAmiss, EffectsFollowStages
<1> QED BY <1>4, <1>5, <1>7, <1>8, <1>9

\* The token that is kept was presented by no rotation, and its session is the
\* only one that may be live.
LEMMA SettleLemma ==
    ASSUME IInv, NEW i \in DOMAIN rotations, Settle(i)
    PROVE  IInv'
<1> USE DEF IInv, server
<1> DEFINE kept == Kept(i)
<1>1. /\ rotations[i].stage \in {"granted", "refused", "lost"} /\ Turn(i, "over")
      /\ UNCHANGED <<sessions, stale, effects, causes>>
      /\ latch' = IF rotations[i].stage = "granted" THEN "yes" ELSE "no"
      /\ user' = IF rotations[i].stage = "granted" THEN user ELSE "lost"
      /\ store' = kept
      /\ call' = [c \in Calls |-> Resumed(c, kept)]
  BY DEF Settle, RotationAt
<1>2. /\ rotations' \in Seq(RotationRecords)
      /\ Len(rotations') = Len(rotations) /\ DOMAIN rotations' = DOMAIN rotations
      /\ \A j \in DOMAIN rotations :
            /\ rotations'[j].presented = rotations[j].presented
            /\ rotations'[j].issued = rotations[j].issued
            /\ rotations'[j].stage = IF j = i THEN "over" ELSE rotations[j].stage
  BY <1>1, TurnLemma DEF RotationStages
<1>3. latch = "flying" /\ \A j \in DOMAIN rotations' : rotations'[j].stage = "over"
  BY <1>1, <1>2 DEF RotationsTakeTurns
<1>4. rotations[i].stage = "granted" =>
         /\ kept = [access |-> rotations[i].issued, refresh |-> rotations[i].issued]
         /\ rotations[i].issued \in Ids /\ sessions[rotations[i].issued] # "none"
         /\ \A j \in DOMAIN rotations : rotations[j].presented # rotations[i].issued
  BY DEF TokensAreFresh, RotationAt, Kept
<1>5. rotations[i].stage # "granted" => kept = [access |-> 0, refresh |-> 0]
  BY DEF Kept, RotationAt, Empty
<1>6. kept \in [access : Tokens, refresh : Tokens]
  BY <1>4, <1>5 DEF Tokens
<1> HIDE DEF kept
<1>7. /\ call' \in [Calls -> CallRecords]
      /\ \A c \in Calls : call[c].stage # "waiting" => call'[c] = call[c]
      /\ \A c \in Calls : call[c].stage = "waiting" => call'[c].stage \in {"sent", "denied"}
  <2>1. \A c \in Calls : /\ call[c] \in CallRecords
                         /\ [stage |-> "sent", token |-> kept.access, retrying |-> TRUE] \in CallRecords
                         /\ [call[c] EXCEPT !.stage = "denied"] \in CallRecords
                         /\ [call[c] EXCEPT !.stage = "denied"].stage = "denied"
    BY <1>6, ShapeLemma DEF CallRecords, Stages
  <2>2. \A c \in Calls :
           /\ Resumed(c, kept) \in CallRecords
           /\ call[c].stage # "waiting" => Resumed(c, kept) = call[c]
           /\ call[c].stage = "waiting" => Resumed(c, kept).stage \in {"sent", "denied"}
    BY <2>1 DEF Resumed, At
  <2> QED BY <1>1, <2>2
<1>8. TypeOK'
  BY <1>1, <1>2, <1>6, <1>7 DEF TypeOK, RotationRecords, CallRecords
<1>9. (PresentedOnce /\ OneLiveSession /\ RotationsTakeTurns)'
  BY <1>1, <1>2, <1>3 DEF PresentedOnce, OneLiveSession, RotationsTakeTurns
<1>10. TokensAreFresh'
  BY <1>1, <1>2, <1>3, <1>4, <1>5, ShapeLemma, IdsLemma DEF TokensAreFresh, RotationAt
<1>11. NoOtherIsLive'
  BY <1>1, <1>3, <1>4, <1>5 DEF NoOtherIsLive, RotationAt, Live
<1>12. NothingAmiss'
  <2>1. CASE causes = {}
    <3>1. rotations[i].stage = "granted" /\ Live(rotations[i].issued) /\ user = "in"
      BY <1>1, <2>1 DEF NothingAmiss, RotationAt
    <3>2. \A c \in Logouts : call'[c].stage = "idle"
      BY <1>7, <2>1, CallsAssumption DEF NothingAmiss, At
    <3> QED BY <1>1, <1>3, <1>4, <3>1, <3>2, IdsLemma DEF NothingAmiss, RotationAt, Live, At
  <2>2. CASE causes # {}
    BY <1>1, <2>2 DEF NothingAmiss
  <2> QED BY <2>1, <2>2
<1>13. EffectsFollowStages'
  BY <1>1, <1>7 DEF EffectsFollowStages
<1> QED BY <1>8, <1>9, <1>10, <1>11, <1>12, <1>13

LEMMA UnlatchLemma ==
    ASSUME IInv, Unlatch
    PROVE  IInv'
<1> USE DEF IInv, Unlatch, server
<1>1. TypeOK'
  BY DEF TypeOK
<1>2. (PresentedOnce /\ OneLiveSession /\ RotationsTakeTurns /\ EffectsFollowStages)'
  BY DEF PresentedOnce, OneLiveSession, RotationsTakeTurns, EffectsFollowStages
<1>3. (TokensAreFresh /\ NoOtherIsLive /\ NothingAmiss)'
  BY DEF TokensAreFresh, NoOtherIsLive, NothingAmiss, RotationAt, Live, At
<1> QED BY <1>1, <1>2, <1>3

-----------------------------------------------------------------------------
LEMMA StepLemma == IInv /\ [Next]_vars => IInv'
<1> SUFFICES ASSUME IInv, [Next]_vars PROVE IInv'
  OBVIOUS
<1>1. ASSUME NEW s \in Ids, EndSession(s) \/ RunOut(s)
      PROVE  IInv'
  BY <1>1, EndSessionLemma, RunOutLemma
<1>2. ASSUME NEW c \in Calls, Send(c) \/ Answer(c)
      PROVE  IInv'
  BY <1>2, SendLemma, ServeLemma, SucceedLemma, LoseLemma, GiveUpLemma, LoseSessionLemma,
     StartRotationLemma, JoinLemma DEF Answer
<1>3. CASE Rotate
  BY <1>3, CheckSessionLemma, RevokeLemma, IssueLemma, FailureLemma, SettleLemma DEF Rotate
<1>4. CASE Unlatch
  BY <1>4, UnlatchLemma
<1>5. CASE UNCHANGED vars
  <2> USE <1>5 DEF vars, IInv
  <2>1. TypeOK'
    BY DEF TypeOK
  <2>2. (PresentedOnce /\ OneLiveSession /\ RotationsTakeTurns /\ EffectsFollowStages)'
    BY DEF PresentedOnce, OneLiveSession, RotationsTakeTurns, EffectsFollowStages
  <2>3. (TokensAreFresh /\ NoOtherIsLive /\ NothingAmiss)'
    BY DEF TokensAreFresh, NoOtherIsLive, NothingAmiss, RotationAt, Live, At
  <2> QED BY <2>1, <2>2, <2>3
<1> QED BY <1>1, <1>2, <1>3, <1>4, <1>5 DEF Next

\* The inductive invariant: rotations take turns (refreshInFlight), tokens are
\* fresh, and nothing is amiss until something has happened.
THEOREM Invariant == Spec => []IInv
<1>1. Init => IInv
  BY InitLemma
<1>2. IInv /\ [Next]_vars => IInv'
  BY StepLemma
<1> QED BY <1>1, <1>2, PTL DEF Spec

\* However the answers of concurrent calls arrive, refreshSession presents no
\* refresh token twice.
THEOREM SingleFlight == Spec => []PresentedOnce
<1>1. IInv => PresentedOnce
  BY DEF IInv
<1> QED BY <1>1, Invariant, PTL

\* Between any two statements of AuthService.refresh, and whatever is lost, the
\* page stands for one live session at most.
THEOREM SessionsReplaceEachOther == Spec => []OneLiveSession
<1>1. IInv => OneLiveSession
  BY DEF IInv
<1> QED BY <1>1, Invariant, PTL

\* Repeating a call that execute was refused runs its handler once.
THEOREM RepeatingIsHarmless == Spec => []TakesEffectOnce
<1>1. IInv => TakesEffectOnce
  BY DEF IInv, EffectsFollowStages, TakesEffectOnce, At
<1> QED BY <1>1, Invariant, PTL

\* Access tokens running out, at whatever moment, sign nobody out.
THEOREM ExpirySignsNobodyOut == Spec => []LostOnlyForCause
<1>1. IInv => LostOnlyForCause
  BY DEF IInv, NothingAmiss, LostOnlyForCause
<1> QED BY <1>1, Invariant, PTL
=============================================================================
