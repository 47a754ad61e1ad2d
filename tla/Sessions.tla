------------------------------ MODULE Sessions ------------------------------
(***************************************************************************)
(* How a page of the web client stays signed in: it attaches its access    *)
(* token to every call, and when the server finds that token or its        *)
(* session expired it has the session rotated once, for all calls          *)
(* waiting, and repeats them (execute and refreshSession,                  *)
(* web/src/lib/apiClient.ts; authenticate, middleware/auth.ts; refresh,    *)
(* services/auth.service.ts).                                              *)
(*                                                                         *)
(* A token stands for the session it was issued with.  The model starts    *)
(* after a sign-in or a restored session, and ends with the sign-out.      *)
(***************************************************************************)
EXTENDS Naturals, Sequences, FiniteSets

CONSTANTS
    Calls,    \* the calls the page makes
    Logouts   \* those of them that sign out

ASSUME CallsAssumption == IsFiniteSet(Calls) /\ Logouts \subseteq Calls

VARIABLES
    sessions,   \* the rows of the sessions table: "none", "live" or "ended"
    stale,      \* the sessions whose access token has run out
    store,      \* tokenStore: the access and the refresh token, 0 for none
    user,       \* what the page shows: "in", "out" or "lost"
    latch,      \* refreshInFlight: "open", "flying", or settled "yes" or "no"
    rotations,  \* the calls of /auth/refresh, in the order they were made
    call,       \* the state of each call
    effects,    \* how often the handler of each call has run
    causes      \* what has happened that may cost the page its session

vars == <<sessions, stale, store, user, latch, rotations, call, effects, causes>>

server == <<sessions, stale, effects>>
page   == <<store, user, latch>>

-----------------------------------------------------------------------------
\* Every call can have the session rotated once at most.
Ids == 1..Cardinality(Calls) + 1

Empty == [access |-> 0, refresh |-> 0]

Init ==
    /\ sessions = [s \in Ids |-> IF s = 1 THEN "live" ELSE "none"]
    /\ stale = {}
    /\ store = [access |-> 1, refresh |-> 1]
    /\ user = "in"
    /\ latch = "open"
    /\ rotations = << >>
    /\ call = [c \in Calls |-> [stage |-> "idle", token |-> 0, retrying |-> FALSE]]
    /\ effects = [c \in Calls |-> 0]
    /\ causes = {}

At(c, stage) == call[c].stage = stage
Goto(c, stage) == call' = [call EXCEPT ![c].stage = stage]

-----------------------------------------------------------------------------
\* The world around the page.

\* A sign-out elsewhere, a change of the password, or the end of its term.
EndSession(s) ==
    /\ sessions[s] = "live"
    /\ sessions' = [sessions EXCEPT ![s] = "ended"]
    /\ causes' = causes \cup {"ended"}
    /\ UNCHANGED <<stale, page, rotations, call, effects>>

RunOut(s) ==
    /\ sessions[s] # "none" /\ s \notin stale
    /\ stale' = stale \cup {s}
    /\ UNCHANGED <<sessions, page, rotations, call, effects, causes>>

-----------------------------------------------------------------------------
\* A call: execute, and the server's side of it.

Send(c) ==
    /\ user = "in"
    /\ At(c, "idle")
    /\ call' = [call EXCEPT ![c].stage = "sent", ![c].token = store.access]
    /\ causes' = IF c \in Logouts THEN causes \cup {"signing out"} ELSE causes
    /\ UNCHANGED <<server, page, rotations>>

\* authenticate lets a call through to its handler, or answers 401.
Authentic(token) == token # 0 /\ token \notin stale /\ sessions[token] = "live"

Serve(c) ==
    /\ At(c, "sent")
    /\ IF Authentic(call[c].token)
       THEN /\ Goto(c, "ok")
            /\ effects' = [effects EXCEPT ![c] = @ + 1]
            /\ sessions' = IF c \in Logouts
                           THEN [sessions EXCEPT ![call[c].token] = "ended"] ELSE sessions
       ELSE /\ Goto(c, "refused")
            /\ UNCHANGED <<sessions, effects>>
    /\ UNCHANGED <<stale, page, rotations, causes>>

\* AuthApi.logout clears the tokens however its call ends; the page shows it
\* only if the call did not throw.
Left(c) == IF c \in Logouts THEN Empty ELSE store

Succeed(c) ==
    /\ At(c, "ok")
    /\ Goto(c, "done")
    /\ store' = Left(c)
    /\ user' = IF c \in Logouts THEN "out" ELSE user
    /\ UNCHANGED <<server, latch, rotations, causes>>

\* Bug: a call that got no answer is made again.
LoseAndRepeat(c) ==
    /\ call[c].stage \in {"sent", "ok", "refused"}
    /\ Goto(c, "sent")
    /\ UNCHANGED <<server, page, rotations, causes>>

\* The network loses the call or its answer: NETWORK_ERROR.
Lose(c) ==
    /\ call[c].stage \in {"sent", "ok", "refused"}
    /\ Goto(c, "failed")
    /\ store' = Left(c)
    /\ UNCHANGED <<server, user, latch, rotations, causes>>

\* A repeated call that is refused again is given up.
GiveUp(c) ==
    /\ At(c, "refused") /\ call[c].retrying
    /\ Goto(c, "denied")
    /\ store' = Left(c)
    /\ UNCHANGED <<server, user, latch, rotations, causes>>

\* No session to be had: the tokens are cleared and the page told so.
LoseSession(c) ==
    /\ At(c, "refused") /\ ~call[c].retrying
    /\ store.refresh = 0 \/ latch = "no"
    /\ Goto(c, "denied")
    /\ store' = Empty
    /\ user' = "lost"
    /\ UNCHANGED <<server, latch, rotations, causes>>

Rotation == [stage |-> "asked", presented |-> store.refresh, issued |-> 0]

\* Bug: every call that is refused has the session rotated for itself.
StartAlone(c) ==
    /\ At(c, "refused") /\ ~call[c].retrying
    /\ store.refresh # 0 /\ latch \in {"open", "flying"}
    /\ Goto(c, "waiting")
    /\ latch' = "flying"
    /\ rotations' = Append(rotations, Rotation)
    /\ UNCHANGED <<server, store, user, causes>>

\* The first call that is refused has the session rotated ...
StartRotation(c) ==
    /\ At(c, "refused") /\ ~call[c].retrying
    /\ store.refresh # 0 /\ latch = "open"
    /\ Goto(c, "waiting")
    /\ latch' = "flying"
    /\ rotations' = Append(rotations, Rotation)
    /\ UNCHANGED <<server, store, user, causes>>

\* ... the next ones wait for it, or take its result while it is there.
Join(c) ==
    /\ At(c, "refused") /\ ~call[c].retrying
    /\ store.refresh # 0 /\ latch \in {"flying", "yes"}
    /\ call' = [call EXCEPT ![c] = IF latch = "flying"
                                   THEN [@ EXCEPT !.stage = "waiting"]
                                   ELSE [stage |-> "sent", token |-> store.access,
                                         retrying |-> TRUE]]
    /\ UNCHANGED <<server, page, rotations, causes>>

-----------------------------------------------------------------------------
\* A rotation: AuthService.refresh, one statement after the other.

RotationAt(i, stage) == rotations[i].stage = stage
Turn(i, stage) == rotations' = [rotations EXCEPT ![i].stage = stage]

CheckSession(i) ==
    /\ RotationAt(i, "asked")
    /\ Turn(i, IF sessions[rotations[i].presented] = "live" THEN "checked" ELSE "refused")
    /\ UNCHANGED <<server, page, call, causes>>

\* Bug: the session that was presented is kept.
RevokeNothing(i) ==
    /\ RotationAt(i, "checked")
    /\ Turn(i, "revoked")
    /\ UNCHANGED <<server, page, call, causes>>

Revoke(i) ==
    /\ RotationAt(i, "checked")
    /\ Turn(i, "revoked")
    /\ sessions' = [sessions EXCEPT ![rotations[i].presented] = "ended"]
    /\ UNCHANGED <<stale, page, call, effects, causes>>

Issue(i) ==
    /\ RotationAt(i, "revoked")
    /\ \E s \in Ids :
          /\ sessions[s] = "none"
          /\ \A t \in Ids : t < s => sessions[t] # "none"
          /\ sessions' = [sessions EXCEPT ![s] = "live"]
          /\ rotations' = [rotations EXCEPT ![i] = [@ EXCEPT !.stage = "granted", !.issued = s]]
    /\ UNCHANGED <<stale, page, call, effects, causes>>

\* The rate limit or an error between two statements: any answer but a 200.
BreakRotation(i) ==
    /\ rotations[i].stage \in {"asked", "checked", "revoked"}
    /\ Turn(i, "refused")
    /\ causes' = causes \cup {"broken"}
    /\ UNCHANGED <<server, page, call>>

LoseRotation(i) ==
    /\ rotations[i].stage \in {"asked", "granted", "refused"}
    /\ Turn(i, "lost")
    /\ causes' = causes \cup {"lost"}
    /\ UNCHANGED <<server, page, call>>

\* Bug: calls that wait are not told of a failure.
ResumedIfGranted(c, tokens) ==
    IF At(c, "waiting") /\ tokens # Empty
    THEN [stage |-> "sent", token |-> tokens.access, retrying |-> TRUE]
    ELSE call[c]

\* All calls that wait resume before anything else runs: they are repeated
\* with the new token, or give up.
Resumed(c, tokens) ==
    IF At(c, "waiting")
    THEN IF tokens # Empty
         THEN [stage |-> "sent", token |-> tokens.access, retrying |-> TRUE]
         ELSE [call[c] EXCEPT !.stage = "denied"]
    ELSE call[c]

\* Bug: the new refresh token is not kept.
KeptOld(i) == IF RotationAt(i, "granted")
              THEN [store EXCEPT !.access = rotations[i].issued]
              ELSE Empty

\* tokenStore.set or clear; where no answer came, the calls waiting clear it.
Kept(i) == IF RotationAt(i, "granted")
           THEN [access |-> rotations[i].issued, refresh |-> rotations[i].issued]
           ELSE Empty

Settle(i) ==
    /\ rotations[i].stage \in {"granted", "refused", "lost"}
    /\ Turn(i, "over")
    /\ latch' = IF RotationAt(i, "granted") THEN "yes" ELSE "no"
    /\ store' = Kept(i)
    /\ user' = IF RotationAt(i, "granted") THEN user ELSE "lost"
    /\ call' = [c \in Calls |-> Resumed(c, Kept(i))]
    /\ UNCHANGED <<server, causes>>

\* The timer that opens the latch again.
Unlatch ==
    /\ latch \in {"yes", "no"}
    /\ latch' = "open"
    /\ UNCHANGED <<server, store, user, rotations, call, causes>>

-----------------------------------------------------------------------------
Answer(c) ==
    \/ Serve(c) \/ Succeed(c) \/ Lose(c)
    \/ GiveUp(c) \/ LoseSession(c) \/ StartRotation(c) \/ Join(c)

Rotate ==
    \E i \in DOMAIN rotations :
        \/ CheckSession(i) \/ Revoke(i) \/ Issue(i)
        \/ BreakRotation(i) \/ LoseRotation(i) \/ Settle(i)

Next ==
    \/ \E s \in Ids : EndSession(s) \/ RunOut(s)
    \/ \E c \in Calls : Send(c) \/ Answer(c)
    \/ Rotate
    \/ Unlatch

\* A fetch that was made is answered or fails, a promise that is settled
\* resumes who awaits it, and a timer fires.
Spec == /\ Init /\ [][Next]_vars
        /\ \A c \in Calls : WF_vars(Answer(c))
        /\ WF_vars(Rotate)
        /\ WF_vars(Unlatch)

-----------------------------------------------------------------------------
\* Properties.

Stages == {"idle", "sent", "ok", "refused", "waiting", "done", "failed", "denied"}
RotationStages == {"asked", "checked", "revoked", "granted", "refused", "lost", "over"}
Tokens == Ids \cup {0}

\* Every part has its shape.
TypeOK ==
    /\ sessions \in [Ids -> {"none", "live", "ended"}]
    /\ stale \subseteq Ids
    /\ store \in [access : Tokens, refresh : Tokens]
    /\ user \in {"in", "out", "lost"}
    /\ latch \in {"open", "flying", "yes", "no"}
    /\ rotations \in Seq([stage : RotationStages, presented : Ids, issued : Tokens])
    /\ call \in [Calls -> [stage : Stages, token : Tokens, retrying : BOOLEAN]]
    /\ effects \in [Calls -> 0..1]
    /\ causes \subseteq {"ended", "signing out", "broken", "lost"}

\* Single flight: however the answers of concurrent calls arrive, before,
\* during or after a rotation, no refresh token is presented twice.  The
\* second time it would be refused, and the page signed out for nothing.
PresentedOnce ==
    \A i, j \in DOMAIN rotations : rotations[i].presented = rotations[j].presented => i = j

\* A rotation replaces a session: one page never has two that are live,
\* between any two statements and whatever gets lost.
OneLiveSession ==
    \A s, t \in Ids : sessions[s] = "live" /\ sessions[t] = "live" => s = t

\* Repeating a call is harmless: its handler runs once if it is answered
\* with success, never if the page is told it was refused, and never twice.
TakesEffectOnce ==
    \A c \in Calls :
        /\ effects[c] <= 1
        /\ At(c, "done") => effects[c] = 1
        /\ At(c, "denied") => effects[c] = 0

\* Expiry alone never signs anybody out: the page loses its session only
\* after it was ended by someone, the user began to sign out, or a rotation
\* itself went wrong.
LostOnlyForCause == user = "lost" => causes # {}

\* Every call is answered, one that waits for a rotation too.
EveryCallAnswered ==
    \A c \in Calls : At(c, "sent") ~> call[c].stage \in {"done", "failed", "denied"}

-----------------------------------------------------------------------------
\* The inductive invariant.

Live(s) == sessions[s] = "live"

\* The latch lets one rotation be under way at a time.
RotationsTakeTurns ==
    \A i \in DOMAIN rotations :
        rotations[i].stage # "over" => i = Len(rotations) /\ latch = "flying"

\* The token in store was issued, and presented by the rotation under way at
\* most; one about to be stored was never presented.
TokensAreFresh ==
    /\ store.refresh # 0 => sessions[store.refresh] # "none"
    /\ \A i \in DOMAIN rotations :
          /\ sessions[rotations[i].presented] # "none"
          /\ rotations[i].presented = store.refresh => rotations[i].stage # "over"
          /\ RotationAt(i, "granted") =>
                /\ rotations[i].issued \in Ids
                /\ sessions[rotations[i].issued] # "none"
                /\ \A j \in DOMAIN rotations : rotations[j].presented # rotations[i].issued

\* No session is live but the one the page or its rotation stands for.
NoOtherIsLive ==
    /\ \A i \in DOMAIN rotations :
          /\ rotations[i].stage \in {"asked", "checked"} =>
                \A s \in Ids : Live(s) => s = rotations[i].presented
          /\ RotationAt(i, "revoked") => \A s \in Ids : ~Live(s)
          /\ RotationAt(i, "granted") => \A s \in Ids : Live(s) => s = rotations[i].issued
    /\ latch # "flying" /\ store.refresh # 0 =>
          \A s \in Ids : Live(s) => s = store.refresh

\* Unless something has happened, the page is signed in with a live session,
\* and so is its rotation before the old one is revoked and after.
NothingAmiss ==
    causes = {} =>
        /\ user = "in" /\ latch # "no" /\ store.refresh # 0
        /\ \A c \in Logouts : At(c, "idle")
        /\ \A i \in DOMAIN rotations :
              /\ rotations[i].stage \notin {"refused", "lost"}
              /\ RotationAt(i, "asked") => Live(rotations[i].presented)
              /\ RotationAt(i, "granted") => Live(rotations[i].issued)
        /\ latch # "flying" => Live(store.refresh)

\* A handler has run only if its call was let through.
EffectsFollowStages ==
    \A c \in Calls :
        /\ effects[c] \in 0..1
        /\ call[c].stage \in {"ok", "done"} => effects[c] = 1
        /\ call[c].stage \in {"idle", "sent", "refused", "waiting", "denied"} => effects[c] = 0

IInv ==
    /\ TypeOK
    /\ PresentedOnce
    /\ OneLiveSession
    /\ RotationsTakeTurns
    /\ TokensAreFresh
    /\ NoOtherIsLive
    /\ NothingAmiss
    /\ EffectsFollowStages
=============================================================================
