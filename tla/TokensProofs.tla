---------------------------- MODULE TokensProofs ----------------------------
(* No refresh token is redeemed again after it was replaced on disk, and the *)
(* store holds what was stored last: for any number of commands and teams.   *)
(* The argument is that of the two lock files: who holds one knows what is   *)
(* on disk, and a token that was redeemed and is still there is about to be  *)
(* replaced by the one who holds the lock.                                   *)
EXTENDS Tokens, TLAPS

\* Where a command asks who the user is, as a part of the exchange or instead
\* of it.
Identifying == {"lookIdentity", "lockIdentity", "refreshIdentity", "identify",
                "signIn", "callback", "saveIdentity"}

HoldsGw(h) ==
  \/ hook[h].at \in {"discover", "refresh", "exchange", "register", "save"}
  \/ hook[h].at \in Identifying /\ hook[h].via = "exchange"

HoldsId(h) ==
  hook[h].at \in {"refreshIdentity", "identify", "signIn", "callback", "saveIdentity"}

\* The refresh tokens there may be of a team's credential, and of the identity.
OfTeam(t) == {<<t, "initial">>} \cup {Made(h) : h \in {g \in Command : TeamOf[g] = t}}
OfIdentity == {<<"session", "initial">>} \cup (Command \X Via)

\* A token that is still there for its refresh token to be redeemed.
Live(token) == token # None /\ token.refresh # None

\* The next command that can redeem it may do so: it was not redeemed, or its
\* replacement never reached the disk.
Sound(token) == Live(token) /\ token.refresh \in spent => token.refresh \in orphaned

\* What a command has to store was not redeemed by anybody.
Fresh(token, names) == token.refresh # None => token.refresh \in names \ spent

\* Who holds a lock knows what is on disk.
KnowsGw(h) == HoldsGw(h) => gwLock = h /\ hook[h].store = credentials
KnowsId(h) == HoldsId(h) => idLock = h /\ hook[h].session = session

Redeeming(h) ==
  /\ hook[h].at = "refresh" => Live(Cached(h))
  /\ hook[h].at = "refreshIdentity" => Live(hook[h].session)

Saving(h) ==
  /\ hook[h].at = "save" =>
       /\ Fresh(hook[h].issued, OfTeam(TeamOf[h]))
       /\ \/ hook[h].issued.refresh \in {None, Made(h)}
          \/ Live(Cached(h)) /\ hook[h].issued.refresh = Cached(h).refresh
  /\ hook[h].at = "saveIdentity" =>
       /\ Fresh(hook[h].issued, OfIdentity)
       /\ \/ hook[h].issued.refresh \in {None, Page(h)}
          \/ Live(session) /\ hook[h].issued.refresh = session.refresh

\* A command that did not get its credential, or its identity, yet: nobody has
\* the refresh token it would come with.
Unmade(h) ==
  hook[h].at # "printed" =>
    /\ Made(h) \notin spent
    /\ \A t \in Team : credentials[t] # None => credentials[t].refresh # Made(h)

NotYet(h, via) ==
  \/ /\ via = "exchange" /\ hook[h].via = "exchange"
     /\ hook[h].at \in {"look", "lock", "discover", "refresh"} \cup Identifying
  \/ via = "fallback" /\ ~Over(h)

Unpaged(h) ==
  \A via \in Via : NotYet(h, via) =>
    /\ <<h, via>> \notin spent
    /\ session # None => session.refresh # <<h, via>>

CommandShape(h) == DOMAIN hook[h] = DOMAIN Idle /\ hook[h].via \in Via

CommandInv(h) ==
  /\ CommandShape(h)
  /\ KnowsGw(h) /\ KnowsId(h)
  /\ Redeeming(h) /\ Saving(h)
  /\ Unmade(h) /\ Unpaged(h)

\* On disk a token that was redeemed is an orphan, but while the one who
\* redeemed it is about to replace it.
CredentialsSound ==
  /\ DOMAIN credentials = Team
  /\ credentials = newest
  /\ \A t \in Team :
       /\ Live(credentials[t]) => credentials[t].refresh \in OfTeam(t)
       /\ Sound(credentials[t]) \/ \E h \in Command : hook[h].at = "save" /\ TeamOf[h] = t

SessionSound ==
  /\ Live(session) => session.refresh \in OfIdentity
  /\ Sound(session) \/ \E h \in Command : hook[h].at = "saveIdentity"

TokensInv ==
  /\ DOMAIN hook = Command
  /\ CredentialsSound /\ SessionSound
  /\ NoReplay
  /\ \A h \in Command : CommandInv(h)

-----------------------------------------------------------------------------
(* The other commands *)

\* Refresh tokens of teams and of the identity are told apart, and one team's
\* from another's.
LEMMA TokensDiffer ==
  /\ \A t, u \in Team : t # u => OfTeam(t) \cap OfTeam(u) = {}
  /\ \A t \in Team : OfTeam(t) \cap OfIdentity = {} /\ None \notin OfTeam(t)
  /\ None \notin OfIdentity
  /\ None \notin Command
  /\ \A h \in Command : Made(h) # None /\ Made(h) \notin OfIdentity
  /\ \A h \in Command, via \in Via :
       /\ <<h, via>> # None
       /\ <<h, via>> \in OfIdentity
       /\ \A t \in Team : <<h, via>> \notin OfTeam(t)
BY TokensAssumption DEF OfTeam, OfIdentity, Made, Via, Name

\* What a step of one command may do to what all share: it moves a lock it
\* holds or that is free, writes a file under its lock, and redeems what it
\* read under the lock.
StepOf(h) ==
  /\ DOMAIN hook' = Command
  /\ \A g \in Command \ {h} : hook'[g] = hook[g]
  /\ gwLock' # gwLock => HoldsGw(h) \/ gwLock \in {None, h}
  /\ idLock' # idLock => HoldsId(h) \/ idLock \in {None, h}
  /\ credentials' # credentials => HoldsGw(h)
  /\ session' # session => HoldsId(h)
  /\ \A t \in Team : credentials'[t] # None =>
       \/ credentials'[t].refresh \in {None, Made(h)}
       \/ credentials[t] # None /\ credentials'[t].refresh = credentials[t].refresh
  /\ session' # None =>
       \/ session'.refresh \in {None} \cup ({h} \X Via)
       \/ session # None /\ session'.refresh = session.refresh
  /\ \A r \in spent' \ spent :
       \/ HoldsGw(h) /\ Live(Cached(h)) /\ r = Cached(h).refresh
       \/ HoldsId(h) /\ Live(hook[h].session) /\ r = hook[h].session.refresh

LEMMA SpentByHolder ==
  ASSUME TokensInv, NEW h \in Command, StepOf(h), NEW r \in spent' \ spent
  PROVE  \/ /\ gwLock = h
            /\ Live(credentials[TeamOf[h]])
            /\ r = credentials[TeamOf[h]].refresh /\ r \in OfTeam(TeamOf[h])
         \/ idLock = h /\ Live(session) /\ r = session.refresh /\ r \in OfIdentity
<1>1. KnowsGw(h) /\ KnowsId(h) /\ TeamOf[h] \in Team
  BY TokensAssumption DEF TokensInv, CommandInv
<1>2. CASE HoldsGw(h) /\ Live(Cached(h)) /\ r = Cached(h).refresh
  BY <1>1, <1>2 DEF KnowsGw, Cached, TokensInv, CredentialsSound
<1>3. CASE HoldsId(h) /\ Live(hook[h].session) /\ r = hook[h].session.refresh
  BY <1>1, <1>3 DEF KnowsId, TokensInv, SessionSound
<1> QED
  BY <1>2, <1>3 DEF StepOf

LEMMA OthersKeep ==
  ASSUME TokensInv, NEW h \in Command, StepOf(h), NEW g \in Command \ {h}
  PROVE  CommandInv(g)'
<1>1. hook'[g] = hook[g] /\ CommandInv(g) /\ CommandInv(h)
  BY DEF StepOf, TokensInv
<1>2. UNCHANGED <<HoldsGw(g), HoldsId(g), Cached(g), Over(g)>>
  BY <1>1 DEF HoldsGw, HoldsId, Cached, Over
<1>3. CommandShape(g)'
  BY <1>1 DEF CommandInv, CommandShape
<1>4. HoldsGw(g) => gwLock = g /\ ~HoldsGw(h) /\ gwLock' = g /\ credentials' = credentials
  BY <1>1, TokensDiffer DEF CommandInv, KnowsGw, StepOf
<1>5. HoldsId(g) => idLock = g /\ ~HoldsId(h) /\ idLock' = g /\ session' = session
  BY <1>1, TokensDiffer DEF CommandInv, KnowsId, StepOf
<1>6. KnowsGw(g)' /\ KnowsId(g)'
  BY <1>1, <1>2, <1>4, <1>5 DEF CommandInv, KnowsGw, KnowsId
<1>7. Redeeming(g)'
  BY <1>1, <1>2 DEF CommandInv, Redeeming
<1>8. Saving(g)'
  <2>1. ASSUME hook[g].at = "save"
        PROVE  Fresh(hook[g].issued, OfTeam(TeamOf[g]))'
    <3>1. HoldsGw(g) /\ Fresh(hook[g].issued, OfTeam(TeamOf[g])) /\ TeamOf[g] \in Team
      BY <1>1, <2>1, TokensAssumption DEF HoldsGw, CommandInv, Saving
    <3>2. \A r \in spent' \ spent : r \in OfIdentity
      BY <1>4, <3>1, SpentByHolder
    <3> QED
      BY <1>1, <3>1, <3>2, TokensDiffer DEF Fresh
  <2>2. ASSUME hook[g].at = "saveIdentity"
        PROVE  Fresh(hook[g].issued, OfIdentity)' /\ session' = session
    <3>1. HoldsId(g) /\ Fresh(hook[g].issued, OfIdentity)
      BY <1>1, <2>2 DEF HoldsId, CommandInv, Saving
    <3>2. \A r \in spent' \ spent : r \in OfTeam(TeamOf[h]) /\ TeamOf[h] \in Team
      BY <1>5, <3>1, SpentByHolder, TokensAssumption
    <3> QED
      BY <1>1, <1>5, <3>1, <3>2, TokensDiffer DEF Fresh
  <2> QED
    BY <1>1, <1>2, <2>1, <2>2 DEF CommandInv, Saving, Page
<1>9. Unmade(g)'
  <2> SUFFICES ASSUME hook[g].at # "printed"
               PROVE  /\ Made(g) \notin spent'
                      /\ \A t \in Team : credentials'[t] # None => credentials'[t].refresh # Made(g)
    BY <1>1 DEF Unmade, Made
  <2>1. /\ Made(g) \notin spent
        /\ \A t \in Team : credentials[t] # None => credentials[t].refresh # Made(g)
    BY <1>1 DEF CommandInv, Unmade
  <2>2. Made(g) # Made(h) /\ Made(g) # None /\ Made(g) \notin OfIdentity
    BY TokensDiffer DEF Made
  <2>3. Made(g) \notin spent'
    BY <2>1, <2>2, SpentByHolder, TokensAssumption DEF Live
  <2> QED
    BY <2>1, <2>2, <2>3 DEF StepOf
<1>10. Unpaged(g)'
  <2> SUFFICES ASSUME NEW via \in Via, NotYet(g, via)
               PROVE  /\ <<g, via>> \notin spent'
                      /\ session' # None => session'.refresh # <<g, via>>
    BY <1>1, <1>2 DEF Unpaged, NotYet
  <2>1. /\ <<g, via>> \notin spent
        /\ session # None => session.refresh # <<g, via>>
    BY <1>1 DEF CommandInv, Unpaged
  <2>2. /\ <<g, via>> # None /\ <<g, via>> \notin {h} \X Via
        /\ \A t \in Team : <<g, via>> \notin OfTeam(t)
    BY TokensDiffer
  <2>3. <<g, via>> \notin spent'
    BY <2>1, <2>2, SpentByHolder, TokensAssumption DEF Live
  <2> QED
    BY <2>1, <2>2, <2>3 DEF StepOf
<1> QED
  BY <1>3, <1>6, <1>7, <1>8, <1>9, <1>10 DEF CommandInv

-----------------------------------------------------------------------------
(* How a command moves *)

LEMMA MovesEffect ==
  ASSUME TokensInv, NEW h \in Command, NEW fields, Moves(h, fields)
  PROVE  /\ DOMAIN hook' = Command
         /\ \A g \in Command \ {h} : hook'[g] = hook[g]
         /\ DOMAIN hook'[h] = DOMAIN Idle
         /\ \A f \in DOMAIN Idle : hook'[h][f] = IF f \in DOMAIN fields THEN fields[f] ELSE hook[h][f]
<1>1. DOMAIN hook = Command /\ DOMAIN hook[h] = DOMAIN Idle
  BY DEF TokensInv, CommandInv, CommandShape
<1> QED
  BY <1>1 DEF Moves

\* A step to another point, with nothing learned.
LEMMA ToEffect ==
  ASSUME TokensInv, NEW h \in Command, NEW at, To(h, at)
  PROVE  /\ DOMAIN hook' = Command
         /\ \A g \in Command \ {h} : hook'[g] = hook[g]
         /\ DOMAIN hook'[h] = DOMAIN Idle
         /\ hook'[h].at = at
         /\ hook'[h].via = hook[h].via /\ hook'[h].store = hook[h].store
         /\ hook'[h].session = hook[h].session /\ hook'[h].issued = hook[h].issued
<1> DEFINE fields == [at |-> at]
<1>1. DOMAIN fields = {"at"} /\ fields["at"] = at
  OBVIOUS
<1>2. Moves(h, fields)
  BY DEF To
<1> HIDE DEF fields
<1> QED
  BY <1>1, <1>2, MovesEffect DEF Idle

\* Done with the Gateway's credential: with a result, or on to the fallback.
Rests(h) ==
  /\ DOMAIN hook' = Command
  /\ \A g \in Command \ {h} : hook'[g] = hook[g]
  /\ DOMAIN hook'[h] = DOMAIN Idle
  /\ \/ hook'[h].at \in {"printed", "failed"} /\ hook'[h].via \in Via
     \/ hook'[h].at = "lookIdentity" /\ hook'[h].via = "fallback"

LEMMA EndsRest ==
  ASSUME TokensInv, NEW h \in Command, NEW result \in {"printed", "failed"}, Ends(h, result)
  PROVE  Rests(h)
BY DEF Ends, Rests, Idle, Via, TokensInv

LEMMA UnresolvedRests ==
  ASSUME TokensInv, NEW h \in Command, NEW kind, Unresolved(h, kind)
  PROVE  Rests(h) /\ gwLock' = None
<1>1. CASE ~FallsBack(h, kind)
  BY <1>1, EndsRest DEF Unresolved
<1>2. CASE FallsBack(h, kind)
  <2> DEFINE fields == [Idle EXCEPT !.at = "lookIdentity", !.via = "fallback"]
  <2>1. DOMAIN fields = DOMAIN Idle /\ fields["at"] = "lookIdentity" /\ fields["via"] = "fallback"
    BY DEF Idle
  <2>2. Moves(h, fields) /\ gwLock' = None
    BY <1>2 DEF Unresolved
  <2> HIDE DEF fields
  <2> QED
    BY <2>1, <2>2, MovesEffect DEF Rests, Idle
<1> QED
  BY <1>1, <1>2

LEMMA FailedRests ==
  ASSUME TokensInv, NEW h \in Command, NEW kind, Failed(h, kind)
  PROVE  Rests(h) /\ gwLock' = None
BY EndsRest, UnresolvedRests DEF Failed

LEMMA UnidentifiedRests ==
  ASSUME TokensInv, NEW h \in Command, Unidentified(h)
  PROVE  Rests(h) /\ gwLock' \in {gwLock, None} /\ (gwLock' # gwLock => hook[h].via = "exchange")
<1>1. hook[h].via \in Via
  BY DEF TokensInv, CommandInv, CommandShape
<1> QED
  BY <1>1, EndsRest, FailedRests DEF Unidentified, Via

\* With an identity, the hook is done or goes on with the exchange.
LEMMA IdentifiedGoesOn ==
  ASSUME TokensInv, NEW h \in Command, Identified(h)
  PROVE  /\ gwLock' = gwLock
         /\ \/ Rests(h)
            \/ /\ DOMAIN hook' = Command
               /\ \A g \in Command \ {h} : hook'[g] = hook[g]
               /\ DOMAIN hook'[h] = DOMAIN Idle
               /\ hook'[h].at \in {"register", "exchange"}
               /\ hook[h].via = "exchange" /\ hook'[h].via = "exchange"
               /\ hook'[h].store = hook[h].store
<1>1. CASE hook[h].via = "fallback"
  BY <1>1, EndsRest DEF Identified
<1>2. CASE hook[h].via # "fallback"
  <2>1. hook[h].via = "exchange"
    BY <1>2 DEF TokensInv, CommandInv, CommandShape, Via
  <2> DEFINE fields == [at |-> IF Cached(h) = None THEN "register" ELSE "exchange",
                        session |-> None, usable |-> FALSE, issued |-> None]
  <2>2. /\ DOMAIN fields = {"at", "session", "usable", "issued"}
        /\ fields["at"] \in {"register", "exchange"}
    OBVIOUS
  <2>3. Moves(h, fields) /\ gwLock' = gwLock
    BY <1>2 DEF Identified
  <2> HIDE DEF fields
  <2>4. /\ hook'[h]["at"] \in {"register", "exchange"}
        /\ hook'[h]["via"] = hook[h]["via"] /\ hook'[h]["store"] = hook[h]["store"]
    BY <2>2, <2>3, MovesEffect DEF Idle
  <2> QED
    BY <2>1, <2>3, <2>4, MovesEffect
<1> QED
  BY <1>1, <1>2

-----------------------------------------------------------------------------
(* Steps that leave the disk alone *)

\* What is redeemed without being replaced is an orphan; whoever redeems what
\* was replaced redeems an orphan.
GhostsKept(h) ==
  /\ orphaned \subseteq orphaned'
  /\ replayed' \subseteq replayed \cup orphaned'
  /\ \A r \in spent' \ spent :
       /\ r \in orphaned'
       /\ \/ HoldsGw(h) /\ Live(Cached(h)) /\ r = Cached(h).refresh
          \/ HoldsId(h) /\ Live(hook[h].session) /\ r = hook[h].session.refresh

LEMMA GhostsStay ==
  ASSUME NEW h, UNCHANGED ghosts
  PROVE  GhostsKept(h)
BY DEF ghosts, GhostsKept

\* What is on disk stays sound while no one who was about to write it moves.
LEMMA DiskKept ==
  ASSUME TokensInv, NEW h \in Command, StepOf(h), UNCHANGED disk, GhostsKept(h),
         hook[h].at \notin {"save", "saveIdentity"}
  PROVE  CredentialsSound' /\ SessionSound' /\ NoReplay'
<1>1. \A g \in Command : hook[g].at \in {"save", "saveIdentity"} => hook'[g] = hook[g]
  BY DEF StepOf
<1>2. \A token : Sound(token) => Sound(token)'
  BY DEF Sound, GhostsKept, Live
<1>3. CredentialsSound'
  <2> SUFFICES ASSUME NEW t \in Team
               PROVE  \/ Sound(credentials[t])'
                      \/ \E g \in Command : hook'[g].at = "save" /\ TeamOf[g] = t
    BY DEF TokensInv, CredentialsSound, disk, Live
  <2> QED
    BY <1>1, <1>2 DEF TokensInv, CredentialsSound, Sound, disk, GhostsKept, Live
<1>4. SessionSound'
  BY <1>1 DEF TokensInv, SessionSound, Sound, disk, GhostsKept, Live
<1> QED
  BY <1>3, <1>4 DEF TokensInv, NoReplay, GhostsKept

\* A step on the way, at which nothing is stored: what is left to show is that
\* the command keeps to the rules of the locks.
LEMMA QuietStep ==
  ASSUME TokensInv, NEW h \in Command,
         DOMAIN hook' = Command, \A g \in Command \ {h} : hook'[g] = hook[g],
         DOMAIN hook'[h] = DOMAIN Idle, hook'[h].via \in Via,
         UNCHANGED disk, GhostsKept(h),
         gwLock' # gwLock => HoldsGw(h) \/ gwLock = None,
         idLock' # idLock => HoldsId(h) \/ idLock = None,
         hook[h].at \notin {"save", "saveIdentity", "printed", "failed"},
         KnowsGw(h)', KnowsId(h)', Redeeming(h)', Saving(h)',
         \A via \in Via : NotYet(h, via)' => NotYet(h, via)
  PROVE  TokensInv'
<1>1. StepOf(h)
  BY DEF StepOf, disk, GhostsKept
<1>2. \A g \in Command \ {h} : CommandInv(g)'
  BY <1>1, OthersKeep
<1>3. CommandInv(h) /\ TeamOf[h] \in Team
  BY TokensAssumption DEF TokensInv
<1>4. Made(h) \notin spent'
  BY <1>1, <1>3, SpentByHolder, TokensDiffer DEF CommandInv, Unmade, Live
<1>5. Unmade(h)'
  BY <1>3, <1>4 DEF CommandInv, Unmade, Made, disk
<1>6. Unpaged(h)'
  <2> SUFFICES ASSUME NEW via \in Via, NotYet(h, via)
               PROVE  <<h, via>> \notin spent'
    BY <1>3 DEF CommandInv, Unpaged, disk
  <2> QED
    BY <1>1, <1>3, SpentByHolder, TokensDiffer DEF CommandInv, Unpaged, Live
<1>7. CommandInv(h)'
  BY <1>5, <1>6 DEF CommandInv, CommandShape
<1> QED
  BY <1>1, <1>2, <1>7, DiskKept DEF TokensInv

\* The same for a command that rests.
LEMMA RestingStep ==
  ASSUME TokensInv, NEW h \in Command, Rests(h), UNCHANGED disk, GhostsKept(h),
         gwLock' # gwLock => HoldsGw(h) \/ gwLock = None,
         idLock' # idLock => HoldsId(h) \/ idLock = None,
         hook[h].at \notin {"save", "saveIdentity", "printed", "failed"}
  PROVE  TokensInv'
<1>1. hook'[h].via \in Via
  BY DEF Rests, Via
<1>2. KnowsGw(h)' /\ KnowsId(h)' /\ Redeeming(h)' /\ Saving(h)'
  BY DEF Rests, KnowsGw, HoldsGw, KnowsId, HoldsId, Redeeming, Saving, Identifying
<1>3. \A via \in Via : NotYet(h, via)' => NotYet(h, via)
  BY DEF Rests, NotYet, Over, Identifying
<1> QED
  BY <1>1, <1>2, <1>3, QuietStep DEF Rests

\* A step that touches neither commands nor locks nor what they share.
LEMMA NothingHappens ==
  ASSUME TokensInv, UNCHANGED <<hook, gwLock, idLock, disk, ghosts>>
  PROVE  TokensInv'
<1>1. CredentialsSound' /\ SessionSound' /\ NoReplay'
  BY DEF TokensInv, CredentialsSound, SessionSound, Sound, Live, NoReplay, disk, ghosts
<1>2. ASSUME NEW h \in Command
      PROVE  CommandInv(h)'
  <2>1. CommandInv(h)
    BY DEF TokensInv
  <2> QED
    BY <2>1 DEF CommandInv, CommandShape, KnowsGw, HoldsGw, KnowsId, HoldsId, Redeeming, Saving,
       Fresh, Live, Cached, Page, Made, Unmade, Unpaged, NotYet, Over, disk, ghosts
<1> QED
  BY <1>1, <1>2 DEF TokensInv

-----------------------------------------------------------------------------
(* ensure_gateway_credential *)

LEMMA LookStep ==
  ASSUME TokensInv, NEW h \in Command, Look(h)
  PROVE  TokensInv'
<1>1. CASE IsFresh(h, credentials[TeamOf[h]])
  BY <1>1, EndsRest, RestingStep, GhostsStay DEF Look
<1>2. CASE ~IsFresh(h, credentials[TeamOf[h]])
  <2> DEFINE fields == [at |-> "lock", store |-> credentials]
  <2>1. DOMAIN fields = {"at", "store"} /\ fields["at"] = "lock"
    OBVIOUS
  <2>2. Moves(h, fields)
    BY <1>2 DEF Look
  <2> HIDE DEF fields
  <2>3. hook'[h]["at"] = "lock" /\ hook'[h]["via"] = hook[h]["via"]
    BY <2>1, <2>2, MovesEffect DEF Idle
  <2>4. KnowsGw(h)' /\ KnowsId(h)' /\ Redeeming(h)' /\ Saving(h)'
    BY <2>3 DEF KnowsGw, HoldsGw, KnowsId, HoldsId, Redeeming, Saving, Identifying
  <2>5. \A via \in Via : NotYet(h, via)' => NotYet(h, via)
    BY <2>3 DEF Look, NotYet, Over
  <2>6. hook'[h].via \in Via
    BY <2>3 DEF TokensInv, CommandInv, CommandShape
  <2> QED
    BY <2>2, <2>4, <2>5, <2>6, MovesEffect, QuietStep, GhostsStay DEF Look
<1> QED
  BY <1>1, <1>2

LEMMA LockStep ==
  ASSUME TokensInv, NEW h \in Command, Lock(h)
  PROVE  TokensInv'
<1>1. CASE IsFresh(h, credentials[TeamOf[h]])
  BY <1>1, EndsRest, RestingStep, GhostsStay DEF Lock
<1>2. CASE ~IsFresh(h, credentials[TeamOf[h]])
  <2> DEFINE fields == [at |-> "discover", store |-> credentials,
                        valid |-> IsValid(credentials[TeamOf[h]])]
  <2>1. /\ DOMAIN fields = {"at", "store", "valid"}
        /\ fields["at"] = "discover" /\ fields["store"] = credentials
    OBVIOUS
  <2>2. Moves(h, fields) /\ gwLock' = h /\ gwLock = None /\ UNCHANGED <<idLock, disk, ghosts>>
    BY <1>2 DEF Lock
  <2> HIDE DEF fields
  <2>3. /\ hook'[h]["at"] = "discover" /\ hook'[h]["via"] = hook[h]["via"]
        /\ hook'[h]["store"] = credentials
    BY <2>1, <2>2, MovesEffect DEF Idle
  <2>4. KnowsGw(h)' /\ KnowsId(h)' /\ Redeeming(h)' /\ Saving(h)'
    BY <2>2, <2>3 DEF KnowsGw, KnowsId, HoldsId, Redeeming, Saving, disk
  <2>5. \A via \in Via : NotYet(h, via)' => NotYet(h, via)
    BY <2>3 DEF Lock, NotYet, Over
  <2>6. hook'[h].via \in Via
    BY <2>3 DEF TokensInv, CommandInv, CommandShape
  <2> QED
    BY <2>2, <2>4, <2>5, <2>6, MovesEffect, QuietStep, GhostsStay DEF Lock
<1> QED
  BY <1>1, <1>2

\* A command that goes on with the Gateway's lock held.
LEMMA GoesOn ==
  ASSUME TokensInv, NEW h \in Command, NEW at, To(h, at), UNCHANGED <<disk, gwLock, idLock>>, GhostsKept(h),
         hook[h].at \notin {"save", "saveIdentity", "printed", "failed"},
         \/ hook[h].at = "discover" /\ at = "refresh" /\ Live(Cached(h))
         \/ hook[h].at \in {"discover", "refresh"} /\ at = "lookIdentity"
         \/ hook[h].at = "exchange" /\ at = "register"
         \/ hook[h].at = "lookIdentity" /\ at = "lockIdentity"
         \/ hook[h].at = "refreshIdentity" /\ at = "identify"
         \/ hook[h].at = "identify" /\ at = "signIn"
         \/ hook[h].at = "signIn" /\ at = "callback"
  PROVE  TokensInv'
<1>1. CommandInv(h)
  BY DEF TokensInv
<1>2. HoldsGw(h)' => HoldsGw(h)
  BY ToEffect DEF HoldsGw, Identifying
<1>3. HoldsId(h)' => HoldsId(h)
  BY ToEffect DEF HoldsId
<1>4. KnowsGw(h)' /\ KnowsId(h)'
  BY <1>1, <1>2, <1>3, ToEffect DEF CommandInv, KnowsGw, KnowsId, disk
<1>5. Redeeming(h)' /\ Saving(h)'
  BY ToEffect DEF Redeeming, Saving, Cached, Live
<1>6. \A via \in Via : NotYet(h, via)' => NotYet(h, via)
  BY ToEffect DEF NotYet, Over, Identifying
<1>7. hook'[h].via \in Via
  BY <1>1, ToEffect DEF CommandInv, CommandShape
<1> QED
  BY <1>4, <1>5, <1>6, <1>7, ToEffect, QuietStep

LEMMA DiscoverStep ==
  ASSUME TokensInv, NEW h \in Command, Discover(h)
  PROVE  TokensInv'
<1>1. CASE To(h, IF Cached(h) # None /\ Cached(h).refresh # None THEN "refresh" ELSE "lookIdentity")
           /\ UNCHANGED gwLock
  BY <1>1, GoesOn, GhostsStay DEF Discover, Live
<1>2. CASE Unresolved(h, "unsupported") \/ Failed(h, "gateway")
  <2>1. HoldsGw(h)
    BY DEF Discover, HoldsGw
  <2> QED
    BY <1>2, <2>1, UnresolvedRests, FailedRests, RestingStep, GhostsStay DEF Discover
<1> QED
  BY <1>1, <1>2 DEF Discover

LEMMA RegisterStep ==
  ASSUME TokensInv, NEW h \in Command, Register(h)
  PROVE  TokensInv'
<1>0. HoldsGw(h) /\ CommandInv(h)
  BY DEF Register, HoldsGw, TokensInv
<1>1. CASE Failed(h, "gateway")
  BY <1>0, <1>1, FailedRests, RestingStep, GhostsStay DEF Register
<1>2. CASE Moves(h, [at |-> "exchange", registered |-> TRUE]) /\ UNCHANGED gwLock
  <2> DEFINE fields == [at |-> "exchange", registered |-> TRUE]
  <2>1. DOMAIN fields = {"at", "registered"} /\ fields["at"] = "exchange"
    OBVIOUS
  <2>2. Moves(h, fields)
    BY <1>2
  <2> HIDE DEF fields
  <2>3. /\ hook'[h]["at"] = "exchange" /\ hook'[h]["via"] = hook[h]["via"]
        /\ hook'[h]["store"] = hook[h]["store"]
    BY <2>1, <2>2, MovesEffect DEF Idle
  <2>4. KnowsGw(h)' /\ KnowsId(h)' /\ Redeeming(h)' /\ Saving(h)'
    BY <1>0, <1>2, <2>3 DEF Register, CommandInv, KnowsGw, KnowsId, HoldsId, Redeeming, Saving, disk
  <2>5. \A via \in Via : NotYet(h, via)' => NotYet(h, via)
    BY <2>3 DEF Register, NotYet, Over, Identifying
  <2>6. hook'[h].via \in Via
    BY <2>3 DEF TokensInv, CommandInv, CommandShape
  <2> QED
    BY <1>2, <2>2, <2>4, <2>5, <2>6, MovesEffect, QuietStep, GhostsStay DEF Register
<1> QED
  BY <1>1, <1>2 DEF Register

\* What was issued is new, or came with the refresh token it was renewed by.
LEMMA ExchangeStep ==
  ASSUME TokensInv, NEW h \in Command, Exchange(h)
  PROVE  TokensInv'
<1>0. HoldsGw(h) /\ CommandInv(h) /\ TeamOf[h] \in Team
  BY TokensAssumption DEF Exchange, HoldsGw, TokensInv
<1>1. CASE Failed(h, "gateway") \/ Failed(h, "refused")
  BY <1>0, <1>1, FailedRests, RestingStep, GhostsStay DEF Exchange
<1>2. CASE To(h, "register") /\ UNCHANGED gwLock
  BY <1>2, GoesOn, GhostsStay DEF Exchange
<1>3. ASSUME NEW r \in {Made(h), None},
             Moves(h, [at |-> "save", issued |-> [id |-> Made(h), refresh |-> r]]),
             UNCHANGED gwLock
      PROVE  TokensInv'
  <2> DEFINE fields == [at |-> "save", issued |-> [id |-> Made(h), refresh |-> r]]
  <2>1. DOMAIN fields = {"at", "issued"} /\ fields["at"] = "save" /\ fields["issued"].refresh = r
    OBVIOUS
  <2>2. Moves(h, fields)
    BY <1>3
  <2> HIDE DEF fields
  <2>3. /\ hook'[h]["at"] = "save" /\ hook'[h]["via"] = hook[h]["via"]
        /\ hook'[h]["store"] = hook[h]["store"] /\ hook'[h]["issued"].refresh = r
    BY <2>1, <2>2, MovesEffect DEF Idle
  <2>4. KnowsGw(h)' /\ KnowsId(h)' /\ Redeeming(h)'
    BY <1>0, <1>3, <2>3 DEF Exchange, CommandInv, KnowsGw, KnowsId, HoldsId, Redeeming, disk
  <2>5. Made(h) \notin spent /\ Made(h) \in OfTeam(TeamOf[h])
    BY <1>0 DEF Exchange, CommandInv, Unmade, OfTeam
  <2>6. Saving(h)'
    BY <2>3, <2>5 DEF Exchange, Saving, Fresh, ghosts, Made
  <2>7. \A via \in Via : NotYet(h, via)' => NotYet(h, via)
    BY <2>3 DEF Exchange, NotYet, Over, Identifying
  <2>8. hook'[h].via \in Via
    BY <2>3 DEF TokensInv, CommandInv, CommandShape
  <2> QED
    BY <1>3, <2>2, <2>4, <2>6, <2>7, <2>8, MovesEffect, QuietStep, GhostsStay DEF Exchange
<1> QED
  BY <1>1, <1>2, <1>3 DEF Exchange

-----------------------------------------------------------------------------
(* Redeeming and storing the Gateway's credential *)

LEMMA AllCommands ==
  ASSUME TokensInv, NEW h \in Command, StepOf(h), CommandInv(h)',
         CredentialsSound', SessionSound', NoReplay'
  PROVE  TokensInv'
BY OthersKeep DEF TokensInv, StepOf

\* One command at a time redeems a credential; what it finds on disk was not
\* redeemed, or is an orphan.
LEMMA FoundIsSound ==
  ASSUME TokensInv, NEW h \in Command, hook[h].at = "refresh"
  PROVE  /\ HoldsGw(h) /\ gwLock = h /\ TeamOf[h] \in Team
         /\ Cached(h) = credentials[TeamOf[h]] /\ Live(Cached(h)) /\ Sound(Cached(h))
         /\ Cached(h).refresh \in OfTeam(TeamOf[h])
<1>1. HoldsGw(h) /\ gwLock = h /\ TeamOf[h] \in Team /\ Cached(h) = credentials[TeamOf[h]]
  BY TokensAssumption DEF HoldsGw, TokensInv, CommandInv, KnowsGw, Cached
<1>2. Live(Cached(h))
  BY DEF TokensInv, CommandInv, Redeeming
<1>3. \A g \in Command : hook[g].at # "save"
  BY <1>1 DEF HoldsGw, TokensInv, CommandInv, KnowsGw
<1> QED
  BY <1>1, <1>2, <1>3 DEF TokensInv, CredentialsSound

LEMMA Renewing ==
  ASSUME TokensInv, NEW h \in Command, hook[h].at = "refresh",
         NEW token \in Renewed(Cached(h), Made(h)), Cached(h).refresh \notin spent,
         Moves(h, [at |-> "save", issued |-> token]),
         spent' = IF token.refresh = Cached(h).refresh THEN spent
                  ELSE spent \cup {Cached(h).refresh},
         Redeem(Cached(h).refresh), UNCHANGED <<gwLock, idLock, disk>>
  PROVE  TokensInv'
<1> DEFINE old == Cached(h)
           fields == [at |-> "save", issued |-> token]
<1>1. DOMAIN fields = {"at", "issued"} /\ fields["at"] = "save" /\ fields["issued"] = token
  OBVIOUS
<1>2. Moves(h, fields)
  OBVIOUS
<1> HIDE DEF fields
<1>3. /\ hook'[h]["at"] = "save" /\ hook'[h]["via"] = hook[h]["via"]
      /\ hook'[h]["store"] = hook[h]["store"] /\ hook'[h]["issued"] = token
  BY <1>1, <1>2, MovesEffect DEF Idle
<1>4. /\ HoldsGw(h) /\ gwLock = h /\ TeamOf[h] \in Team
      /\ old = credentials[TeamOf[h]] /\ Live(old) /\ old.refresh \in OfTeam(TeamOf[h])
  BY FoundIsSound
<1>5. StepOf(h)
  BY <1>2, <1>4, MovesEffect DEF StepOf, disk
<1>6. replayed' = replayed /\ orphaned' = orphaned
  BY DEF Redeem
<1>7. token.refresh \in {Made(h), old.refresh}
  BY DEF Renewed
<1>8. CommandInv(h) /\ Made(h) \notin spent /\ Made(h) # old.refresh
  BY <1>4 DEF TokensInv, CommandInv, Unmade, Live
<1>9. Made(h) \in OfTeam(TeamOf[h])
  BY DEF OfTeam
<1>10. Fresh(token, OfTeam(TeamOf[h]))'
  BY <1>4, <1>7, <1>8, <1>9 DEF Fresh
<1>11. Saving(h)'
  BY <1>3, <1>4, <1>7, <1>10 DEF Saving, Made, Cached, Live, Fresh
<1>12. CommandShape(h)' /\ KnowsGw(h)' /\ KnowsId(h)' /\ Redeeming(h)'
  BY <1>2, <1>3, <1>4, <1>8, MovesEffect
     DEF CommandInv, CommandShape, KnowsGw, KnowsId, HoldsId, Redeeming, disk
<1>13. Unmade(h)'
  BY <1>8, <1>3 DEF CommandInv, Unmade, Made, disk
<1>14. Unpaged(h)'
  <2> SUFFICES ASSUME NEW via \in Via, NotYet(h, via)'
               PROVE  <<h, via>> \notin spent' /\ NotYet(h, via)
    BY <1>8 DEF CommandInv, Unpaged, disk
  <2>1. NotYet(h, via)
    BY <1>3 DEF NotYet, Over, Identifying
  <2> QED
    BY <1>4, <1>8, <2>1, TokensDiffer DEF CommandInv, Unpaged
<1>15. CommandInv(h)'
  BY <1>11, <1>12, <1>13, <1>14 DEF CommandInv
<1>16. \A g \in Command : hook[g].at \in {"save", "saveIdentity"} => hook'[g] = hook[g]
  BY <1>5 DEF StepOf
<1>17. CredentialsSound'
  <2> SUFFICES ASSUME NEW t \in Team
               PROVE  \/ Sound(credentials[t])'
                      \/ \E g \in Command : hook'[g].at = "save" /\ TeamOf[g] = t
    BY DEF TokensInv, CredentialsSound, disk, Live
  <2>1. CASE t = TeamOf[h]
    BY <1>3, <2>1
  <2>2. CASE t # TeamOf[h]
    <3>1. Live(credentials[t]) => credentials[t].refresh # old.refresh
      BY <1>4, <2>2, TokensDiffer DEF TokensInv, CredentialsSound
    <3> QED
      BY <1>6, <1>16, <3>1 DEF TokensInv, CredentialsSound, Sound, disk, Live
  <2> QED
    BY <2>1, <2>2
<1>18. SessionSound'
  <2>1. Live(session) => session.refresh # old.refresh
    BY <1>4, TokensDiffer DEF TokensInv, SessionSound
  <2> QED
    BY <1>6, <1>16, <2>1 DEF TokensInv, SessionSound, Sound, disk, Live
<1> QED
  BY <1>5, <1>6, <1>15, <1>17, <1>18, AllCommands DEF TokensInv, NoReplay

LEMMA RefreshStep ==
  ASSUME TokensInv, NEW h \in Command, Refresh(h)
  PROVE  TokensInv'
<1> DEFINE old == Cached(h)
<1>1. /\ hook[h].at = "refresh" /\ HoldsGw(h) /\ Live(old)
      /\ old.refresh \in spent => old.refresh \in orphaned
      /\ UNCHANGED <<disk, idLock>>
  BY FoundIsSound DEF Refresh, Sound
<1>2. ASSUME old.refresh \notin spent,
             NEW token \in Renewed(old, Made(h)), Moves(h, [at |-> "save", issued |-> token]),
             spent' = IF token.refresh = old.refresh THEN spent
                      ELSE spent \cup {old.refresh},
             Redeem(old.refresh), UNCHANGED gwLock
      PROVE  TokensInv'
  BY <1>1, <1>2, Renewing
<1>3. CASE To(h, "lookIdentity") /\ Redeem(old.refresh) /\ UNCHANGED <<spent, gwLock>>
  <2>1. GhostsKept(h)
    BY <1>1, <1>3 DEF Redeem, GhostsKept
  <2> QED
    BY <1>1, <1>3, <2>1, GoesOn
<1>4. CASE /\ Failed(h, "gateway")
           /\ replayed' = replayed \cup ({old.refresh} \cap spent)
           /\ \/ UNCHANGED <<spent, orphaned>>
              \/ /\ spent' = spent \cup {old.refresh}
                 /\ orphaned' = orphaned \cup {old.refresh}
  <2>1. GhostsKept(h)
    BY <1>1, <1>4 DEF GhostsKept
  <2> QED
    BY <1>1, <1>4, <2>1, FailedRests, RestingStep
<1> QED
  BY <1>2, <1>3, <1>4 DEF Refresh

LEMMA SaveStep ==
  ASSUME TokensInv, NEW h \in Command, Save(h)
  PROVE  TokensInv'
<1> DEFINE t == TeamOf[h]
           issued == hook[h].issued
<1>1. /\ hook[h].at = "save" /\ HoldsGw(h) /\ gwLock = h /\ t \in Team
      /\ hook[h].store = credentials /\ Cached(h) = credentials[t]
      /\ CommandInv(h)
  BY TokensAssumption DEF Save, HoldsGw, TokensInv, CommandInv, KnowsGw, Cached
<1>2. \A g \in Command : hook[g].at = "save" => g = h
  BY <1>1 DEF TokensInv, CommandInv, KnowsGw, HoldsGw
<1>3. \A u \in Team \ {t} : Sound(credentials[u])
  BY <1>2 DEF TokensInv, CredentialsSound
<1>4. UNCHANGED <<session, idLock, spent, replayed>> /\ orphaned \subseteq orphaned'
  BY DEF Save, Orphans
<1>5. Rests(h) /\ gwLock' = None
  BY EndsRest, UnresolvedRests DEF Save
<1>6. DOMAIN credentials = Team /\ credentials = newest
  BY DEF TokensInv, CredentialsSound
<1>7. CASE /\ credentials' = Upsert(h)
           /\ newest' = [newest EXCEPT ![TeamOf[h]] = hook[h].issued]
           /\ Ends(h, "printed") /\ UNCHANGED orphaned
  <2>1. /\ DOMAIN credentials' = Team /\ credentials' = newest'
        /\ credentials'[t] = issued
        /\ \A u \in Team \ {t} : credentials'[u] = credentials[u]
    BY <1>1, <1>6, <1>7 DEF Upsert
  <2>2. \/ issued.refresh \in {None, Made(h)}
        \/ credentials[t] # None /\ issued.refresh = credentials[t].refresh
    BY <1>1 DEF CommandInv, Saving, Live
  <2>3. StepOf(h)
    BY <1>1, <1>4, <1>5, <2>1, <2>2 DEF StepOf, Rests
  <2>4. Fresh(issued, OfTeam(t))
    BY <1>1 DEF CommandInv, Saving
  <2>5. CredentialsSound'
    <3>1. Live(issued) => issued.refresh \in OfTeam(t) /\ issued.refresh \notin spent'
      BY <1>4, <2>4 DEF Fresh, Live
    <3>2. \A u \in Team : /\ Live(credentials'[u]) => credentials'[u].refresh \in OfTeam(u)
                          /\ Sound(credentials[u])'
      BY <1>3, <1>4, <1>7, <2>1, <3>1 DEF TokensInv, CredentialsSound, Sound, Live
    <3> QED
      BY <2>1, <3>2 DEF CredentialsSound, Live
  <2>6. SessionSound'
    BY <1>1, <1>4, <1>7, <2>3 DEF TokensInv, SessionSound, Sound, Live, StepOf
  <2>7. hook'[h].at = "printed"
    BY <1>7 DEF Ends, TokensInv, Idle
  <2>8. CommandInv(h)'
    BY <1>5, <2>7 DEF Rests, CommandInv, CommandShape, KnowsGw, HoldsGw, KnowsId, HoldsId,
       Redeeming, Saving, Unmade, Unpaged, NotYet, Over, Identifying
  <2> QED
    BY <1>4, <1>7, <2>3, <2>5, <2>6, <2>8, AllCommands DEF TokensInv, NoReplay
<1>8. CASE Unresolved(h, "save") /\ Orphans(h, Cached(h)) /\ UNCHANGED <<credentials, newest>>
  <2>1. StepOf(h)
    BY <1>1, <1>4, <1>5, <1>8 DEF StepOf, Rests
  <2>2. CredentialsSound'
    <3>1. Sound(credentials[t])'
      BY <1>1, <1>4, <1>8 DEF Orphans, Sound, Live
    <3> QED
      BY <1>3, <1>4, <1>8, <3>1 DEF TokensInv, CredentialsSound, Sound, Live
  <2>3. SessionSound'
    BY <1>1, <1>4, <2>1 DEF TokensInv, SessionSound, Sound, Live, StepOf
  <2>4. Unmade(h)'
    BY <1>1, <1>4, <1>8 DEF CommandInv, Unmade, Made
  <2>5. Unpaged(h)'
    BY <1>1, <1>4, <1>5 DEF CommandInv, Unpaged, Rests, NotYet, Over, Identifying
  <2>6. CommandInv(h)'
    BY <1>5, <2>4, <2>5 DEF Rests, CommandInv, CommandShape, KnowsGw, HoldsGw, KnowsId, HoldsId,
       Redeeming, Saving, Identifying, Via
  <2> QED
    BY <1>4, <2>1, <2>2, <2>3, <2>6, AllCommands DEF TokensInv, NoReplay
<1> QED
  BY <1>7, <1>8 DEF Save

-----------------------------------------------------------------------------
(* ensure_token *)

\* With an identity a command rests, or goes on with the exchange it holds the
\* Gateway's lock for.
LEMMA IdentifiedStep ==
  ASSUME TokensInv, NEW h \in Command, Identified(h), UNCHANGED disk, GhostsKept(h),
         idLock' # idLock => HoldsId(h) \/ idLock = None,
         hook[h].at \in {"lookIdentity", "lockIdentity", "refreshIdentity"}
  PROVE  TokensInv'
<1>1. CASE Rests(h)
  BY <1>1, IdentifiedGoesOn, RestingStep
<1>2. CASE /\ DOMAIN hook' = Command
           /\ \A g \in Command \ {h} : hook'[g] = hook[g]
           /\ DOMAIN hook'[h] = DOMAIN Idle
           /\ hook'[h].at \in {"register", "exchange"}
           /\ hook[h].via = "exchange" /\ hook'[h].via = "exchange"
           /\ hook'[h].store = hook[h].store
  <2>1. HoldsGw(h) /\ CommandInv(h) /\ gwLock' = gwLock
    BY <1>2, IdentifiedGoesOn DEF HoldsGw, Identifying, TokensInv
  <2>2. KnowsGw(h)' /\ KnowsId(h)' /\ Redeeming(h)' /\ Saving(h)'
    BY <1>2, <2>1 DEF CommandInv, KnowsGw, KnowsId, HoldsId, Redeeming, Saving, disk
  <2>3. \A via \in Via : NotYet(h, via)' => NotYet(h, via)
    BY <1>2 DEF NotYet, Over, Identifying
  <2> QED
    BY <1>2, <2>1, <2>2, <2>3, QuietStep DEF Via
<1> QED
  BY <1>1, <1>2, IdentifiedGoesOn

\* Without one it rests, and lets go of what it holds.
LEMMA UnidentifiedStep ==
  ASSUME TokensInv, NEW h \in Command, Unidentified(h), UNCHANGED disk, GhostsKept(h),
         idLock' # idLock => HoldsId(h) \/ idLock = None,
         hook[h].at \in {"identify", "signIn", "callback"}
  PROVE  TokensInv'
<1>1. hook[h].via = "exchange" => HoldsGw(h)
  BY DEF HoldsGw, Identifying
<1> QED
  BY <1>1, UnidentifiedRests, RestingStep

LEMMA LookIdentityStep ==
  ASSUME TokensInv, NEW h \in Command, LookIdentity(h)
  PROVE  TokensInv'
<1>1. CASE Identified(h)
  BY <1>1, IdentifiedStep, GhostsStay DEF LookIdentity
<1>2. CASE To(h, "lockIdentity") /\ UNCHANGED gwLock
  BY <1>2, GoesOn, GhostsStay DEF LookIdentity
<1> QED
  BY <1>1, <1>2 DEF LookIdentity

LEMMA LockIdentityStep ==
  ASSUME TokensInv, NEW h \in Command, LockIdentity(h)
  PROVE  TokensInv'
<1>1. CASE ReusesSession(session)
  BY <1>1, IdentifiedStep, GhostsStay DEF LockIdentity
<1>2. ASSUME NEW fields, DOMAIN fields \subseteq {"at", "session", "usable"},
             {"at", "session"} \subseteq DOMAIN fields,
             fields["session"] = session,
             \/ fields["at"] = "refreshIdentity" /\ Live(session)
             \/ fields["at"] = "identify",
             Moves(h, fields), idLock' = h, UNCHANGED gwLock
      PROVE  TokensInv'
  <2>1. /\ hook'[h]["at"] = fields["at"] /\ hook'[h]["via"] = hook[h]["via"]
        /\ hook'[h]["store"] = hook[h]["store"] /\ hook'[h]["session"] = session
    BY <1>2, MovesEffect DEF Idle
  <2>2. CommandInv(h) /\ (HoldsGw(h)' => HoldsGw(h)) /\ idLock = None
    BY <1>2, <2>1 DEF LockIdentity, TokensInv, HoldsGw, Identifying
  <2>3. KnowsGw(h)' /\ KnowsId(h)' /\ Redeeming(h)' /\ Saving(h)'
    BY <1>2, <2>1, <2>2 DEF LockIdentity, CommandInv, KnowsGw, KnowsId, Redeeming, Saving, disk
  <2>4. \A via \in Via : NotYet(h, via)' => NotYet(h, via)
    BY <1>2, <2>1 DEF LockIdentity, NotYet, Over, Identifying
  <2>5. hook'[h].via \in Via
    BY <2>1, <2>2 DEF CommandInv, CommandShape
  <2> QED
    BY <1>2, <2>2, <2>3, <2>4, <2>5, MovesEffect, QuietStep, GhostsStay DEF LockIdentity
<1>3. CASE /\ session # None /\ session.refresh # None
           /\ Moves(h, [at |-> "refreshIdentity", session |-> session, usable |-> IsValid(session)])
           /\ idLock' = h /\ UNCHANGED gwLock
  BY <1>2, <1>3 DEF Live
<1>4. CASE Moves(h, [at |-> "identify", session |-> session]) /\ idLock' = h /\ UNCHANGED gwLock
  BY <1>2, <1>4
<1> QED
  BY <1>1, <1>3, <1>4 DEF LockIdentity

\* What the holder of the identity's lock finds is not redeemed, or an orphan.
LEMMA FoundIdentityIsSound ==
  ASSUME TokensInv, NEW h \in Command, HoldsId(h), hook[h].at # "saveIdentity"
  PROVE  idLock = h /\ hook[h].session = session /\ Sound(session)
<1>1. idLock = h /\ hook[h].session = session
  BY DEF TokensInv, CommandInv, KnowsId
<1>2. \A g \in Command : hook[g].at # "saveIdentity"
  BY <1>1 DEF HoldsId, TokensInv, CommandInv, KnowsId
<1> QED
  BY <1>1, <1>2 DEF TokensInv, SessionSound

\* A session that is to be stored: a new one, or one that was renewed.
LEMMA SessionIssued ==
  ASSUME TokensInv, NEW h \in Command, HoldsId(h), NotYet(h, hook[h].via),
         hook[h].at \in {"refreshIdentity", "callback"},
         NEW token, NEW fields, Moves(h, fields),
         {"at", "issued"} \subseteq DOMAIN fields,
         DOMAIN fields \subseteq {"at", "issued", "queue"},
         fields["at"] = "saveIdentity", fields["issued"] = token,
         UNCHANGED <<disk, gwLock, idLock, replayed, orphaned>>,
         \/ token.refresh \in {None, Page(h)}
         \/ Live(session) /\ token.refresh = session.refresh /\ session.refresh \notin spent,
         \/ UNCHANGED spent
         \/ /\ Live(session) /\ token.refresh # session.refresh
            /\ spent' = spent \cup {session.refresh}
  PROVE  TokensInv'
<1>2. Moves(h, fields)
  OBVIOUS
<1>3. /\ hook'[h]["at"] = "saveIdentity" /\ hook'[h]["via"] = hook[h]["via"]
      /\ hook'[h]["store"] = hook[h]["store"] /\ hook'[h]["issued"] = token
      /\ hook'[h]["session"] = hook[h]["session"]
  BY <1>2, MovesEffect DEF Idle
<1>4. /\ idLock = h /\ hook[h].session = session /\ CommandInv(h) /\ TeamOf[h] \in Team
      /\ hook[h].via \in Via
  BY FoundIdentityIsSound, TokensAssumption DEF TokensInv, CommandInv, CommandShape
<1>5. StepOf(h)
  BY <1>2, <1>4, MovesEffect DEF StepOf, disk
<1>6. Live(session) => session.refresh \in OfIdentity
  BY DEF TokensInv, SessionSound
<1>7. Page(h) \notin spent /\ Page(h) \in OfIdentity /\ (session # None => session.refresh # Page(h))
  BY <1>4, TokensDiffer DEF CommandInv, Unpaged, Page
<1>8. Fresh(token, OfIdentity)'
  BY <1>6, <1>7 DEF Fresh, Live
<1>9. Saving(h)'
  BY <1>3, <1>8 DEF Saving, Page, disk, Live
<1>10. HoldsGw(h)' => HoldsGw(h)
  BY <1>3 DEF HoldsGw, Identifying
<1>11. CommandShape(h)' /\ KnowsGw(h)' /\ KnowsId(h)' /\ Redeeming(h)'
  BY <1>2, <1>3, <1>4, <1>10, MovesEffect
     DEF CommandInv, CommandShape, KnowsGw, KnowsId, Redeeming, disk
<1>12. \A r \in spent' \ spent : Live(session) /\ r = session.refresh /\ r \in OfIdentity
  BY <1>6
<1>13. Unmade(h)'
  BY <1>4, <1>12, TokensDiffer DEF CommandInv, Unmade, Made, disk
<1>14. Unpaged(h)'
  <2> SUFFICES ASSUME NEW via \in Via, NotYet(h, via)'
               PROVE  <<h, via>> \notin spent' /\ NotYet(h, via)
    BY <1>4 DEF CommandInv, Unpaged, disk
  <2>1. NotYet(h, via)
    BY <1>3 DEF NotYet, Over, Identifying
  <2> QED
    BY <1>4, <1>12, <2>1 DEF CommandInv, Unpaged, Live
<1>15. CommandInv(h)'
  BY <1>9, <1>11, <1>13, <1>14 DEF CommandInv
<1>16. \A g \in Command : hook[g].at \in {"save", "saveIdentity"} => hook'[g] = hook[g]
  BY <1>5 DEF StepOf
<1>17. CredentialsSound'
  <2> SUFFICES ASSUME NEW t \in Team
               PROVE  \/ Sound(credentials[t])'
                      \/ \E g \in Command : hook'[g].at = "save" /\ TeamOf[g] = t
    BY DEF TokensInv, CredentialsSound, disk, Live
  <2>1. Live(credentials[t]) /\ credentials[t].refresh \in spent' => credentials[t].refresh \in spent
    BY <1>12, TokensDiffer DEF TokensInv, CredentialsSound
  <2> QED
    BY <1>16, <2>1 DEF TokensInv, CredentialsSound, Sound, disk, Live
<1>18. SessionSound'
  BY <1>3, <1>6 DEF SessionSound, disk, Live
<1> QED
  BY <1>5, <1>15, <1>17, <1>18, AllCommands DEF TokensInv, NoReplay

LEMMA RefreshIdentityStep ==
  ASSUME TokensInv, NEW h \in Command, RefreshIdentity(h)
  PROVE  TokensInv'
<1> DEFINE old == hook[h].session
<1>1. /\ hook[h].at = "refreshIdentity" /\ HoldsId(h) /\ Live(old)
      /\ old = session /\ Sound(session) /\ idLock = h
      /\ UNCHANGED disk
  BY FoundIdentityIsSound DEF RefreshIdentity, HoldsId, TokensInv, CommandInv, Redeeming
<1>2. ASSUME old.refresh \notin spent, Redeem(old.refresh), UNCHANGED <<gwLock, idLock>>,
             NEW token \in Renewed(old, <<h, hook[h].via>>),
             Moves(h, [at |-> "saveIdentity", issued |-> token]),
             spent' = IF token.refresh = old.refresh THEN spent ELSE spent \cup {old.refresh}
      PROVE  TokensInv'
  <2>1. token.refresh \in {Page(h), session.refresh}
    BY <1>1, <1>2 DEF Renewed, Page
  <2>2. replayed' = replayed /\ orphaned' = orphaned
    BY <1>2 DEF Redeem
  <2>3. NotYet(h, hook[h].via)
    BY <1>1 DEF TokensInv, CommandInv, CommandShape, NotYet, Over, Identifying, Via
  <2> DEFINE fields == [at |-> "saveIdentity", issued |-> token]
  <2>4. /\ DOMAIN fields = {"at", "issued"} /\ Moves(h, fields)
        /\ fields["at"] = "saveIdentity" /\ fields["issued"] = token
    BY <1>2
  <2> HIDE DEF fields
  <2> QED
    BY <1>1, <1>2, <2>1, <2>2, <2>3, <2>4, SessionIssued
<1>3. ASSUME NotRefreshed(h), GhostsKept(h)
      PROVE  TokensInv'
  BY <1>1, <1>3, IdentifiedStep, GoesOn DEF NotRefreshed
<1>4. CASE NotRefreshed(h) /\ Redeem(old.refresh) /\ UNCHANGED spent
  <2>1. GhostsKept(h)
    BY <1>1, <1>4 DEF Redeem, GhostsKept, Sound
  <2> QED
    BY <1>3, <1>4, <2>1
<1>5. CASE /\ NotRefreshed(h)
           /\ replayed' = replayed \cup ({old.refresh} \cap spent)
           /\ \/ UNCHANGED <<spent, orphaned>>
              \/ /\ spent' = spent \cup {old.refresh}
                 /\ orphaned' = orphaned \cup {old.refresh}
  <2>1. GhostsKept(h)
    BY <1>1, <1>5 DEF GhostsKept, Sound
  <2> QED
    BY <1>3, <1>5, <2>1
<1> QED
  BY <1>2, <1>4, <1>5 DEF RefreshIdentity

LEMMA SignInStep ==
  ASSUME TokensInv, NEW h \in Command,
         Identify(h) \/ OpenPage(h) \/ Deadline(h) \/ \E page \in pages : Callback(h, page)
  PROVE  TokensInv'
<1>1. HoldsId(h) /\ GhostsKept(h) /\ UNCHANGED disk /\ hook[h].at \in {"identify", "signIn", "callback"}
  BY GhostsStay DEF Identify, OpenPage, Deadline, Callback, HoldsId
<1>2. CASE Unidentified(h)
  BY <1>1, <1>2, UnidentifiedStep
<1>3. CASE Identify(h)
  BY <1>1, <1>2, <1>3, GoesOn DEF Identify, SignsIn
<1>4. CASE OpenPage(h)
  BY <1>1, <1>2, <1>4, GoesOn DEF OpenPage
<1>5. ASSUME NEW page \in pages, Callback(h, page)
      PROVE  TokensInv'
  <2>1. ASSUME UNCHANGED <<hook, gwLock, idLock>>
        PROVE  TokensInv'
    BY <1>5, <2>1, NothingHappens DEF Callback
  <2>2. ASSUME NEW token \in Redeemed(h),
               Moves(h, [at |-> "saveIdentity", issued |-> token, queue |-> 0]),
               UNCHANGED <<gwLock, idLock>>
        PROVE  TokensInv'
    <3>1. token.refresh \in {None, Page(h)}
      BY <2>2 DEF Redeemed
    <3>2. NotYet(h, hook[h].via)
      BY <1>5 DEF Callback, TokensInv, CommandInv, CommandShape, NotYet, Over, Identifying, Via
    <3> DEFINE fields == [at |-> "saveIdentity", issued |-> token, queue |-> 0]
    <3>3. /\ DOMAIN fields = {"at", "issued", "queue"} /\ Moves(h, fields)
          /\ fields["at"] = "saveIdentity" /\ fields["issued"] = token
      BY <2>2
    <3> HIDE DEF fields
    <3> QED
      BY <1>1, <1>5, <2>2, <3>1, <3>2, <3>3, SessionIssued DEF Callback, ghosts
  <2> QED
    BY <1>2, <1>5, <2>1, <2>2 DEF Callback
<1>6. CASE Deadline(h)
  BY <1>2, <1>6 DEF Deadline
<1> QED
  BY <1>3, <1>4, <1>5, <1>6

\* A connection that brings nothing changes the queue of the sign-in.
LEMMA ListenerStep ==
  ASSUME TokensInv, NEW h \in Command, Connect(h) \/ Unrelated(h)
  PROVE  TokensInv'
<1>1. PICK queue : Moves(h, [queue |-> queue])
  BY DEF Connect, Unrelated
<1> DEFINE fields == [queue |-> queue]
<1>2. DOMAIN fields = {"queue"} /\ Moves(h, fields)
  BY <1>1
<1> HIDE DEF fields
<1>3. /\ DOMAIN hook' = Command
      /\ \A g \in Command \ {h} : hook'[g] = hook[g]
      /\ DOMAIN hook'[h] = DOMAIN Idle
      /\ hook'[h].at = hook[h].at /\ hook'[h].via = hook[h].via
      /\ hook'[h].store = hook[h].store /\ hook'[h].session = hook[h].session
      /\ hook'[h].issued = hook[h].issued
  BY <1>2, MovesEffect DEF Idle
<1>4. /\ CommandInv(h) /\ hook[h].at = "callback" /\ hook'[h].via \in Via
      /\ UNCHANGED <<disk, gwLock, idLock>> /\ GhostsKept(h)
  BY <1>3, GhostsStay DEF Connect, Unrelated, TokensInv, CommandInv, CommandShape
<1>5. KnowsGw(h)' /\ KnowsId(h)' /\ Redeeming(h)' /\ Saving(h)'
  BY <1>3, <1>4 DEF CommandInv, KnowsGw, KnowsId, HoldsGw, HoldsId, Identifying,
                    Redeeming, Saving, disk
<1>6. \A via \in Via : NotYet(h, via)' => NotYet(h, via)
  BY <1>3 DEF NotYet, Over, Identifying
<1> QED
  BY <1>3, <1>4, <1>5, <1>6, QuietStep

\* A session that is stored was not redeemed by anybody; one that is not takes
\* the refresh token it was to replace along.
LEMMA SaveIdentityStep ==
  ASSUME TokensInv, NEW h \in Command, SaveIdentity(h)
  PROVE  TokensInv'
<1>1. /\ hook[h].at = "saveIdentity" /\ HoldsId(h) /\ idLock = h
      /\ hook[h].session = session /\ CommandInv(h) /\ hook[h].via \in Via
      /\ idLock' = None /\ UNCHANGED <<credentials, newest, spent, replayed>>
      /\ orphaned \subseteq orphaned'
  BY DEF SaveIdentity, Orphans, HoldsId, TokensInv, CommandInv, CommandShape, KnowsId
<1>2. hook[h].via = "exchange" => HoldsGw(h)
  BY <1>1 DEF HoldsGw, Identifying
<1>3. ASSUME StepOf(h)
      PROVE  CredentialsSound'
  <2>1. \A g \in Command : hook[g].at = "save" => hook'[g] = hook[g]
    BY <1>1, <1>3 DEF StepOf
  <2> QED
    BY <1>1, <2>1 DEF TokensInv, CredentialsSound, Sound, Live
<1>4. Unmade(h)'
  BY <1>1 DEF CommandInv, Unmade, Made
<1>5. \A via \in Via : NotYet(h, via) => <<h, via>> \notin spent'
  BY <1>1 DEF CommandInv, Unpaged
<1>6. CASE session' = hook[h].issued /\ Identified(h) /\ UNCHANGED orphaned
  <2>1. /\ Fresh(hook[h].issued, OfIdentity)
        /\ \/ hook[h].issued.refresh \in {None, Page(h)}
           \/ Live(session) /\ hook[h].issued.refresh = session.refresh
    BY <1>1 DEF CommandInv, Saving
  <2>2. SessionSound'
    BY <1>1, <1>6, <2>1 DEF SessionSound, Sound, Live, Fresh
  <2>3. \/ session' = None \/ session'.refresh \in {None} \cup ({h} \X Via)
        \/ session # None /\ session'.refresh = session.refresh
    BY <1>1, <1>6, <2>1 DEF Page, Live
  <2>4. /\ DOMAIN hook' = Command /\ \A g \in Command \ {h} : hook'[g] = hook[g]
        /\ DOMAIN hook'[h] = DOMAIN Idle /\ gwLock' = gwLock
    BY <1>6, IdentifiedGoesOn DEF Rests
  <2>5. StepOf(h)
    BY <1>1, <2>3, <2>4, <1>6 DEF StepOf
  <2>6. \/ hook'[h].at \in {"printed", "failed"} /\ hook'[h].via \in Via
        \/ hook'[h].at = "lookIdentity" /\ hook'[h].via = "fallback"
        \/ /\ hook'[h].at \in {"register", "exchange"}
           /\ hook[h].via = "exchange" /\ hook'[h].via = "exchange"
           /\ hook'[h].store = hook[h].store
    BY <1>6, IdentifiedGoesOn DEF Rests
  <2>7. KnowsGw(h)' /\ KnowsId(h)' /\ Redeeming(h)' /\ Saving(h)' /\ CommandShape(h)'
    BY <1>1, <1>2, <2>4, <2>6 DEF CommandInv, CommandShape, KnowsGw, HoldsGw, KnowsId, HoldsId,
       Redeeming, Saving, Identifying, Via
  <2>8. Unpaged(h)'
    <3>1. CASE hook[h].via = "fallback"
      <4>1. hook'[h].at = "printed"
        BY <1>6, <3>1 DEF Identified, Ends, TokensInv, Idle
      <4> QED
        BY <4>1 DEF Unpaged, NotYet, Over, Identifying
    <3>2. CASE hook[h].via = "exchange"
      <4> SUFFICES ASSUME NEW via \in Via, NotYet(h, via)'
                   PROVE  /\ <<h, via>> \notin spent'
                          /\ session' # None => session'.refresh # <<h, via>>
        BY DEF Unpaged
      <4>1. via = "fallback" /\ NotYet(h, via)
        BY <1>1, <2>6 DEF NotYet, Over, Identifying, Via
      <4>2. Page(h) # <<h, via>> /\ <<h, via>> # None
        BY <3>2, <4>1, TokensDiffer DEF Page
      <4> QED
        BY <1>1, <1>5, <1>6, <2>1, <4>1, <4>2 DEF CommandInv, Unpaged, Live
    <3> QED
      BY <1>1, <3>1, <3>2 DEF Via
  <2>9. CommandInv(h)'
    BY <1>4, <2>7, <2>8 DEF CommandInv
  <2> QED
    BY <1>1, <1>3, <1>6, <2>2, <2>5, <2>9, AllCommands DEF TokensInv, NoReplay
<1>7. CASE Unidentified(h) /\ Orphans(h, hook[h].session) /\ UNCHANGED session
  <2>1. Rests(h) /\ gwLock' \in {gwLock, None} /\ (gwLock' # gwLock => HoldsGw(h))
    BY <1>2, <1>7, UnidentifiedRests
  <2>2. StepOf(h)
    BY <1>1, <1>7, <2>1 DEF StepOf, Rests
  <2>3. SessionSound'
    BY <1>1, <1>7 DEF TokensInv, SessionSound, Sound, Live, Orphans
  <2>4. Unpaged(h)'
    BY <1>1, <1>7, <2>1 DEF CommandInv, Unpaged, Rests, NotYet, Over, Identifying
  <2>5. CommandInv(h)'
    BY <1>4, <2>1, <2>4 DEF Rests, CommandInv, CommandShape, KnowsGw, HoldsGw, KnowsId, HoldsId,
       Redeeming, Saving, Identifying, Via
  <2> QED
    BY <1>1, <1>3, <2>2, <2>3, <2>5, AllCommands DEF TokensInv, NoReplay
<1> QED
  BY <1>6, <1>7 DEF SaveIdentity

-----------------------------------------------------------------------------
(* The environment *)

\* A command that is killed between the redemption and the save leaves an
\* orphan on disk.
LEMMA KillStep ==
  ASSUME TokensInv, NEW h \in Command, Kill(h)
  PROVE  TokensInv'
<1>1. /\ CommandInv(h) /\ TeamOf[h] \in Team /\ ~Over(h)
      /\ UNCHANGED <<disk, spent, replayed>> /\ orphaned \subseteq orphaned'
  BY TokensAssumption DEF Kill, TokensInv
<1>2. /\ DOMAIN hook' = Command /\ \A g \in Command \ {h} : hook'[g] = hook[g]
      /\ DOMAIN hook'[h] = DOMAIN Idle
      /\ hook'[h].at = "failed" /\ hook'[h].via \in Via
  BY DEF Kill, Ends, Idle, Via, TokensInv
<1>3. StepOf(h)
  BY <1>1, <1>2 DEF StepOf, Kill, disk
<1>4. CredentialsSound'
  <2> SUFFICES ASSUME NEW t \in Team
               PROVE  \/ Sound(credentials[t])'
                      \/ \E g \in Command : hook'[g].at = "save" /\ TeamOf[g] = t
    BY <1>1 DEF TokensInv, CredentialsSound, disk, Live
  <2>1. CASE Sound(credentials[t])
    BY <1>1, <2>1 DEF Sound, disk, Live
  <2>2. ASSUME NEW g \in Command, hook[g].at = "save", TeamOf[g] = t, g # h
        PROVE  hook'[g].at = "save" /\ TeamOf[g] = t
    BY <1>2, <2>2
  <2>3. CASE hook[h].at = "save" /\ TeamOf[h] = t
    <3>1. Cached(h) = credentials[t]
      BY <1>1, <2>3 DEF CommandInv, KnowsGw, HoldsGw, Cached
    <3>2. Live(credentials[t]) => credentials[t] \in Unsaved(h)
      BY <2>3, <3>1 DEF Unsaved, Live
    <3> QED
      BY <1>1, <3>2 DEF Kill, Sound, disk, Live
  <2> QED
    BY <2>1, <2>2, <2>3 DEF TokensInv, CredentialsSound
<1>5. SessionSound'
  <2>1. CASE Sound(session)
    BY <1>1, <2>1 DEF TokensInv, SessionSound, Sound, disk, Live
  <2>2. ASSUME NEW g \in Command, hook[g].at = "saveIdentity", g # h
        PROVE  SessionSound'
    <3>1. hook'[g].at = "saveIdentity"
      BY <1>2, <2>2
    <3> QED
      BY <1>1, <3>1 DEF TokensInv, SessionSound, disk, Live
  <2>3. CASE hook[h].at = "saveIdentity"
    <3>1. hook[h].session = session
      BY <1>1, <2>3 DEF CommandInv, KnowsId, HoldsId
    <3>2. Live(session) => session \in Unsaved(h)
      BY <2>3, <3>1 DEF Unsaved, Live
    <3> QED
      BY <1>1, <3>2 DEF TokensInv, SessionSound, Kill, Sound, disk, Live
  <2> QED
    BY <2>1, <2>2, <2>3 DEF TokensInv, SessionSound
<1>6. Unmade(h)' /\ Unpaged(h)'
  BY <1>1, <1>2 DEF CommandInv, Unmade, Made, Unpaged, NotYet, Over, Identifying, disk
<1>7. CommandInv(h)'
  BY <1>2, <1>6 DEF CommandInv, CommandShape, KnowsGw, HoldsGw, KnowsId, HoldsId,
     Redeeming, Saving, Identifying
<1> QED
  BY <1>1, <1>3, <1>4, <1>5, <1>7, AllCommands DEF TokensInv, NoReplay

-----------------------------------------------------------------------------
(* Theorems *)

LEMMA TokensStart ==
  Init => TokensInv
<1> SUFFICES ASSUME Init PROVE TokensInv
  OBVIOUS
<1> PICK start \in Start : credentials = start.credentials /\ session = start.session
  BY DEF Init
<1>1. /\ spent = {} /\ replayed = {} /\ newest = credentials
      /\ hook = [h \in Command |-> Idle]
  BY DEF Init
<1>2. /\ DOMAIN credentials = Team
      /\ \A t \in Team : credentials[t] # None => credentials[t].refresh \in {None, <<t, "initial">>}
      /\ session # None => session.refresh \in {None, <<"session", "initial">>}
  BY TokensAssumption
<1>3. CredentialsSound /\ SessionSound /\ NoReplay
  BY <1>1, <1>2 DEF CredentialsSound, SessionSound, NoReplay, Sound, Live, OfTeam, OfIdentity
<1>4. ASSUME NEW h \in Command
      PROVE  CommandInv(h)
  <2>1. DOMAIN hook[h] = DOMAIN Idle /\ hook[h].at = "look" /\ hook[h].via \in Via
    BY <1>1 DEF Idle, Via
  <2>2. Unmade(h)
    <3>1. Made(h) # None /\ \A t \in Team : <<t, "initial">> # Made(h)
      BY TokensDiffer DEF Made
    <3> QED
      BY <1>1, <1>2, <3>1 DEF Unmade
  <2>3. Unpaged(h)
    <3>1. \A via \in Via : <<h, via>> # None /\ <<"session", "initial">> # <<h, via>>
      BY TokensDiffer DEF Via
    <3> QED
      BY <1>1, <1>2, <3>1 DEF Unpaged
  <2> QED
    BY <2>1, <2>2, <2>3 DEF CommandInv, CommandShape, KnowsGw, HoldsGw, KnowsId, HoldsId, Redeeming,
       Saving, Identifying
<1> QED
  BY <1>1, <1>3, <1>4 DEF TokensInv

LEMMA TokensStep ==
  TokensInv /\ [Next]_vars => TokensInv'
<1> SUFFICES ASSUME TokensInv, [Next]_vars PROVE TokensInv'
  OBVIOUS
<1>1. ASSUME NEW h \in Command, Step(h) \/ Kill(h) \/ Connect(h)
                                  \/ \E p \in pages : Callback(h, p)
      PROVE  TokensInv'
  BY <1>1, LookStep, LockStep, DiscoverStep, RefreshStep, ExchangeStep, RegisterStep, SaveStep,
     LookIdentityStep, LockIdentityStep, RefreshIdentityStep, SignInStep, SaveIdentityStep,
     ListenerStep, KillStep DEF Step
<1>2. ASSUME NEW token, Age(token)
      PROVE  TokensInv'
  BY <1>2, NothingHappens DEF Age
<1>3. CASE UNCHANGED vars
  BY <1>3, NothingHappens DEF vars, disk, ghosts
<1> QED
  BY <1>1, <1>2, <1>3 DEF Next

\* Who holds a lock file knows what is on disk, and what is on disk may be
\* redeemed, but while the one who redeemed it is about to replace it: for any
\* number of commands and teams (lock_store, lock_cache).
THEOREM TokensInvariance == Spec => []TokensInv
<1> QED
  BY TokensStart, TokensStep, PTL DEF Spec

\* No refresh token is redeemed again after it was replaced, unless its
\* replacement never reached the disk: commands that share the Gateway's
\* credentials and the identity take turns (print_bearer,
\* ensure_gateway_credential, ensure_token).
THEOREM RotationIsSafe == Spec => []NoReplay
<1>1. TokensInv => NoReplay
  BY DEF TokensInv
<1> QED
  BY <1>1, TokensInvariance, PTL

\* Every team's entry is what was stored for it last, whichever team the
\* command that writes the file is of (upsert).
THEOREM UpsertKeepsOthers == Spec => []StoreIsNewest
<1>1. TokensInv => StoreIsNewest
  BY DEF TokensInv, CredentialsSound, StoreIsNewest
<1> QED
  BY <1>1, TokensInvariance, PTL

=============================================================================
