------------------------------- MODULE Tokens -------------------------------
(***************************************************************************)
(* The token commands of a device without a broker: the hooks `relay       *)
(* claude-token` and `relay codex-token` (print_bearer) and the exchange   *)
(* of Claude Desktop (ensure_gateway_credential, which neither opens a     *)
(* browser nor falls back).  Every command is a process of its own; they   *)
(* share the Gateway's credentials (gateway-credentials.json, one entry    *)
(* per team) and the identity (identity-token.json), each read without and *)
(* then again with its lock file held.  Refresh tokens rotate: one that    *)
(* was redeemed is dead.                                                   *)
(*                                                                         *)
(* Sources: gateway_credential.rs, token.rs and idp.rs in src/ai_tools.    *)
(* External: the Gateway, the IdP, the browser, the kernel's file locks.   *)
(***************************************************************************)
EXTENDS Naturals

CONSTANTS
  Hook,       \* the token hooks
  Desktop,    \* the exchanges of Claude Desktop
  Team,
  TeamOf,     \* the team of each command
  Start,      \* the device a run starts from: what is cached, how old it is
  Faults,     \* what may go wrong
  MaxFaults,  \* bound: how often
  MaxAges,    \* bound: steps of age of what is cached
  MaxQueue,   \* bound: connections that wait at the listener of a sign-in
  None

Command == Hook \cup Desktop

\* A token is named for what it was there for at first, or for the command
\* that got it and what the command needed it for.
Via == {"exchange", "fallback"}
Name == ((Team \cup {"session"}) \X {"initial"})
        \cup (Command \X (Via \cup {"credential"}))

\* A device starts with a refresh token of its own for each team and for the
\* identity, where it has one.
ASSUME TokensAssumption ==
  /\ Hook \cap Desktop = {}
  /\ TeamOf \in [Command -> Team]
  /\ "session" \notin Team /\ None \notin Command \cup Name
  /\ {MaxFaults, MaxAges, MaxQueue} \subseteq Nat
  /\ \A start \in Start :
       /\ DOMAIN start.credentials = Team
       /\ \A t \in Team : start.credentials[t] # None =>
            start.credentials[t].refresh \in {None, <<t, "initial">>}
       /\ start.session # None =>
            start.session.refresh \in {None, <<"session", "initial">>}

VARIABLES
  credentials,  \* the Gateway's credentials, by team, as they are on disk
  session,      \* the identity, as it is on disk
  life,         \* how much of the life of a token is left
  gwLock, idLock,
  hook,         \* the commands
  pages,        \* sign-in pages open in the browser
  spent,        \* refresh tokens that were redeemed and replaced
  orphaned,     \* those whose replacement never reached the disk
  replayed,     \* those that were redeemed again
  newest,       \* the credential issued last for each team, of those on disk
  faults, ages

vars == <<credentials, session, life, gwLock, idLock, hook, pages, spent,
          orphaned, replayed, newest, faults, ages>>
disk == <<credentials, session, newest>>
ghosts == <<spent, orphaned, replayed>>

\* A credential or a session is a record of its id and of the refresh token it
\* came with, or None.  The queue of a command is the connections that wait at
\* the listener of its sign-in and bring no callback.
\*
\* What is left of a credential: more than half of its life, more than the
\* skew, something, nothing: 3 to 0.  Of a session: the last three.

Idle == [at |-> "look", via |-> "exchange", store |-> [t \in Team |-> None],
         valid |-> FALSE, session |-> None, usable |-> FALSE,
         issued |-> None, registered |-> FALSE, queue |-> 0]

Init ==
  /\ \E start \in Start :
       /\ credentials = start.credentials
       /\ session = start.session
       /\ life = [n \in Name |-> IF n \in DOMAIN start.life
                                 THEN start.life[n] ELSE 3]
  /\ gwLock = None /\ idLock = None
  /\ hook = [h \in Command |-> Idle]
  /\ pages = {}
  /\ spent = {} /\ orphaned = {} /\ replayed = {}
  /\ newest = credentials
  /\ faults = 0 /\ ages = 0

-----------------------------------------------------------------------------
(* Cached tokens *)

\* A hook renews near expiry, Claude Desktop past half of the lifetime.
IsFresh(h, token) ==
  token # None /\ life[token.id] >= (IF h \in Hook THEN 2 ELSE 3)

IsValid(token) == token # None /\ life[token.id] > 0

\* A session with a refresh token is renewed ahead of its expiry, one without
\* is used up.
ReusesSession(token) ==
  token # None /\ life[token.id] >= (IF token.refresh = None THEN 1 ELSE 2)

Fails(kind) ==
  kind \in Faults /\ faults < MaxFaults /\ faults' = faults + 1

\* The entry of the command's team in what it read under the lock.
Cached(h) == hook[h].store[TeamOf[h]]

Moves(h, fields) == hook' = [hook EXCEPT ![h] =
  [f \in DOMAIN @ |-> IF f \in DOMAIN fields THEN fields[f] ELSE @[f]]]
To(h, at) == Moves(h, [at |-> at])

\* A command that is done keeps nothing of what it knew.
Ends(h, result) == hook' = [hook EXCEPT ![h] = [Idle EXCEPT !.at = result]]

-----------------------------------------------------------------------------
(* ensure_gateway_credential *)

\* The fallback of a hook: any failure but a refused exchange and a failed
\* sign-in sends the identity token instead.  Claude Desktop has none.
FallsBack(h, kind) == h \in Hook /\ kind \notin {"refused", "signIn"}

\* The lock goes with the command's end of the exchange, whatever its result.
Unresolved(h, kind) ==
  /\ gwLock' = None
  /\ IF FallsBack(h, kind)
     THEN Moves(h, [Idle EXCEPT !.at = "lookIdentity", !.via = "fallback"])
     ELSE Ends(h, "failed")

\* A renewal that failed leaves the credential in use while it is valid, which
\* was found out when the lock was taken.
Failed(h, kind) ==
  IF hook[h].valid THEN gwLock' = None /\ Ends(h, "printed")
  ELSE Unresolved(h, kind)

\* The look without the lock.
Look(h) ==
  /\ hook[h].at = "look"
  /\ IF IsFresh(h, credentials[TeamOf[h]]) THEN Ends(h, "printed")
     ELSE Moves(h, [at |-> "lock", store |-> credentials])
  /\ UNCHANGED <<disk, life, gwLock, idLock, pages, ghosts, faults, ages>>

\* Variant: what was read without the lock is used under it.
LockKeepingLook(h) ==
  /\ hook[h].at = "lock" /\ gwLock = None
  /\ gwLock' = h
  /\ Moves(h, [at |-> "discover", valid |-> IsValid(Cached(h))])
  /\ UNCHANGED <<disk, life, idLock, pages, ghosts, faults, ages>>

\* The file is read again under the lock: the command that waited finds what
\* the one before it stored.
Lock(h) ==
  /\ hook[h].at = "lock" /\ gwLock = None
  /\ IF IsFresh(h, credentials[TeamOf[h]])
     THEN Ends(h, "printed") /\ UNCHANGED gwLock
     ELSE /\ gwLock' = h
          /\ Moves(h, [at |-> "discover", store |-> credentials,
                       valid |-> IsValid(credentials[TeamOf[h]])])
  /\ UNCHANGED <<disk, life, idLock, pages, ghosts, faults, ages>>

\* The Gateway answers with its endpoints, with none, or not at all.
Discover(h) ==
  /\ hook[h].at = "discover"
  /\ \/ /\ To(h, IF Cached(h) # None /\ Cached(h).refresh # None
                 THEN "refresh" ELSE "lookIdentity")
        /\ UNCHANGED <<gwLock, faults>>
     \/ "unsupported" \in Faults /\ Unresolved(h, "unsupported")
        /\ UNCHANGED faults
     \/ Fails("gateway") /\ Failed(h, "gateway")
  /\ UNCHANGED <<disk, life, idLock, pages, ghosts, ages>>

Made(h) == <<h, "credential">>

\* Redeeming a refresh token: a dead one is refused; one that is redeemed may
\* be replaced, and is then dead.
Redeem(token) ==
  /\ replayed' = replayed \cup ({token} \cap spent)
  /\ UNCHANGED orphaned

\* What a renewal leaves: the new token with a refresh token of its own, or
\* with the one it was renewed by.
Renewed(old, id) ==
  {[id |-> id, refresh |-> r] : r \in {id, old.refresh}}

Refresh(h) ==
  LET old == Cached(h) IN
  /\ hook[h].at = "refresh"
  /\ \/ /\ old.refresh \notin spent
        /\ \E token \in Renewed(old, Made(h)) :
             /\ Moves(h, [at |-> "save", issued |-> token])
             /\ spent' = IF token.refresh = old.refresh THEN spent
                         ELSE spent \cup {old.refresh}
        /\ Redeem(old.refresh) /\ UNCHANGED <<gwLock, faults>>
     \/ /\ old.refresh \in spent \/ "refused" \in Faults
        /\ To(h, "lookIdentity")
        /\ Redeem(old.refresh) /\ UNCHANGED <<spent, gwLock, faults>>
     \/ /\ Fails("gateway") /\ Failed(h, "gateway")
        /\ replayed' = replayed \cup ({old.refresh} \cap spent)
        /\ \/ UNCHANGED <<spent, orphaned>>
           \/ /\ spent' = spent \cup {old.refresh}
              /\ orphaned' = orphaned \cup {old.refresh}
  /\ UNCHANGED <<disk, life, idLock, pages, ages>>

\* The exchange itself, under the client the cached credential names; a client
\* the Gateway does not know is registered, once.
Exchange(h) ==
  /\ hook[h].at = "exchange"
  /\ \/ /\ \E r \in {Made(h), None} :
             Moves(h, [at |-> "save",
                       issued |-> [id |-> Made(h), refresh |-> r]])
        /\ UNCHANGED <<gwLock, faults>>
     \/ /\ "unknownClient" \in Faults
        /\ IF hook[h].registered THEN Failed(h, "gateway")
           ELSE To(h, "register") /\ UNCHANGED gwLock
        /\ UNCHANGED faults
     \/ "refused" \in Faults /\ Failed(h, "refused") /\ UNCHANGED faults
     \/ Fails("gateway") /\ Failed(h, "gateway")
  /\ UNCHANGED <<disk, life, idLock, pages, ghosts, ages>>

Register(h) ==
  /\ hook[h].at = "register"
  /\ \/ Moves(h, [at |-> "exchange", registered |-> TRUE])
        /\ UNCHANGED <<gwLock, faults>>
     \/ Fails("gateway") /\ Failed(h, "gateway")
  /\ UNCHANGED <<disk, life, idLock, pages, ghosts, ages>>

\* A refresh token that was replaced, where the replacement is lost.
Orphans(h, old) ==
  orphaned' = IF old # None /\ old.refresh \in spent
              THEN orphaned \cup {old.refresh} ELSE orphaned

\* The entry replaces that of its team in what was read under the lock.
Upsert(h) == [hook[h].store EXCEPT ![TeamOf[h]] = hook[h].issued]

\* A credential that cannot be stored is not used either: the command fails,
\* or falls back, whatever it had.
Save(h) ==
  /\ hook[h].at = "save"
  /\ \/ /\ credentials' = Upsert(h)
        /\ newest' = [newest EXCEPT ![TeamOf[h]] = hook[h].issued]
        /\ gwLock' = None /\ Ends(h, "printed")
        /\ UNCHANGED <<orphaned, faults>>
     \/ /\ Fails("save") /\ Unresolved(h, "save")
        /\ Orphans(h, Cached(h))
        /\ UNCHANGED <<credentials, newest>>
  /\ UNCHANGED <<session, life, idLock, pages, spent, replayed, ages>>

-----------------------------------------------------------------------------
(* ensure_token *)

\* The identity token is what the exchange needs, or what the hook prints.
Identified(h) ==
  IF hook[h].via = "fallback" THEN Ends(h, "printed") /\ UNCHANGED gwLock
  ELSE /\ Moves(h, [at |-> IF Cached(h) = None THEN "register" ELSE "exchange",
                    session |-> None, usable |-> FALSE, issued |-> None])
       /\ UNCHANGED gwLock

Unidentified(h) ==
  IF hook[h].via = "fallback" THEN Ends(h, "failed") /\ UNCHANGED gwLock
  ELSE Failed(h, "signIn")

LookIdentity(h) ==
  /\ hook[h].at = "lookIdentity"
  /\ IF ReusesSession(session) THEN Identified(h)
     ELSE To(h, "lockIdentity") /\ UNCHANGED gwLock
  /\ UNCHANGED <<disk, life, idLock, pages, ghosts, faults, ages>>

\* A browser is for the hooks only.
SignsIn(h) == IF h \in Hook THEN To(h, "signIn") /\ UNCHANGED <<gwLock, idLock>>
              ELSE idLock' = None /\ Unidentified(h)

\* next_step on what the file holds by now.
LockIdentity(h) ==
  /\ hook[h].at = "lockIdentity" /\ idLock = None
  /\ IF ReusesSession(session) THEN Identified(h) /\ UNCHANGED idLock
     ELSE /\ idLock' = h
          /\ UNCHANGED gwLock
          /\ IF session # None /\ session.refresh # None
             THEN Moves(h, [at |-> "refreshIdentity", session |-> session,
                            usable |-> IsValid(session)])
             ELSE Moves(h, [at |-> "identify", session |-> session])
  /\ UNCHANGED <<disk, life, pages, ghosts, faults, ages>>

\* A refresh that fails falls back to the token that still has a while, then
\* to the browser.
NotRefreshed(h) ==
  IF hook[h].usable THEN idLock' = None /\ Identified(h)
  ELSE To(h, "identify") /\ UNCHANGED <<gwLock, idLock>>

RefreshIdentity(h) ==
  LET old == hook[h].session IN
  /\ hook[h].at = "refreshIdentity"
  /\ \/ /\ old.refresh \notin spent
        /\ \E token \in Renewed(old, <<h, hook[h].via>>) :
             /\ Moves(h, [at |-> "saveIdentity", issued |-> token])
             /\ spent' = IF token.refresh = old.refresh THEN spent
                         ELSE spent \cup {old.refresh}
        /\ Redeem(old.refresh) /\ UNCHANGED <<gwLock, idLock, faults>>
     \/ /\ old.refresh \in spent /\ NotRefreshed(h)
        /\ Redeem(old.refresh) /\ UNCHANGED <<spent, faults>>
     \/ /\ Fails("idp") /\ NotRefreshed(h)
        /\ replayed' = replayed \cup ({old.refresh} \cap spent)
        /\ \/ UNCHANGED <<spent, orphaned>>
           \/ /\ spent' = spent \cup {old.refresh}
              /\ orphaned' = orphaned \cup {old.refresh}
  /\ UNCHANGED <<disk, life, pages, ages>>

\* browser_sign_in: unattended commands stop here.
Identify(h) ==
  /\ hook[h].at = "identify"
  /\ SignsIn(h)
  /\ UNCHANGED <<disk, life, pages, ghosts, faults, ages>>

\* The IdP is asked for its endpoints, a listener opened, and the page.
Page(h) == <<h, hook[h].via>>

\* What a code is redeemed for: an IdP need not hand out a refresh token.
Redeemed(h) == {[id |-> Page(h), refresh |-> r] : r \in {Page(h), None}}

OpenPage(h) ==
  /\ hook[h].at = "signIn"
  /\ \/ /\ To(h, "callback") /\ pages' = pages \cup {Page(h)}
        /\ UNCHANGED <<gwLock, idLock, faults>>
     \/ /\ Fails("idp") /\ idLock' = None /\ Unidentified(h)
        /\ UNCHANGED pages
  /\ UNCHANGED <<disk, life, ghosts, ages>>

\* The developer finishes a page, maybe one of a command that is gone, and the
\* browser comes back to whoever listens: only the page with this sign-in's
\* state ends it, by a code that is redeemed for a session or by a refusal.
Callback(h, page) ==
  /\ hook[h].at = "callback" /\ page \in pages
  /\ pages' = pages \ {page}
  /\ \/ /\ page # Page(h)
        /\ UNCHANGED <<hook, gwLock, idLock, faults>>
     \/ /\ page = Page(h)
        /\ \E token \in Redeemed(h) :
             Moves(h, [at |-> "saveIdentity", issued |-> token, queue |-> 0])
        /\ UNCHANGED <<gwLock, idLock, faults>>
     \/ /\ page = Page(h)
        /\ Fails("idp") /\ idLock' = None /\ Unidentified(h)
  /\ UNCHANGED <<disk, life, ghosts, ages>>

\* Something else connects: the browser that asks for an icon or opens a
\* connection ahead of its need, a program that tries every port.
Connect(h) ==
  /\ hook[h].at = "callback" /\ hook[h].queue < MaxQueue
  /\ Moves(h, [queue |-> hook[h].queue + 1])
  /\ UNCHANGED <<disk, life, gwLock, idLock, pages, ghosts, faults, ages>>

\* Whoever connected says nothing for two seconds, or asks for what is not there
\* and is told so.
Unrelated(h) ==
  /\ hook[h].at = "callback" /\ hook[h].queue > 0
  /\ Moves(h, [queue |-> hook[h].queue - 1])
  /\ UNCHANGED <<disk, life, gwLock, idLock, pages, ghosts, faults, ages>>

\* Variant: the wait goes on while a page is open.
DeadlineWhenQuiet(h) ==
  /\ hook[h].at = "callback" /\ hook[h].queue = 0 /\ pages = {}
  /\ idLock' = None /\ Unidentified(h)
  /\ UNCHANGED <<disk, life, pages, ghosts, faults, ages>>

\* accept_before looks at the deadline when nobody waits to be accepted.
Deadline(h) ==
  /\ hook[h].at = "callback" /\ hook[h].queue = 0
  /\ idLock' = None /\ Unidentified(h)
  /\ UNCHANGED <<disk, life, pages, ghosts, faults, ages>>

SaveIdentity(h) ==
  /\ hook[h].at = "saveIdentity"
  /\ idLock' = None
  /\ \/ /\ session' = hook[h].issued /\ Identified(h)
        /\ UNCHANGED <<orphaned, faults>>
     \/ /\ Fails("save") /\ Unidentified(h)
        /\ Orphans(h, hook[h].session)
        /\ UNCHANGED session
  /\ UNCHANGED <<credentials, newest, life, pages, spent, replayed, ages>>

-----------------------------------------------------------------------------
(* The environment *)

Over(h) == hook[h].at \in {"printed", "failed"}

\* What a command that redeemed a refresh token has yet to replace on disk.
Unsaved(h) ==
  (IF hook[h].at = "save" THEN {Cached(h)}
   ELSE IF hook[h].at = "saveIdentity" THEN {hook[h].session}
   ELSE {}) \ {None}

\* The tool gives up on the hook and kills it: its locks go with it.
Kill(h) ==
  /\ ~Over(h) /\ Fails("kill")
  /\ gwLock' = IF gwLock = h THEN None ELSE gwLock
  /\ idLock' = IF idLock = h THEN None ELSE idLock
  /\ Ends(h, "failed")
  /\ orphaned' = orphaned \cup ({token.refresh : token \in Unsaved(h)} \cap spent)
  /\ UNCHANGED <<disk, life, pages, spent, replayed, ages>>

Age(token) ==
  /\ IsValid(token) /\ ages < MaxAges
  /\ life' = [life EXCEPT ![token.id] = @ - 1]
  /\ ages' = ages + 1
  /\ UNCHANGED <<disk, gwLock, idLock, hook, pages, ghosts, faults>>

-----------------------------------------------------------------------------
(* Specification *)

\* The steps a command takes of its own accord.
Step(h) ==
  \/ Look(h) \/ Lock(h) \/ Discover(h) \/ Refresh(h) \/ Exchange(h)
  \/ Register(h) \/ Save(h) \/ LookIdentity(h) \/ LockIdentity(h)
  \/ RefreshIdentity(h) \/ Identify(h) \/ OpenPage(h) \/ Unrelated(h)
  \/ Deadline(h) \/ SaveIdentity(h)

Next ==
  \/ \E h \in Command :
       Step(h) \/ Kill(h) \/ Connect(h) \/ \E p \in pages : Callback(h, p)
  \/ \E t \in Team : Age(credentials[t])
  \/ Age(session)

Spec == Init /\ [][Next]_vars

\* Processes run, requests time out and so does the wait for a page, once nobody
\* is at the listener; the developer may leave a page alone.
LiveSpec == Spec /\ \A h \in Command : WF_vars(Step(h))

-----------------------------------------------------------------------------
(* Properties *)

\* Concurrent token hooks take turns, so that one renewal serves them all
\* (lock_store, lock_cache): no refresh token, the Gateway's or the IdP's, is
\* redeemed again after it was replaced, unless its replacement never reached
\* the disk because the answer was lost, the save failed or the hook killed.
NoReplay == replayed \subseteq orphaned

\* Every team's entry is the credential that was stored for it last: a hook
\* that renews its own team's never brings back an older one of another team,
\* which a rotation since may have killed (upsert over what was read under the
\* lock).
StoreIsNewest == credentials = newest

\* Every command ends, whatever the Gateway, the IdP and the developer do and
\* whoever holds the locks: the wait for a page has a deadline, and locks go
\* with the step that ends the need for them or with the process.  The deadline
\* is looked at only when nobody waits to be accepted (accept_before), so the
\* connections that bring nothing have to cease.
EveryHookEnds ==
  (\A h \in Hook : <>[][~Connect(h)]_vars) => \A h \in Command : <>Over(h)
=============================================================================
