---------------------------- MODULE BrokerSteps -----------------------------
(* What the operators of Settings and the helpers of the broker return, what  *)
(* keeps its inductive invariant when a thread takes a step, and that every   *)
(* step does: one lemma for each action.  A lemma names the memory the thread *)
(* goes on with, shows its type and what it keeps of the old one, then the    *)
(* two parts of the invariant that are its own: the types, and ThreadInv of   *)
(* the thread that steps.                                                     *)
EXTENDS Broker, TLAPS

-----------------------------------------------------------------------------
(* What the operators of Settings return *)

\* The entries found in the list of environments are entries of it.
LEMMA EnvironmentsFound ==
  ASSUME NEW s \in Setting, NEW url, NEW name
  PROVE  /\ EnvironmentWithUrl(s, url) \subseteq Entry
         /\ EnvironmentNamed(s, name) \subseteq Entry
         /\ \A e \in EnvironmentWithUrl(s, url) : e.url = url
         /\ \A e \in EnvironmentNamed(s, name) : e.name = name
  <1>1. \A i \in DOMAIN s.environments : s.environments[i] \in Entry
    BY DEF Setting
  <1> QED
    BY <1>1 DEF EnvironmentWithUrl, EnvironmentNamed

\* The team keys are minted for is a team, or none.
LEMMA ManagedTeamType ==
  ASSUME NEW s \in Setting
  PROVE  ManagedTeam(s) \in MaybeTeam
  <1> DEFINE default == {e.team : e \in CurrentEnvironment(s)} \ {NoTeam}
  <1>1. default \subseteq MaybeTeam
    BY EnvironmentsFound DEF CurrentEnvironment, Entry
  <1>2. default # {} => (CHOOSE team \in default : TRUE) \in MaybeTeam
    BY <1>1
  <1>3. s.team \in MaybeTeam /\ s.tools \in MaybeTeam /\ NoTeam \in MaybeTeam
    BY DEF Setting, MaybeTeam
  <1> QED
    BY <1>2, <1>3 DEF ManagedTeam

\* The target the broker derives from settings is well formed.
LEMMA TargetOfType ==
  ASSUME NEW s \in Setting, NEW version \in Nat
  PROVE  TargetOf(s, version) \in TargetType
  <1>1. ModeOf(s) \in Mode
    BY DEF ModeOf, Mode, Setting
  <1> QED
    BY <1>1, ManagedTeamType DEF TargetOf, TargetType, Setting

LEMMA PreviousType ==
  ASSUME NEW s \in Setting, NEW kind \in {"team", "environment"}
  PROVE  Previous(kind, s) \in Patch
  BY DEF Previous, Patch, Setting

LEMMA TeamPatchType ==
  ASSUME NEW s \in Setting, NEW team \in Team
  PROVE  TeamPatch(s, team) \in Patch
  BY PreviousType DEF TeamPatch, Previous, Patch, Setting, MaybeTeam

LEMMA EnvironmentPatchType ==
  ASSUME NEW s \in Setting, NEW entry \in Entry
  PROVE  EnvironmentPatch(s, entry) \in Patch
  BY DEF EnvironmentPatch, Patch, Setting, Entry, MaybeTeam

LEMMA AppliedType ==
  ASSUME NEW s \in Setting, NEW patch \in Patch
  PROVE  Applied(patch, s) \in Setting
  BY DEF Applied, Patch, Setting

\* What a switch changes is undone by the patch that was taken beforehand:
\* the settings are the ones the switch started from.
THEOREM PreviousUndoesApplied ==
  ASSUME NEW s \in Setting, NEW patch \in Patch
  PROVE  Applied(Previous(patch.kind, s), Applied(patch, s)) = s
  <1>1. CASE patch.kind = "team"
    BY <1>1 DEF Applied, Previous, Patch, Setting
  <1>2. CASE patch.kind # "team"
    BY <1>2 DEF Applied, Previous, Patch, Setting
  <1> QED
    BY <1>1, <1>2

USE BrokerAssumption DEF Goto, Become, quiet

-----------------------------------------------------------------------------
(* What the helpers return *)

LEMMA Defaults ==
  /\ Began \in Setting /\ AnyGateway \in Gateway
  /\ NoTarget \in TargetType /\ NoHold \in Hold /\ NoAnswer \in Answer
  /\ Blank \in Local
  <1>1. Began \in Setting
    BY DEF Began
  <1>2. AnyGateway \in Gateway
    BY DEF AnyGateway
  <1>3. NoTarget \in TargetType /\ NoHold \in Hold /\ NoAnswer \in Answer
    BY <1>2 DEF NoTarget, NoHold, NoAnswer, TargetType, Hold, Answer, MaybeTeam,
                Mode
  <1>4. Previous("team", Began) \in Patch
    BY <1>1, PreviousType
  <1> QED
    BY <1>1, <1>2, <1>3, <1>4 DEF Blank, Local, Label, Time

LEMMA RefusedType ==
  ASSUME NEW reason \in Reason
  PROVE  Refused(reason) \in Answer /\ Refused(reason).kind = "refused"
  BY Defaults DEF Refused, Answer

LEMMA IssuedType ==
  ASSUME NEW token \in Token
  PROVE  Issued(token) \in Answer
  BY DEF Issued, Token, Answer

LEMMA TokenTypes ==
  /\ \A key \in Key : KeyToken(key) \in Token /\ KeyToken(key).url = key.url
  /\ \A c \in Credential : /\ CredentialToken(c) \in Token
                           /\ CredentialToken(c).url = c.url
  /\ \A at \in TargetType, id \in Nat,
        source \in {"identity_token", "static_key", "proxy_token"} :
          /\ TargetToken(source, at, id) \in Token
          /\ TargetToken(source, at, id).url = at.url
  BY DEF KeyToken, CredentialToken, TargetToken, Token, Key, Credential,
         TargetType

LEMMA DirectAnswerType ==
  ASSUME NEW at \in TargetType
  PROVE  /\ DirectAnswer(at) \in Answer
         /\ DirectAnswer(at).kind = "credential" =>
              DirectAnswer(at).token.url = at.url
  <1>2. TargetToken("static_key", at, 0) \in Token
    BY TokenTypes
  <1>3. CASE at.mode \in StaticKey
    BY <1>2, <1>3, TokenTypes, IssuedType DEF DirectAnswer, Issued
  <1>4. CASE at.mode \notin StaticKey
    BY <1>4, RefusedType DEF DirectAnswer, Reason
  <1> QED
    BY <1>3, <1>4

LEMMA HoldNowType ==
  ASSUME state \in State
  PROVE  HoldNow \in Hold
  BY DEF HoldNow, Hold, State

LEMMA ForgottenType ==
  ASSUME state \in State, NEW signsOut \in BOOLEAN
  PROVE  /\ Forgotten(signsOut) \in State
         /\ Forgotten(signsOut).key = None
         /\ Forgotten(signsOut).credential = None
  BY DEF Forgotten, State

LEMMA CachedType ==
  ASSUME state \in State, NEW at
  PROVE  /\ Cached(at) \in Credential \cup {None}
         /\ Cached(at) # None => /\ Cached(at) = state.credential
                                 /\ Cached(at).url = at.url
                                 /\ Cached(at).team = at.team
  BY DEF Cached, State

LEMMA NewTypes ==
  ASSUME serial \in Nat, NEW at \in TargetType
  PROVE  NewKey(at) \in Key /\ NewCredential(at) \in Credential
  BY DEF NewKey, NewCredential, Key, Credential, TargetType

-----------------------------------------------------------------------------
(* The inductive invariant *)

LEMMA InitInv == Init => Inv
  <1> SUFFICES ASSUME Init PROVE Inv
    OBVIOUS
  <1>1. TypeOK
    <2>1. PICK s \in Installed : /\ file = [version |-> 1, settings |-> s]
                                /\ target = TargetOf(s, 1)
      BY DEF Init
    <2>2. file \in [version : Nat, settings : Setting \cup {Malformed}]
          /\ target \in TargetType
      BY <2>1, TargetOfType
    <2>3. state \in State /\ clock \in Time
      BY DEF Init, State, Time
    <2>4. pc \in [Thread -> Label] /\ mem \in [Thread -> Local]
      BY Defaults DEF Init, Label
    <2> QED
      BY <2>2, <2>3, <2>4 DEF Init, TypeOK
  <1>2. ASSUME NEW t \in Thread PROVE ThreadInv(t)
    BY <1>1 DEF Init, ThreadInv, Locked, ReturnsWell, Returns, IssuesForTarget,
       LeavesNothing, BearerIsKept, HoldsWhatWasIssued, AnswersForTarget,
       Forwards, For, Backed, Blank, NoHold
  <1> QED
    BY <1>1, <1>2 DEF Inv, Init, StateForTarget, For, Backed

\* A step of one thread keeps what the invariant says of another one: either it
\* takes the renewal lock along, and the other is at no step that needs the
\* lock, or it leaves alone what the lock guards.
LEMMA Others ==
  ASSUME Inv, NEW t \in Thread, NEW u \in Thread, u # t,
         pc'[u] = pc[u], mem'[u] = mem[u],
         \/ renewal \in {t, None}
         \/ /\ target' = target /\ state'.key = state.key
            /\ state'.credential = state.credential
            /\ renewal' = renewal \/ renewal = None
  PROVE  ThreadInv(u)'
  <1>1. ThreadInv(u)
    BY DEF Inv
  <1>2. CASE pc[u] \notin Locked
    BY <1>1, <1>2 DEF ThreadInv, Locked, ReturnsWell, IssuesForTarget,
       LeavesNothing, BearerIsKept, HoldsWhatWasIssued, AnswersForTarget,
       Forwards
  <1>3. CASE pc[u] \in Locked
    <2>1. renewal = u /\ renewal' = u
      BY <1>1, <1>3 DEF ThreadInv
    <2>2. target' = target /\ state'.key = state.key
          /\ state'.credential = state.credential
      BY <2>1
    <2> QED
      BY <1>1, <2>1, <2>2 DEF ThreadInv, ReturnsWell, IssuesForTarget,
         LeavesNothing, BearerIsKept, HoldsWhatWasIssued, AnswersForTarget,
         Forwards
  <1> QED
    BY <1>2, <1>3

-----------------------------------------------------------------------------
(* Steps *)

\* A step whose thread keeps its part, and the state its own, keeps the whole.
LEMMA Step ==
  ASSUME Inv, NEW t \in Thread, TypeOK', StateForTarget', ThreadInv(t)',
         \A u \in Thread \ {t} : pc'[u] = pc[u] /\ mem'[u] = mem[u],
         \/ renewal \in {t, None}
         \/ /\ target' = target /\ state'.key = state.key
            /\ state'.credential = state.credential
            /\ renewal' = renewal \/ renewal = None
  PROVE  Inv'
  <1>1. ASSUME NEW u \in Thread PROVE ThreadInv(u)'
    BY Others
  <1> QED
    BY <1>1 DEF Inv

\* The case of a step that serves nothing else and may take or drop a lock.
LEMMA Unserved ==
  ASSUME Inv, NEW t \in Thread, NEW label \in Label, NEW m \in Local, TypeOK',
         pc' = [pc EXCEPT ![t] = label], mem' = [mem EXCEPT ![t] = m],
         ThreadInv(t)', target' = target, state'.key = state.key,
         state'.credential = state.credential,
         renewal' = renewal \/ renewal \in {t, None}
  PROVE  Inv'
  <1>1. StateForTarget'
    BY DEF Inv, StateForTarget, For, Backed
  <1>2. \A u \in Thread \ {t} : pc'[u] = pc[u] /\ mem'[u] = mem[u]
    BY DEF Inv, TypeOK
  <1> QED
    BY <1>1, <1>2, Step

\* The case of a step that changes nothing but where its thread is and what it
\* remembers.
LEMMA Quiet ==
  ASSUME Inv, NEW t \in Thread, NEW label \in Label, NEW m \in Local,
         pc' = [pc EXCEPT ![t] = label], mem' = [mem EXCEPT ![t] = m],
         UNCHANGED <<file, target, state, renewal, switching, live, clock,
                     serial, handed, started, stopped>>,
         ThreadInv(t)'
  PROVE  Inv'
  <1>1. TypeOK'
    BY DEF Inv, TypeOK
  <1> QED
    BY <1>1, Unserved

\* The case of a step under the renewal lock, or one that takes it.
LEMMA Holding ==
  ASSUME Inv, NEW t \in Thread, NEW label \in Label, NEW m \in Local, TypeOK',
         pc' = [pc EXCEPT ![t] = label], mem' = [mem EXCEPT ![t] = m],
         renewal \in {t, None}, StateForTarget', ThreadInv(t)'
  PROVE  Inv'
  <1>1. \A u \in Thread \ {t} : pc'[u] = pc[u] /\ mem'[u] = mem[u]
    BY DEF Inv, TypeOK
  <1> QED
    BY <1>1, Step

\* The parts of a thread's memory the invariant speaks of, and that most steps
\* leave alone.
Kept(m, n) ==
  /\ n.req = m.req /\ n.ret = m.ret /\ n.moving = m.moving
  /\ n.before = m.before /\ n.held = m.held

\* What a thread remembers with a target that it read.
LEMMA SeenType ==
  ASSUME NEW m \in Local, NEW seen \in TargetType
  PROVE  LET n == [m EXCEPT !.seen = seen] IN n \in Local /\ Kept(m, n)
  BY DEF Local, Kept

LEMMA AtType ==
  ASSUME NEW m \in Local, NEW at \in TargetType
  PROVE  LET n == [m EXCEPT !.at = at] IN
         n \in Local /\ Kept(m, n) /\ n.at = at /\ n.out = m.out
  BY DEF Local, Kept

\* What a thread remembers of what it is to delete.
LEMMA DoomedType ==
  ASSUME NEW m \in Local, NEW hold \in Hold, NEW url \in Gateway,
         NEW after \in Label
  PROVE  LET n == Doomed(m, hold, url, after) IN
         /\ n \in Local /\ Kept(m, n) /\ n.then = after
         /\ n.phase = m.phase /\ n.at = m.at /\ n.next = m.next
         /\ n.bearer = m.bearer /\ n.out = m.out
  BY ZenonT(40) DEF Doomed, Local, Kept

\* Steps at which a thread holds no lock it relies on.
Free == {"admit", "account", "issue", "lockIssue", "present",
         "proxyKey", "proxyToken", "pair", "lockSignIn", "lockSignOut",
         "finish", "lockSwitch", "status", "report", "lockTick",
         "lockShutdown", "switched"}

USE DEF Locked, ReturnsWell, Returns, IssuesForTarget, LeavesNothing,
        BearerIsKept, HoldsWhatWasIssued, AnswersForTarget, Forwards, For,
        Backed

\* A request that is none of the proxy's may come to any such step.
LEMMA Freed ==
  ASSUME TypeOK, NEW t \in Thread, ThreadInv(t), NEW label \in Free,
         NEW m \in Local, pc' = [pc EXCEPT ![t] = label],
         mem' = [mem EXCEPT ![t] = m], Kept(mem[t], m),
         mem[t].req \in Request, mem[t].req.op # "bearer_for_proxy"
  PROVE  ThreadInv(t)'
  BY DEF TypeOK, ThreadInv, Kept, Free

LEMMA FreedQuietly ==
  ASSUME Inv, NEW t \in Thread, NEW label \in Free,
         NEW m \in Local, pc' = [pc EXCEPT ![t] = label],
         mem' = [mem EXCEPT ![t] = m], Kept(mem[t], m),
         mem[t].req \in Request, mem[t].req.op # "bearer_for_proxy",
         UNCHANGED <<file, target, state, renewal, switching, live, clock,
                     serial, handed, started, stopped>>
  PROVE  Inv'
  <1>1. TypeOK /\ ThreadInv(t)
    BY DEF Inv
  <1>2. ThreadInv(t)' /\ label \in Label
    BY ZenonT(40), <1>1, Freed DEF Free, Label
  <1> QED
    BY <1>2, Quiet

\* Where a thread goes once the settings are applied, and with which lock.
LEMMA Returned ==
  ASSUME TypeOK, NEW t \in Thread, ThreadInv(t), Return(t),
         pc[t] \in {"apply", "retarget"}
  PROVE  \E label \in Returns \cup {"reissue", "settle", "idle"} :
           /\ label = mem[t].ret
           /\ pc' = [pc EXCEPT ![t] = label]
           /\ renewal = t
           /\ renewal' = IF label \in {"reissue", "settle"} THEN t ELSE None
  BY DEF Return, ThreadInv

LEMMA ServedWell ==
  ASSUME NEW op, NEW out
  PROVE  Served(op, out) \in {"finish", "proxyToken", "pair", "switched"}
  BY DEF Served

\* What is served at once: a static key, or the key that is held.
LEMMA KeyAnswer ==
  ASSUME TypeOK, NEW now, KeyIsFresh(now)
  PROVE  /\ KeyToken(state.key) \in Token
         /\ Issued(KeyToken(state.key)) \in Answer
         /\ Issued(KeyToken(state.key)).token.url = state.key.url
         /\ Issued(KeyToken(state.key)).url = state.key.url
  <1>1. state.key \in Key
    BY DEF TypeOK, State, KeyIsFresh
  <1>2. KeyToken(state.key) \in Token /\ KeyToken(state.key).url = state.key.url
    BY <1>1, TokenTypes
  <1> QED
    BY <1>2, IssuedType DEF Issued

\* A request that is not the proxy's: the proxy's is at none of these steps.
LEMMA NotTheProxys ==
  ASSUME NEW t \in Thread, ThreadInv(t),
         pc[t] \in {"snapshot", "lockSwitching", "admit", "account", "issue",
                    "pair", "proxyToken", "status", "report", "lockSignIn",
                    "lockSignOut", "lockTick", "lockShutdown", "plan",
                    "lockSwitch", "store", "restore", "settle", "reissue",
                    "switched", "explicit", "extend"}
  PROVE  mem[t].req \in Request /\ mem[t].req.op # "bearer_for_proxy"
  BY DEF ThreadInv

\* What a request is told of where the broker is.
LEMMA OutcomeType ==
  ASSUME TypeOK, NEW kind \in {"status", "switched"}
  PROVE  [NoAnswer EXCEPT !.kind = kind, !.url = target.url,
                          !.team = target.team] \in Answer
  <1>1. target.url \in Gateway /\ target.team \in MaybeTeam
    BY DEF TypeOK, TargetType
  <1>2. NoAnswer \in Answer
    BY Defaults
  <1> QED
    BY <1>1, <1>2 DEF Answer

LEMMA NamedType ==
  ASSUME NEW out \in Answer, NEW at \in TargetType
  PROVE  /\ Named(out, at) \in Answer
         /\ Named(out, at).url = at.url /\ Named(out, at).token = out.token
         /\ Named(out, at).kind = out.kind
  BY DEF Named, Answer, TargetType
\* The steps of issue_from_session up to the credential.
Resolves == {"resolve", "identity", "browser", "exchange"}

\* A thread that goes from one of these steps to another keeps the invariant if
\* it keeps the target it issues for, and answers, if at all, for that one.
LEMMA Resolved ==
  ASSUME Inv, NEW t \in Thread, pc[t] \in Resolves,
         NEW label \in Resolves \cup {"keep"}, NEW m \in Local,
         pc' = [pc EXCEPT ![t] = label], mem' = [mem EXCEPT ![t] = m],
         Kept(mem[t], m), m.at = mem[t].at, m.phase = mem[t].phase,
         m.out.kind = "credential" => m.out.token.url = m.at.url,
         label = "keep" => /\ For(m.bearer, m.at)
                           /\ m.bearer # None => ~m.bearer.dead,
         UNCHANGED <<target, renewal>>,
         state'.key = state.key, state'.credential = state.credential
  PROVE  ThreadInv(t)'
  <1>1. TypeOK /\ ThreadInv(t)
    BY DEF Inv
  <1> QED
    BY <1>1 DEF TypeOK, ThreadInv, Kept, Resolves

LEMMA ResolvedQuietly ==
  ASSUME Inv, NEW t \in Thread, pc[t] \in Resolves,
         NEW label \in Resolves \cup {"keep"}, NEW m \in Local,
         pc' = [pc EXCEPT ![t] = label], mem' = [mem EXCEPT ![t] = m],
         Kept(mem[t], m), m.at = mem[t].at, m.phase = mem[t].phase,
         m.out.kind = "credential" => m.out.token.url = m.at.url,
         label = "keep" => /\ For(m.bearer, m.at)
                           /\ m.bearer # None => ~m.bearer.dead,
         serial' \in Nat, state' \in State,
         UNCHANGED <<file, target, renewal, switching, live, clock, handed,
                     started, stopped>>,
         state'.key = state.key, state'.credential = state.credential
  PROVE  Inv'
  <1>1. ThreadInv(t)' /\ label \in Label
    BY Resolved DEF Resolves, Label
  <1>2. TypeOK'
    BY <1>1 DEF Inv, TypeOK
  <1> QED
    BY <1>1, <1>2, Unserved

\* What a thread at one of these steps knows.
LEMMA Resolver ==
  ASSUME Inv, NEW t \in Thread, pc[t] \in Resolves
  PROVE  /\ mem[t] \in Local /\ mem[t].at = target /\ mem[t].at.mode \in Idp
         /\ mem[t].at \in TargetType /\ state \in State /\ serial \in Nat
         /\ serial + 1 \in Nat /\ clock \in Time
         /\ mem[t].out.kind = "credential" =>
              mem[t].out.token.url = mem[t].at.url
         /\ mem[t].req \in Request /\ renewal = t
  BY DEF Inv, TypeOK, ThreadInv, Resolves, Local

LEMMA ResolvingType ==
  ASSUME NEW t \in Thread, mem[t] \in Local, state \in State
  PROVE  /\ Resolving(t) \in Local /\ Kept(mem[t], Resolving(t))
         /\ Resolving(t).at = mem[t].at /\ Resolving(t).phase = mem[t].phase
         /\ Resolving(t).out = mem[t].out
  BY DEF Resolving, Local, Kept, State

\* What an error leaves: the cached credential while it lasts, and a refusal.
LEMMA FallBackType ==
  ASSUME state \in State, NEW m \in Local, NEW reason \in Reason,
         m.at.mode \in Idp
  PROVE  LET n == FallBack(m, reason) IN
         /\ n \in Local /\ Kept(m, n) /\ n.at = m.at /\ n.phase = m.phase
         /\ n.out.kind = "refused"
         /\ For(n.bearer, n.at)
         /\ n.bearer # None => ~n.bearer.dead
  <1> DEFINE c == Cached(m.at)
             b == IF Valid(c, m.now) THEN c ELSE None
             n == [m EXCEPT !.bearer = b, !.out = Refused(reason)]
  <1>1. /\ b \in Credential \cup {None} /\ For(b, m.at)
        /\ b # None => ~b.dead
    BY CachedType DEF Valid
  <1>2. FallBack(m, reason) = n
    BY DEF FallBack
  <1> HIDE DEF b
  <1>3. Refused(reason) \in Answer /\ Refused(reason).kind = "refused"
    BY RefusedType
  <1>4. n \in Local
    BY <1>1, <1>3 DEF Local
  <1>5. /\ Kept(m, n) /\ n.at = m.at /\ n.phase = m.phase
        /\ n.out = Refused(reason) /\ n.bearer = b
    BY DEF Local, Kept
  <1> HIDE DEF n
  <1> QED
    BY <1>1, <1>2, <1>3, <1>4, <1>5
\* What a thread with a credential to mint or to extend with knows.
LEMMA Bearing ==
  ASSUME Inv, NEW t \in Thread, pc[t] \in {"keep", "mint", "dead", "extend"}
  PROVE  /\ mem[t] \in Local /\ state \in State /\ serial \in Nat
         /\ serial + 1 \in Nat /\ clock \in Time
         /\ mem[t].at \in TargetType /\ mem[t].at = target
         /\ target.mode \in Idp
         /\ mem[t].req \in Request /\ renewal = t /\ mem \in [Thread -> Local]
         /\ mem[t].bearer \in Credential \cup {None}
         /\ For(mem[t].bearer, target)
         /\ pc[t] # "keep" => mem[t].bearer # None
         /\ pc[t] \in {"keep", "mint"} /\ mem[t].bearer # None
              => ~mem[t].bearer.dead
         /\ pc[t] \in {"mint", "dead"} => state.credential = mem[t].bearer
         /\ mem[t].out.kind = "credential" =>
              mem[t].out.token.url = mem[t].at.url
  BY DEF Inv, TypeOK, ThreadInv, Local

LEMMA MarkedDeadType ==
  ASSUME state \in State, NEW bearer \in Credential
  PROVE  /\ MarkedDead(bearer) \in State
         /\ MarkedDead(bearer).key = None
         /\ MarkedDead(bearer).credential # None =>
              /\ MarkedDead(bearer).credential.url = bearer.url
              /\ MarkedDead(bearer).credential.team = bearer.team
  <1> DEFINE c == [bearer EXCEPT !.dead = TRUE]
  <1>1. c \in Credential /\ c.url = bearer.url /\ c.team = bearer.team
    BY DEF Credential
  <1>2. MarkedDead(bearer) = [state EXCEPT !.credential = c, !.key = None,
                                           !.mintRefusal = None]
    BY DEF MarkedDead
  <1> HIDE DEF c
  <1> QED
    BY <1>1, <1>2 DEF State

-----------------------------------------------------------------------------
(* Settings are applied *)

LEMMA FinishInv == ASSUME Inv, NEW t \in Thread, Finish(t) PROVE Inv'
  <1> DEFINE m == [Blank EXCEPT !.req = mem[t].req, !.out = mem[t].out]
  <1>1. TypeOK /\ ThreadInv(t)
    BY DEF Inv
  <1>2. m \in Local /\ m.req = mem[t].req /\ m.out = mem[t].out
    BY ZenonT(40), <1>1, Defaults DEF TypeOK, Local
  <1>3. m.ret = "idle" /\ m.held = NoHold /\ m.phase = "first" /\ ~m.moving
    BY DEF Blank
  <1> HIDE DEF m
  <1>4. /\ pc[t] = "finish"
        /\ mem' = [mem EXCEPT ![t] = m] /\ pc' = [pc EXCEPT ![t] = "idle"]
    BY DEF Finish, m
  <1>5. TypeOK'
    BY <1>1, <1>2, <1>4 DEF Finish, TypeOK, Label, external
  <1>6. ThreadInv(t)'
    BY <1>1, <1>2, <1>3, <1>4 DEF ThreadInv, TypeOK, NoHold
  <1>7. /\ target' = target /\ state' = state
        /\ renewal' = renewal \/ renewal \in {t, None}
    BY DEF Finish
  <1> QED
    BY <1>2, <1>4, <1>5, <1>6, <1>7, Unserved DEF Label

LEMMA RefreshInv == ASSUME Inv, NEW t \in Thread, Refresh(t) PROVE Inv'
  <1>1. TypeOK /\ ThreadInv(t)
    BY DEF Inv
  <1>2. PICK label \in Returns \cup {"lockRefresh"} :
          /\ pc[t] = "refresh" /\ pc' = [pc EXCEPT ![t] = label]
          /\ label = "lockRefresh" \/ label = mem[t].ret
    BY <1>1 DEF Refresh, ThreadInv
  <1>3. ThreadInv(t)'
    BY <1>1, <1>2 DEF Refresh, TypeOK, ThreadInv
  <1>4. mem' = [mem EXCEPT ![t] = mem[t]] /\ mem[t] \in Local /\ label \in Label
    BY <1>1, <1>2 DEF Refresh, TypeOK, Label
  <1> QED
    BY <1>2, <1>3, <1>4, Quiet DEF Refresh, external

LEMMA LockRefreshInv == ASSUME Inv, NEW t \in Thread, LockRefresh(t) PROVE Inv'
  <1>1. TypeOK /\ ThreadInv(t)
    BY DEF Inv
  <1>2. TypeOK'
    BY <1>1 DEF LockRefresh, TypeOK, Label, external
  <1>3. ThreadInv(t)'
    BY <1>1 DEF LockRefresh, TypeOK, ThreadInv
  <1>4. mem' = [mem EXCEPT ![t] = mem[t]] /\ mem[t] \in Local
    BY <1>1 DEF LockRefresh, TypeOK
  <1> QED
    BY <1>2, <1>3, <1>4, Unserved DEF LockRefresh, Label

LEMMA SkipRefreshInv == ASSUME Inv, NEW t \in Thread, SkipRefresh(t) PROVE Inv'
  <1>1. TypeOK /\ ThreadInv(t)
    BY DEF Inv
  <1>2. PICK label \in NeverWaits :
          /\ pc[t] = "lockRefresh" /\ pc' = [pc EXCEPT ![t] = label]
          /\ label = mem[t].ret
    BY DEF SkipRefresh
  <1>3. ThreadInv(t)'
    BY <1>1, <1>2 DEF SkipRefresh, TypeOK, NeverWaits, ThreadInv
  <1>4. mem' = [mem EXCEPT ![t] = mem[t]] /\ mem[t] \in Local /\ label \in Label
    BY <1>1, <1>2 DEF SkipRefresh, TypeOK, Label, NeverWaits
  <1> QED
    BY <1>2, <1>3, <1>4, Quiet DEF SkipRefresh, external

LEMMA ApplyNothingInv == ASSUME Inv, NEW t \in Thread, ApplyNothing(t) PROVE Inv'
  <1>1. TypeOK /\ ThreadInv(t)
    BY DEF Inv
  <1>2. PICK label \in Returns \cup {"reissue", "settle", "idle"} :
           /\ label = mem[t].ret
           /\ pc' = [pc EXCEPT ![t] = label]
           /\ renewal = t
           /\ renewal' = IF label \in {"reissue", "settle"} THEN t ELSE None
    BY <1>1, Returned DEF ApplyNothing
  <1>3. TypeOK'
    BY <1>1, <1>2 DEF ApplyNothing, TypeOK, Label, external
  <1>4. ThreadInv(t)'
    BY <1>1, <1>2 DEF ApplyNothing, TypeOK, ThreadInv
  <1>5. /\ mem' = [mem EXCEPT ![t] = mem[t]] /\ mem[t] \in Local
        /\ label \in Label
    BY <1>1, <1>2 DEF ApplyNothing, TypeOK, Label
  <1> QED
    BY <1>2, <1>3, <1>4, <1>5, Unserved DEF ApplyNothing

LEMMA DropTokenInv == ASSUME Inv, NEW t \in Thread, DropToken(t) PROVE Inv'
  <1>1. TypeOK /\ ThreadInv(t)
    BY DEF Inv
  <1>2. /\ state' \in State /\ state'.key = state.key
        /\ state'.credential = state.credential
    BY <1>1 DEF DropToken, TypeOK, State
  <1>3. TypeOK'
    BY <1>1, <1>2 DEF DropToken, TypeOK, Label, external
  <1>4. ThreadInv(t)'
    BY <1>1, <1>2 DEF DropToken, TypeOK, ThreadInv
  <1>5. mem' = [mem EXCEPT ![t] = mem[t]] /\ mem[t] \in Local
    BY <1>1 DEF DropToken, TypeOK
  <1> QED
    BY <1>2, <1>3, <1>4, <1>5, Unserved DEF DropToken, Label

\* The target moves: what would be served is for the new one, or gone.
LEMMA RetargetInv == ASSUME Inv, NEW t \in Thread, Retarget(t) PROVE Inv'
  <1>1. TypeOK /\ ThreadInv(t) /\ StateForTarget
    BY DEF Inv
  <1>2. PICK label \in Returns \cup {"reissue", "settle", "idle"} :
           /\ label = mem[t].ret
           /\ pc' = [pc EXCEPT ![t] = label]
           /\ renewal = t
           /\ renewal' = IF label \in {"reissue", "settle"} THEN t ELSE None
    BY <1>1, Returned DEF Retarget
  <1>3. TypeOK'
    BY <1>1, <1>2 DEF Retarget, TypeOK, Label, Local, external
  <1>4. StateForTarget'
    BY <1>1 DEF Retarget, StateForTarget, ThreadInv
  <1>5. ThreadInv(t)'
    BY <1>1, <1>2 DEF Retarget, TypeOK, ThreadInv
  <1>6. /\ mem' = [mem EXCEPT ![t] = mem[t]] /\ mem[t] \in Local
        /\ label \in Label
    BY <1>1, <1>2 DEF Retarget, TypeOK, Label
  <1> QED
    BY <1>2, <1>3, <1>4, <1>5, <1>6, Holding

LEMMA ApplyInv == ASSUME Inv, NEW t \in Thread, Apply(t) PROVE Inv'
  <1> DEFINE s == file.settings
             next == TargetOf(s, file.version)
             m == [mem[t] EXCEPT !.next = next]
             n == Doomed(m, HoldNow, target.url, "dropToken")
  <1>1. TypeOK /\ ThreadInv(t) /\ pc[t] = "apply"
    BY DEF Inv, Apply
  <1>2. s \in Setting /\ next \in TargetType
    BY <1>1, TargetOfType DEF Apply, TypeOK
  <1>3. m \in Local /\ Kept(mem[t], m) /\ m.phase = mem[t].phase /\ m.next = next
    BY <1>1, <1>2 DEF TypeOK, Local, Kept
  <1>4. /\ n \in Local /\ Kept(mem[t], n) /\ n.phase = mem[t].phase
        /\ n.next = next /\ n.then = "dropToken"
    <2>1. HoldNow \in Hold /\ target.url \in Gateway
      BY <1>1, HoldNowType DEF TypeOK, TargetType
    <2> HIDE DEF m
    <2>2. /\ n \in Local /\ Kept(m, n) /\ n.phase = m.phase
          /\ n.next = m.next /\ n.then = "dropToken"
      <3>1. m \in Local /\ "dropToken" \in Label
        BY <1>3 DEF Label
      <3> HIDE DEF next
      <3> QED
        BY <2>1, <3>1, DoomedType
    <2> QED
      BY <1>3, <2>2 DEF Kept
  <1>5. SignsOut(s, next) \in BOOLEAN
    BY DEF SignsOut
  <1>6. CASE Leaves(s, next)
    <2>1. PICK label \in {"retire", "dropToken"} : pc' = [pc EXCEPT ![t] = label]
      BY <1>6 DEF Apply, Retiring
    <2>2. mem' = [mem EXCEPT ![t] = n]
      BY <1>6 DEF Apply
    <2>3. state' \in State /\ state'.key = None /\ state'.credential = None
      BY <1>1, <1>5, <1>6, ForgottenType DEF Apply, TypeOK
    <2> HIDE DEF n
    <2>4. TypeOK'
      BY <1>1, <1>4, <2>1, <2>2, <2>3 DEF Apply, TypeOK, Label, external
    <2>5. ThreadInv(t)'
      BY <1>1, <1>4, <2>1, <2>2, <2>3 DEF Apply, TypeOK, ThreadInv, Kept
    <2>6. StateForTarget'
      BY <2>3 DEF StateForTarget
    <2> QED
      BY <1>1, <1>4, <2>1, <2>2, <2>4, <2>5, <2>6, Holding DEF ThreadInv, Label
  <1>7. CASE ~Leaves(s, next)
    <2>1. mem' = [mem EXCEPT ![t] = m] /\ pc' = [pc EXCEPT ![t] = "dropToken"]
          /\ state' = state
      BY <1>7 DEF Apply
    <2>2. next.mode = target.mode /\ next.url = target.url
          /\ next.team = target.team
      BY <1>7 DEF Leaves, SignsOut
    <2> HIDE DEF m, next
    <2>3. TypeOK'
      BY <1>1, <1>3, <2>1 DEF Apply, TypeOK, Label, external
    <2>4. ThreadInv(t)'
      BY <1>1, <1>3, <2>1, <2>2 DEF Apply, TypeOK, ThreadInv, Kept
    <2> QED
      BY <1>1, <1>3, <2>1, <2>3, <2>4, Unserved DEF Apply, Label
  <1> QED
    BY <1>6, <1>7

LEMMA RetireInv == ASSUME Inv, NEW t \in Thread, Retire(t) PROVE Inv'
  <1> DEFINE m == [mem[t] EXCEPT !.doomed = NoHold]
  <1>1. TypeOK /\ ThreadInv(t) /\ pc[t] = "retire"
    BY DEF Inv, Retire
  <1>2. /\ m \in Local /\ Kept(mem[t], m) /\ m.phase = mem[t].phase
        /\ m.next = mem[t].next /\ m.at = mem[t].at
        /\ m.out = mem[t].out
    BY <1>1, Defaults DEF TypeOK, Local, Kept
  <1> HIDE DEF m
  <1>3. PICK label \in {"dropToken", "explicit", "finish", "switched"} :
          label = mem[t].then /\ pc' = [pc EXCEPT ![t] = label]
    BY <1>1 DEF Retire, ThreadInv
  <1>4. mem' = [mem EXCEPT ![t] = m] /\ UNCHANGED <<target, state, renewal>>
    BY DEF Retire, m
  <1>5. TypeOK'
    BY <1>1, <1>2, <1>3, <1>4 DEF Retire, TypeOK, Label
  <1>6. ThreadInv(t)'
    BY <1>1, <1>2, <1>3, <1>4 DEF TypeOK, ThreadInv, Kept
  <1> QED
    BY <1>2, <1>3, <1>4, <1>5, <1>6, Unserved DEF Label

LEMMA RetireFailsInv == ASSUME Inv, NEW t \in Thread, RetireFails(t) PROVE Inv'
  <1> DEFINE m == [mem[t] EXCEPT !.doomed = NoHold]
  <1>1. TypeOK /\ ThreadInv(t) /\ pc[t] = "retire"
    BY DEF Inv, RetireFails
  <1>2. /\ m \in Local /\ Kept(mem[t], m) /\ m.phase = mem[t].phase
        /\ m.next = mem[t].next /\ m.at = mem[t].at
        /\ m.out = mem[t].out
    BY <1>1, Defaults DEF TypeOK, Local, Kept
  <1> HIDE DEF m
  <1>3. PICK label \in {"dropToken", "explicit", "finish", "switched"} :
          label = mem[t].then /\ pc' = [pc EXCEPT ![t] = label]
    BY <1>1 DEF RetireFails, ThreadInv
  <1>4. mem' = [mem EXCEPT ![t] = m] /\ UNCHANGED <<target, state, renewal>>
    BY DEF RetireFails, m
  <1>5. ThreadInv(t)'
    BY <1>1, <1>2, <1>3, <1>4 DEF TypeOK, ThreadInv, Kept
  <1> QED
    BY ZenonT(40), <1>2, <1>3, <1>4, <1>5, Quiet DEF RetireFails, Label, external

-----------------------------------------------------------------------------
(* Admission, and what is served at once *)

LEMMA AdmitInv == ASSUME Inv, NEW t \in Thread, Admit(t) PROVE Inv'
  <1> DEFINE m == [mem[t] EXCEPT !.seen = target]
             n == [m EXCEPT !.out = Refused("caller_refused")]
  <1>1. TypeOK /\ ThreadInv(t) /\ pc[t] = "admit"
    BY DEF Inv, Admit
  <1>2. mem[t].req \in Request /\ mem[t].req.op # "bearer_for_proxy"
    BY <1>1 DEF ThreadInv
  <1>3. m \in Local /\ Kept(mem[t], m)
    BY <1>1, SeenType DEF TypeOK
  <1>4. n \in Local /\ Kept(mem[t], n)
    <2> HIDE DEF m
    <2> QED
      BY <1>3, RefusedType DEF Local, Kept, Reason
  <1>5. \/ mem' = [mem EXCEPT ![t] = m] /\ pc' = [pc EXCEPT ![t] = "issue"]
        \/ mem' = [mem EXCEPT ![t] = n] /\ pc' = [pc EXCEPT ![t] = "finish"]
    BY DEF Admit, Ends
  <1> HIDE DEF m, n
  <1>6. PICK label \in Free, l \in {m, n} :
          pc' = [pc EXCEPT ![t] = label] /\ mem' = [mem EXCEPT ![t] = l]
    BY <1>5 DEF Free
  <1> QED
    BY <1>2, <1>3, <1>4, <1>6, FreedQuietly DEF Admit, external

LEMMA AccountInv == ASSUME Inv, NEW t \in Thread, Account(t) PROVE Inv'
  <1> DEFINE m == [mem[t] EXCEPT !.seen = target]
             n == [m EXCEPT !.out = Refused("signed_out")]
  <1>1. TypeOK /\ ThreadInv(t) /\ pc[t] = "account"
    BY DEF Inv, Account
  <1>2. mem[t].req \in Request /\ mem[t].req.op # "bearer_for_proxy"
    BY <1>1 DEF ThreadInv
  <1>3. m \in Local /\ Kept(mem[t], m)
    BY <1>1, SeenType DEF TypeOK
  <1>4. n \in Local /\ Kept(mem[t], n)
    <2> HIDE DEF m
    <2> QED
      BY <1>3, RefusedType DEF Local, Kept, Reason
  <1>5. \/ mem' = [mem EXCEPT ![t] = m] /\ pc' = [pc EXCEPT ![t] = "issue"]
        \/ mem' = [mem EXCEPT ![t] = n] /\ pc' = [pc EXCEPT ![t] = "finish"]
    BY DEF Account, Ends
  <1> HIDE DEF m, n
  <1>6. PICK label \in Free, l \in {m, n} :
          pc' = [pc EXCEPT ![t] = label] /\ mem' = [mem EXCEPT ![t] = l]
    BY <1>5 DEF Free
  <1> QED
    BY <1>2, <1>3, <1>4, <1>6, FreedQuietly DEF Account, external

LEMMA IssueInv == ASSUME Inv, NEW t \in Thread, Issue(t) PROVE Inv'
  <1> DEFINE m == mem[t]
             out == IF m.seen.mode \notin Idp THEN DirectAnswer(m.seen)
                    ELSE Issued(KeyToken(state.key))
             n == [m EXCEPT !.out = out]
  <1>1. TypeOK /\ ThreadInv(t) /\ pc[t] = "issue" /\ m \in Local
    BY DEF Inv, Issue, TypeOK
  <1>2. m.req \in Request /\ m.req.op # "bearer_for_proxy"
    BY <1>1 DEF ThreadInv
  <1>3. Kept(m, m)
    BY DEF Kept
  <1>4. CASE m.seen.mode \notin Idp \/ KeyIsFresh(clock)
    <2>1. out \in Answer
      BY <1>1, <1>4, KeyAnswer, DirectAnswerType DEF Local
    <2> HIDE DEF out
    <2>2. n \in Local /\ Kept(m, n)
      BY <1>1, <2>1 DEF Local, Kept
    <2>3. PICK label \in Free : pc' = [pc EXCEPT ![t] = label]
      BY <1>4, ServedWell DEF Issue, Free, out
    <2>4. mem' = [mem EXCEPT ![t] = n]
      BY <1>4 DEF Issue, out
    <2> HIDE DEF n
    <2> QED
      BY <1>2, <2>2, <2>3, <2>4, FreedQuietly DEF Issue, external
  <1>5. CASE ~(m.seen.mode \notin Idp \/ KeyIsFresh(clock))
    <2>1. mem' = [mem EXCEPT ![t] = m] /\ pc' = [pc EXCEPT ![t] = "lockIssue"]
      BY <1>5 DEF Issue
    <2> QED
      BY <1>1, <1>2, <1>3, <2>1, FreedQuietly DEF Issue, external, Free
  <1> QED
    BY <1>4, <1>5

LEMMA LockIssueInv == ASSUME Inv, NEW t \in Thread, LockIssue(t) PROVE Inv'
  <1> DEFINE m == [mem[t] EXCEPT !.at = target]
  <1>1. TypeOK /\ ThreadInv(t)
    BY DEF Inv
  <1>2. m \in Local /\ Kept(mem[t], m) /\ m.phase = mem[t].phase /\ m.at = target
    BY <1>1 DEF TypeOK, Local, Kept
  <1>3. /\ pc[t] = "lockIssue" /\ renewal' = t
        /\ mem' = [mem EXCEPT ![t] = m] /\ pc' = [pc EXCEPT ![t] = "begin"]
    BY DEF LockIssue, m
  <1> HIDE DEF m
  <1>4. TypeOK'
    BY <1>1, <1>2, <1>3 DEF LockIssue, TypeOK, Label, external
  <1>5. ThreadInv(t)'
    BY <1>1, <1>2, <1>3 DEF LockIssue, TypeOK, ThreadInv, Kept
  <1> QED
    BY <1>2, <1>3, <1>4, <1>5, Unserved DEF LockIssue, Label

LEMMA SkipIssueInv == ASSUME Inv, NEW t \in Thread, SkipIssue(t) PROVE Inv'
  <1>1. mem[t] \in Local /\ Kept(mem[t], mem[t])
    BY DEF Inv, TypeOK, Kept
  <1>2. mem' = [mem EXCEPT ![t] = mem[t]] /\ pc' = [pc EXCEPT ![t] = "finish"]
    BY DEF SkipIssue, Inv, TypeOK
  <1>3. mem[t].req \in Request /\ mem[t].req.op # "bearer_for_proxy"
    BY DEF Inv, ThreadInv, SkipIssue
  <1> QED
    BY <1>1, <1>2, <1>3, FreedQuietly DEF SkipIssue, external, Free

LEMMA PresentInv == ASSUME Inv, NEW t \in Thread, Present(t) PROVE Inv'
  <1> DEFINE m == [mem[t] EXCEPT !.out = Refused("caller_refused")]
  <1>1. TypeOK /\ ThreadInv(t) /\ pc[t] = "present"
    BY DEF Inv, Present
  <1>2. /\ m \in Local /\ Kept(mem[t], m) /\ m.phase = mem[t].phase
        /\ m.out.kind = "refused"
    BY <1>1, RefusedType DEF TypeOK, Local, Kept, Reason
  <1>3. \/ mem' = [mem EXCEPT ![t] = m] /\ pc' = [pc EXCEPT ![t] = "finish"]
        \/ /\ mem' = [mem EXCEPT ![t] = mem[t]]
           /\ pc' = [pc EXCEPT ![t] = "proxyKey"]
    BY <1>1 DEF Present, Ends, TypeOK
  <1> HIDE DEF m
  <1>4. ThreadInv(t)'
    BY <1>1, <1>2, <1>3 DEF TypeOK, ThreadInv, Kept
  <1>5. PICK label \in Label, n \in Local :
          pc' = [pc EXCEPT ![t] = label] /\ mem' = [mem EXCEPT ![t] = n]
    BY <1>1, <1>2, <1>3 DEF TypeOK, Label
  <1> QED
    BY <1>4, <1>5, Quiet DEF Present, external

LEMMA ProxyKeyInv == ASSUME Inv, NEW t \in Thread, ProxyKey(t) PROVE Inv'
  <1> DEFINE out == Issued(KeyToken(state.key))
             m == [mem[t] EXCEPT !.out = out]
  <1>1. TypeOK /\ ThreadInv(t) /\ pc[t] = "proxyKey"
    BY DEF Inv, ProxyKey
  <1>2. CASE KeyIsFresh(clock)
    <2>1. out \in Answer /\ out.token.url = out.url
      BY <1>1, <1>2, KeyAnswer
    <2> HIDE DEF out
    <2>2. /\ m \in Local /\ Kept(mem[t], m) /\ m.phase = mem[t].phase
          /\ m.out = out
      BY <1>1, <2>1, SMTT(30) DEF TypeOK, Local, Kept
    <2>3. mem' = [mem EXCEPT ![t] = m] /\ pc' = [pc EXCEPT ![t] = "finish"]
      BY <1>2 DEF ProxyKey, Ends, out
    <2> HIDE DEF m
    <2>4. ThreadInv(t)'
      BY <1>1, <2>1, <2>2, <2>3 DEF TypeOK, ThreadInv, Kept
    <2> QED
      BY <2>2, <2>3, <2>4, Quiet DEF ProxyKey, external, Label
  <1>3. CASE ~KeyIsFresh(clock)
    <2>1. /\ mem' = [mem EXCEPT ![t] = mem[t]] /\ mem[t] \in Local
          /\ pc' = [pc EXCEPT ![t] = "lockIssue"]
      BY <1>1, <1>3 DEF ProxyKey, TypeOK
    <2>2. ThreadInv(t)'
      BY <1>1, <2>1 DEF TypeOK, ThreadInv
    <2> QED
      BY <2>1, <2>2, Quiet DEF ProxyKey, external, Label
  <1> QED
    BY <1>2, <1>3

LEMMA ProxyTokenInv == ASSUME Inv, NEW t \in Thread, ProxyToken(t) PROVE Inv'
  <1> DEFINE token == IF state.proxyToken # None THEN state.proxyToken
                      ELSE serial + 1
             out == Issued(TargetToken("proxy_token", mem[t].seen, token))
             m == [mem[t] EXCEPT !.out = out]
  <1>1. TypeOK /\ ThreadInv(t) /\ pc[t] = "proxyToken"
    BY DEF Inv, ProxyToken
  <1>2. token \in Nat /\ serial' \in Nat
    BY <1>1 DEF TypeOK, State, ProxyToken
  <1>3. out \in Answer
    <2>1. mem[t].seen \in TargetType
      BY <1>1 DEF TypeOK, Local
    <2> HIDE DEF token
    <2> QED
      BY <1>2, <2>1, TokenTypes, IssuedType
  <1> HIDE DEF out
  <1>4. m \in Local /\ Kept(mem[t], m)
    BY SMTT(30), <1>1, <1>3 DEF TypeOK, Local, Kept
  <1>5. mem' = [mem EXCEPT ![t] = m] /\ pc' = [pc EXCEPT ![t] = "finish"]
    BY DEF ProxyToken, Ends, out
  <1>6. /\ state' = [state EXCEPT !.proxyToken = token]
        /\ handed' = handed \cup {<<mem[t].req.caller, token>>}
    BY DEF ProxyToken
  <1> HIDE DEF m, token
  <1>7. state' \in State /\ state'.key = state.key
        /\ state'.credential = state.credential
    BY <1>1, <1>2, <1>6 DEF TypeOK, State
  <1>8. handed' \in SUBSET (Caller \X Nat)
    <2>1. mem[t].req.caller \in Caller
      BY <1>1 DEF ThreadInv
    <2> QED
      BY <1>1, <1>2, <1>6, <2>1 DEF TypeOK
  <1>9. TypeOK'
    BY <1>1, <1>2, <1>4, <1>5, <1>7, <1>8 DEF ProxyToken, TypeOK, Label
  <1>10. ThreadInv(t)'
    <2>1. mem[t].req \in Request /\ mem[t].req.op # "bearer_for_proxy"
      BY <1>1 DEF ThreadInv
    <2> QED
      BY <1>1, <1>4, <1>5, <2>1, Freed DEF Free
  <1> QED
    BY <1>4, <1>5, <1>7, <1>9, <1>10, Unserved DEF ProxyToken, Label

-----------------------------------------------------------------------------
(* Locks, arrivals and what happens around the daemon *)

LEMMA PairInv == ASSUME Inv, NEW t \in Thread, Pair(t) PROVE Inv'
  <1> DEFINE out == Named(mem[t].out, mem[t].seen)
             m == [mem[t] EXCEPT !.out = out]
  <1>1. TypeOK /\ ThreadInv(t) /\ pc[t] = "pair"
    BY DEF Inv, Pair
  <1>2. mem[t].req \in Request /\ mem[t].req.op # "bearer_for_proxy"
    BY <1>1, NotTheProxys
  <1>3. m \in Local /\ Kept(mem[t], m)
    <2>1. mem[t] \in Local /\ mem[t].out \in Answer /\ mem[t].seen \in TargetType
      BY <1>1 DEF TypeOK, Local
    <2>2. out \in Answer
      BY <2>1, NamedType
    <2> HIDE DEF out
    <2> QED
      BY <2>1, <2>2 DEF Local, Kept
  <1>4. mem' = [mem EXCEPT ![t] = m] /\ pc' = [pc EXCEPT ![t] = "finish"]
    BY DEF Pair, Ends
  <1> HIDE DEF m
  <1> QED
    BY <1>2, <1>3, <1>4, FreedQuietly DEF Pair, external, Free

LEMMA StatusInv == ASSUME Inv, NEW t \in Thread, Status(t) PROVE Inv'
  <1> DEFINE out == [NoAnswer EXCEPT !.kind = "status", !.url = target.url,
                                     !.team = target.team]
             m == [mem[t] EXCEPT !.out = out]
  <1>1. TypeOK /\ ThreadInv(t) /\ pc[t] = "status"
    BY DEF Inv, Status
  <1>2. mem[t].req \in Request /\ mem[t].req.op # "bearer_for_proxy"
    BY <1>1, NotTheProxys
  <1>3. mem' = [mem EXCEPT ![t] = m] /\ pc' = [pc EXCEPT ![t] = "finish"]
    BY DEF Status, Ends
  <1>4. out \in Answer
    BY <1>1, OutcomeType
  <1> HIDE DEF out
  <1>5. m \in Local /\ Kept(mem[t], m)
    BY SMTT(30), <1>1, <1>4 DEF TypeOK, Local, Kept
  <1> HIDE DEF m
  <1> QED
    BY <1>2, <1>3, <1>5, FreedQuietly DEF Status, external, Free

LEMMA ReportInv == ASSUME Inv, NEW t \in Thread, Report(t) PROVE Inv'
  <1> DEFINE out == [NoAnswer EXCEPT !.kind = "switched", !.url = target.url,
                                     !.team = target.team]
             m == [mem[t] EXCEPT !.out = out]
  <1>1. TypeOK /\ ThreadInv(t) /\ pc[t] = "report"
    BY DEF Inv, Report
  <1>2. mem[t].req \in Request /\ mem[t].req.op # "bearer_for_proxy"
    BY <1>1, NotTheProxys
  <1>3. mem' = [mem EXCEPT ![t] = m] /\ pc' = [pc EXCEPT ![t] = "finish"]
    BY DEF Report, Ends
  <1>4. out \in Answer
    BY <1>1, OutcomeType
  <1> HIDE DEF out
  <1>5. m \in Local /\ Kept(mem[t], m)
    BY SMTT(30), <1>1, <1>4 DEF TypeOK, Local, Kept
  <1> HIDE DEF m
  <1> QED
    BY <1>2, <1>3, <1>5, FreedQuietly DEF Report, external, Free

LEMMA SnapshotInv == ASSUME Inv, NEW t \in Thread, Snapshot(t) PROVE Inv'
  <1> DEFINE m == [mem[t] EXCEPT !.signIns = state.signIns, !.page = state.page,
                                 !.joined = state.explicit]
  <1>1. TypeOK /\ ThreadInv(t) /\ pc[t] = "snapshot"
    BY DEF Inv, Snapshot
  <1>2. m \in Local /\ Kept(mem[t], m) /\ m.phase = mem[t].phase
    <2>1. state.signIns \in Nat /\ state.page \in BOOLEAN
          /\ state.explicit \in BOOLEAN /\ mem[t] \in Local
      BY <1>1 DEF TypeOK, State
    <2>2. m \in Local
      BY <2>1 DEF Local
    <2> QED
      BY ZenonT(40), <2>1 DEF Local, Kept
  <1>3. mem' = [mem EXCEPT ![t] = m] /\ pc' = [pc EXCEPT ![t] = "refresh"]
    BY DEF Snapshot
  <1> HIDE DEF m
  <1>4. mem[t].req.op # "bearer_for_proxy"
    BY <1>1, NotTheProxys
  <1>5. ThreadInv(t)'
    BY <1>1, <1>2, <1>3, <1>4 DEF TypeOK, ThreadInv, Kept
  <1> QED
    BY <1>2, <1>3, <1>5, Quiet DEF Snapshot, external, Label

LEMMA SwitchedInv == ASSUME Inv, NEW t \in Thread, Switched(t) PROVE Inv'
  <1> DEFINE m == [mem[t] EXCEPT !.ret = "report"]
  <1>1. TypeOK /\ ThreadInv(t) /\ pc[t] = "switched"
    BY DEF Inv, Switched
  <1>2. /\ m \in Local /\ m.ret = "report" /\ m.phase = mem[t].phase
        /\ m.req = mem[t].req /\ m.held = mem[t].held
        /\ m.before = mem[t].before
    BY <1>1 DEF TypeOK, Local, Label
  <1>3. mem' = [mem EXCEPT ![t] = m] /\ pc' = [pc EXCEPT ![t] = "refresh"]
    BY DEF Switched
  <1>4. renewal' = IF renewal = t THEN None ELSE renewal
    BY DEF Switched
  <1> HIDE DEF m
  <1>5. mem[t].req.op # "bearer_for_proxy"
    BY <1>1, NotTheProxys
  <1>6. TypeOK'
    BY <1>1, <1>2, <1>3, <1>4 DEF Switched, TypeOK, external, Label
  <1>7. ThreadInv(t)'
    BY <1>1, <1>2, <1>3, <1>5 DEF TypeOK, ThreadInv
  <1> QED
    BY <1>2, <1>3, <1>4, <1>6, <1>7, Unserved DEF Switched, Label

LEMMA LockSwitchingInv == ASSUME Inv, NEW t \in Thread, LockSwitching(t) PROVE Inv'
  <1>1. TypeOK /\ ThreadInv(t) /\ pc[t] = "lockSwitching"
    BY DEF Inv, LockSwitching
  <1>2. /\ mem' = [mem EXCEPT ![t] = mem[t]] /\ mem[t] \in Local
        /\ pc' = [pc EXCEPT ![t] = "refresh"]
    BY <1>1 DEF LockSwitching, TypeOK
  <1>3. mem[t].req.op # "bearer_for_proxy"
    BY <1>1, NotTheProxys
  <1>4. TypeOK'
    BY <1>1 DEF LockSwitching, TypeOK, external, Label
  <1>5. ThreadInv(t)'
    BY <1>1, <1>2, <1>3 DEF LockSwitching, TypeOK, ThreadInv
  <1> QED
    BY <1>2, <1>4, <1>5, Unserved DEF LockSwitching, Label

LEMMA LockSwitchInv == ASSUME Inv, NEW t \in Thread, LockSwitch(t) PROVE Inv'
  <1>1. TypeOK /\ ThreadInv(t) /\ pc[t] = "lockSwitch"
    BY DEF Inv, LockSwitch
  <1>2. /\ mem' = [mem EXCEPT ![t] = mem[t]] /\ mem[t] \in Local
        /\ pc' = [pc EXCEPT ![t] = "store"]
    BY <1>1 DEF LockSwitch, TypeOK
  <1>3. mem[t].req.op # "bearer_for_proxy"
    BY <1>1, NotTheProxys
  <1>4. TypeOK'
    BY <1>1 DEF LockSwitch, TypeOK, external, Label
  <1>5. ThreadInv(t)'
    BY <1>1, <1>2, <1>3 DEF LockSwitch, TypeOK, ThreadInv
  <1> QED
    BY <1>2, <1>4, <1>5, Unserved DEF LockSwitch, Label

LEMMA ExplicitInv == ASSUME Inv, NEW t \in Thread, Explicit(t) PROVE Inv'
  <1>1. TypeOK /\ ThreadInv(t) /\ pc[t] = "explicit"
    BY DEF Inv, Explicit
  <1>2. /\ mem' = [mem EXCEPT ![t] = mem[t]] /\ mem[t] \in Local
        /\ pc' = [pc EXCEPT ![t] = "begin"]
    BY <1>1 DEF Explicit, TypeOK
  <1>3. mem[t].req.op # "bearer_for_proxy"
    BY <1>1, NotTheProxys
  <1>4. state' \in State /\ state'.key = state.key
        /\ state'.credential = state.credential
    BY <1>1 DEF Explicit, TypeOK, State
  <1>5. TypeOK'
    BY <1>1, <1>4 DEF Explicit, TypeOK, external, Label
  <1>6. ThreadInv(t)'
    BY <1>1, <1>2, <1>3, <1>4 DEF Explicit, TypeOK, ThreadInv
  <1> QED
    BY <1>2, <1>4, <1>5, <1>6, Unserved DEF Explicit, Label

LEMMA ArriveInv == ASSUME Inv, NEW t \in Thread, Arrive(t) PROVE Inv'
  <1>1. TypeOK /\ ThreadInv(t) /\ pc[t] = "idle"
    BY DEF Inv, Arrive
  <1>2. PICK r \in Request, token \in {None} \cup {h[2] : h \in handed} :
          /\ mem' = [mem EXCEPT ![t] =
                       [Blank EXCEPT !.req = r, !.presented = token,
                                     !.ret = AfterRefresh(r.op)]]
          /\ pc' = [pc EXCEPT ![t] = CASE r.op = "sign_in"   -> "snapshot"
                    [] r.op \in Switches  -> "lockSwitching"
                    [] r.op = "shutdown"  -> "lockShutdown"
                    [] OTHER              -> "refresh"]
    BY DEF Arrive
  <1> DEFINE m == [Blank EXCEPT !.req = r, !.presented = token,
                                !.ret = AfterRefresh(r.op)]
  <1>3. /\ AfterRefresh(r.op) \in Returns
        /\ r.op = "bearer_for_proxy" => AfterRefresh(r.op) = "present"
        /\ AfterRefresh(r.op) = "plan" => r.op \in Switches
    BY DEF AfterRefresh, Switches
  <1>4. token \in Nat \cup {None}
    BY <1>1 DEF TypeOK
  <1>5. /\ m \in Local /\ m.req = r /\ m.ret = AfterRefresh(r.op)
        /\ m.phase = "first" /\ ~m.moving /\ m.held = NoHold
    <2>1. Blank.phase = "first" /\ ~Blank.moving /\ Blank.held = NoHold
      BY DEF Blank
    <2>2. AfterRefresh(r.op) \in Label
      BY <1>3 DEF Label
    <2>3. m \in Local
      BY <1>4, <2>2, Defaults DEF Local
    <2>4. Blank \in Local
      BY Defaults
    <2>5. m.phase = Blank.phase /\ m.moving = Blank.moving
          /\ m.held = Blank.held /\ m.req = r /\ m.ret = AfterRefresh(r.op)
      BY <2>4 DEF Local
    <2> QED
      BY <2>1, <2>3, <2>5
  <1>6. PICK label \in {"snapshot", "lockSwitching", "lockShutdown", "refresh"} :
          /\ pc' = [pc EXCEPT ![t] = label]
          /\ r.op = "bearer_for_proxy" => label = "refresh"
    BY <1>2 DEF Switches
  <1>7. mem' = [mem EXCEPT ![t] = m]
    BY <1>2
  <1> HIDE DEF m
  <1>8. TypeOK'
    BY <1>1, <1>5, <1>6, <1>7 DEF Arrive, TypeOK, external, Label
  <1>9. ThreadInv(t)'
    BY <1>1, <1>3, <1>5, <1>6, <1>7 DEF TypeOK, ThreadInv, NoHold
  <1> QED
    BY <1>5, <1>6, <1>7, <1>8, <1>9, Unserved DEF Arrive, Label

LEMMA EditInv == ASSUME Inv, Edit PROVE Inv'
  <1>1. TypeOK /\ \A t \in Thread : ThreadInv(t)
    BY DEF Inv
  <1>2. UNCHANGED <<target, state, renewal, switching, live, clock, serial,
                    handed, started, stopped, pc, mem>>
    BY DEF Edit, external
  <1>3. file' \in [version : Nat, settings : Setting \cup {Malformed}]
    BY <1>1 DEF Edit, TypeOK
  <1>4. TypeOK'
    BY <1>1, <1>2, <1>3 DEF TypeOK
  <1>5. ASSUME NEW t \in Thread PROVE ThreadInv(t)'
    BY <1>1, <1>2 DEF ThreadInv
  <1> QED
    BY <1>2, <1>4, <1>5 DEF Inv, StateForTarget

LEMMA ClockInv == ASSUME Inv, HalfLife \/ Expire PROVE Inv'
  <1>1. TypeOK /\ \A t \in Thread : ThreadInv(t)
    BY DEF Inv
  <1>2. UNCHANGED <<file, target, state, renewal, switching, serial, handed,
                    started, stopped, pc, mem>>
    BY DEF HalfLife, Expire
  <1>3. Aged \subseteq Nat
    BY <1>1 DEF TypeOK, State, Key, Credential, Aged, IdsOf
  <1>4. clock' \in Time /\ live' \in SUBSET Key
    BY <1>1, <1>3 DEF HalfLife, Expire, TypeOK, Time
  <1>5. TypeOK'
    BY <1>1, <1>2, <1>4 DEF TypeOK
  <1>6. ASSUME NEW t \in Thread PROVE ThreadInv(t)'
    BY <1>1, <1>2 DEF ThreadInv
  <1> QED
    BY <1>2, <1>5, <1>6 DEF Inv, StateForTarget

LEMMA UnchangedInv == ASSUME Inv, UNCHANGED vars PROVE Inv'
  <1>1. ASSUME NEW t \in Thread PROVE ThreadInv(t)'
    BY DEF Inv, ThreadInv, vars, external
  <1> QED
    BY <1>1 DEF Inv, TypeOK, StateForTarget, vars, external

LEMMA PlanInv == ASSUME Inv, NEW t \in Thread, Plan(t) PROVE Inv'
  <1> DEFINE s == file.settings
             seen == [mem[t] EXCEPT !.seen = target]
             patch == SwitchPatch(mem[t].req, s)
             undo == Previous(patch.kind, s)
             plan == [mem[t] EXCEPT !.loaded = s, !.patch = patch, !.undo = undo]
             refused(reason) == [mem[t] EXCEPT !.out = Refused(reason)]
  <1>1. TypeOK /\ ThreadInv(t) /\ pc[t] = "plan" /\ mem[t] \in Local
    BY DEF Inv, Plan, TypeOK
  <1>2. mem[t].req \in Request /\ mem[t].req.op # "bearer_for_proxy"
    BY <1>1, NotTheProxys
  <1>3. \/ \E reason \in Reason :
             /\ mem' = [mem EXCEPT ![t] = refused(reason)]
             /\ pc' = [pc EXCEPT ![t] = "finish"]
        \/ mem' = [mem EXCEPT ![t] = seen] /\ pc' = [pc EXCEPT ![t] = "issue"]
        \/ /\ s # Malformed
           /\ mem[t].req.op = "switch_environment" =>
                Destination(mem[t].req, s) # {}
           /\ mem' = [mem EXCEPT ![t] = plan]
           /\ pc' = [pc EXCEPT ![t] = "lockSwitch"]
    <2> HIDE DEF patch, undo
    <2> QED
      BY DEF Plan, Ends, Reason, patch, undo
  <1>4. ASSUME NEW reason \in Reason,
               mem' = [mem EXCEPT ![t] = refused(reason)],
               pc' = [pc EXCEPT ![t] = "finish"]
        PROVE  Inv'
    <2>1. refused(reason) \in Local /\ Kept(mem[t], refused(reason))
      BY <1>1, RefusedType DEF Local, Kept
    <2> HIDE DEF refused
    <2> QED
      BY <1>2, <1>4, <2>1, FreedQuietly DEF Plan, external, Free
  <1>5. CASE mem' = [mem EXCEPT ![t] = seen] /\ pc' = [pc EXCEPT ![t] = "issue"]
    <2>1. seen \in Local /\ Kept(mem[t], seen)
      BY <1>1 DEF Local, Kept, TypeOK
    <2> HIDE DEF seen
    <2> QED
      BY <1>2, <1>5, <2>1, FreedQuietly DEF Plan, external, Free
  <1>6. CASE /\ s # Malformed
             /\ mem[t].req.op = "switch_environment" =>
                  Destination(mem[t].req, s) # {}
             /\ mem' = [mem EXCEPT ![t] = plan]
             /\ pc' = [pc EXCEPT ![t] = "lockSwitch"]
    <2>1. s \in Setting
      BY <1>1, <1>6 DEF TypeOK
    <2>2. Destination(mem[t].req, s) \subseteq Entry
      BY <2>1, EnvironmentsFound DEF Destination
    <2>3. mem[t].req.team \in Team
      BY <1>2
    <2>4. patch \in Patch
      <3>1. CASE mem[t].req.op = "switch_team"
        BY <1>1, <2>1, <2>3, <3>1, TeamPatchType DEF SwitchPatch
      <3>2. CASE mem[t].req.op # "switch_team"
        <4>1. Destination(mem[t].req, s) # {}
          BY <1>1, <1>6, <3>2 DEF ThreadInv, Switches
        <4>2. PICK e \in Entry : patch = EnvironmentPatch(s, e)
          BY <2>2, <3>2, <4>1 DEF SwitchPatch
        <4> QED
          BY <2>1, <4>2, EnvironmentPatchType
      <3> QED
        BY <3>1, <3>2
    <2>5. undo \in Patch
      <3>1. patch.kind \in {"team", "environment"}
        BY <2>4 DEF Patch
      <3> HIDE DEF patch
      <3> QED
        BY <2>1, <3>1, PreviousType
    <2> HIDE DEF patch, undo, s
    <2>6. plan \in Local /\ Kept(mem[t], plan)
      BY <1>1, <2>1, <2>4, <2>5 DEF Local, Kept
    <2> HIDE DEF plan
    <2> QED
      BY <1>2, <1>6, <2>6, FreedQuietly DEF Plan, external, Free
  <1> QED
    BY <1>3, <1>4, <1>5, <1>6

-----------------------------------------------------------------------------
(* Sign-in, sign-out, shutdown and the end of a renewal *)

LEMMA JoinSignInInv == ASSUME Inv, NEW t \in Thread, JoinSignIn(t) PROVE Inv'
  <1> DEFINE signedIn == [NoAnswer EXCEPT !.kind = "signed_in"]
             out == IF target.mode \notin Idp THEN Refused("gateway_error")
                    ELSE IF SignedInSince(mem[t]) THEN signedIn
                    ELSE Refused("sign_in_failed")
             m == [mem[t] EXCEPT !.out = out]
  <1>1. TypeOK /\ ThreadInv(t) /\ pc[t] = "lockSignIn" /\ mem[t] \in Local
    BY DEF Inv, JoinSignIn, TypeOK
  <1>2. mem[t].req \in Request /\ mem[t].req.op # "bearer_for_proxy"
    BY <1>1, NotTheProxys
  <1>3. out \in Answer
    <2>1. signedIn \in Answer
      BY Defaults DEF Answer
    <2> HIDE DEF signedIn
    <2> QED
      BY <2>1, RefusedType DEF Reason
  <1>4. /\ mem' = [mem EXCEPT ![t] = m] /\ pc' = [pc EXCEPT ![t] = "finish"]
        /\ renewal = None /\ renewal' = t
    BY DEF JoinSignIn, Ends
  <1> HIDE DEF out
  <1>5. m \in Local /\ Kept(mem[t], m)
    BY <1>1, <1>3 DEF Local, Kept
  <1> HIDE DEF m
  <1>6. TypeOK'
    BY <1>1, <1>4, <1>5 DEF JoinSignIn, TypeOK, external, Label
  <1>7. ThreadInv(t)'
    BY <1>1, <1>2, <1>4, <1>5, Freed DEF Free
  <1> QED
    BY <1>4, <1>5, <1>6, <1>7, Unserved DEF JoinSignIn, Label

\* A thread that clears the state: nothing is left for any target.
LEMMA Cleared ==
  ASSUME Inv, NEW t \in Thread, renewal = None, renewal' = t,
         NEW signsOut \in BOOLEAN, state' = Forgotten(signsOut),
         NEW label \in Label, NEW m \in Local,
         pc' = [pc EXCEPT ![t] = label], mem' = [mem EXCEPT ![t] = m],
         UNCHANGED <<file, target, switching, live, clock, serial, handed,
                     started, stopped>>,
         ThreadInv(t)'
  PROVE  Inv'
  <1>1. /\ state' \in State /\ state'.key = None /\ state'.credential = None
    BY ForgottenType DEF Inv, TypeOK
  <1>2. TypeOK'
    BY <1>1 DEF Inv, TypeOK
  <1>3. StateForTarget'
    BY <1>1 DEF StateForTarget
  <1> QED
    BY <1>2, <1>3, Holding

\* A thread that goes on to delete what was held, or past that when there is
\* nothing to delete.
LEMMA Retires ==
  ASSUME TypeOK, NEW t \in Thread, ThreadInv(t),
         NEW label \in {"retire", "explicit", "finish"}, NEW n \in Local,
         pc' = [pc EXCEPT ![t] = label], mem' = [mem EXCEPT ![t] = n],
         Kept(mem[t], n), n.then \in {"explicit", "finish"},
         label = "explicit" \/ n.then = "explicit" => n.at = target,
         renewal' = t, target' = target,
         mem[t].req \in Request, mem[t].req.op # "bearer_for_proxy"
  PROVE  ThreadInv(t)'
  <1>1. pc'[t] = label /\ mem'[t] = n
    BY DEF TypeOK
  <1>2. /\ n.req = mem[t].req /\ n.ret = mem[t].ret
        /\ n.before = mem[t].before /\ n.held = mem[t].held
    BY DEF Kept
  <1>3. ReturnsWell(t) /\ HoldsWhatWasIssued(t)
    BY DEF ThreadInv
  <1>4. ReturnsWell(t)'
    BY <1>1, <1>2, <1>3
  <1>5. HoldsWhatWasIssued(t)'
    BY <1>1, <1>2, <1>3
  <1>6. IssuesForTarget(t)'
    BY <1>1
  <1>7. LeavesNothing(t)' /\ BearerIsKept(t)' /\ AnswersForTarget(t)'
    BY <1>1
  <1>8. Forwards(t)' /\ mem'[t].req \in Request
    BY <1>1, <1>2
  <1>9. (pc[t] \in Locked => renewal = t)'
    BY <1>1
  <1> QED
    BY <1>4, <1>5, <1>6, <1>7, <1>8, <1>9 DEF ThreadInv

LEMMA OwnSignInInv == ASSUME Inv, NEW t \in Thread, OwnSignIn(t) PROVE Inv'
  <1> DEFINE m == [mem[t] EXCEPT !.at = target]
             n == Doomed(m, HoldNow, target.url, "explicit")
  <1>1. TypeOK /\ ThreadInv(t) /\ pc[t] = "lockSignIn" /\ mem[t] \in Local
    BY DEF Inv, OwnSignIn, TypeOK
  <1>2. mem[t].req \in Request /\ mem[t].req.op # "bearer_for_proxy"
    BY <1>1, NotTheProxys
  <1>3. m \in Local /\ Kept(mem[t], m) /\ m.at = target
    BY <1>1 DEF TypeOK, Local, Kept
  <1>4. HoldNow \in Hold /\ target.url \in Gateway
    BY <1>1, HoldNowType DEF TypeOK, TargetType
  <1>5. mem' = [mem EXCEPT ![t] = n] /\ state' = Forgotten(TRUE)
        /\ renewal = None /\ renewal' = t /\ target' = target
    BY DEF OwnSignIn
  <1>6. PICK label \in {"retire", "explicit"} : pc' = [pc EXCEPT ![t] = label]
    BY DEF OwnSignIn, Retiring
  <1> HIDE DEF m
  <1>7. n \in Local /\ Kept(m, n) /\ n.then = "explicit" /\ n.at = m.at
    <2>1. "explicit" \in Label
      BY DEF Label
    <2> QED
      BY <1>3, <1>4, <2>1, DoomedType
  <1> HIDE DEF n
  <1>8. ThreadInv(t)'
    <2>1. Kept(mem[t], n) /\ n.at = target
      BY <1>3, <1>7 DEF Kept
    <2> QED
      BY <1>1, <1>2, <1>5, <1>6, <1>7, <2>1, Retires
  <1> QED
    BY <1>5, <1>6, <1>7, <1>8, Cleared DEF OwnSignIn, external, Label

LEMMA ShutdownInv == ASSUME Inv, NEW t \in Thread, Shutdown(t) PROVE Inv'
  <1> DEFINE n == Doomed(mem[t], HoldNow, target.url, "finish")
  <1>1. TypeOK /\ ThreadInv(t) /\ pc[t] = "lockShutdown" /\ mem[t] \in Local
    BY DEF Inv, Shutdown, TypeOK
  <1>2. mem[t].req \in Request /\ mem[t].req.op # "bearer_for_proxy"
    BY <1>1, NotTheProxys
  <1>3. HoldNow \in Hold /\ target.url \in Gateway
    BY <1>1, HoldNowType DEF TypeOK, TargetType
  <1>4. mem' = [mem EXCEPT ![t] = n] /\ state' = Forgotten(FALSE)
        /\ renewal = None /\ renewal' = t /\ target' = target
    BY DEF Shutdown
  <1>5. PICK label \in {"retire", "finish"} : pc' = [pc EXCEPT ![t] = label]
    BY DEF Shutdown, Retiring
  <1>6. n \in Local /\ Kept(mem[t], n) /\ n.then = "finish"
    <2>1. "finish" \in Label
      BY DEF Label
    <2> QED
      BY <1>1, <1>3, <2>1, DoomedType
  <1> HIDE DEF n
  <1>7. ThreadInv(t)'
    BY <1>1, <1>2, <1>4, <1>5, <1>6, Retires
  <1> QED
    BY <1>4, <1>5, <1>6, <1>7, Cleared DEF Shutdown, external, Label

LEMMA SignOutInv == ASSUME Inv, NEW t \in Thread, SignOut(t) PROVE Inv'
  <1> DEFINE out == [NoAnswer EXCEPT !.kind = "signed_out"]
             m == [mem[t] EXCEPT !.out = out]
             n == Doomed(m, HoldNow, target.url, "finish")
             k == [mem[t] EXCEPT !.out = Refused("static_key")]
  <1>1. TypeOK /\ ThreadInv(t) /\ pc[t] = "lockSignOut" /\ mem[t] \in Local
        /\ renewal = None /\ renewal' = t
    BY DEF Inv, SignOut, TypeOK
  <1>2. mem[t].req \in Request /\ mem[t].req.op # "bearer_for_proxy"
    BY <1>1, NotTheProxys
  <1>3. CASE target.mode \in StaticKey
    <2>1. k \in Local /\ Kept(mem[t], k)
      BY <1>1, RefusedType DEF Local, Kept, Reason
    <2>2. /\ mem' = [mem EXCEPT ![t] = k] /\ pc' = [pc EXCEPT ![t] = "finish"]
          /\ state' = state
      BY <1>3 DEF SignOut, Ends
    <2> HIDE DEF k
    <2>3. TypeOK'
      BY <1>1, <2>1, <2>2 DEF SignOut, TypeOK, external, Label
    <2>4. ThreadInv(t)'
      BY <1>1, <1>2, <2>1, <2>2, Freed DEF Free
    <2> QED
      BY <1>1, <2>1, <2>2, <2>3, <2>4, Unserved DEF SignOut, Label
  <1>4. CASE target.mode \notin StaticKey
    <2>1. HoldNow \in Hold /\ target.url \in Gateway
      BY <1>1, HoldNowType DEF TypeOK, TargetType
    <2>2. mem' = [mem EXCEPT ![t] = n] /\ state' = Forgotten(TRUE)
      BY <1>4 DEF SignOut
    <2>3. PICK label \in {"retire", "finish"} : pc' = [pc EXCEPT ![t] = label]
      BY <1>4 DEF SignOut, Retiring
    <2>4. m \in Local /\ Kept(mem[t], m)
      <3>1. out \in Answer
        BY Defaults DEF Answer
      <3> HIDE DEF out
      <3> QED
        BY <1>1, <3>1 DEF Local, Kept
    <2> HIDE DEF m
    <2>5. n \in Local /\ Kept(m, n) /\ n.then = "finish"
      <3>1. "finish" \in Label
        BY DEF Label
      <3> QED
        BY <2>1, <2>4, <3>1, DoomedType
    <2> HIDE DEF n
    <2>6. ThreadInv(t)'
      <3>1. Kept(mem[t], n)
        BY <2>4, <2>5 DEF Kept
      <3>2. target' = target
        BY DEF SignOut
      <3> QED
        BY <1>1, <1>2, <2>2, <2>3, <2>5, <3>1, <3>2, Retires
    <2> QED
      BY <1>1, <2>2, <2>3, <2>5, <2>6, Cleared DEF SignOut, external, Label
  <1> QED
    BY <1>3, <1>4

LEMMA AnswerIssuedInv == ASSUME Inv, NEW t \in Thread, AnswerIssued(t) PROVE Inv'
  <1>1. TypeOK /\ ThreadInv(t) /\ pc[t] = "answer" /\ mem[t] \in Local
        /\ Kept(mem[t], mem[t])
    BY DEF Inv, AnswerIssued, TypeOK, Kept
  <1>2. mem[t].req \in Request /\ mem[t].req.op # "bearer_for_proxy"
    BY <1>1 DEF AnswerIssued, ThreadInv
  <1>3. PICK label \in Free : pc' = [pc EXCEPT ![t] = label]
    BY ServedWell DEF AnswerIssued, Free
  <1>4. /\ mem' = [mem EXCEPT ![t] = mem[t]] /\ renewal' = None
        /\ target' = target /\ renewal = t
    BY <1>1 DEF AnswerIssued, TypeOK, ThreadInv
  <1>5. state' \in State /\ state'.key = state.key
        /\ state'.credential = state.credential
    BY <1>1 DEF AnswerIssued, Completed, TypeOK, State
  <1>6. TypeOK' /\ label \in Label
    BY <1>1, <1>3, <1>4, <1>5 DEF AnswerIssued, TypeOK, external, Label, Free
  <1>7. ThreadInv(t)'
    BY <1>1, <1>2, <1>3, <1>4, Freed
  <1> QED
    BY <1>1, <1>3, <1>4, <1>5, <1>6, <1>7, Unserved

LEMMA AnswerForwardInv == ASSUME Inv, NEW t \in Thread, AnswerForward(t) PROVE Inv'
  <1> DEFINE out == Named(mem[t].out, mem[t].at)
             m == [mem[t] EXCEPT !.out = out]
  <1>1. TypeOK /\ ThreadInv(t) /\ pc[t] = "answer" /\ mem[t] \in Local
    BY DEF Inv, AnswerForward, TypeOK
  <1>2. /\ out \in Answer /\ out.url = mem[t].at.url
        /\ out.token = mem[t].out.token /\ out.kind = mem[t].out.kind
    <2>1. mem[t].out \in Answer /\ mem[t].at \in TargetType
      BY <1>1 DEF Local
    <2> QED
      BY <2>1, NamedType
  <1>3. mem' = [mem EXCEPT ![t] = m] /\ pc' = [pc EXCEPT ![t] = "finish"]
    BY DEF AnswerForward, Ends
  <1> HIDE DEF out
  <1>4. m \in Local /\ Kept(mem[t], m) /\ m.phase = mem[t].phase /\ m.out = out
    BY <1>1, <1>2 DEF Local, Kept
  <1> HIDE DEF m
  <1>5. ThreadInv(t)'
    BY <1>1, <1>2, <1>3, <1>4 DEF TypeOK, ThreadInv, Kept
  <1> QED
    BY <1>3, <1>4, <1>5, Quiet DEF AnswerForward, external, Label

LEMMA AnswerSignInInv == ASSUME Inv, NEW t \in Thread, AnswerSignIn(t) PROVE Inv'
  <1> DEFINE kind == IF mem[t].out.kind = "credential" THEN "signed_in"
                     ELSE mem[t].out.kind
             m == [mem[t] EXCEPT !.out.kind = kind]
  <1>1. TypeOK /\ ThreadInv(t) /\ pc[t] = "answer" /\ mem[t] \in Local
    BY DEF Inv, AnswerSignIn, TypeOK
  <1>2. mem[t].req \in Request /\ mem[t].req.op # "bearer_for_proxy"
    BY <1>1 DEF AnswerSignIn, ThreadInv
  <1>3. mem' = [mem EXCEPT ![t] = m] /\ pc' = [pc EXCEPT ![t] = "finish"]
    BY DEF AnswerSignIn, Ends
  <1>4. m \in Local /\ Kept(mem[t], m)
    BY <1>1 DEF Local, Kept, Answer
  <1> HIDE DEF m
  <1>5. state' \in State /\ state'.key = state.key
        /\ state'.credential = state.credential
    <2>1. Completed(t) \in Nat
      BY <1>1 DEF Completed, TypeOK, State
    <2>2. state' = [state EXCEPT !.signIns = Completed(t), !.explicit = FALSE]
      BY DEF AnswerSignIn
    <2> QED
      BY <1>1, <2>1, <2>2 DEF TypeOK, State
  <1>6. TypeOK'
    BY <1>1, <1>3, <1>4, <1>5 DEF AnswerSignIn, TypeOK, external, Label
  <1>7. ThreadInv(t)'
    BY <1>1, <1>2, <1>3, <1>4, Freed DEF Free
  <1> QED
    BY <1>3, <1>4, <1>5, <1>6, <1>7, Unserved DEF AnswerSignIn, Label

LEMMA AnswerTickInv == ASSUME Inv, NEW t \in Thread, AnswerTick(t) PROVE Inv'
  <1> DEFINE m == [mem[t] EXCEPT !.out = NoAnswer]
  <1>1. TypeOK /\ ThreadInv(t) /\ pc[t] = "answer" /\ mem[t] \in Local
    BY DEF Inv, AnswerTick, TypeOK
  <1>2. mem[t].req \in Request /\ mem[t].req.op # "bearer_for_proxy"
    BY <1>1 DEF AnswerTick, ThreadInv
  <1>3. mem' = [mem EXCEPT ![t] = m] /\ pc' = [pc EXCEPT ![t] = "finish"]
    BY DEF AnswerTick, Ends
  <1>4. m \in Local /\ Kept(mem[t], m)
    BY <1>1, Defaults DEF Local, Kept
  <1> HIDE DEF m
  <1> QED
    BY <1>2, <1>3, <1>4, FreedQuietly DEF AnswerTick, external, Free

-----------------------------------------------------------------------------
(* The session credential *)

LEMMA BeginInv == ASSUME Inv, NEW t \in Thread, Begin(t) PROVE Inv'
  <1> DEFINE at == mem[t].at
             direct == DirectAnswer(at)
             held == Issued(KeyToken(state.key))
             m1 == [mem[t] EXCEPT !.out = direct]
             m2 == [mem[t] EXCEPT !.out = held]
             m3 == [mem[t] EXCEPT !.now = clock, !.phase = "first",
                                  !.out = NoAnswer]
  <1>1. TypeOK /\ ThreadInv(t) /\ pc[t] = "begin" /\ mem[t] \in Local
        /\ renewal = t
    BY DEF Inv, Begin, TypeOK, ThreadInv
  <1>2. at \in TargetType /\ at = target /\ UNCHANGED <<target, state, renewal>>
    BY <1>1 DEF Local, ThreadInv, Begin
  <1>3. CASE at.mode \notin Idp
    <2>1. mem' = [mem EXCEPT ![t] = m1] /\ pc' = [pc EXCEPT ![t] = "answer"]
      BY <1>3 DEF Begin
    <2>2. direct \in Answer /\ (direct.kind = "credential" =>
                                  direct.token.url = at.url)
      BY <1>2, DirectAnswerType
    <2> HIDE DEF direct
    <2>3. /\ m1 \in Local /\ Kept(mem[t], m1) /\ m1.phase = mem[t].phase
          /\ m1.out = direct /\ m1.at = at
      BY <1>1, <2>2 DEF Local, Kept
    <2> HIDE DEF m1, at
    <2>4. ThreadInv(t)'
      BY <1>1, <1>2, <2>1, <2>2, <2>3 DEF TypeOK, ThreadInv, Kept
    <2> QED
      BY <2>1, <2>3, <2>4, Quiet DEF Begin, external, Label
  <1>4. CASE at.mode \in Idp /\ KeyIsFresh(clock)
    <2>1. mem' = [mem EXCEPT ![t] = m2] /\ pc' = [pc EXCEPT ![t] = "answer"]
      BY <1>4 DEF Begin
    <2>2. held \in Answer /\ held.token.url = at.url
      <3>1. state.key.url = target.url
        BY <1>4 DEF Inv, StateForTarget, KeyIsFresh
      <3> QED
        BY <1>1, <1>2, <1>4, <3>1, KeyAnswer
    <2> HIDE DEF held
    <2>3. /\ m2 \in Local /\ Kept(mem[t], m2) /\ m2.phase = mem[t].phase
          /\ m2.out = held /\ m2.at = at
      BY <1>1, <2>2 DEF Local, Kept
    <2> HIDE DEF m2, at
    <2>4. ThreadInv(t)'
      BY <1>1, <1>2, <2>1, <2>2, <2>3 DEF TypeOK, ThreadInv, Kept
    <2> QED
      BY <2>1, <2>3, <2>4, Quiet DEF Begin, external, Label
  <1>5. CASE at.mode \in Idp /\ ~KeyIsFresh(clock)
    <2>1. mem' = [mem EXCEPT ![t] = m3] /\ pc' = [pc EXCEPT ![t] = "resolve"]
      BY <1>5 DEF Begin
    <2>2. NoAnswer \in Answer /\ NoAnswer.kind = "none" /\ clock \in Time
      BY <1>1, Defaults DEF NoAnswer, TypeOK
    <2>3. m3 \in Local
      BY <1>1, <2>2 DEF Local
    <2>4. /\ Kept(mem[t], m3) /\ m3.phase = "first"
          /\ m3.out = NoAnswer /\ m3.at = at
      BY <1>1 DEF Local, Kept
    <2> HIDE DEF m3, at
    <2>5. ThreadInv(t)'
      BY <1>1, <1>2, <1>5, <2>1, <2>2, <2>3, <2>4 DEF TypeOK, ThreadInv, Kept
    <2> QED
      BY <2>1, <2>3, <2>5, Quiet DEF Begin, external, Label
  <1> QED
    BY <1>3, <1>4, <1>5

LEMMA ResolveFreshInv == ASSUME Inv, NEW t \in Thread, ResolveFresh(t) PROVE Inv'
  <1> DEFINE c == Cached(mem[t].at)
             r == Resolving(t)
             m == [r EXCEPT !.bearer = c]
  <1>1. pc[t] \in Resolves
    BY DEF ResolveFresh, Resolves
  <1>2. /\ mem[t] \in Local /\ mem[t].at.mode \in Idp /\ state \in State
        /\ serial \in Nat
        /\ mem[t].out.kind = "credential" =>
             mem[t].out.token.url = mem[t].at.url
    BY <1>1, Resolver
  <1>3. c \in Credential /\ ~c.dead /\ For(c, mem[t].at)
    <2>1. c # None /\ ~c.dead
      BY DEF ResolveFresh, Fresh, Valid
    <2> QED
      BY <1>2, <2>1, CachedType
  <1>4. mem' = [mem EXCEPT ![t] = m] /\ pc' = [pc EXCEPT ![t] = "keep"]
    BY DEF ResolveFresh
  <1>5. r \in Local /\ Kept(mem[t], r) /\ r.at = mem[t].at
        /\ r.phase = mem[t].phase /\ r.out = mem[t].out
    BY <1>2, ResolvingType
  <1> HIDE DEF c, r
  <1>6. /\ m \in Local /\ Kept(r, m) /\ m.at = r.at /\ m.phase = r.phase
        /\ m.out = r.out /\ m.bearer = c
    BY <1>3, <1>5 DEF Local, Kept
  <1> HIDE DEF m
  <1>7. Kept(mem[t], m)
    BY <1>5, <1>6 DEF Kept
  <1>8. /\ serial' \in Nat /\ state' \in State
        /\ UNCHANGED <<file, target, renewal, switching, live, clock, handed,
                       started, stopped>>
        /\ state'.key = state.key /\ state'.credential = state.credential
    BY <1>2 DEF ResolveFresh, external
  <1>9. m.out.kind = "credential" => m.out.token.url = m.at.url
    BY <1>2, <1>5, <1>6
  <1> QED
    BY <1>1, <1>2, <1>3, <1>4, <1>5, <1>6, <1>7, <1>8, <1>9,
       ResolvedQuietly

LEMMA ResolveFailsInv == ASSUME Inv, NEW t \in Thread, ResolveFails(t) PROVE Inv'
  <1> DEFINE r == Resolving(t)
             m == FallBack(r, "gateway_error")
  <1>1. pc[t] \in Resolves
    BY DEF ResolveFails, Resolves
  <1>2. /\ mem[t] \in Local /\ mem[t].at.mode \in Idp /\ state \in State
        /\ serial \in Nat
    BY <1>1, Resolver
  <1>3. r \in Local /\ Kept(mem[t], r) /\ r.at = mem[t].at
        /\ r.phase = mem[t].phase
    BY <1>2, ResolvingType
  <1>4. mem' = [mem EXCEPT ![t] = m] /\ pc' = [pc EXCEPT ![t] = "keep"]
    BY DEF ResolveFails
  <1> HIDE DEF r
  <1>5. /\ m \in Local /\ Kept(r, m) /\ m.at = r.at /\ m.phase = r.phase
        /\ m.out.kind = "refused"
        /\ For(m.bearer, m.at)
        /\ m.bearer # None => ~m.bearer.dead
    <2>1. "gateway_error" \in Reason /\ r.at.mode \in Idp
      BY <1>2, <1>3 DEF Reason
    <2> QED
      BY <1>2, <1>3, <2>1, FallBackType
  <1> HIDE DEF m
  <1>6. Kept(mem[t], m)
    BY <1>3, <1>5 DEF Kept
  <1>7. /\ serial' \in Nat /\ state' \in State
        /\ UNCHANGED <<file, target, renewal, switching, live, clock, handed,
                       started, stopped>>
        /\ state'.key = state.key /\ state'.credential = state.credential
    BY <1>2 DEF ResolveFails, external
  <1> QED
    BY <1>1, <1>2, <1>3, <1>4, <1>5, <1>6, <1>7,
       ResolvedQuietly

LEMMA ResolveRefreshedInv ==
  ASSUME Inv, NEW t \in Thread, ResolveRefreshed(t) PROVE Inv'
  <1> DEFINE c == NewCredential(mem[t].at)
             r == Resolving(t)
             m == [r EXCEPT !.bearer = c]
  <1>1. pc[t] \in Resolves
    BY DEF ResolveRefreshed, Resolves
  <1>2. /\ mem[t] \in Local /\ mem[t].at.mode \in Idp /\ state \in State
        /\ serial \in Nat /\ serial + 1 \in Nat /\ mem[t].at \in TargetType
        /\ mem[t].out.kind = "credential" =>
             mem[t].out.token.url = mem[t].at.url
    BY <1>1, Resolver
  <1>3. c \in Credential /\ ~c.dead /\ For(c, mem[t].at)
    BY <1>2, NewTypes DEF NewCredential
  <1>4. mem' = [mem EXCEPT ![t] = m] /\ pc' = [pc EXCEPT ![t] = "keep"]
        /\ serial' = serial + 1
    BY DEF ResolveRefreshed
  <1>5. r \in Local /\ Kept(mem[t], r) /\ r.at = mem[t].at
        /\ r.phase = mem[t].phase /\ r.out = mem[t].out
    BY <1>2, ResolvingType
  <1> HIDE DEF c, r
  <1>6. /\ m \in Local /\ Kept(r, m) /\ m.at = r.at /\ m.phase = r.phase
        /\ m.out = r.out /\ m.bearer = c
    BY <1>3, <1>5 DEF Local, Kept
  <1> HIDE DEF m
  <1>7. Kept(mem[t], m)
    BY <1>5, <1>6 DEF Kept
  <1>8. /\ serial' \in Nat /\ state' \in State
        /\ UNCHANGED <<file, target, renewal, switching, live, clock, handed,
                       started, stopped>>
        /\ state'.key = state.key /\ state'.credential = state.credential
    BY <1>2 DEF ResolveRefreshed, external
  <1>9. m.out.kind = "credential" => m.out.token.url = m.at.url
    BY <1>2, <1>5, <1>6
  <1> QED
    BY <1>1, <1>2, <1>3, <1>4, <1>5, <1>6, <1>7, <1>8, <1>9,
       ResolvedQuietly

LEMMA ResolveIdentityInv ==
  ASSUME Inv, NEW t \in Thread, ResolveIdentity(t) PROVE Inv'
  <1>1. pc[t] \in Resolves
    BY DEF ResolveIdentity, Resolves
  <1> DEFINE r == Resolving(t)
  <1>2. /\ mem[t] \in Local /\ state \in State /\ serial \in Nat
        /\ mem[t].out.kind = "credential" =>
             mem[t].out.token.url = mem[t].at.url
    BY <1>1, Resolver
  <1>3. PICK exchanges \in BOOLEAN :
          mem' = [mem EXCEPT ![t] = [r EXCEPT !.exchanges = exchanges]]
    BY DEF ResolveIdentity
  <1> DEFINE m == [r EXCEPT !.exchanges = exchanges]
  <1>4. pc' = [pc EXCEPT ![t] = "identity"]
    BY DEF ResolveIdentity
  <1>5. r \in Local /\ Kept(mem[t], r) /\ r.at = mem[t].at
        /\ r.phase = mem[t].phase /\ r.out = mem[t].out
    BY <1>2, ResolvingType
  <1> HIDE DEF r
  <1>6. /\ m \in Local /\ Kept(r, m) /\ m.at = r.at /\ m.phase = r.phase
        /\ m.out = r.out
    BY <1>5 DEF Local, Kept
  <1> HIDE DEF m
  <1>7. Kept(mem[t], m) /\ mem' = [mem EXCEPT ![t] = m]
    BY <1>3, <1>5, <1>6 DEF Kept, m
  <1>8. "identity" \in Resolves
    BY DEF Resolves
  <1>9. /\ serial' \in Nat /\ state' \in State
        /\ UNCHANGED <<file, target, renewal, switching, live, clock, handed,
                       started, stopped>>
        /\ state'.key = state.key /\ state'.credential = state.credential
    BY <1>2 DEF ResolveIdentity, external
  <1>10. m.out.kind = "credential" => m.out.token.url = m.at.url
    BY <1>2, <1>5, <1>6
  <1> QED
    BY <1>1, <1>2, <1>3, <1>4, <1>5, <1>6, <1>7, <1>8, <1>9, <1>10,
       ResolvedQuietly

\* What a thread with an identity token does next.
LEMMA IdentifiedWell ==
  ASSUME NEW t \in Thread, NEW m \in Local, m.session \in Nat, Identified(t, m),
         m.out.kind = "credential" => m.out.token.url = m.at.url
  PROVE  \E n \in Local, label \in {"exchange", "keep"} :
           /\ mem' = [mem EXCEPT ![t] = n] /\ pc' = [pc EXCEPT ![t] = label]
           /\ Kept(m, n) /\ n.at = m.at /\ n.phase = m.phase
           /\ n.out.kind = "credential" => n.out.token.url = n.at.url
           /\ label = "keep" => n.bearer = None
  <1> DEFINE token == TargetToken("identity_token", m.at, m.session)
             out == Issued(token)
             n == [m EXCEPT !.bearer = None, !.out = out]
  <1>1. CASE m.exchanges
    <2>1. mem' = [mem EXCEPT ![t] = m] /\ pc' = [pc EXCEPT ![t] = "exchange"]
          /\ Kept(m, m)
      BY <1>1 DEF Identified, Kept
    <2> QED
      BY <2>1
  <1>2. CASE ~m.exchanges
    <2>1. m.at \in TargetType
      BY DEF Local
    <2>2. token \in Token /\ token.url = m.at.url
      BY <2>1, TokenTypes
    <2>3. out \in Answer /\ out.token.url = m.at.url
      BY <2>2, IssuedType DEF Issued
    <2>4. mem' = [mem EXCEPT ![t] = n] /\ pc' = [pc EXCEPT ![t] = "keep"]
      BY <1>2 DEF Identified
    <2> HIDE DEF out
    <2>5. n \in Local
      BY <2>3 DEF Local
    <2>6. /\ Kept(m, n) /\ n.at = m.at /\ n.phase = m.phase
          /\ n.out = out /\ n.bearer = None
      BY DEF Local, Kept
    <2> HIDE DEF n
    <2> QED
      BY <2>3, <2>4, <2>5, <2>6
  <1> QED
    BY <1>1, <1>2

\* ... and one without.
LEMMA UnidentifiedWell ==
  ASSUME NEW t \in Thread, NEW m \in Local, NEW reason \in Reason,
         state \in State, m.at.mode \in Idp, Unidentified(t, m, reason)
  PROVE  \E n \in Local :
           /\ mem' = [mem EXCEPT ![t] = n] /\ pc' = [pc EXCEPT ![t] = "keep"]
           /\ Kept(m, n) /\ n.at = m.at /\ n.phase = m.phase
           /\ n.out.kind = "refused"
           /\ For(n.bearer, n.at)
           /\ n.bearer # None => ~n.bearer.dead
  <1> DEFINE n == [m EXCEPT !.bearer = None, !.out = Refused("gateway_error")]
             k == FallBack(m, reason)
  <1>1. CASE m.exchanges
    <2>1. mem' = [mem EXCEPT ![t] = k] /\ pc' = [pc EXCEPT ![t] = "keep"]
      BY <1>1 DEF Unidentified
    <2>2. /\ k \in Local /\ Kept(m, k) /\ k.at = m.at /\ k.phase = m.phase
          /\ k.out.kind = "refused"
          /\ For(k.bearer, k.at)
          /\ k.bearer # None => ~k.bearer.dead
      BY FallBackType
    <2> HIDE DEF k
    <2> QED
      BY <2>1, <2>2
  <1>2. CASE ~m.exchanges
    <2>1. mem' = [mem EXCEPT ![t] = n] /\ pc' = [pc EXCEPT ![t] = "keep"]
      BY <1>2 DEF Unidentified
    <2>2. /\ Refused("gateway_error") \in Answer
          /\ Refused("gateway_error").kind = "refused"
      BY RefusedType DEF Reason
    <2>3. n \in Local
      BY <2>2 DEF Local
    <2>4. /\ Kept(m, n) /\ n.at = m.at /\ n.phase = m.phase
          /\ n.out = Refused("gateway_error") /\ n.bearer = None
      BY DEF Local, Kept
    <2> HIDE DEF n
    <2> QED
      BY <2>1, <2>2, <2>3, <2>4
  <1> QED
    BY <1>1, <1>2

LEMMA IdentityReusedInv ==
  ASSUME Inv, NEW t \in Thread, IdentityReused(t) PROVE Inv'
  <1>1. pc[t] \in Resolves
    BY DEF IdentityReused, Resolves
  <1>2. /\ mem[t] \in Local /\ state \in State /\ serial \in Nat
        /\ mem[t].out.kind = "credential" =>
             mem[t].out.token.url = mem[t].at.url
    BY <1>1, Resolver
  <1>3. mem[t].session \in Nat
    BY <1>2 DEF IdentityReused, SessionLasts, Local
  <1>4. PICK n \in Local, label \in {"exchange", "keep"} :
           /\ mem' = [mem EXCEPT ![t] = n] /\ pc' = [pc EXCEPT ![t] = label]
           /\ Kept(mem[t], n) /\ n.at = mem[t].at /\ n.phase = mem[t].phase
           /\ n.out.kind = "credential" => n.out.token.url = n.at.url
           /\ label = "keep" => n.bearer = None
    BY <1>2, <1>3, IdentifiedWell DEF IdentityReused
  <1>5. /\ serial' \in Nat /\ state' \in State
        /\ UNCHANGED <<file, target, renewal, switching, live, clock, handed,
                       started, stopped>>
        /\ state'.key = state.key /\ state'.credential = state.credential
    BY <1>2 DEF IdentityReused, external
  <1>6. label \in Resolves \cup {"keep"}
    BY DEF Resolves
  <1> QED
    BY <1>1, <1>4, <1>5, <1>6, ResolvedQuietly

LEMMA IdentityRenewedInv ==
  ASSUME Inv, NEW t \in Thread, IdentityRenewed(t) PROVE Inv'
  <1>1. pc[t] \in Resolves
    BY DEF IdentityRenewed, Resolves
  <1> DEFINE m == [mem[t] EXCEPT !.session = serial + 1]
  <1>2. /\ mem[t] \in Local /\ state \in State /\ serial \in Nat
        /\ serial + 1 \in Nat
        /\ mem[t].out.kind = "credential" =>
             mem[t].out.token.url = mem[t].at.url
    BY <1>1, Resolver
  <1>3. /\ m \in Local /\ Kept(mem[t], m) /\ m.at = mem[t].at
        /\ m.phase = mem[t].phase /\ m.out = mem[t].out /\ m.session \in Nat
    BY <1>2 DEF Local, Kept
  <1>4. Identified(t, m)
    BY DEF IdentityRenewed
  <1> HIDE DEF m
  <1>5. PICK n \in Local, label \in {"exchange", "keep"} :
           /\ mem' = [mem EXCEPT ![t] = n] /\ pc' = [pc EXCEPT ![t] = label]
           /\ Kept(m, n) /\ n.at = m.at /\ n.phase = m.phase
           /\ n.out.kind = "credential" => n.out.token.url = n.at.url
           /\ label = "keep" => n.bearer = None
    BY <1>2, <1>3, <1>4, IdentifiedWell
  <1>6. /\ serial' \in Nat /\ state' \in State
        /\ UNCHANGED <<file, target, renewal, switching, live, clock, handed,
                       started, stopped>>
        /\ state'.key = state.key /\ state'.credential = state.credential
    BY <1>2 DEF IdentityRenewed, external
  <1>7. label \in Resolves \cup {"keep"}
    BY DEF Resolves
  <1>8. Kept(mem[t], n)
    BY <1>3, <1>5 DEF Kept
  <1> QED
    BY <1>1, <1>3, <1>5, <1>6, <1>7, <1>8, ResolvedQuietly

LEMMA IdentityMissingInv ==
  ASSUME Inv, NEW t \in Thread, IdentityMissing(t) PROVE Inv'
  <1>1. pc[t] \in Resolves
    BY DEF IdentityMissing, Resolves
  <1>2. /\ mem[t] \in Local /\ state \in State /\ serial \in Nat
        /\ mem[t].at.mode \in Idp
    BY <1>1, Resolver
  <1>3. PICK n \in Local :
           /\ mem' = [mem EXCEPT ![t] = n] /\ pc' = [pc EXCEPT ![t] = "keep"]
           /\ Kept(mem[t], n) /\ n.at = mem[t].at /\ n.phase = mem[t].phase
           /\ n.out.kind = "refused"
           /\ For(n.bearer, n.at)
           /\ n.bearer # None => ~n.bearer.dead
    <2>1. "signed_out" \in Reason
      BY DEF Reason
    <2> QED
      BY <1>2, <2>1, UnidentifiedWell DEF IdentityMissing
  <1>4. /\ serial' \in Nat /\ state' \in State
        /\ UNCHANGED <<file, target, renewal, switching, live, clock, handed,
                       started, stopped>>
        /\ state'.key = state.key /\ state'.credential = state.credential
    BY <1>2 DEF IdentityMissing, external
  <1> QED
    BY <1>1, <1>3, <1>4, ResolvedQuietly

LEMMA OpenPageInv == ASSUME Inv, NEW t \in Thread, OpenPage(t) PROVE Inv'
  <1>1. pc[t] \in Resolves
    BY DEF OpenPage, Resolves
  <1>2. /\ mem[t] \in Local /\ state \in State /\ serial \in Nat
        /\ mem[t].out.kind = "credential" =>
             mem[t].out.token.url = mem[t].at.url
    BY <1>1, Resolver
  <1>3. /\ serial' \in Nat /\ state' \in State
        /\ UNCHANGED <<file, target, renewal, switching, live, clock, handed,
                       started, stopped>>
        /\ state'.key = state.key /\ state'.credential = state.credential
    BY <1>2 DEF OpenPage, external, State
  <1>4. /\ mem' = [mem EXCEPT ![t] = mem[t]]
        /\ pc' = [pc EXCEPT ![t] = "browser"] /\ Kept(mem[t], mem[t])
    BY DEF OpenPage, Inv, TypeOK, Kept
  <1>5. "browser" \in Resolves
    BY DEF Resolves
  <1> QED
    BY <1>1, <1>2, <1>3, <1>4, <1>5, ResolvedQuietly

LEMMA BrowserSignsInInv ==
  ASSUME Inv, NEW t \in Thread, BrowserSignsIn(t) PROVE Inv'
  <1>1. pc[t] \in Resolves
    BY DEF BrowserSignsIn, Resolves
  <1> DEFINE m == [mem[t] EXCEPT !.session = serial + 1]
  <1>2. /\ mem[t] \in Local /\ state \in State /\ serial \in Nat
        /\ serial + 1 \in Nat
        /\ mem[t].out.kind = "credential" =>
             mem[t].out.token.url = mem[t].at.url
    BY <1>1, Resolver
  <1>3. /\ m \in Local /\ Kept(mem[t], m) /\ m.at = mem[t].at
        /\ m.phase = mem[t].phase /\ m.out = mem[t].out /\ m.session \in Nat
    BY <1>2 DEF Local, Kept
  <1>4. Identified(t, m)
    BY DEF BrowserSignsIn
  <1> HIDE DEF m
  <1>5. PICK n \in Local, label \in {"exchange", "keep"} :
           /\ mem' = [mem EXCEPT ![t] = n] /\ pc' = [pc EXCEPT ![t] = label]
           /\ Kept(m, n) /\ n.at = m.at /\ n.phase = m.phase
           /\ n.out.kind = "credential" => n.out.token.url = n.at.url
           /\ label = "keep" => n.bearer = None
    BY <1>2, <1>3, <1>4, IdentifiedWell
  <1>6. /\ serial' \in Nat /\ state' \in State
        /\ UNCHANGED <<file, target, renewal, switching, live, clock, handed,
                       started, stopped>>
        /\ state'.key = state.key /\ state'.credential = state.credential
    BY <1>2 DEF BrowserSignsIn, external, State
  <1>7. label \in Resolves \cup {"keep"}
    BY DEF Resolves
  <1>8. Kept(mem[t], n)
    BY <1>3, <1>5 DEF Kept
  <1> QED
    BY <1>1, <1>3, <1>5, <1>6, <1>7, <1>8, ResolvedQuietly

LEMMA BrowserFailsInv ==
  ASSUME Inv, NEW t \in Thread, BrowserFails(t) PROVE Inv'
  <1>1. pc[t] \in Resolves
    BY DEF BrowserFails, Resolves
  <1>2. /\ mem[t] \in Local /\ state \in State /\ serial \in Nat
        /\ mem[t].at.mode \in Idp
    BY <1>1, Resolver
  <1>3. PICK n \in Local :
           /\ mem' = [mem EXCEPT ![t] = n] /\ pc' = [pc EXCEPT ![t] = "keep"]
           /\ Kept(mem[t], n) /\ n.at = mem[t].at /\ n.phase = mem[t].phase
           /\ n.out.kind = "refused"
           /\ For(n.bearer, n.at)
           /\ n.bearer # None => ~n.bearer.dead
    <2>1. "sign_in_failed" \in Reason
      BY DEF Reason
    <2> QED
      BY <1>2, <2>1, UnidentifiedWell DEF BrowserFails
  <1>4. /\ serial' \in Nat /\ state' \in State
        /\ UNCHANGED <<file, target, renewal, switching, live, clock, handed,
                       started, stopped>>
        /\ state'.key = state.key /\ state'.credential = state.credential
    BY <1>2 DEF BrowserFails, external, State
  <1> QED
    BY <1>1, <1>3, <1>4, ResolvedQuietly

LEMMA ExchangeInv == ASSUME Inv, NEW t \in Thread, Exchange(t) PROVE Inv'
  <1> DEFINE c == NewCredential(mem[t].at)
             m == [mem[t] EXCEPT !.bearer = c]
  <1>1. pc[t] \in Resolves
    BY DEF Exchange, Resolves
  <1>2. /\ mem[t] \in Local /\ mem[t].at.mode \in Idp /\ state \in State
        /\ serial \in Nat /\ serial + 1 \in Nat /\ mem[t].at \in TargetType
        /\ mem[t].out.kind = "credential" =>
             mem[t].out.token.url = mem[t].at.url
    BY <1>1, Resolver
  <1>3. c \in Credential /\ ~c.dead /\ For(c, mem[t].at)
    BY <1>2, NewTypes DEF NewCredential
  <1>4. mem' = [mem EXCEPT ![t] = m] /\ pc' = [pc EXCEPT ![t] = "keep"]
        /\ serial' = serial + 1
    BY DEF Exchange
  <1> HIDE DEF c
  <1>5. /\ m \in Local /\ Kept(mem[t], m) /\ m.at = mem[t].at
        /\ m.phase = mem[t].phase /\ m.out = mem[t].out /\ m.bearer = c
    BY <1>2, <1>3 DEF Local, Kept
  <1> HIDE DEF m
  <1>6. /\ serial' \in Nat /\ state' \in State
        /\ UNCHANGED <<file, target, renewal, switching, live, clock, handed,
                       started, stopped>>
        /\ state'.key = state.key /\ state'.credential = state.credential
    BY <1>2 DEF Exchange, external
  <1> QED
    BY <1>1, <1>2, <1>3, <1>4, <1>5, <1>6, ResolvedQuietly

LEMMA ExchangeFailsInv ==
  ASSUME Inv, NEW t \in Thread, ExchangeFails(t) PROVE Inv'
  <1> DEFINE m == FallBack(mem[t], "gateway_error")
  <1>1. pc[t] \in Resolves
    BY DEF ExchangeFails, Resolves
  <1>2. mem[t] \in Local /\ mem[t].at.mode \in Idp /\ state \in State
        /\ serial \in Nat
    BY <1>1, Resolver
  <1>3. mem' = [mem EXCEPT ![t] = m] /\ pc' = [pc EXCEPT ![t] = "keep"]
    BY DEF ExchangeFails
  <1>4. /\ m \in Local /\ Kept(mem[t], m) /\ m.at = mem[t].at
        /\ m.phase = mem[t].phase /\ m.out.kind = "refused"
        /\ For(m.bearer, m.at)
        /\ m.bearer # None => ~m.bearer.dead
    <2>1. "gateway_error" \in Reason
      BY DEF Reason
    <2> QED
      BY <1>2, <2>1, FallBackType
  <1> HIDE DEF m
  <1>5. /\ serial' \in Nat /\ state' \in State
        /\ UNCHANGED <<file, target, renewal, switching, live, clock, handed,
                       started, stopped>>
        /\ state'.key = state.key /\ state'.credential = state.credential
    BY <1>2 DEF ExchangeFails, external
  <1> QED
    BY <1>1, <1>3, <1>4, <1>5, ResolvedQuietly

-----------------------------------------------------------------------------
(* The key *)

LEMMA KeepInv == ASSUME Inv, NEW t \in Thread, Keep(t) PROVE Inv'
  <1>1. pc[t] = "keep" /\ mem[t].bearer # None
    BY DEF Keep
  <1>2. /\ mem[t] \in Local /\ state \in State /\ mem[t].at = target
        /\ mem[t].bearer \in Credential /\ For(mem[t].bearer, target)
        /\ ~mem[t].bearer.dead /\ renewal = t /\ mem \in [Thread -> Local]
    BY <1>1, Bearing
  <1>3. /\ state' \in State /\ state'.key = state.key
        /\ state'.credential = mem[t].bearer
    BY <1>2 DEF Keep, State, Local
  <1>4. PICK label \in {"mint", "extend"} :
          /\ pc' = [pc EXCEPT ![t] = label]
          /\ label = "extend" => mem[t].phase = "tick"
    BY DEF Keep
  <1>5. mem' = [mem EXCEPT ![t] = mem[t]] /\ UNCHANGED <<target, renewal>>
    BY <1>2 DEF Keep
  <1>6. TypeOK'
    BY <1>2, <1>3, <1>4, <1>5 DEF Keep, Inv, TypeOK, external, Label
  <1>7. StateForTarget'
    BY <1>1, <1>2, <1>3, <1>5 DEF Inv, StateForTarget
  <1>8. ThreadInv(t)'
    BY SMTT(30), <1>1, <1>2, <1>3, <1>4, <1>5 DEF Inv, TypeOK, ThreadInv
  <1> QED
    BY <1>2, <1>4, <1>5, <1>6, <1>7, <1>8, Holding DEF Label

\* A thread that comes to its answer.
LEMMA Answering ==
  ASSUME Inv, NEW t \in Thread, pc[t] \in {"keep", "mint"},
         NEW m \in Local, Kept(mem[t], m), m.at = mem[t].at,
         m.phase = mem[t].phase,
         m.out.kind = "credential" => m.out.token.url = m.at.url,
         pc' = [pc EXCEPT ![t] = "answer"], mem' = [mem EXCEPT ![t] = m],
         target' = target, renewal' = renewal
  PROVE  ThreadInv(t)'
  BY SMTT(30) DEF Inv, TypeOK, ThreadInv, Kept

LEMMA KeepNoneInv == ASSUME Inv, NEW t \in Thread, KeepNone(t) PROVE Inv'
  <1> DEFINE m1 == [mem[t] EXCEPT !.bearer = state.credential]
             m2 == [mem[t] EXCEPT !.out = Refused("gateway_error")]
  <1>1. pc[t] = "keep"
    BY DEF KeepNone
  <1>2. /\ mem[t] \in Local /\ state \in State /\ mem[t].at = target
        /\ renewal = t /\ mem \in [Thread -> Local]
        /\ mem[t].out.kind = "credential" =>
              mem[t].out.token.url = mem[t].at.url
    BY <1>1, Bearing
  <1>3. /\ state' \in State /\ state'.key = state.key
        /\ state'.credential = state.credential
    BY <1>2 DEF KeepNone, State, Local
  <1>4. UNCHANGED <<file, target, renewal, switching, live, clock, serial,
                    handed, started, stopped>>
    BY DEF KeepNone, external
  <1>5. CASE /\ mem[t].phase = "tick"
             /\ mem' = [mem EXCEPT ![t] = m1]
             /\ pc' = [pc EXCEPT ![t] = "extend"]
    <2>1. /\ m1 \in Local /\ Kept(mem[t], m1) /\ m1.at = mem[t].at
          /\ m1.bearer = state.credential /\ m1.phase = mem[t].phase
          /\ m1.out = mem[t].out
      BY <1>2 DEF Local, Kept, State
    <2>2. For(state.credential, target) /\ state.credential # None
      BY <1>1, <1>5 DEF Inv, StateForTarget, ThreadInv
    <2> HIDE DEF m1
    <2>3. TypeOK'
      BY <1>3, <1>4, <1>5, <2>1 DEF Inv, TypeOK, Label
    <2>4. ThreadInv(t)'
      <3>1. ThreadInv(t) /\ pc \in [Thread -> Label]
        BY DEF Inv, TypeOK
      <3>2. mem[t].req.op # "bearer_for_proxy" \/ mem[t].req = None
        BY <1>5, <3>1 DEF ThreadInv
      <3>3. /\ pc'[t] = "extend" /\ mem'[t] = m1 /\ renewal' = t
            /\ target' = target /\ m1.at = target /\ m1.bearer # None
            /\ For(m1.bearer, m1.at)
        BY <1>2, <1>4, <1>5, <2>1, <2>2, <3>1
      <3> QED
        BY <1>1, <1>2, <2>1, <3>1, <3>2, <3>3 DEF ThreadInv, Kept
    <2> QED
      BY <1>2, <1>3, <1>4, <1>5, <2>1, <2>3, <2>4, Unserved DEF Label
  <1>6. CASE /\ mem' = [mem EXCEPT ![t] = m2]
             /\ pc' = [pc EXCEPT ![t] = "answer"]
    <2>1. /\ m2 \in Local /\ Kept(mem[t], m2) /\ m2.at = mem[t].at
          /\ m2.phase = mem[t].phase /\ m2.out.kind = "refused"
      BY <1>2, RefusedType DEF Local, Kept, Reason
    <2> HIDE DEF m2
    <2>2. TypeOK'
      BY <1>3, <1>4, <1>6, <2>1 DEF Inv, TypeOK, Label
    <2>3. ThreadInv(t)'
      BY <1>1, <1>4, <1>6, <2>1, Answering
    <2> QED
      BY <1>2, <1>3, <1>4, <1>6, <2>1, <2>2, <2>3, Unserved DEF Label
  <1>7. CASE /\ mem' = [mem EXCEPT ![t] = mem[t]]
             /\ pc' = [pc EXCEPT ![t] = "answer"]
    <2>1. TypeOK'
      BY <1>2, <1>3, <1>4, <1>7 DEF Inv, TypeOK, Label
    <2>2. ThreadInv(t)'
      BY <1>1, <1>2, <1>4, <1>7, Answering DEF Kept
    <2> QED
      BY <1>2, <1>3, <1>4, <1>7, <2>1, <2>2, Unserved DEF Label
  <1> QED
    BY <1>5, <1>6, <1>7 DEF KeepNone

\* A session credential is served where no key can be.
LEMMA ServeCredentialWell ==
  ASSUME Inv, NEW t \in Thread, pc[t] = "mint", ServeCredential(t),
         target' = target, renewal' = renewal
  PROVE  /\ ThreadInv(t)'
         /\ \E m \in Local : /\ mem' = [mem EXCEPT ![t] = m]
                             /\ pc' = [pc EXCEPT ![t] = "answer"]
  <1> DEFINE out == Issued(CredentialToken(mem[t].bearer))
             m == [mem[t] EXCEPT !.out = out]
  <1>1. /\ mem[t] \in Local /\ mem[t].at = target
        /\ mem[t].bearer \in Credential /\ mem[t].bearer.url = target.url
    BY Bearing
  <1>2. out \in Answer /\ out.token.url = target.url
    BY <1>1, TokenTypes, IssuedType DEF Issued
  <1>3. mem' = [mem EXCEPT ![t] = m] /\ pc' = [pc EXCEPT ![t] = "answer"]
    BY DEF ServeCredential
  <1> HIDE DEF out
  <1>4. /\ m \in Local /\ Kept(mem[t], m) /\ m.at = mem[t].at
        /\ m.phase = mem[t].phase /\ m.out = out
    BY <1>1, <1>2 DEF Local, Kept
  <1> HIDE DEF m
  <1>5. ThreadInv(t)'
    BY <1>1, <1>2, <1>3, <1>4, Answering
  <1> QED
    BY <1>3, <1>4, <1>5

LEMMA MintSkippedInv ==
  ASSUME Inv, NEW t \in Thread, MintSkipped(t) PROVE Inv'
  <1>1. pc[t] = "mint" /\ UNCHANGED <<file, target, state, renewal, switching,
           live, clock, serial, handed, started, stopped>>
    BY DEF MintSkipped, external
  <1>2. ThreadInv(t)' /\ \E m \in Local : /\ mem' = [mem EXCEPT ![t] = m]
                                         /\ pc' = [pc EXCEPT ![t] = "answer"]
    BY <1>1, ServeCredentialWell DEF MintSkipped
  <1> QED
    BY <1>1, <1>2, Quiet DEF Label

LEMMA MintFailsInv == ASSUME Inv, NEW t \in Thread, MintFails(t) PROVE Inv'
  <1>1. pc[t] = "mint" /\ UNCHANGED <<file, target, state, renewal, switching,
           live, clock, serial, handed, started, stopped>>
    BY DEF MintFails, Mints, external
  <1>2. ThreadInv(t)' /\ \E m \in Local : /\ mem' = [mem EXCEPT ![t] = m]
                                         /\ pc' = [pc EXCEPT ![t] = "answer"]
    BY <1>1, ServeCredentialWell DEF MintFails
  <1> QED
    BY <1>1, <1>2, Quiet DEF Label

LEMMA MintRefusedInv ==
  ASSUME Inv, NEW t \in Thread, MintRefused(t) PROVE Inv'
  <1>1. pc[t] = "mint" /\ UNCHANGED <<file, target, renewal, switching,
           live, clock, serial, handed, started, stopped>>
    BY DEF MintRefused, Mints, external
  <1>2. PICK m \in Local : /\ mem' = [mem EXCEPT ![t] = m]
                          /\ pc' = [pc EXCEPT ![t] = "answer"]
    BY <1>1, ServeCredentialWell DEF MintRefused
  <1>3. ThreadInv(t)'
    BY <1>1, ServeCredentialWell DEF MintRefused
  <1>4. /\ state' \in State /\ state'.key = state.key
        /\ state'.credential = state.credential
    <2>1. state \in State /\ mem[t].bearer.id \in Nat
      BY <1>1, Bearing DEF Credential
    <2> QED
      BY <2>1 DEF MintRefused, State
  <1>5. TypeOK'
    BY <1>1, <1>2, <1>4 DEF Inv, TypeOK, Label
  <1> QED
    BY <1>1, <1>2, <1>3, <1>4, <1>5, Unserved DEF Label

LEMMA MintLostInv == ASSUME Inv, NEW t \in Thread, MintLost(t) PROVE Inv'
  <1>1. pc[t] = "mint" /\ UNCHANGED <<file, target, state, renewal, switching,
           clock, handed, started, stopped>>
    BY DEF MintLost, Mints
  <1>2. PICK m \in Local : /\ mem' = [mem EXCEPT ![t] = m]
                          /\ pc' = [pc EXCEPT ![t] = "answer"]
    BY <1>1, ServeCredentialWell DEF MintLost
  <1>3. ThreadInv(t)'
    BY <1>1, ServeCredentialWell DEF MintLost
  <1>4. serial' \in Nat /\ live' \in SUBSET Key
    <2>1. /\ serial \in Nat /\ serial + 1 \in Nat /\ mem[t].at \in TargetType
          /\ live \in SUBSET Key
      BY <1>1, Bearing DEF Inv, TypeOK
    <2> QED
      BY <2>1, NewTypes DEF MintLost
  <1>5. TypeOK'
    BY <1>1, <1>2, <1>4 DEF Inv, TypeOK, Label
  <1> QED
    BY <1>1, <1>2, <1>3, <1>5, Unserved DEF Label

LEMMA MintInv == ASSUME Inv, NEW t \in Thread, Mint(t) PROVE Inv'
  <1> DEFINE key == NewKey(mem[t].at)
             out == Issued(KeyToken(key))
             m == [mem[t] EXCEPT !.out = out]
  <1>1. pc[t] = "mint" /\ UNCHANGED <<file, target, renewal, switching,
           clock, handed, started, stopped>>
    BY DEF Mint, Mints
  <1>2. /\ mem[t] \in Local /\ mem[t].at = target /\ mem[t].at \in TargetType
        /\ serial \in Nat /\ serial + 1 \in Nat /\ state \in State
        /\ target.mode \in Idp /\ renewal = t
        /\ mem[t].bearer \in Credential /\ For(mem[t].bearer, target)
        /\ ~mem[t].bearer.dead /\ mem[t].bearer # None
        /\ state.credential = mem[t].bearer
    BY <1>1, Bearing
  <1>3. key \in Key /\ key.url = target.url /\ key.team = target.team
    BY <1>2, NewTypes DEF NewKey
  <1>4. mem' = [mem EXCEPT ![t] = m] /\ pc' = [pc EXCEPT ![t] = "answer"]
        /\ live' = live \cup {key} /\ serial' = serial + 1
        /\ state' = [state EXCEPT !.key = key, !.mintRefusal = None]
    BY DEF Mint
  <1> HIDE DEF key
  <1>5. out \in Answer /\ out.token.url = target.url
    BY <1>3, TokenTypes, IssuedType DEF Issued
  <1> HIDE DEF out
  <1>6. /\ m \in Local /\ Kept(mem[t], m) /\ m.at = mem[t].at
        /\ m.phase = mem[t].phase /\ m.out = out
    BY <1>2, <1>5 DEF Local, Kept
  <1> HIDE DEF m
  <1>7. /\ state' \in State /\ state'.key = key
        /\ state'.credential = state.credential
    BY <1>2, <1>3, <1>4 DEF State
  <1>8. TypeOK'
    BY <1>1, <1>2, <1>3, <1>4, <1>6, <1>7 DEF Inv, TypeOK, Label
  <1>9. StateForTarget'
    BY <1>1, <1>2, <1>3, <1>7 DEF StateForTarget
  <1>10. ThreadInv(t)'
    BY <1>1, <1>2, <1>4, <1>5, <1>6, Answering
  <1> QED
    BY <1>2, <1>4, <1>6, <1>8, <1>9, <1>10, Holding DEF Label

LEMMA MintUnauthorizedInv ==
  ASSUME Inv, NEW t \in Thread, MintUnauthorized(t) PROVE Inv'
  <1> DEFINE m == [mem[t] EXCEPT !.out = Refused("gateway_error")]
  <1>1. pc[t] = "mint" /\ UNCHANGED <<file, target, state, renewal, switching,
           live, clock, serial, handed, started, stopped>>
    BY DEF MintUnauthorized, Mints, external
  <1>2. /\ mem[t] \in Local /\ mem \in [Thread -> Local]
    BY <1>1, Bearing
  <1>3. CASE pc' = [pc EXCEPT ![t] = "dead"] /\ mem' = mem
    <2>1. mem' = [mem EXCEPT ![t] = mem[t]]
      BY <1>2, <1>3
    <2>2. ThreadInv(t)'
      BY <1>1, <1>3 DEF Inv, TypeOK, ThreadInv
    <2> QED
      BY <1>1, <1>2, <1>3, <2>1, <2>2, Quiet DEF Label
  <1>4. CASE /\ pc' = [pc EXCEPT ![t] = "answer"]
             /\ mem' = [mem EXCEPT ![t] = m]
    <2>1. /\ m \in Local /\ Kept(mem[t], m) /\ m.at = mem[t].at
          /\ m.phase = mem[t].phase /\ m.out.kind = "refused"
      BY <1>2, RefusedType DEF Local, Kept, Reason
    <2> HIDE DEF m
    <2>2. ThreadInv(t)'
      BY <1>1, <1>4, <2>1, Answering
    <2> QED
      BY <1>1, <1>4, <2>1, <2>2, Quiet DEF Label
  <1> QED
    BY <1>3, <1>4 DEF MintUnauthorized

LEMMA DeadInv == ASSUME Inv, NEW t \in Thread, Dead(t) PROVE Inv'
  <1> DEFINE m == [mem[t] EXCEPT !.now = clock, !.phase = "again"]
  <1>1. pc[t] = "dead" /\ UNCHANGED <<file, target, renewal, switching,
           live, clock, serial, handed, started, stopped>>
    BY DEF Dead, external
  <1>2. /\ mem[t] \in Local /\ state \in State /\ mem[t].at = target
        /\ renewal = t /\ clock \in Time /\ target.mode \in Idp
        /\ mem[t].bearer \in Credential /\ For(mem[t].bearer, target)
        /\ mem[t].bearer # None
    BY <1>1, Bearing
  <1>3. mem' = [mem EXCEPT ![t] = m] /\ pc' = [pc EXCEPT ![t] = "resolve"]
    BY DEF Dead
  <1>4. /\ m \in Local /\ Kept(mem[t], m) /\ m.at = mem[t].at
        /\ m.phase = "again" /\ m.out = mem[t].out
    BY <1>2 DEF Local, Kept
  <1> HIDE DEF m
  <1>5. /\ state' \in State /\ state'.key = None
        /\ For(state'.credential, target)
    <2>1. state' = MarkedDead(mem[t].bearer)
      BY DEF Dead
    <2> QED
      BY <1>2, <2>1, MarkedDeadType
  <1>6. TypeOK'
    BY <1>1, <1>3, <1>4, <1>5 DEF Inv, TypeOK, Label
  <1>7. StateForTarget'
    BY <1>1, <1>5 DEF StateForTarget
  <1>8. ThreadInv(t)'
    BY SMTT(30), <1>1, <1>2, <1>3, <1>4 DEF Inv, TypeOK, ThreadInv, Kept
  <1> QED
    BY <1>2, <1>3, <1>4, <1>6, <1>7, <1>8, Holding DEF Label

-----------------------------------------------------------------------------
(* The tick, and switches *)

LEMMA TickInv == ASSUME Inv, NEW t \in Thread, Tick(t) PROVE Inv'
  <1> DEFINE c == state.credential
             m == [mem[t] EXCEPT !.at = target, !.now = clock, !.out = NoAnswer]
             m1 == [m EXCEPT !.bearer = c]
             m2 == [m EXCEPT !.phase = "tick"]
  <1>1. TypeOK /\ ThreadInv(t) /\ pc[t] = "lockTick" /\ mem[t] \in Local
        /\ target \in TargetType /\ clock \in Time /\ state \in State
        /\ Kept(mem[t], mem[t]) /\ mem \in [Thread -> Local]
    BY DEF Inv, Tick, TypeOK, Kept
  <1>2. mem[t].req \in Request /\ mem[t].req.op # "bearer_for_proxy"
    BY <1>1, NotTheProxys
  <1>3. m \in Local
    BY <1>1, Defaults DEF Local
  <1>4. Kept(mem[t], m) /\ m.at = target /\ m.out = NoAnswer
    BY <1>1 DEF Local, Kept
  <1>5. NoAnswer.kind = "none" /\ UNCHANGED <<file, target, state, switching,
           live, clock, serial, handed, started, stopped>>
    BY DEF NoAnswer, Tick, external
  <1>6. CASE target.mode \notin Idp \/ c = None
    <2>1. pc' = [pc EXCEPT ![t] = "finish"] /\ mem' = mem /\ renewal' = renewal
      BY <1>6 DEF Tick
    <2>2. mem' = [mem EXCEPT ![t] = mem[t]]
      BY <1>1, <2>1
    <2> QED
      BY <1>1, <1>2, <1>5, <2>1, <2>2, FreedQuietly DEF Free
  <1>7. CASE target.mode \in Idp /\ c # None /\ Fresh(c, clock)
    <2>1. /\ mem' = [mem EXCEPT ![t] = m1] /\ pc' = [pc EXCEPT ![t] = "extend"]
          /\ renewal' = t /\ renewal = None
      BY <1>7 DEF Tick
    <2>2. For(c, target)
      BY DEF Inv, StateForTarget
    <2> HIDE DEF m
    <2>3. /\ m1 \in Local /\ Kept(m, m1) /\ m1.at = target /\ m1.bearer = c
          /\ m1.out = NoAnswer
      BY <1>1, <1>3, <1>4, <1>7 DEF Local, Kept, State
    <2> HIDE DEF m1
    <2>4. Kept(mem[t], m1)
      BY <1>4, <2>3 DEF Kept
    <2>5. TypeOK'
      BY <1>1, <1>5, <2>1, <2>3 DEF TypeOK, Label
    <2>6. ThreadInv(t)'
      BY <1>1, <1>2, <1>5, <1>7, <2>1, <2>2, <2>3, <2>4 DEF TypeOK, ThreadInv, Kept
    <2> QED
      BY <1>5, <2>1, <2>3, <2>5, <2>6, Unserved DEF Label
  <1>8. CASE target.mode \in Idp /\ c # None /\ ~Fresh(c, clock)
    <2>1. /\ mem' = [mem EXCEPT ![t] = m2] /\ pc' = [pc EXCEPT ![t] = "resolve"]
          /\ renewal' = t /\ renewal = None
      BY <1>8 DEF Tick
    <2> HIDE DEF m
    <2>2. /\ m2 \in Local /\ Kept(m, m2) /\ m2.at = target
          /\ m2.out = NoAnswer
      BY <1>3, <1>4 DEF Local, Kept
    <2> HIDE DEF m2
    <2>3. Kept(mem[t], m2)
      BY <1>4, <2>2 DEF Kept
    <2>4. TypeOK'
      BY <1>1, <1>5, <2>1, <2>2 DEF TypeOK, Label
    <2>5. ThreadInv(t)'
      BY <1>1, <1>2, <1>5, <1>8, <2>1, <2>2, <2>3 DEF TypeOK, ThreadInv, Kept
    <2> QED
      BY <1>5, <2>1, <2>2, <2>4, <2>5, Unserved DEF Label
  <1> QED
    BY <1>6, <1>7, <1>8

\* The three ways the extension ends the tick.
LEMMA ExtendEnds ==
  ASSUME Inv, NEW t \in Thread, pc[t] = "extend",
         pc' = [pc EXCEPT ![t] = "finish"], clock' \in Time,
         UNCHANGED <<file, target, state, renewal, switching, live, serial,
                     handed, started, stopped, mem>>
  PROVE  Inv'
  <1>1. TypeOK /\ ThreadInv(t) /\ mem[t] \in Local /\ Kept(mem[t], mem[t])
        /\ mem' = [mem EXCEPT ![t] = mem[t]]
    BY DEF Inv, TypeOK, Kept
  <1>2. mem[t].req \in Request /\ mem[t].req.op # "bearer_for_proxy"
    BY <1>1, NotTheProxys
  <1>3. TypeOK'
    BY <1>1 DEF TypeOK, Label
  <1>4. ThreadInv(t)'
    BY <1>1, <1>2, Freed DEF Free
  <1> QED
    BY <1>1, <1>3, <1>4, Unserved DEF Label

LEMMA ExtendInv ==
  ASSUME Inv, NEW t \in Thread, ExtendNotDue(t) \/ Extend(t) \/ ExtendFails(t)
  PROVE  Inv'
  <1>1. clock' \in Time
    BY DEF Inv, TypeOK, Time, ExtendNotDue, Extend, ExtendFails, external
  <1>2. /\ pc[t] = "extend" /\ pc' = [pc EXCEPT ![t] = "finish"]
        /\ UNCHANGED <<file, target, state, renewal, switching, live, serial,
                       handed, started, stopped, mem>>
    BY DEF ExtendNotDue, Extend, ExtendFails, external
  <1> QED
    BY <1>1, <1>2, ExtendEnds

LEMMA ExtendUnauthorizedInv ==
  ASSUME Inv, NEW t \in Thread, ExtendUnauthorized(t) PROVE Inv'
  <1> DEFINE m == [mem[t] EXCEPT !.phase = "tickAgain"]
  <1>1. pc[t] = "extend" /\ UNCHANGED <<file, target, renewal, switching,
           live, clock, serial, handed, started, stopped>>
    BY DEF ExtendUnauthorized, external
  <1>2. /\ mem[t] \in Local /\ state \in State /\ mem[t].at = target
        /\ renewal = t /\ target.mode \in Idp
        /\ mem[t].bearer \in Credential /\ For(mem[t].bearer, target)
        /\ mem[t].bearer # None
    BY <1>1, Bearing
  <1>3. mem' = [mem EXCEPT ![t] = m] /\ pc' = [pc EXCEPT ![t] = "resolve"]
    BY DEF ExtendUnauthorized
  <1>4. /\ m \in Local /\ Kept(mem[t], m) /\ m.at = mem[t].at
        /\ m.phase = "tickAgain" /\ m.out = mem[t].out
    BY <1>2 DEF Local, Kept
  <1> HIDE DEF m
  <1>5. /\ state' \in State /\ state'.key = None
        /\ For(state'.credential, target)
    <2>1. state' = MarkedDead(mem[t].bearer)
      BY DEF ExtendUnauthorized
    <2> QED
      BY <1>2, <2>1, MarkedDeadType
  <1>6. TypeOK'
    BY <1>1, <1>3, <1>4, <1>5 DEF Inv, TypeOK, Label
  <1>7. StateForTarget'
    BY <1>1, <1>5 DEF StateForTarget
  <1>8. ThreadInv(t)'
    BY SMTT(30), <1>1, <1>2, <1>3, <1>4 DEF Inv, TypeOK, ThreadInv, Kept
  <1> QED
    BY <1>2, <1>3, <1>4, <1>6, <1>7, <1>8, Holding DEF Label

LEMMA StoreFailsInv == ASSUME Inv, NEW t \in Thread, StoreFails(t) PROVE Inv'
  <1> DEFINE m == [mem[t] EXCEPT !.out = Refused("switch_failed")]
  <1>1. TypeOK /\ ThreadInv(t) /\ pc[t] = "store" /\ mem[t] \in Local
    BY DEF Inv, StoreFails, TypeOK
  <1>2. mem[t].req \in Request /\ mem[t].req.op # "bearer_for_proxy"
    BY <1>1, NotTheProxys
  <1>3. m \in Local /\ Kept(mem[t], m)
    BY <1>1, RefusedType DEF Local, Kept, Reason
  <1>4. mem' = [mem EXCEPT ![t] = m] /\ pc' = [pc EXCEPT ![t] = "finish"]
    BY DEF StoreFails, Ends
  <1> HIDE DEF m
  <1> QED
    BY <1>2, <1>3, <1>4, FreedQuietly DEF StoreFails, external, Free

LEMMA SavedType ==
  ASSUME TypeOK, NEW s \in Setting
  PROVE  Saved(s) \in [version : Nat, settings : Setting \cup {Malformed}]
  BY DEF TypeOK, Saved

LEMMA StoreInv == ASSUME Inv, NEW t \in Thread, Store(t) PROVE Inv'
  <1> DEFINE m == [mem[t] EXCEPT !.before = target, !.held = HoldNow,
                                 !.moving = TRUE, !.ret = "reissue"]
  <1>1. TypeOK /\ ThreadInv(t) /\ StateForTarget /\ pc[t] = "store"
        /\ mem[t] \in Local /\ renewal = t
    BY DEF Inv, Store, TypeOK, ThreadInv
  <1>2. mem[t].req \in Request /\ mem[t].req.op # "bearer_for_proxy"
    BY <1>1, NotTheProxys
  <1>3. mem' = [mem EXCEPT ![t] = m] /\ pc' = [pc EXCEPT ![t] = "apply"]
        /\ UNCHANGED <<target, renewal>>
    BY DEF Store
  <1>4. HoldNow \in Hold /\ HoldNow.key = state.key
        /\ HoldNow.credential = state.credential /\ target \in TargetType
    BY <1>1, HoldNowType DEF HoldNow, TypeOK
  <1> HIDE DEF HoldNow
  <1>5. m \in Local
    <2>1. "reissue" \in Label
      BY DEF Label
    <2> QED
      BY <1>1, <1>4, <2>1 DEF Local
  <1>6. /\ m.req = mem[t].req /\ m.before = target /\ m.held = HoldNow
        /\ m.ret = "reissue"
    BY <1>1 DEF Local
  <1> HIDE DEF m
  <1>7. /\ state' \in State /\ state'.key = None /\ state'.credential = None
    BY <1>1, ForgottenType DEF Store, TypeOK
  <1>8. file' \in [version : Nat, settings : Setting \cup {Malformed}]
    <2>1. Applied(mem[t].patch, mem[t].loaded) \in Setting
      BY <1>1, AppliedType DEF Local
    <2> QED
      BY <1>1, <2>1, SavedType DEF Store
  <1>9. TypeOK'
    <2>1. UNCHANGED <<target, renewal, switching, live, clock, serial, handed,
                      started, stopped>>
      BY DEF Store, external
    <2> QED
      BY <1>1, <1>3, <1>5, <1>7, <1>8, <2>1 DEF TypeOK, Label
  <1>10. StateForTarget'
    BY <1>7 DEF StateForTarget
  <1>11. ThreadInv(t)'
    BY <1>1, <1>2, <1>3, <1>4, <1>5, <1>6, <1>7 DEF TypeOK, ThreadInv, StateForTarget
  <1> QED
    BY <1>1, <1>3, <1>5, <1>9, <1>10, <1>11, Holding DEF Label

LEMMA ReissueInv == ASSUME Inv, NEW t \in Thread, Reissue(t) PROVE Inv'
  <1> DEFINE m == [mem[t] EXCEPT !.at = target]
  <1>1. TypeOK /\ ThreadInv(t) /\ pc[t] = "reissue"
    BY DEF Inv, Reissue
  <1>2. m \in Local /\ Kept(mem[t], m) /\ m.at = target /\ m.out = mem[t].out
    BY <1>1, AtType DEF TypeOK
  <1>3. mem' = [mem EXCEPT ![t] = m] /\ pc' = [pc EXCEPT ![t] = "begin"]
        /\ UNCHANGED <<target, renewal>>
    BY DEF Reissue
  <1> HIDE DEF m
  <1>4. mem[t].req.op # "bearer_for_proxy"
    BY <1>1, NotTheProxys
  <1>5. ThreadInv(t)'
    BY <1>1, <1>2, <1>3, <1>4 DEF TypeOK, ThreadInv, Kept
  <1> QED
    BY <1>2, <1>3, <1>5, Quiet DEF Reissue, external, Label

\* What a switch refuses with.
LEMMA SwitchRefusalType ==
  ASSUME NEW out \in Answer
  PROVE  SwitchRefusal(out) \in Answer
  BY RefusedType DEF SwitchRefusal, Reason

LEMMA AnswerInPlaceInv ==
  ASSUME Inv, NEW t \in Thread, AnswerInPlace(t) PROVE Inv'
  <1> DEFINE out == SwitchRefusal(mem[t].out)
             m == [mem[t] EXCEPT !.out = out]
  <1>1. TypeOK /\ ThreadInv(t) /\ pc[t] = "answer" /\ mem[t] \in Local
        /\ Kept(mem[t], mem[t]) /\ mem \in [Thread -> Local]
    BY DEF Inv, AnswerInPlace, TypeOK, Kept
  <1>2. mem[t].req \in Request /\ mem[t].req.op # "bearer_for_proxy"
    BY <1>1 DEF AnswerInPlace, ThreadInv, Switches
  <1>3. out \in Answer
    BY <1>1, SwitchRefusalType DEF Local
  <1>4. \/ pc' = [pc EXCEPT ![t] = "switched"] /\ mem' = mem
        \/ mem' = [mem EXCEPT ![t] = m] /\ pc' = [pc EXCEPT ![t] = "finish"]
    BY DEF AnswerInPlace, Ends
  <1> HIDE DEF out
  <1>5. m \in Local /\ Kept(mem[t], m)
    BY <1>1, <1>3 DEF Local, Kept
  <1> HIDE DEF m
  <1>6. PICK label \in Free, n \in {m, mem[t]} :
          mem' = [mem EXCEPT ![t] = n] /\ pc' = [pc EXCEPT ![t] = label]
    BY <1>1, <1>4 DEF Free
  <1> QED
    BY <1>1, <1>2, <1>5, <1>6, FreedQuietly DEF AnswerInPlace, external

LEMMA SwitchDoneInv == ASSUME Inv, NEW t \in Thread, SwitchDone(t) PROVE Inv'
  <1> DEFINE held == mem[t].held
             url == mem[t].before.url
             m == [mem[t] EXCEPT !.held = NoHold]
             n == Doomed(m, held, url, "switched")
  <1>1. TypeOK /\ ThreadInv(t) /\ pc[t] = "answer" /\ mem[t] \in Local
        /\ renewal = t
    BY SMTT(30) DEF Inv, SwitchDone, TypeOK, ThreadInv
  <1>2. mem[t].req \in Request /\ mem[t].req.op # "bearer_for_proxy"
    BY <1>1 DEF SwitchDone, ThreadInv
  <1>3. held \in Hold /\ url \in Gateway
    BY <1>1 DEF Local, TargetType
  <1>4. PICK label \in {"retire", "switched"} : pc' = [pc EXCEPT ![t] = label]
    BY DEF SwitchDone, Retiring
  <1>5. mem' = [mem EXCEPT ![t] = n] /\ UNCHANGED <<target, renewal>>
    BY DEF SwitchDone
  <1> HIDE DEF held, url
  <1>6. /\ m \in Local /\ m.req = mem[t].req /\ m.ret = mem[t].ret
        /\ m.held = NoHold
    BY <1>1, Defaults DEF Local
  <1> HIDE DEF m
  <1>7. n \in Local /\ Kept(m, n) /\ n.then = "switched"
    <2>1. "switched" \in Label
      BY DEF Label
    <2> QED
      BY <1>3, <1>6, <2>1, DoomedType
  <1> HIDE DEF n
  <1>8. /\ n.req = mem[t].req /\ n.ret = mem[t].ret
        /\ n.held.key = None /\ n.held.credential = None
    BY <1>6, <1>7 DEF Kept, NoHold
  <1>9. ThreadInv(t)'
    BY <1>1, <1>2, <1>4, <1>5, <1>7, <1>8 DEF TypeOK, ThreadInv
  <1> QED
    BY <1>4, <1>5, <1>7, <1>9, Quiet DEF SwitchDone, external, Label

LEMMA SwitchUndoneInv ==
  ASSUME Inv, NEW t \in Thread, SwitchUndone(t) PROVE Inv'
  <1> DEFINE out == SwitchRefusal(mem[t].out)
             m == [mem[t] EXCEPT !.out = out]
  <1>1. TypeOK /\ ThreadInv(t) /\ pc[t] = "answer" /\ mem[t] \in Local
    BY DEF Inv, SwitchUndone, TypeOK
  <1>2. mem[t].req \in Request /\ mem[t].req.op # "bearer_for_proxy"
    BY <1>1 DEF SwitchUndone, ThreadInv
  <1>3. out \in Answer
    BY <1>1, SwitchRefusalType DEF Local
  <1>4. mem' = [mem EXCEPT ![t] = m] /\ pc' = [pc EXCEPT ![t] = "restore"]
        /\ UNCHANGED <<target, renewal>>
    BY DEF SwitchUndone
  <1> HIDE DEF out
  <1>5. m \in Local /\ Kept(mem[t], m)
    BY <1>1, <1>3 DEF Local, Kept
  <1> HIDE DEF m
  <1>6. ThreadInv(t)'
    BY <1>1, <1>2, <1>4, <1>5 DEF TypeOK, ThreadInv, Kept
  <1> QED
    BY <1>4, <1>5, <1>6, Quiet DEF SwitchUndone, external, Label

LEMMA RestoreInv == ASSUME Inv, NEW t \in Thread, Restore(t) PROVE Inv'
  <1> DEFINE m == [mem[t] EXCEPT !.ret = "settle"]
  <1>1. TypeOK /\ ThreadInv(t) /\ pc[t] = "restore" /\ mem[t] \in Local
    BY DEF Inv, Restore, TypeOK
  <1>2. mem[t].req \in Request /\ mem[t].req.op # "bearer_for_proxy"
    BY <1>1, NotTheProxys
  <1>3. mem' = [mem EXCEPT ![t] = m] /\ pc' = [pc EXCEPT ![t] = "apply"]
        /\ UNCHANGED <<target, renewal, state>>
    BY DEF Restore
  <1>4. m \in Local
    BY <1>1 DEF Local, Label
  <1>5. /\ m.req = mem[t].req /\ m.before = mem[t].before
        /\ m.held = mem[t].held /\ m.ret = "settle"
    BY <1>1 DEF Local
  <1> HIDE DEF m
  <1>6. file' \in [version : Nat, settings : Setting \cup {Malformed}]
    <2>1. Restored(mem[t]) \in Setting
      BY <1>1, AppliedType DEF Restored, Local, TypeOK
    <2> QED
      BY <1>1, <2>1, SavedType DEF Restore, TypeOK
  <1>7. TypeOK'
    BY <1>1, <1>3, <1>4, <1>6 DEF Restore, TypeOK, Label, external
  <1>8. ThreadInv(t)'
    BY <1>1, <1>2, <1>3, <1>5 DEF TypeOK, ThreadInv
  <1> QED
    BY <1>3, <1>4, <1>7, <1>8, Unserved DEF Restore, Label

\* What a failed switch puts back is for the target it is put back beside.
LEMMA SettleInv == ASSUME Inv, NEW t \in Thread, Settle(t) PROVE Inv'
  <1> DEFINE held == mem[t].held
             before == mem[t].before
             m == [mem[t] EXCEPT !.held = NoHold]
             n == Doomed(m, held, before.url, "finish")
  <1>1. TypeOK /\ ThreadInv(t) /\ pc[t] = "settle" /\ mem[t] \in Local
        /\ renewal = t /\ state \in State
    BY DEF Inv, Settle, TypeOK, ThreadInv
  <1>2. mem[t].req \in Request /\ mem[t].req.op # "bearer_for_proxy"
    BY <1>1, NotTheProxys
  <1>3. held \in Hold /\ before.url \in Gateway
    BY <1>1 DEF Local, TargetType
  <1>4. UNCHANGED <<file, target, renewal, switching, live, clock, serial,
                    handed, started, stopped>>
    BY DEF Settle, external
  <1>5. /\ m \in Local /\ m.req = mem[t].req /\ m.ret = mem[t].ret
        /\ m.held = NoHold /\ m.before = before
    BY <1>1, Defaults DEF Local
  <1>6. CASE SameGateway(target, before)
    <2>1. /\ mem' = [mem EXCEPT ![t] = m] /\ pc' = [pc EXCEPT ![t] = "finish"]
          /\ state' = [state EXCEPT !.key = held.key,
                         !.credential = held.credential,
                         !.mintRefusal = held.mintRefusal]
      BY <1>5, <1>6 DEF Settle, Ends
    <2>2. /\ state' \in State /\ state'.key = held.key
          /\ state'.credential = held.credential
      <3> HIDE DEF held
      <3> QED
        BY <1>1, <1>3, <2>1 DEF State, Hold
    <2>3. StateForTarget'
      BY <1>1, <1>4, <1>6, <2>2 DEF StateForTarget, ThreadInv, SameGateway
    <2> HIDE DEF m, held, before
    <2>4. TypeOK'
      BY <1>1, <1>4, <1>5, <2>1, <2>2 DEF TypeOK, Label
    <2>5. ThreadInv(t)'
      BY <1>1, <1>2, <1>4, <1>5, <2>1 DEF TypeOK, ThreadInv, NoHold
    <2> QED
      BY <1>1, <1>4, <1>5, <2>1, <2>3, <2>4, <2>5, Holding DEF Label
  <1>7. CASE ~SameGateway(target, before)
    <2>1. mem' = [mem EXCEPT ![t] = n] /\ state' = state
      BY <1>7 DEF Settle
    <2>2. PICK label \in {"retire", "finish"} : pc' = [pc EXCEPT ![t] = label]
      BY <1>7 DEF Settle, Retiring
    <2> HIDE DEF m, held, before
    <2>3. n \in Local /\ Kept(m, n) /\ n.then = "finish"
      <3>1. "finish" \in Label
        BY DEF Label
      <3> QED
        BY <1>3, <1>5, <3>1, DoomedType
    <2> HIDE DEF n
    <2>4. /\ n.req = mem[t].req /\ n.ret = mem[t].ret
          /\ n.held.key = None /\ n.held.credential = None
      BY <1>5, <2>3 DEF Kept, NoHold
    <2>5. ThreadInv(t)'
      BY <1>1, <1>2, <1>4, <2>1, <2>2, <2>3, <2>4 DEF TypeOK, ThreadInv
    <2> QED
      BY <1>4, <2>1, <2>2, <2>3, <2>5, Quiet DEF Label
  <1> QED
    BY <1>6, <1>7
=============================================================================
