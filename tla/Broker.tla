------------------------------- MODULE Broker -------------------------------
(***************************************************************************)
(* The credential broker of the relay daemon (src/broker/mod.rs and        *)
(* src/broker/session.rs).  Requests run on threads of their own and share *)
(* a Target (the settings applied last) and a State (IdP session, Gateway  *)
(* session credential, minted key, proxy token), each behind a short       *)
(* mutex, one long-held mutex `renewal` that a thread keeps across its     *)
(* calls to the IdP and the Gateway, and one `switching` mutex that makes  *)
(* switches of team or environment follow one another.                     *)
(*                                                                         *)
(* A step is what a thread does between two moments at which another       *)
(* thread could see or change something: a critical section of `state` or  *)
(* `target`, or a call to the outside with the section that follows it.    *)
(* The clock is two sets: the ids of the sessions, credentials and keys    *)
(* that are past their half-life (or refresh window) and past their end.   *)
(***************************************************************************)
EXTENDS Settings, FiniteSets

CONSTANTS
  Thread,        \* concurrent requests
  Request,       \* the requests that may arrive
  Installed,     \* settings the daemon may start with
  Edits,         \* settings the user or MDM may write while it runs
  Faults,        \* what the outside may answer besides success
  Ageing,        \* what may come of age: "session", "credential", "key"
  MaxRequests,   \* bound: requests that arrive
  MaxAged,       \* bound: ids that are past their half-life
  MaxVersion,    \* bound: settings version up to which edits happen
  None,
  Malformed      \* a config.yaml that does not parse

Op == {"credential", "proxy_credential", "bearer_for_proxy", "session_bearer",
       "account_bearer", "sign_in", "sign_out", "switch_team",
       "switch_environment", "status", "tick", "shutdown"}

FaultKind == {"discover", "unsupported", "refresh", "exchange", "mint",
              "mint_lost", "unauthorized", "team_permission", "extend",
              "delete", "store"}

\* Why a request is refused.
Reason == {"caller_refused", "signed_out", "sign_in_failed", "gateway_error",
           "static_key", "switch_failed", "unknown_environment"}

\* A key a Gateway minted.
Key == [id : Nat, url : Gateway, team : MaybeTeam]

ASSUME BrokerAssumption ==
  /\ None \notin Key /\ None \notin Thread /\ None \notin Request /\ None \notin Reason
  /\ Gateway # {} /\ Caller # {}
  /\ NoTeam \notin Team
  /\ Unconfigured \notin Idp \cup StaticKey
  /\ Idp \cap StaticKey = {}
  /\ NoIdp \notin Idp /\ NoKey \notin StaticKey
  /\ Request \subseteq [op : Op, context : {"interactive", "background"},
                        caller : Caller, team : Team, name : Name]
  /\ Installed # {} /\ Installed \subseteq Setting
  /\ Edits \subseteq Setting \cup {Malformed}
  /\ Malformed \notin Setting
  /\ Faults \subseteq FaultKind
  /\ Ageing \subseteq {"session", "credential", "key"}
  /\ MaxRequests \in Nat /\ MaxVersion \in Nat /\ MaxAged \in Nat

VARIABLES
  file,       \* config.yaml and its version (a hash of its mtime and length)
  target,     \* Broker.target
  state,      \* Broker.state
  renewal,    \* holder of Broker.renewal
  switching,  \* holder of Broker.switching
  live,       \* keys the Gateways accept
  clock,      \* ids past their half-life and past their end
  serial,     \* the last id given out
  handed,     \* proxy tokens clients were given, with the client
  started,    \* requests that have arrived
  stopped,    \* shutdown has deleted the key
  pc, mem     \* what each thread does next, and its local variables

external == <<live, clock, serial, handed>>
quiet == <<file, target, state, renewal, switching, external, started, stopped>>
vars == <<file, target, state, renewal, switching, live, clock, serial,
          handed, started, stopped, pc, mem>>

-----------------------------------------------------------------------------
(* Types *)

Credential == [id : Nat, url : Gateway, team : MaybeTeam, dead : BOOLEAN]
Time       == [half : SUBSET Nat, over : SUBSET Nat]

State ==
  [session : Nat \cup {None}, credential : Credential \cup {None},
   key : Key \cup {None},
   mintRefusal : Nat \cup {None},   \* id of the credential it was met with
   proxyToken : Nat \cup {None}, signIns : Nat,
   page : BOOLEAN,                  \* pending_sign_in_page
   explicit : BOOLEAN]              \* explicit_sign_in_running

\* GatewayHold: what is taken out of the state when a Gateway is left.
Hold == [key : Key \cup {None}, credential : Credential \cup {None},
         mintRefusal : Nat \cup {None}]

Token == [source : {"minted_key", "session_credential", "identity_token",
                    "static_key", "proxy_token"},
          url : Gateway, team : MaybeTeam, id : Nat]

\* What a thread answers.  url and team are what it says the token is for.
Answer ==
  [kind : {"none", "credential", "signed_in", "signed_out", "switched",
           "status", "refused"},
   token : Token \cup {None}, url : Gateway, team : MaybeTeam,
   reason : Reason \cup {None}]

Label ==
  {"idle", "snapshot", "lockSwitching", "refresh", "lockRefresh", "apply",
   "retire", "dropToken", "retarget", "admit", "present", "proxyKey",
   "account", "issue", "lockIssue", "begin", "resolve", "identity",
   "browser", "exchange", "keep", "mint", "dead", "extend", "answer",
   "proxyToken", "pair", "lockSignIn", "explicit", "lockSignOut", "finish",
   "plan", "lockSwitch", "store", "restore", "settle", "status", "report",
   "lockTick", "lockShutdown", "switched", "reissue"}

Local ==
  [req : Request \cup {None},
   seen : TargetType,      \* the target cloned at admission
   at : TargetType,        \* the target cloned under the renewal lock
   next : TargetType,      \* apply_saved_settings: the target to adopt
   before : TargetType,    \* apply_switch: the target left
   loaded : Setting,       \* apply_switch: settings, read before the lock
   patch : Patch, undo : Patch,
   moving : BOOLEAN,       \* apply_switch is running
   now : Time,             \* clock.now() as this request read it
   session : Nat \cup {None},
   bearer : Credential \cup {None},
   exchanges : BOOLEAN,    \* the Gateway offers the token exchange
   held : Hold,            \* apply_switch: the hold to restore or retire
   doomed : Hold, from : Gateway,   \* retire: what to delete, and where
   signIns : Nat, page : BOOLEAN, joined : BOOLEAN,   \* sign_in's snapshot
   presented : Nat \cup {None},
   phase : {"first", "again", "tick", "tickAgain"},
   ret : Label,            \* where apply_saved_settings returns to
   then : Label,           \* where retire returns to
   out : Answer]

TypeOK ==
  /\ file \in [version : Nat, settings : Setting \cup {Malformed}]
  /\ target \in TargetType
  /\ state \in State
  /\ renewal \in Thread \cup {None}
  /\ switching \in Thread \cup {None}
  /\ live \in SUBSET Key
  /\ clock \in Time
  /\ serial \in Nat
  /\ handed \in SUBSET (Caller \X Nat)
  /\ started \in Nat
  /\ stopped \in BOOLEAN
  /\ pc \in [Thread -> Label]
  /\ mem \in [Thread -> Local]

-----------------------------------------------------------------------------
(* Initial values *)

AnyGateway == CHOOSE url \in Gateway : TRUE
NoTarget == [version |-> 0, mode |-> Unconfigured, url |-> AnyGateway,
             team |-> NoTeam, callers |-> {}]
NoHold   == [key |-> None, credential |-> None, mintRefusal |-> None]
NoAnswer == [kind |-> "none", token |-> None, url |-> AnyGateway,
             team |-> NoTeam, reason |-> None]
Began    == CHOOSE s \in Installed : TRUE

Blank ==
  [req |-> None, seen |-> NoTarget, at |-> NoTarget, next |-> NoTarget,
   before |-> NoTarget, loaded |-> Began, patch |-> Previous("team", Began),
   undo |-> Previous("team", Began), moving |-> FALSE,
   now |-> [half |-> {}, over |-> {}], session |-> None, bearer |-> None,
   exchanges |-> TRUE, held |-> NoHold, doomed |-> NoHold,
   from |-> AnyGateway, signIns |-> 0, page |-> FALSE, joined |-> FALSE,
   presented |-> None, phase |-> "first", ret |-> "idle", then |-> "idle",
   out |-> NoAnswer]

Init ==
  /\ \E s \in Installed : /\ file = [version |-> 1, settings |-> s]
                          /\ target = TargetOf(s, 1)
  /\ state = [session |-> None, credential |-> None, key |-> None,
              mintRefusal |-> None, proxyToken |-> None, signIns |-> 0,
              page |-> FALSE, explicit |-> FALSE]
  /\ renewal = None /\ switching = None
  /\ live = {} /\ serial = 0 /\ handed = {}
  /\ clock = [half |-> {}, over |-> {}]
  /\ started = 0 /\ stopped = FALSE
  /\ pc = [t \in Thread |-> "idle"]
  /\ mem = [t \in Thread |-> Blank]

-----------------------------------------------------------------------------
(* Helpers *)

Goto(t, label) == pc' = [pc EXCEPT ![t] = label]
Become(t, m)   == mem' = [mem EXCEPT ![t] = m]

Issued(token) == [kind |-> "credential", token |-> token, url |-> token.url,
                  team |-> token.team, reason |-> None]
Named(out, at) == [out EXCEPT !.url = at.url, !.team = at.team]
Refused(reason) == [NoAnswer EXCEPT !.kind = "refused", !.reason = reason]

KeyToken(key) == [source |-> "minted_key", url |-> key.url,
                  team |-> key.team, id |-> key.id]
CredentialToken(c) == [source |-> "session_credential", url |-> c.url,
                       team |-> c.team, id |-> c.id]
TargetToken(source, at, id) == [source |-> source, url |-> at.url,
                                team |-> at.team, id |-> id]

\* A device without an IdP serves its static key, or nothing.
DirectAnswer(at) ==
  IF at.mode \in StaticKey THEN Issued(TargetToken("static_key", at, 0))
  ELSE Refused("gateway_error")

KeyIsFresh(now) == state.key # None /\ state.key.id \notin now.over

\* Variant: a credential the Gateway refused passes for valid.
ValidThoughDead(c, now) == c # None /\ c.id \notin now.over

Valid(c, now) == c # None /\ ~c.dead /\ c.id \notin now.over
Fresh(c, now) == Valid(c, now) /\ c.id \notin now.half

\* The cached credential, if it is one for the Gateway and team asked for.
Cached(at) ==
  IF /\ state.credential # None
     /\ state.credential.url = at.url
     /\ state.credential.team = at.team
  THEN state.credential ELSE None

HoldNow == [key |-> state.key, credential |-> state.credential,
            mintRefusal |-> state.mintRefusal]

\* Variants: the key, or the credential, is copied where it should be taken.
ForgottenButCredential(signsOut) ==
  [state EXCEPT !.session = IF signsOut THEN None ELSE @,
                !.proxyToken = IF signsOut THEN None ELSE @,
                !.key = None, !.mintRefusal = None]
ForgottenButKey(signsOut) ==
  [state EXCEPT !.session = IF signsOut THEN None ELSE @,
                !.proxyToken = IF signsOut THEN None ELSE @,
                !.credential = None, !.mintRefusal = None]

\* forget: the state once a hold is taken out of it, and the IdP session
\* with the proxy token when the device signs out.
Forgotten(signsOut) ==
  [state EXCEPT !.session = IF signsOut THEN None ELSE @,
                !.proxyToken = IF signsOut THEN None ELSE @,
                !.key = None, !.credential = None, !.mintRefusal = None]

\* Variant: nothing is ever deleted.
RetiringNothing(hold, after) == after

\* retire: a hold is worth a call to the Gateway only with a key to delete
\* and a credential to delete it with.
Retiring(hold, after) ==
  IF hold.key # None /\ hold.credential # None THEN "retire" ELSE after
Doomed(m, hold, url, after) ==
  [m EXCEPT !.doomed = hold, !.from = url, !.then = after]

Switches == {"switch_team", "switch_environment"}
Context(m) ==
  IF m.req.op = "sign_in" THEN "interactive"
  ELSE IF m.req.op \in {"credential", "proxy_credential", "session_bearer"}
       THEN m.req.context ELSE "background"

AfterRefresh(op) ==
  CASE op \in {"credential", "proxy_credential", "session_bearer"} -> "admit"
    [] op = "bearer_for_proxy" -> "present"
    [] op = "account_bearer"   -> "account"
    [] op = "sign_in"          -> "lockSignIn"
    [] op = "sign_out"         -> "lockSignOut"
    [] op \in Switches         -> "plan"
    [] op = "status"           -> "status"
    [] op = "tick"             -> "lockTick"
    [] OTHER                   -> "finish"

\* Where a request goes once it holds an answer of `issue`.
Served(op, out) ==
  IF out.kind # "credential" THEN "finish"
  ELSE CASE op = "proxy_credential" -> "proxyToken"
         [] op \in {"session_bearer", "account_bearer"} -> "pair"
         [] op \in Switches -> "switched"
         [] OTHER -> "finish"

-----------------------------------------------------------------------------
(* A request arrives and ends *)

Arrive(t) ==
  /\ pc[t] = "idle" /\ ~stopped /\ started < MaxRequests
  /\ \E r \in Request, token \in {None} \cup {h[2] : h \in handed} :
       /\ r.op # "bearer_for_proxy" => token = None
       /\ Become(t, [Blank EXCEPT !.req = r, !.presented = token,
                                  !.ret = AfterRefresh(r.op)])
       /\ Goto(t, CASE r.op = "sign_in"   -> "snapshot"
                    [] r.op \in Switches  -> "lockSwitching"
                    [] r.op = "shutdown"  -> "lockShutdown"
                    [] OTHER              -> "refresh")
  /\ started' = started + 1
  /\ UNCHANGED <<file, target, state, renewal, switching, external, stopped>>

\* Every guard a request still holds is dropped when its handler returns.
Finish(t) ==
  /\ pc[t] = "finish"
  /\ Goto(t, "idle")
  /\ Become(t, [Blank EXCEPT !.req = mem[t].req, !.out = mem[t].out])
  /\ renewal' = IF renewal = t THEN None ELSE renewal
  /\ switching' = IF switching = t THEN None ELSE switching
  /\ stopped' = (stopped \/ mem[t].req.op = "shutdown")
  /\ UNCHANGED <<file, target, state, external, started>>

-----------------------------------------------------------------------------
(* refresh and apply_saved_settings *)

\* Variant: status refreshes like any other request.
NeverWaitsButStatus == {"account", "report"}

\* status, the account poll and the report of a switch never wait for a
\* renewal: they try the lock and go on with the settings applied last.
NeverWaits == {"status", "account", "report"}

Refresh(t) ==
  /\ pc[t] = "refresh"
  /\ Goto(t, IF file.version = target.version THEN mem[t].ret
             ELSE "lockRefresh")
  /\ UNCHANGED <<quiet, mem>>

LockRefresh(t) ==
  /\ pc[t] = "lockRefresh" /\ renewal = None
  /\ renewal' = t
  /\ Goto(t, "apply")
  /\ UNCHANGED <<file, target, state, switching, external, started, stopped,
                 mem>>

SkipRefresh(t) ==
  /\ pc[t] = "lockRefresh" /\ renewal # None /\ mem[t].ret \in NeverWaits
  /\ Goto(t, mem[t].ret)
  /\ UNCHANGED <<quiet, mem>>

\* Variant: applying settings gives the lock up, whoever took it.
ReturnUnlocked(t) ==
  /\ Goto(t, mem[t].ret)
  /\ renewal' = None

\* apply_switch applies settings under the lock it already holds, and keeps it.
Return(t) ==
  /\ Goto(t, mem[t].ret)
  /\ renewal' = IF mem[t].ret \in {"reissue", "settle"} THEN renewal ELSE None

ApplyNothing(t) ==
  /\ pc[t] = "apply"
  /\ file.version = target.version \/ file.settings = Malformed
  /\ Return(t)
  /\ UNCHANGED <<file, target, state, switching, external, started, stopped,
                 mem>>

\* A changed IdP, or a Gateway that moves anywhere but between two listed
\* environments, signs the device out.
SignsOut(s, next) ==
  \/ target.mode # next.mode
  \/ /\ target.url # next.url
     /\ ~BetweenEnvironments(s, target.url, next.url)

Leaves(s, next) ==
  SignsOut(s, next) \/ target.url # next.url \/ target.team # next.team

Apply(t) ==
  /\ pc[t] = "apply"
  /\ file.version # target.version /\ file.settings # Malformed
  /\ LET s    == file.settings
         next == TargetOf(s, file.version)
         m    == [mem[t] EXCEPT !.next = next] IN
     IF Leaves(s, next)
     THEN /\ state' = Forgotten(SignsOut(s, next))
          /\ Become(t, Doomed(m, HoldNow, target.url, "dropToken"))
          /\ Goto(t, Retiring(HoldNow, "dropToken"))
     ELSE /\ Become(t, m)
          /\ Goto(t, "dropToken")
          /\ UNCHANGED state
  /\ UNCHANGED <<file, target, renewal, switching, external, started, stopped>>

DropToken(t) ==
  /\ pc[t] = "dropToken"
  /\ state' = IF target.callers # mem[t].next.callers
              THEN [state EXCEPT !.proxyToken = None] ELSE state
  /\ Goto(t, "retarget")
  /\ UNCHANGED <<file, target, renewal, switching, external, started, stopped,
                 mem>>

Retarget(t) ==
  /\ pc[t] = "retarget"
  /\ target' = mem[t].next
  /\ Return(t)
  /\ UNCHANGED <<file, state, switching, external, started, stopped, mem>>

\* DELETE of a key on the Gateway that is left.
Retire(t) ==
  /\ pc[t] = "retire"
  /\ live' = {k \in live : k.id # mem[t].doomed.key.id \/ k.url # mem[t].from}
  /\ Become(t, [mem[t] EXCEPT !.doomed = NoHold])
  /\ Goto(t, mem[t].then)
  /\ UNCHANGED <<file, target, state, renewal, switching, clock, serial,
                 handed, started, stopped>>

RetireFails(t) ==
  /\ pc[t] = "retire" /\ "delete" \in Faults
  /\ Become(t, [mem[t] EXCEPT !.doomed = NoHold])
  /\ Goto(t, mem[t].then)
  /\ UNCHANGED quiet

-----------------------------------------------------------------------------
(* Admission, and the answers that need no renewal *)

Ends(t, m) == Become(t, m) /\ Goto(t, "finish")

Admit(t) ==
  /\ pc[t] = "admit"
  /\ LET m == [mem[t] EXCEPT !.seen = target] IN
     IF m.req.caller \in target.callers
     THEN Become(t, m) /\ Goto(t, "issue")
     ELSE Ends(t, [m EXCEPT !.out = Refused("caller_refused")])
  /\ UNCHANGED quiet

\* The account poll asks nothing of an IdP daemon that holds no session.
Account(t) ==
  /\ pc[t] = "account"
  /\ LET m == [mem[t] EXCEPT !.seen = target] IN
     IF /\ target.mode \in Idp
        /\ state.credential = None /\ state.session = None
     THEN Ends(t, [m EXCEPT !.out = Refused("signed_out")])
     ELSE Become(t, m) /\ Goto(t, "issue")
  /\ UNCHANGED quiet

\* issue: a static key, or a key that is still fresh, is served at once.
Issue(t) ==
  /\ pc[t] = "issue"
  /\ LET m   == mem[t]
         out == IF m.seen.mode \notin Idp THEN DirectAnswer(m.seen)
                ELSE Issued(KeyToken(state.key)) IN
     IF m.seen.mode \notin Idp \/ KeyIsFresh(clock)
     THEN Become(t, [m EXCEPT !.out = out]) /\ Goto(t, Served(m.req.op, out))
     ELSE Become(t, m) /\ Goto(t, "lockIssue")
  /\ UNCHANGED quiet

\* Variant: the lock is taken without waiting for its holder.
LockIssueAnyway(t) ==
  /\ pc[t] = "lockIssue"
  /\ renewal' = t
  /\ Become(t, [mem[t] EXCEPT !.at = target])
  /\ Goto(t, "begin")
  /\ UNCHANGED <<file, target, state, switching, external, started, stopped>>

\* Variant: the target cloned at admission is not read again under the lock.
LockIssueStale(t) ==
  /\ pc[t] = "lockIssue" /\ renewal = None
  /\ renewal' = t
  /\ Become(t, [mem[t] EXCEPT !.at = mem[t].seen])
  /\ Goto(t, "begin")
  /\ UNCHANGED <<file, target, state, switching, external, started, stopped>>

LockIssue(t) ==
  /\ pc[t] = "lockIssue" /\ renewal = None
  /\ renewal' = t
  /\ Become(t, [mem[t] EXCEPT !.at = target])
  /\ Goto(t, "begin")
  /\ UNCHANGED <<file, target, state, switching, external, started, stopped>>

\* issue_unless_renewing: the account poll gives up.
SkipIssue(t) ==
  /\ pc[t] = "lockIssue" /\ renewal # None
  /\ mem[t].req.op = "account_bearer"
  /\ Goto(t, "finish")
  /\ UNCHANGED <<quiet, mem>>

\* bearer_for_proxy: only the live proxy token is let in ...
Present(t) ==
  /\ pc[t] = "present"
  /\ IF mem[t].presented # None /\ mem[t].presented = state.proxyToken
     THEN Goto(t, "proxyKey") /\ UNCHANGED mem
     ELSE Ends(t, [mem[t] EXCEPT !.out = Refused("caller_refused")])
  /\ UNCHANGED quiet

\* ... and a fresh key goes out with the Gateway it was minted on.
ProxyKey(t) ==
  /\ pc[t] = "proxyKey"
  /\ IF KeyIsFresh(clock)
     THEN Ends(t, [mem[t] EXCEPT !.out = Issued(KeyToken(state.key))])
     ELSE Goto(t, "lockIssue") /\ UNCHANGED mem
  /\ UNCHANGED quiet

\* get_or_insert_with: the first client after the token was dropped makes it.
ProxyToken(t) ==
  /\ pc[t] = "proxyToken"
  /\ LET token == IF state.proxyToken # None THEN state.proxyToken
                  ELSE serial + 1 IN
     /\ state' = [state EXCEPT !.proxyToken = token]
     /\ serial' = IF state.proxyToken # None THEN serial ELSE serial + 1
     /\ handed' = handed \cup {<<mem[t].req.caller, token>>}
     /\ Ends(t, [mem[t] EXCEPT
          !.out = Issued(TargetToken("proxy_token", mem[t].seen, token))])
  /\ UNCHANGED <<file, target, renewal, switching, live, clock, started,
                 stopped>>

\* bearer_from: the identity a session bearer is paired with is that of the
\* target cloned when the request was admitted.
Pair(t) ==
  /\ pc[t] = "pair"
  /\ Ends(t, [mem[t] EXCEPT !.out = Named(@, mem[t].seen)])
  /\ UNCHANGED quiet

Status(t) ==
  /\ pc[t] = "status"
  /\ Ends(t, [mem[t] EXCEPT !.out = [NoAnswer EXCEPT !.kind = "status",
                                     !.url = target.url, !.team = target.team]])
  /\ UNCHANGED quiet

-----------------------------------------------------------------------------
(* issue_from_session, under the renewal lock *)

\* Variant: no second look at the key once the lock is held.
BeginAfresh(t) ==
  /\ pc[t] = "begin"
  /\ LET m == mem[t] IN
     IF m.at.mode \notin Idp
     THEN Become(t, [m EXCEPT !.out = DirectAnswer(m.at)]) /\ Goto(t, "answer")
     ELSE /\ Become(t, [m EXCEPT !.now = clock, !.phase = "first",
                                !.out = NoAnswer])
          /\ Goto(t, "resolve")
  /\ UNCHANGED quiet

Begin(t) ==
  /\ pc[t] = "begin"
  /\ LET m == mem[t] IN
     IF m.at.mode \notin Idp
     THEN Become(t, [m EXCEPT !.out = DirectAnswer(m.at)]) /\ Goto(t, "answer")
     ELSE IF KeyIsFresh(clock)
     THEN /\ Become(t, [m EXCEPT !.out = Issued(KeyToken(state.key))])
          /\ Goto(t, "answer")
     ELSE /\ Become(t, [m EXCEPT !.now = clock, !.phase = "first",
                                !.out = NoAnswer])
          /\ Goto(t, "resolve")
  /\ UNCHANGED quiet

\* The local variables of session_credential with its result in `bearer`.
Resolving(t) == [mem[t] EXCEPT !.session = state.session]
NewCredential(at) == [id |-> serial + 1, url |-> at.url, team |-> at.team,
                      dead |-> FALSE]

\* reuse_while_valid: an error is answered with the cached credential while
\* that one lasts.
FallBack(m, reason) ==
  LET c == Cached(m.at) IN
  [m EXCEPT !.bearer = IF Valid(c, m.now) THEN c ELSE None,
            !.out = Refused(reason)]

ResolveFresh(t) ==
  /\ pc[t] = "resolve"
  /\ Fresh(Cached(mem[t].at), mem[t].now)
  /\ Become(t, [Resolving(t) EXCEPT !.bearer = Cached(mem[t].at)])
  /\ Goto(t, "keep")
  /\ UNCHANGED quiet

\* Discovery fails, or the refresh of the cached credential gets no answer.
ResolveFails(t) ==
  /\ pc[t] = "resolve"
  /\ ~Fresh(Cached(mem[t].at), mem[t].now)
  /\ \/ "discover" \in Faults
     \/ "refresh" \in Faults /\ Cached(mem[t].at) # None
  /\ Become(t, FallBack(Resolving(t), "gateway_error"))
  /\ Goto(t, "keep")
  /\ UNCHANGED quiet

\* The cached credential's refresh token buys a new one.
ResolveRefreshed(t) ==
  /\ pc[t] = "resolve"
  /\ ~Fresh(Cached(mem[t].at), mem[t].now) /\ Cached(mem[t].at) # None
  /\ Become(t, [Resolving(t) EXCEPT !.bearer = NewCredential(mem[t].at)])
  /\ serial' = serial + 1
  /\ Goto(t, "keep")
  /\ UNCHANGED <<file, target, state, renewal, switching, live, clock, handed,
                 started, stopped>>

\* No refresh token, or it was refused, or no exchange is offered: the IdP
\* session is asked for an identity token.
ResolveIdentity(t) ==
  /\ pc[t] = "resolve"
  /\ ~Fresh(Cached(mem[t].at), mem[t].now)
  /\ \E exchanges \in BOOLEAN :
       /\ exchanges \/ "unsupported" \in Faults
       /\ Become(t, [Resolving(t) EXCEPT !.exchanges = exchanges])
  /\ Goto(t, "identity")
  /\ UNCHANGED quiet

\* An identity token is at hand: exchange it, or serve it as it is.
Identified(t, m) ==
  IF m.exchanges THEN Become(t, m) /\ Goto(t, "exchange")
  ELSE /\ Become(t, [m EXCEPT !.bearer = None,
             !.out = Issued(TargetToken("identity_token", m.at, m.session))])
       /\ Goto(t, "keep")

\* Without one, a failed sign-in ends the exchange like any other error.
\* Without an exchange the error reaches `classify` unwrapped, and is a
\* gateway_error whatever it was.
Unidentified(t, m, reason) ==
  /\ Become(t, IF m.exchanges THEN FallBack(m, reason)
               ELSE [m EXCEPT !.bearer = None,
                              !.out = Refused("gateway_error")])
  /\ Goto(t, "keep")

SessionLasts(m) == m.session # None /\ m.session \notin m.now.over

IdentityReused(t) ==
  /\ pc[t] = "identity" /\ SessionLasts(mem[t])
  /\ Identified(t, mem[t])
  /\ UNCHANGED quiet

IdentityRenewed(t) ==
  /\ pc[t] = "identity"
  /\ mem[t].session # None /\ mem[t].session \in mem[t].now.half
  /\ Identified(t, [mem[t] EXCEPT !.session = serial + 1])
  /\ serial' = serial + 1
  /\ UNCHANGED <<file, target, state, renewal, switching, live, clock, handed,
                 started, stopped>>

IdentityMissing(t) ==
  /\ pc[t] = "identity" /\ ~SessionLasts(mem[t])
  /\ Context(mem[t]) = "background"
  /\ Unidentified(t, mem[t], "signed_out")
  /\ UNCHANGED quiet

OpenPage(t) ==
  /\ pc[t] = "identity" /\ ~SessionLasts(mem[t])
  /\ Context(mem[t]) = "interactive"
  /\ state' = [state EXCEPT !.page = TRUE]
  /\ Goto(t, "browser")
  /\ UNCHANGED <<file, target, renewal, switching, external, started, stopped,
                 mem>>

BrowserSignsIn(t) ==
  /\ pc[t] = "browser"
  /\ state' = [state EXCEPT !.page = FALSE]
  /\ Identified(t, [mem[t] EXCEPT !.session = serial + 1])
  /\ serial' = serial + 1
  /\ UNCHANGED <<file, target, renewal, switching, live, clock, handed,
                 started, stopped>>

BrowserFails(t) ==
  /\ pc[t] = "browser"
  /\ state' = [state EXCEPT !.page = FALSE]
  /\ Unidentified(t, mem[t], "sign_in_failed")
  /\ UNCHANGED <<file, target, renewal, switching, external, started, stopped>>

Exchange(t) ==
  /\ pc[t] = "exchange"
  /\ Become(t, [mem[t] EXCEPT !.bearer = NewCredential(mem[t].at)])
  /\ serial' = serial + 1
  /\ Goto(t, "keep")
  /\ UNCHANGED <<file, target, state, renewal, switching, live, clock, handed,
                 started, stopped>>

ExchangeFails(t) ==
  /\ pc[t] = "exchange" /\ "exchange" \in Faults
  /\ Become(t, FallBack(mem[t], "gateway_error"))
  /\ Goto(t, "keep")
  /\ UNCHANGED quiet

\* The session is stored whatever came of it, the credential if there is one.
Keep(t) ==
  /\ pc[t] = "keep" /\ mem[t].bearer # None
  /\ state' = [state EXCEPT !.session = mem[t].session,
                            !.credential = mem[t].bearer]
  /\ Goto(t, IF mem[t].phase = "tick" THEN "extend" ELSE "mint")
  /\ UNCHANGED <<file, target, renewal, switching, external, started, stopped,
                 mem>>

\* The tick keeps the current credential when it could not be renewed; after
\* a dead bearer an identity token is no answer.
KeepNone(t) ==
  /\ pc[t] = "keep" /\ mem[t].bearer = None
  /\ state' = [state EXCEPT !.session = mem[t].session]
  /\ LET m == mem[t] IN
     CASE m.phase = "tick" /\ m.out.kind = "refused" ->
            /\ Become(t, [m EXCEPT !.bearer = state.credential])
            /\ Goto(t, "extend")
       [] m.phase = "again" /\ m.out.kind = "credential" ->
            /\ Become(t, [m EXCEPT !.out = Refused("gateway_error")])
            /\ Goto(t, "answer")
       [] OTHER -> Become(t, m) /\ Goto(t, "answer")
  /\ UNCHANGED <<file, target, renewal, switching, external, started, stopped>>

-----------------------------------------------------------------------------
(* key_or_credential *)

ServeCredential(t) ==
  /\ Become(t, [mem[t] EXCEPT !.out = Issued(CredentialToken(mem[t].bearer))])
  /\ Goto(t, "answer")

\* A team's refusal to mint sticks to the credential it was met with.
Sticky(t) == state.mintRefusal # None
             /\ state.mintRefusal = mem[t].bearer.id

Mints(t) == pc[t] = "mint" /\ mem[t].at.team # NoTeam /\ ~Sticky(t)
NewKey(at) == [id |-> serial + 1, url |-> at.url, team |-> at.team]

MintSkipped(t) ==
  /\ pc[t] = "mint" /\ ~Mints(t)
  /\ ServeCredential(t)
  /\ UNCHANGED quiet

Mint(t) ==
  /\ Mints(t)
  /\ LET key == NewKey(mem[t].at) IN
     /\ live' = live \cup {key}
     /\ state' = [state EXCEPT !.key = key, !.mintRefusal = None]
     /\ Become(t, [mem[t] EXCEPT !.out = Issued(KeyToken(key))])
  /\ serial' = serial + 1
  /\ Goto(t, "answer")
  /\ UNCHANGED <<file, target, renewal, switching, clock, handed, started,
                 stopped>>

MintRefused(t) ==
  /\ Mints(t) /\ "team_permission" \in Faults
  /\ state' = [state EXCEPT !.mintRefusal = mem[t].bearer.id]
  /\ ServeCredential(t)
  /\ UNCHANGED <<file, target, renewal, switching, external, started, stopped>>

MintFails(t) ==
  /\ Mints(t) /\ "mint" \in Faults
  /\ ServeCredential(t)
  /\ UNCHANGED quiet

\* The Gateway minted a key and its answer was lost on the way.
MintLost(t) ==
  /\ Mints(t) /\ "mint_lost" \in Faults
  /\ live' = live \cup {NewKey(mem[t].at)}
  /\ serial' = serial + 1
  /\ ServeCredential(t)
  /\ UNCHANGED <<file, target, state, renewal, switching, clock, handed,
                 started, stopped>>

\* 401: the Gateway stopped accepting the session credential.
MintUnauthorized(t) ==
  /\ Mints(t) /\ "unauthorized" \in Faults
  /\ IF mem[t].phase = "first" THEN Goto(t, "dead") /\ UNCHANGED mem
     ELSE /\ Become(t, [mem[t] EXCEPT !.out = Refused("gateway_error")])
          /\ Goto(t, "answer")
  /\ UNCHANGED quiet

\* Variant: the key outlives the credential it was minted with.
MarkedDeadButKey(bearer) ==
  [state EXCEPT !.credential = [bearer EXCEPT !.dead = TRUE],
                !.mintRefusal = None]

MarkedDead(bearer) ==
  [state EXCEPT !.credential = [bearer EXCEPT !.dead = TRUE], !.key = None,
                !.mintRefusal = None]

\* Variant: the mint is tried again with the credential that was refused.
DeadAgain(t) ==
  /\ pc[t] = "dead"
  /\ state' = MarkedDead(mem[t].bearer)
  /\ Goto(t, "mint")
  /\ UNCHANGED <<file, target, renewal, switching, external, started, stopped,
                 mem>>

Dead(t) ==
  /\ pc[t] = "dead"
  /\ state' = MarkedDead(mem[t].bearer)
  /\ Become(t, [mem[t] EXCEPT !.now = clock, !.phase = "again"])
  /\ Goto(t, "resolve")
  /\ UNCHANGED <<file, target, renewal, switching, external, started, stopped>>

-----------------------------------------------------------------------------
(* The answer of issue_under_renewal_lock *)

\* completed_sign_ins counts every interactive request that got a credential.
Completed(t) ==
  IF Context(mem[t]) = "interactive" /\ mem[t].out.kind = "credential"
  THEN state.signIns + 1 ELSE state.signIns

AnswerIssued(t) ==
  /\ pc[t] = "answer"
  /\ mem[t].req.op \in {"credential", "proxy_credential", "session_bearer",
                        "account_bearer"}
  /\ state' = [state EXCEPT !.signIns = Completed(t)]
  /\ renewal' = None
  /\ Goto(t, Served(mem[t].req.op, mem[t].out))
  /\ UNCHANGED <<file, target, switching, external, started, stopped, mem>>

AnswerForward(t) ==
  /\ pc[t] = "answer" /\ mem[t].req.op = "bearer_for_proxy"
  /\ Ends(t, [mem[t] EXCEPT !.out = Named(@, mem[t].at)])
  /\ UNCHANGED quiet

AnswerSignIn(t) ==
  /\ pc[t] = "answer" /\ mem[t].req.op = "sign_in"
  /\ state' = [state EXCEPT !.signIns = Completed(t), !.explicit = FALSE]
  /\ Ends(t, [mem[t] EXCEPT !.out.kind =
                IF @ = "credential" THEN "signed_in" ELSE @])
  /\ UNCHANGED <<file, target, renewal, switching, external, started, stopped>>

AnswerTick(t) ==
  /\ pc[t] = "answer" /\ mem[t].req.op = "tick"
  /\ Ends(t, [mem[t] EXCEPT !.out = NoAnswer])
  /\ UNCHANGED quiet

-----------------------------------------------------------------------------
(* sign_in and sign_out *)

\* A sign-in notes what is under way before it waits for the renewal lock;
\* a page that is open is shown again.
Snapshot(t) ==
  /\ pc[t] = "snapshot"
  /\ Become(t, [mem[t] EXCEPT !.signIns = state.signIns, !.page = state.page,
                              !.joined = state.explicit])
  /\ Goto(t, "refresh")
  /\ UNCHANGED quiet

\* signed_in_since
SignedInSince(m) ==
  /\ m.page \/ m.joined
  /\ state.signIns # m.signIns /\ state.session # None

OwnsSignIn(m) == target.mode \in Idp /\ ~SignedInSince(m) /\ ~m.page

JoinSignIn(t) ==
  /\ pc[t] = "lockSignIn" /\ renewal = None /\ ~OwnsSignIn(mem[t])
  /\ renewal' = t
  /\ Ends(t, [mem[t] EXCEPT !.out =
       IF target.mode \notin Idp THEN Refused("gateway_error")
       ELSE IF SignedInSince(mem[t]) THEN [NoAnswer EXCEPT !.kind = "signed_in"]
       ELSE Refused("sign_in_failed")])
  /\ UNCHANGED <<file, target, state, switching, external, started, stopped>>

OwnSignIn(t) ==
  /\ pc[t] = "lockSignIn" /\ renewal = None /\ OwnsSignIn(mem[t])
  /\ renewal' = t
  /\ state' = Forgotten(TRUE)
  /\ Become(t, Doomed([mem[t] EXCEPT !.at = target], HoldNow, target.url,
                      "explicit"))
  /\ Goto(t, Retiring(HoldNow, "explicit"))
  /\ UNCHANGED <<file, target, switching, external, started, stopped>>

Explicit(t) ==
  /\ pc[t] = "explicit"
  /\ state' = [state EXCEPT !.explicit = TRUE]
  /\ Goto(t, "begin")
  /\ UNCHANGED <<file, target, renewal, switching, external, started, stopped,
                 mem>>

SignOut(t) ==
  /\ pc[t] = "lockSignOut" /\ renewal = None
  /\ renewal' = t
  /\ IF target.mode \in StaticKey
     THEN /\ Ends(t, [mem[t] EXCEPT !.out = Refused("static_key")])
          /\ UNCHANGED state
     ELSE /\ state' = Forgotten(TRUE)
          /\ Become(t, Doomed([mem[t] EXCEPT !.out =
                                 [NoAnswer EXCEPT !.kind = "signed_out"]],
                              HoldNow, target.url, "finish"))
          /\ Goto(t, Retiring(HoldNow, "finish"))
  /\ UNCHANGED <<file, target, switching, external, started, stopped>>

\* The daemon is told to stop: the key is deleted, requests that are already
\* running go on.
Shutdown(t) ==
  /\ pc[t] = "lockShutdown" /\ renewal = None
  /\ renewal' = t
  /\ state' = Forgotten(FALSE)
  /\ Become(t, Doomed(mem[t], HoldNow, target.url, "finish"))
  /\ Goto(t, Retiring(HoldNow, "finish"))
  /\ UNCHANGED <<file, target, switching, external, started, stopped>>

-----------------------------------------------------------------------------
(* tick: renew the credential at its half-life, extend the key at its own *)

Tick(t) ==
  /\ pc[t] = "lockTick" /\ renewal = None
  /\ LET c == state.credential
         m == [mem[t] EXCEPT !.at = target, !.now = clock, !.out = NoAnswer] IN
     IF target.mode \notin Idp \/ c = None
     THEN Goto(t, "finish") /\ UNCHANGED <<renewal, mem>>
     ELSE /\ renewal' = t
          /\ IF Fresh(c, clock)
             THEN Become(t, [m EXCEPT !.bearer = c]) /\ Goto(t, "extend")
             ELSE Become(t, [m EXCEPT !.phase = "tick"]) /\ Goto(t, "resolve")
  /\ UNCHANGED <<file, target, state, switching, external, started, stopped>>

KeyIsDue(now) == /\ KeyIsFresh(now)
                 /\ state.key.id \in now.half

ExtendNotDue(t) ==
  /\ pc[t] = "extend" /\ ~KeyIsDue(mem[t].now)
  /\ Goto(t, "finish")
  /\ UNCHANGED <<quiet, mem>>

Extend(t) ==
  /\ pc[t] = "extend" /\ KeyIsDue(mem[t].now) /\ state.key \in live
  /\ clock' = [clock EXCEPT !.half = @ \ {state.key.id}]
  /\ Goto(t, "finish")
  /\ UNCHANGED <<file, target, state, renewal, switching, live, serial, handed,
                 started, stopped, mem>>

ExtendFails(t) ==
  /\ pc[t] = "extend" /\ KeyIsDue(mem[t].now)
  /\ "extend" \in Faults \/ state.key \notin live
  /\ Goto(t, "finish")
  /\ UNCHANGED <<quiet, mem>>

ExtendUnauthorized(t) ==
  /\ pc[t] = "extend" /\ KeyIsDue(mem[t].now) /\ "unauthorized" \in Faults
  /\ state' = MarkedDead(mem[t].bearer)
  /\ Become(t, [mem[t] EXCEPT !.phase = "tickAgain"])
  /\ Goto(t, "resolve")
  /\ UNCHANGED <<file, target, renewal, switching, external, started, stopped>>

-----------------------------------------------------------------------------
(* switch_team and switch_environment *)

\* Variant: a switch does not wait for the one under way.
LockSwitchingAnyway(t) ==
  /\ pc[t] = "lockSwitching"
  /\ switching' = t
  /\ Goto(t, "refresh")
  /\ UNCHANGED <<file, target, state, renewal, external, started, stopped, mem>>

LockSwitching(t) ==
  /\ pc[t] = "lockSwitching" /\ switching = None
  /\ switching' = t
  /\ Goto(t, "refresh")
  /\ UNCHANGED <<file, target, state, renewal, external, started, stopped, mem>>

\* The environment a switch asks for, if the settings name it.
Destination(req, s) ==
  IF req.op = "switch_environment" THEN EnvironmentNamed(s, req.name) ELSE {}

AlreadyThere(req, s) ==
  \/ req.op = "switch_team" /\ ManagedTeam(s) = req.team
  \/ req.op = "switch_environment" /\ CurrentName(s) = req.name

SwitchPatch(req, s) ==
  IF req.op = "switch_team" THEN TeamPatch(s, req.team)
  ELSE EnvironmentPatch(s, CHOOSE e \in Destination(req, s) : TRUE)

\* switchable_settings, read before the renewal lock is taken.
Plan(t) ==
  /\ pc[t] = "plan"
  /\ LET m == mem[t]
         s == file.settings
         refusal ==
           IF target.mode \in StaticKey THEN "static_key"
           ELSE IF target.mode \notin Idp \/ s = Malformed THEN "gateway_error"
           ELSE IF m.req.op = "switch_environment" /\ Destination(m.req, s) = {}
           THEN "unknown_environment" ELSE None IN
     IF refusal # None THEN Ends(t, [m EXCEPT !.out = Refused(refusal)])
     ELSE IF AlreadyThere(m.req, s)
     THEN Become(t, [m EXCEPT !.seen = target]) /\ Goto(t, "issue")
     ELSE /\ Become(t, [m EXCEPT !.loaded = s,
                          !.patch = SwitchPatch(m.req, s),
                          !.undo = Previous(SwitchPatch(m.req, s).kind, s)])
          /\ Goto(t, "lockSwitch")
  /\ UNCHANGED quiet

LockSwitch(t) ==
  /\ pc[t] = "lockSwitch" /\ renewal = None
  /\ renewal' = t
  /\ Goto(t, "store")
  /\ UNCHANGED <<file, target, state, switching, external, started, stopped,
                 mem>>

\* save_settings leaves a file that already says so alone.
Saved(s) == IF s = file.settings THEN file
            ELSE [version |-> file.version + 1, settings |-> s]

Store(t) ==
  /\ pc[t] = "store"
  /\ file' = Saved(Applied(mem[t].patch, mem[t].loaded))
  /\ state' = Forgotten(FALSE)
  /\ Become(t, [mem[t] EXCEPT !.before = target, !.held = HoldNow,
                              !.moving = TRUE, !.ret = "reissue"])
  /\ Goto(t, "apply")
  /\ UNCHANGED <<target, renewal, switching, external, started, stopped>>

StoreFails(t) ==
  /\ pc[t] = "store" /\ "store" \in Faults
  /\ Ends(t, [mem[t] EXCEPT !.out = Refused("switch_failed")])
  /\ UNCHANGED quiet

Reissue(t) ==
  /\ pc[t] = "reissue"
  /\ Become(t, [mem[t] EXCEPT !.at = target])
  /\ Goto(t, "begin")
  /\ UNCHANGED quiet

\* switch_refusal keeps "signed out" and turns the rest into "switch failed".
SwitchRefusal(out) ==
  IF out.reason = "signed_out" THEN out ELSE Refused("switch_failed")

AnswerInPlace(t) ==
  /\ pc[t] = "answer" /\ mem[t].req.op \in Switches /\ ~mem[t].moving
  /\ IF mem[t].out.kind = "credential"
     THEN Goto(t, "switched") /\ UNCHANGED mem
     ELSE Ends(t, [mem[t] EXCEPT !.out = SwitchRefusal(@)])
  /\ UNCHANGED quiet

\* Variant: the key of the Gateway that was left is not deleted.
SwitchDoneKeepingKey(t) ==
  /\ pc[t] = "answer" /\ mem[t].moving /\ mem[t].out.kind = "credential"
  /\ Become(t, [mem[t] EXCEPT !.held = NoHold])
  /\ Goto(t, "switched")
  /\ UNCHANGED quiet

\* The new Gateway or team answered: the key of the one that was left goes.
SwitchDone(t) ==
  /\ pc[t] = "answer" /\ mem[t].moving /\ mem[t].out.kind = "credential"
  /\ Become(t, Doomed([mem[t] EXCEPT !.held = NoHold], mem[t].held,
                      mem[t].before.url, "switched"))
  /\ Goto(t, Retiring(mem[t].held, "switched"))
  /\ UNCHANGED quiet

\* The renewal lock is dropped before the outcome is read through status().
Switched(t) ==
  /\ pc[t] = "switched"
  /\ renewal' = IF renewal = t THEN None ELSE renewal
  /\ Become(t, [mem[t] EXCEPT !.ret = "report"])
  /\ Goto(t, "refresh")
  /\ UNCHANGED <<file, target, state, switching, external, started, stopped>>

Report(t) ==
  /\ pc[t] = "report"
  /\ Ends(t, [mem[t] EXCEPT !.out = [NoAnswer EXCEPT !.kind = "switched",
                                     !.url = target.url, !.team = target.team]])
  /\ UNCHANGED quiet

\* The previous Gateway section is put back over the settings as they are now.
Restored(m) ==
  Applied(m.undo, IF file.settings = Malformed THEN m.loaded ELSE file.settings)

SwitchUndone(t) ==
  /\ pc[t] = "answer" /\ mem[t].moving /\ mem[t].out.kind = "refused"
  /\ Become(t, [mem[t] EXCEPT !.out = SwitchRefusal(@)])
  /\ Goto(t, "restore")
  /\ UNCHANGED quiet

Restore(t) ==
  /\ pc[t] = "restore"
  /\ \/ file' = Saved(Restored(mem[t]))
     \/ "store" \in Faults /\ file' = file
  /\ Become(t, [mem[t] EXCEPT !.ret = "settle"])
  /\ Goto(t, "apply")
  /\ UNCHANGED <<target, state, renewal, switching, external, started, stopped>>

\* Variant: the versions are compared as well, and always differ.
SameTarget(a, b) == a = b

SameGateway(a, b) == a.mode = b.mode /\ a.url = b.url /\ a.team = b.team

Settle(t) ==
  /\ pc[t] = "settle"
  /\ LET m == [mem[t] EXCEPT !.held = NoHold]
         held == mem[t].held IN
     IF SameGateway(target, m.before)
     THEN /\ state' = [state EXCEPT !.key = held.key,
                         !.credential = held.credential,
                         !.mintRefusal = held.mintRefusal]
          /\ Ends(t, m)
     ELSE /\ Become(t, Doomed(m, held, m.before.url, "finish"))
          /\ Goto(t, Retiring(held, "finish"))
          /\ UNCHANGED state
  /\ UNCHANGED <<file, target, renewal, switching, external, started, stopped>>

-----------------------------------------------------------------------------
(* What happens around the daemon *)

\* The user, an onboarding command or MDM rewrites config.yaml.
Edit ==
  /\ file.version < MaxVersion
  /\ \E s \in Edits : /\ s # file.settings
                      /\ file' = [version |-> file.version + 1, settings |-> s]
  /\ UNCHANGED <<target, state, renewal, switching, external, started, stopped,
                 pc, mem>>

IdsOf(s) == {c.id : c \in s \ {None}}
Aged ==
  UNION {IF "session" \in Ageing THEN {state.session} \ {None} ELSE {},
         IF "credential" \in Ageing THEN IdsOf({state.credential}) ELSE {},
         IF "key" \in Ageing THEN IdsOf(live) ELSE {}}

HalfLife ==
  /\ Cardinality(clock.half) < MaxAged
  /\ \E id \in Aged \ clock.half : clock' = [clock EXCEPT !.half = @ \cup {id}]
  /\ UNCHANGED <<file, target, state, renewal, switching, live, serial, handed,
                 started, stopped, pc, mem>>

Expire ==
  /\ \E id \in (Aged \cap clock.half) \ clock.over :
       /\ clock' = [clock EXCEPT !.over = @ \cup {id}]
       /\ live' = {k \in live : k.id # id}
  /\ UNCHANGED <<file, target, state, renewal, switching, serial, handed,
                 started, stopped, pc, mem>>

Terminated ==
  /\ \A t \in Thread : pc[t] = "idle"
  /\ started = MaxRequests \/ stopped
  /\ UNCHANGED vars

-----------------------------------------------------------------------------
(* Specification *)

Browser(t) == BrowserSignsIn(t) \/ BrowserFails(t)

Refreshing(t) ==
  \/ Refresh(t) \/ LockRefresh(t) \/ SkipRefresh(t) \/ ApplyNothing(t)
  \/ Apply(t) \/ DropToken(t) \/ Retarget(t) \/ Retire(t) \/ RetireFails(t)

Serving(t) ==
  \/ Admit(t) \/ Account(t) \/ Issue(t) \/ LockIssue(t) \/ SkipIssue(t)
  \/ Present(t) \/ ProxyKey(t) \/ ProxyToken(t) \/ Pair(t) \/ Status(t)
  \/ Finish(t)

Renewing(t) ==
  \/ Begin(t) \/ ResolveFresh(t) \/ ResolveFails(t) \/ ResolveRefreshed(t)
  \/ ResolveIdentity(t) \/ IdentityReused(t) \/ IdentityRenewed(t)
  \/ IdentityMissing(t) \/ OpenPage(t) \/ Exchange(t) \/ ExchangeFails(t)
  \/ Keep(t) \/ KeepNone(t) \/ Dead(t)
  \/ AnswerIssued(t) \/ AnswerForward(t) \/ AnswerSignIn(t) \/ AnswerTick(t)

Minting(t) ==
  \/ MintSkipped(t) \/ Mint(t) \/ MintRefused(t) \/ MintFails(t)
  \/ MintLost(t) \/ MintUnauthorized(t)
  \/ Tick(t) \/ ExtendNotDue(t) \/ Extend(t) \/ ExtendFails(t)
  \/ ExtendUnauthorized(t)

Signing(t) ==
  \/ Snapshot(t) \/ JoinSignIn(t) \/ OwnSignIn(t) \/ Explicit(t)
  \/ SignOut(t) \/ Shutdown(t)

Switching(t) ==
  \/ LockSwitching(t) \/ Plan(t) \/ LockSwitch(t) \/ Store(t) \/ StoreFails(t)
  \/ Reissue(t) \/ AnswerInPlace(t) \/ SwitchDone(t) \/ Switched(t)
  \/ Report(t) \/ SwitchUndone(t) \/ Restore(t) \/ Settle(t)

\* The steps of a request that wait for nobody at a browser.
Run(t) == Refreshing(t) \/ Serving(t) \/ Renewing(t) \/ Minting(t)
          \/ Signing(t) \/ Switching(t)

Next ==
  \/ \E t \in Thread : Arrive(t) \/ Run(t) \/ Browser(t)
  \/ Edit \/ HalfLife \/ Expire \/ Terminated

Spec == Init /\ [][Next]_vars

\* Every call to the IdP and the Gateway has a time limit, so a thread that
\* can go on does.  Nothing is said of the developer at the browser.
SpecWorking == Spec /\ \A t \in Thread : WF_vars(Run(t))

-----------------------------------------------------------------------------
(* Properties *)

\* The steps a thread takes under the renewal lock.
Locked == {"apply", "retire", "dropToken", "retarget", "begin", "resolve",
           "identity", "browser", "exchange", "keep", "mint", "dead",
           "extend", "answer", "explicit", "store", "restore", "settle",
           "reissue"}

\* One thread at a time renews: whoever talks to the IdP or the Gateway, or
\* replaces the target, is the holder of Broker.renewal.
RenewalExclusion == \A t \in Thread : pc[t] \in Locked => renewal = t

\* The key in memory is always one of the Gateway and team the broker is on,
\* at every moment a request could be served it: it is taken out before the
\* target moves and only put back once the target is what it was.
KeyMatchesTarget ==
  state.key # None =>
    /\ target.mode \in Idp
    /\ state.key.url = target.url /\ state.key.team = target.team

\* The same for the session credential the next key would be minted with.
CredentialMatchesTarget ==
  state.credential # None =>
    /\ target.mode \in Idp
    /\ state.credential.url = target.url /\ state.credential.team = target.team

\* A key can always be extended and deleted: beside it is a credential of the
\* same Gateway and team that no answer has shown to be dead.
KeyHasCredential ==
  state.key # None =>
    /\ state.credential # None /\ ~state.credential.dead
    /\ state.credential.url = state.key.url
    /\ state.credential.team = state.key.team

Answered(t, op) == /\ pc[t] = "idle" /\ mem[t].req # None
                   /\ mem[t].req.op = op /\ mem[t].out.kind = "credential"

\* bearer_for_proxy never sends a token to a Gateway it is not for.
ProxyBearerPaired ==
  \A t \in Thread :
    Answered(t, "bearer_for_proxy") => mem[t].out.token.url = mem[t].out.url

\* No key is lost: one the Gateway still accepts is in the state, or in the
\* hands of a switch or of a thread about to delete it.
EveryLiveKeyIsHeld ==
  live \subseteq {state.key}
                 \cup {mem[t].held.key : t \in Thread}
                 \cup {mem[t].doomed.key : t \in Thread}

\* The keys Gateways accept that were taken out of the state.
SetAside == (live \cap ({mem[t].held.key : t \in Thread}
                       \cup {mem[t].doomed.key : t \in Thread})) \ {state.key}

Custody == INSTANCE KeyCustody WITH
  inUse <- IF state.key \in live THEN state.key ELSE None,
  aside <- SetAside, accepted <- live, last <- serial, Nobody <- None

\* The broker keeps the custody of its keys: whatever renewals, switches,
\* sign-outs and expiries overlap, a key is minted only when none is in use, and
\* one that is taken out of use is deleted or put back, never lost, and never
\* put back over another (take_gateway_hold, forget, retire, apply_switch).
KeepsCustody == Custody!Spec

\* Requests that need a key at the same time share one: no Gateway accepts two
\* keys of this device for one team.
OneKeyPerTeam ==
  \A j, k \in live : j.url = k.url /\ j.team = k.team => j = k

\* A key is minted, and a credential served, only with one that is good as
\* far as the clock read at the start says: one that the Gateway answered 401
\* to is not used again.
BearerIsValid ==
  \A t \in Thread :
    /\ pc[t] = "mint" => /\ mem[t].bearer.id \notin mem[t].now.over
                         /\ ~mem[t].bearer.dead
    /\ pc[t] = "answer" /\ mem[t].out.kind = "credential"
         /\ mem[t].out.token.source = "session_credential"
       => /\ state.credential.id = mem[t].out.token.id
          /\ state.credential.id \notin mem[t].now.over
          /\ ~state.credential.dead

\* A sign-out deletes the key on the Gateway.
SignOutDeletesTheKey ==
  \A t \in Thread :
    pc[t] = "finish" /\ mem[t].out.kind = "signed_out" => live = {}

\* A switch is told to have gone through only when the broker is on the team
\* or Gateway that was asked for.
SwitchedMeansMoved ==
  \A t \in Thread : pc[t] = "report" =>
    IF mem[t].req.op = "switch_team" THEN target.team = mem[t].req.team
    ELSE \A e \in EnvironmentNamed(file.settings, mem[t].req.name) :
           target.url = e.url

\* A switch that fails leaves the settings as they were, and the key and
\* credential it took out of the state are back.
FailedSwitchRestores ==
  [][\A t \in Thread : pc[t] = "settle" /\ pc'[t] # "settle" =>
       /\ file.settings = mem[t].loaded
       /\ state'.key = mem[t].held.key
       /\ state'.credential = mem[t].held.credential]_vars

-----------------------------------------------------------------------------
(* An inductive invariant *)

\* What is for the Gateway and team of a target; nothing is for any target.
For(item, at) ==
  item # None => at.mode \in Idp /\ item.url = at.url /\ item.team = at.team

\* A key with the credential it can be extended and deleted with.
Backed(key, credential) ==
  key # None =>
    /\ credential # None /\ ~credential.dead
    /\ credential.url = key.url /\ credential.team = key.team

Returns == {"admit", "present", "account", "lockSignIn", "lockSignOut", "plan",
            "status", "lockTick", "finish", "report"}

\* Where a thread goes on after the settings were refreshed, or a key deleted:
\* to a step that takes no lock for granted, or on with what it holds it for.
ReturnsWell(t) ==
  /\ mem[t].ret \in Returns \cup {"reissue", "settle", "idle"}
  /\ pc[t] \in {"snapshot", "lockSwitching", "refresh", "lockRefresh"}
       => mem[t].ret \in Returns
  /\ pc[t] = "retire"
       => mem[t].then \in {"dropToken", "explicit", "finish", "switched"}
  /\ pc[t] = "plan" \/ mem[t].ret = "plan" => mem[t].req.op \in Switches

\* A thread that issues does so for the target as it is.
IssuesForTarget(t) ==
  /\ pc[t] \in {"begin", "resolve", "identity", "browser", "exchange", "keep",
                "mint", "dead", "extend", "answer", "explicit"}
       => mem[t].at = target
  /\ pc[t] = "retire" /\ mem[t].then = "explicit" => mem[t].at = target
  /\ pc[t] \in {"resolve", "identity", "browser", "exchange", "keep", "mint",
                "dead", "extend"} => target.mode \in Idp

\* The target moves only once what was issued for it is gone.
LeavesNothing(t) ==
  \/ pc[t] = "retire" /\ mem[t].then = "dropToken"
  \/ pc[t] \in {"dropToken", "retarget"}
  => \/ state.key = None /\ state.credential = None
     \/ /\ mem[t].next.mode = target.mode /\ mem[t].next.url = target.url
        /\ mem[t].next.team = target.team

\* The bearer a thread mints, extends or is refused with.
BearerIsKept(t) ==
  /\ pc[t] \in {"keep", "mint", "dead", "extend"} => For(mem[t].bearer, mem[t].at)
  /\ pc[t] \in {"mint", "dead"} => state.credential = mem[t].bearer
  /\ pc[t] \in {"mint", "dead", "extend"} => mem[t].bearer # None
  /\ pc[t] \in {"keep", "mint"} /\ mem[t].bearer # None => ~mem[t].bearer.dead
  /\ /\ pc[t] \in {"resolve", "identity", "browser", "exchange", "keep"}
     /\ mem[t].phase = "tick"
     => state.credential # None

\* What a switch holds is what was issued for the target it left.
HoldsWhatWasIssued(t) ==
  /\ For(mem[t].held.key, mem[t].before)
  /\ For(mem[t].held.credential, mem[t].before)
  /\ Backed(mem[t].held.key, mem[t].held.credential)

\* An answer under way is a token for the target.
AnswersForTarget(t) ==
  /\ pc[t] \in {"resolve", "identity", "browser", "exchange", "keep", "mint",
                "dead", "extend", "answer"}
  /\ mem[t].out.kind = "credential"
  => mem[t].out.token.url = mem[t].at.url

\* bearer_for_proxy goes its own way, and ends with a token for the Gateway
\* it names.
Forwards(t) ==
  mem[t].req # None /\ mem[t].req.op = "bearer_for_proxy" =>
    /\ pc[t] \in {"refresh", "lockRefresh", "apply", "retire", "dropToken",
                  "retarget", "present", "proxyKey", "lockIssue", "begin",
                  "resolve", "identity", "browser", "exchange", "keep", "mint",
                  "dead", "answer", "finish", "idle"}
    /\ pc[t] \in {"refresh", "lockRefresh", "apply", "retire", "dropToken",
                  "retarget"} => mem[t].ret = "present"
    /\ pc[t] = "retire" => mem[t].then = "dropToken"
    /\ mem[t].phase # "tick" /\ ~mem[t].moving
    /\ pc[t] \in {"finish", "idle"} /\ mem[t].out.kind = "credential"
         => mem[t].out.token.url = mem[t].out.url

ThreadInv(t) ==
  /\ pc[t] # "idle" => mem[t].req \in Request
  /\ pc[t] \in Locked => renewal = t
  /\ ReturnsWell(t)
  /\ IssuesForTarget(t)
  /\ LeavesNothing(t)
  /\ BearerIsKept(t)
  /\ HoldsWhatWasIssued(t)
  /\ AnswersForTarget(t)
  /\ Forwards(t)

\* What the broker would serve is for its target.
StateForTarget ==
  /\ For(state.key, target) /\ For(state.credential, target)
  /\ Backed(state.key, state.credential)

\* What holds between any two steps, and is enough to show that it holds
\* after the next one: the state is for the target, and each thread is where
\* the lock it holds lets it be, with what it got there.
Inv ==
  /\ TypeOK
  /\ StateForTarget
  /\ \A t \in Thread : ThreadInv(t)

-----------------------------------------------------------------------------
(* Three more, beside Inv: of the ids, of the keys, and of the switches *)

\* The steps in which a thread gets a credential and then a key.
Issues == {"resolve", "identity", "browser", "exchange", "keep", "mint"}

\* The ids a thread remembers were given out, so that one it is given is not
\* among those the clock it read says are over.
RemembersIds(t) ==
  /\ mem[t].session # None => mem[t].session <= serial
  /\ mem[t].bearer # None => mem[t].bearer.id <= serial
  /\ mem[t].held.credential # None => mem[t].held.credential.id <= serial
  /\ \A id \in mem[t].now.over : id <= serial

\* The bearer, from where it is got to where it is served.
BearerLasts(t) ==
  /\ pc[t] \in {"keep", "mint"} /\ mem[t].bearer # None =>
       mem[t].bearer.id \notin mem[t].now.over
  /\ /\ pc[t] \in Issues \cup {"dead", "extend"}
     /\ mem[t].out.kind = "credential"
     => mem[t].out.token.source = "identity_token"
  /\ /\ pc[t] = "answer" /\ mem[t].out.kind = "credential"
     /\ mem[t].out.token.source = "session_credential"
     => /\ state.credential # None
        /\ state.credential.id = mem[t].out.token.id
        /\ state.credential.id \notin mem[t].now.over
        /\ ~state.credential.dead

\* No id is in use that was not given out.
IdInv ==
  /\ \A id \in clock.half \cup clock.over : id <= serial
  /\ state.session # None => state.session <= serial
  /\ state.credential # None => state.credential.id <= serial
  /\ \A k \in live : k.id <= serial
  /\ \A t \in Thread : RemembersIds(t) /\ BearerLasts(t)

\* A Gateway that does what it is asked, and whose answers arrive.
HonestGateway == Faults \cap {"mint_lost", "delete", "unauthorized"} = {}

\* The keys the broker or a Gateway has.
Known == (live \cup {state.key} \cup {mem[t].held.key : t \in Thread}
               \cup {mem[t].doomed.key : t \in Thread}) \ {None}

\* A switch that has taken the key out of the state and got none yet.
Bare(t) ==
  \/ /\ pc[t] \in {"apply", "dropToken", "retarget"}
     /\ mem[t].ret \in {"reissue", "settle"}
  \/ pc[t] \in {"reissue", "restore", "settle"}
  \/ mem[t].moving /\ pc[t] \in Issues \cup {"begin"}
  \/ mem[t].moving /\ pc[t] = "answer" /\ mem[t].out.kind # "credential"

\* Ticks tick, and switches switch: where a thread can be once it has stored
\* the settings of a switch.
MovesOn(t) ==
  /\ mem[t].moving \/ pc[t] \in {"lockSwitch", "store"} =>
       mem[t].req.op \in Switches
  /\ pc[t] = "lockTick" \/ mem[t].ret = "lockTick" \/ mem[t].phase = "tick" =>
       mem[t].req.op = "tick"
  /\ mem[t].moving =>
       /\ mem[t].ret \in {"reissue", "settle", "report"}
       /\ pc[t] \in Issues \cup
            {"apply", "retire", "dropToken", "retarget", "reissue", "begin",
             "answer", "restore", "settle", "switched", "refresh",
             "lockRefresh", "report", "finish"}
       /\ pc[t] = "retire" => mem[t].then # "explicit"

\* A key taken out of the state is in the hands of a switch until that is
\* done or undone, or of a thread that deletes it next.
HoldsKeys(t) ==
  /\ Bare(t) => state.key = None
  /\ mem[t].held.key # None => mem[t].moving /\ (Bare(t) \/ pc[t] = "answer")
  /\ mem[t].doomed.key # None =>
       pc[t] = "retire" /\ mem[t].doomed.key.url = mem[t].from
  /\ pc[t] = "retire" /\ mem[t].then # "switched" => state.key = None

\* A key is minted over none that a Gateway accepts.
MintsOverNone(t) ==
  /\ pc[t] \in Issues /\ mem[t].phase # "tick" => state.key \notin live
  /\ pc[t] = "mint" => mem[t].phase # "tick"
  /\ pc[t] # "dead"

\* A sign-out keeps the lock, and the state empty, until it ends.
SignsOutAlone(t) ==
  mem[t].out.kind = "signed_out" =>
    /\ pc[t] \in {"retire", "finish", "idle"}
    /\ pc[t] = "retire" => mem[t].then = "finish"
    /\ pc[t] # "idle" => renewal = t /\ state.key = None

KeyThread(t) ==
  MovesOn(t) /\ HoldsKeys(t) /\ MintsOverNone(t) /\ SignsOutAlone(t)

\* Where the keys are, if the Gateway is honest.
KeyInv ==
  /\ EveryLiveKeyIsHeld
  /\ \A j, k \in Known : j.id = k.id => j = k
  /\ \A k \in Known : k.id <= serial
  /\ \A k \in live : k.id \notin clock.over
  /\ \A t \in Thread : KeyThread(t)

\* Beside Inv: the ids, and the keys that were given them.
CustodyInv == IdInv /\ KeyInv

\* config.yaml is written by the broker's own switches only, and lists no
\* environment twice.
NamesOnce(s) ==
  \A i, j \in DOMAIN s.environments :
    i # j => /\ s.environments[i].name # s.environments[j].name
             /\ s.environments[i].url # s.environments[j].url

Undisturbed == Edits = {} /\ \A s \in Installed : NamesOnce(s)

\* The broker is on what the file says.
InStep == target = TargetOf(file.settings, file.version)

\* A switch that wrote the file and has not moved the target yet.
Writing(t) ==
  /\ mem[t].moving /\ mem[t].ret \in {"reissue", "settle"}
  /\ \/ pc[t] \in {"apply", "dropToken", "retarget"}
     \/ pc[t] = "retire" /\ mem[t].then = "dropToken"

\* The steps of issue_under_renewal_lock.
Issuing == Issues \cup {"begin", "dead", "extend", "answer"}

IsSwitch(t) == pc[t] # "idle" /\ mem[t].req.op \in Switches

\* What a switch that moves has read and written.
Planned(t) ==
  LET m == mem[t] IN
  /\ m.patch = SwitchPatch(m.req, m.loaded)
  /\ m.undo = Previous(m.patch.kind, m.loaded)
  /\ m.req.op = "switch_environment" => Destination(m.req, m.loaded) # {}
  /\ ~AlreadyThere(m.req, m.loaded)
  /\ NamesOnce(m.loaded)

Moving(t) ==
  /\ mem[t].moving /\ Planned(t)
  /\ SameGateway(mem[t].before, TargetOf(mem[t].loaded, 0))

\* The stages of a switch: before it has read the settings it starts from,
Coming(t) ==
  /\ ~mem[t].moving /\ mem[t].ret = "plan"
  /\ pc[t] \in {"lockSwitching", "refresh", "lockRefresh", "apply", "plan"}

\* on its way to write them,
Leaving(t) ==
  /\ ~mem[t].moving /\ mem[t].ret = "plan" /\ Planned(t)
  /\ pc[t] \in {"lockSwitch", "store"}
  /\ file.settings = mem[t].loaded

\* with nothing to write,
InPlace(t) ==
  /\ ~mem[t].moving /\ AlreadyThere(mem[t].req, file.settings)
  /\ \/ /\ mem[t].ret = "plan"
        /\ pc[t] \in Issuing \cup {"issue", "lockIssue", "switched"}
     \/ /\ mem[t].ret = "report"
        /\ pc[t] \in {"refresh", "lockRefresh", "apply", "report"}

\* on what it wrote, 
Arriving(t) ==
  /\ Moving(t) /\ file.settings = Applied(mem[t].patch, mem[t].loaded)
  /\ \/ /\ mem[t].ret = "reissue"
        /\ \/ Writing(t)
           \/ pc[t] \in Issuing \cup {"reissue", "restore", "switched"}
           \/ pc[t] = "retire" /\ mem[t].then = "switched"
     \/ /\ mem[t].ret = "report"
        /\ pc[t] \in {"refresh", "lockRefresh", "apply", "report"}

\* undoing it,
Undoing(t) ==
  /\ Moving(t) /\ mem[t].ret = "settle"
  /\ file.settings \in {mem[t].loaded, Applied(mem[t].patch, mem[t].loaded)}
  /\ "store" \notin Faults => file.settings = mem[t].loaded
  /\ Writing(t) \/ pc[t] = "settle"

\* and with its answer.
Ending(t) ==
  \/ pc[t] = "finish"
  \/ pc[t] = "retire" /\ mem[t].then = "finish"

\* Other requests are at none of these steps.
Unswitching(t) ==
  /\ ~mem[t].moving
  /\ mem[t].ret \notin {"plan", "reissue", "settle", "report"}
  /\ pc[t] \notin {"lockSwitching", "plan", "lockSwitch", "store", "reissue",
                   "switched", "report", "restore", "settle", "dropToken",
                   "retarget"}
  /\ pc[t] = "retire" => mem[t].then \notin {"dropToken", "switched"}

SwitchThread(t) ==
  IF IsSwitch(t)
  THEN /\ pc[t] # "lockSwitching" => switching = t
       /\ \/ Coming(t) \/ Leaving(t) \/ InPlace(t) \/ Arriving(t) \/ Undoing(t)
          \/ Ending(t)
       /\ Writing(t) /\ pc[t] # "apply" =>
            mem[t].next = TargetOf(file.settings, file.version)
       /\ pc[t] = "retire" /\ mem[t].then = "switched" =>
            For(mem[t].doomed.key, mem[t].before)
  ELSE Unswitching(t)

FileInv ==
  /\ file.settings \in Setting /\ NamesOnce(file.settings)
  /\ target.version <= file.version
  /\ target.version = file.version => InStep
  /\ InStep \/ \E t \in Thread : Writing(t)

SwitchInv == FileInv /\ \A t \in Thread : SwitchThread(t)

\* All that is beside Inv.
CustodyAndSwitches == CustodyInv /\ (Undisturbed => SwitchInv)

-----------------------------------------------------------------------------
(* Progress *)

Answers(t, ops) ==
  (pc[t] # "idle" /\ mem[t].req.op \in ops) ~> pc[t] = "idle"

\* The status and the account poll end even if nobody ever comes back to a
\* sign-in page that holds the renewal lock.
StatusNeverWaits == \A t \in Thread : Answers(t, {"status", "account_bearer"})

\* Every request ends, since the wait for the browser does, after five minutes
\* or, if connections go on queueing at its listener, when they stop (the premise,
\* which Tokens looks into): no two of them wait for each other's lock, and none
\* tries for ever.
EveryRequestEnds ==
  (\A t \in Thread : WF_vars(Browser(t)))
  => \A t \in Thread : Answers(t, Op)
=============================================================================
