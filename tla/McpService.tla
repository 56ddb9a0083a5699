----------------------------- MODULE McpService -----------------------------
(* The MCP service of the daemon (src/mcp/service.rs) and its client, the     *)
(* stdio server `relay mcp` (src/mcp/stdio.rs). A call is one tool call of a  *)
(* client: one connection to mcp.sock, one task of the daemon, and, while a   *)
(* question to the user is open, one conversation kept by the stdio server.   *)
(* A step of a task goes from one point where another task can come between   *)
(* to the next: a section under the lock of the state, a call to the broker,  *)
(* to the Gateway, or an answer of the client.                                *)
EXTENDS CallSlots, McpCatalog

CONSTANTS
    None,
    Identity,       \* what SessionIdentity tells apart: Gateway, user, team
    Sections,       \* the mcp sections of the settings file, one edit after another
    Earlier,        \* sections the file had while the daemon was starting
    Request,        \* call -> what its client, or the daemon's own watcher, asks for
    Listings,       \* identity -> what its Gateway may list
    Asks,           \* call -> how its client may ask: "mute", "peer", "inline"
    MaxRequests, MaxMoves

Answers == {"accept", "decline", "cancel", "unsupported"}

ASSUME McpAssumption ==
    /\ None \notin Identity \cup Answers
    /\ Len(Sections) \in Nat \ {0} /\ DOMAIN Sections = 1..Len(Sections)
    /\ \A n \in DOMAIN Sections : Sections[n].cap \in Caps
    /\ \A section \in Earlier : section.cap \in Caps
    /\ \A i \in Identity : \A tools \in Listings[i] : IsFiniteSet(DOMAIN tools)
    /\ Asks \in [Call -> SUBSET {"mute", "peer", "inline"}]
    /\ MaxRequests \in Nat /\ MaxMoves \in Nat

VARIABLES
    version,        \* which version of the settings file is on disk
    broker,         \* the broker's session: its identity, and how often it moved
    state,          \* State of the service
    connected,      \* whom RmcpUpstream keeps a connection for
    pc, mem,        \* where the task of a call is, and its local variables
    front,          \* what the stdio server and its client know of a call
    requests,       \* how many calls came so far
    confirmed       \* pairs of identity and server the user accepted

serviceVars == <<version, broker, state, connected, pc, mem, front, requests, confirmed>>
vars == <<slotVars, serviceVars>>

-----------------------------------------------------------------------------
(* State *)

Ops == {"search", "describe", "call", "activate", "team", "environment", "check", "status"}

NeedsBearer(op) == op \in {"search", "describe", "call", "activate"}

\* A session as it begins: nothing fetched, nothing active.
NewSession(i) == [identity |-> i, catalog |-> None, active |-> {}, attempted |-> "due"]

Idle == [req |-> None, bearer |-> None, version |-> 0, section |-> None, now |-> None,
         catalog |-> None, over |-> None, answer |-> None]

Closed == [asks |-> "mute", stage |-> "none", told |-> "none", yes |-> FALSE, ran |-> FALSE]

\* The daemon read the file first and its version afterwards: an edit in between
\* leaves the section of an earlier file under the version of the present one.
\* (A start that can read no version goes on like one followed by an edit.)
Init ==
    /\ version = 1
    /\ \E section \in {Sections[1]} \cup Earlier :
        /\ state = [version |-> 1, section |-> section, session |-> None]
        /\ SlotsInit(section.cap)
    /\ broker = [identity |-> None, move |-> 0]
    /\ connected = None
    /\ pc = [c \in Call |-> "idle"]
    /\ mem = [c \in Call |-> Idle]
    /\ front = [c \in Call |-> Closed]
    /\ requests = 0
    /\ confirmed = {}

Goto(c, step) == pc' = [pc EXCEPT ![c] = step]

Op(c) == mem[c].req.op

\* The broker comes to an identity: by a sign-in, or by a switch to another
\* team or Gateway.
Moves ==
    /\ broker.move < MaxMoves
    /\ \E i \in Identity \ {broker.identity} :
        broker' = [identity |-> i, move |-> broker.move + 1]

\* The session, if it is that of an identity.
SessionOf(i) == state.session # None /\ state.session.identity = i

\* The servers a bearer may use.
ActiveFor(i) == IF SessionOf(i) THEN state.session.active ELSE {}

\* Variant: what was activated stays when another identity comes.
AdoptedKeepingActive(i) ==
    IF \/ i = None /\ state.session = None
       \/ SessionOf(i)
    THEN state
    ELSE [state EXCEPT !.session =
            IF i = None THEN None
            ELSE [NewSession(i) EXCEPT !.active =
                    IF state.session = None THEN {} ELSE state.session.active]]

\* What the state is after the service adopted an identity, or none.
Adopted(i) ==
    IF \/ i = None /\ state.session = None
       \/ SessionOf(i)
    THEN state
    ELSE [state EXCEPT !.session = IF i = None THEN None ELSE NewSession(i)]

\* The task ends with a reply, if the stdio server still reads it. Kept is only
\* whether it said that nothing was run.
Reply(c, outcome) ==
    /\ Goto(c, "idle")
    /\ mem' = [mem EXCEPT ![c] = Idle]
    /\ front' = [front EXCEPT ![c] =
            IF \/ outcome = "nothing_run" /\ front[c].stage = "open"
               \/ front[c].told = "nothing_run"
            THEN [Closed EXCEPT !.told = "nothing_run", !.ran = front[c].ran]
            ELSE Closed]

-----------------------------------------------------------------------------
(* Admission *)

\* A client calls a tool of `relay mcp`, which opens a connection to the
\* daemon; or the daemon's watcher or status page asks.
Call_(c, r) ==
    /\ pc[c] = "idle" /\ front[c].stage = "none"
    /\ requests < MaxRequests
    /\ requests' = requests + 1
    /\ mem' = [mem EXCEPT ![c] = [Idle EXCEPT !.req = r]]
    /\ \E asks \in Asks[c] :
        front' = [front EXCEPT ![c] =
            IF r.op \in {"check", "status"} THEN Closed
            ELSE [Closed EXCEPT !.stage = "open", !.asks = asks]]
    /\ Goto(c, IF r.op = "status" THEN "identify" ELSE "admit")
    /\ UNCHANGED <<slotVars, version, broker, state, connected, confirmed>>

\* The broker admits the caller and issues a bearer, after a sign-in if there
\* is no session.
Admit(c) ==
    /\ pc[c] = "admit" /\ NeedsBearer(Op(c))
    /\ \/ broker.identity # None /\ UNCHANGED broker
       \/ broker.identity = None /\ Moves
    /\ mem' = [mem EXCEPT ![c].bearer = broker'.identity]
    /\ Goto(c, "version")
    /\ UNCHANGED <<slotVars, version, state, connected, front, requests, confirmed>>

AdmitCaller(c) ==
    /\ pc[c] = "admit" /\ ~NeedsBearer(Op(c))
    /\ Goto(c, "version")
    /\ UNCHANGED <<slotVars, version, broker, state, connected, mem, front, requests, confirmed>>

\* The caller is not allowed, or the broker has no credential for it.
AdmitRefused(c) ==
    /\ pc[c] = "admit" /\ Op(c) # "check"
    /\ Reply(c, "refused")
    /\ UNCHANGED <<slotVars, version, broker, state, connected, requests, confirmed>>

\* Where a task goes on after it looked at the settings.
Reloaded(c) == Goto(c, IF NeedsBearer(Op(c)) THEN "adopt" ELSE "identify")

\* The version of the file is the one the service has.
SettingsKnown(c) ==
    /\ pc[c] = "version"
    /\ state.version = version
    /\ Reloaded(c)
    /\ UNCHANGED <<slotVars, version, broker, state, connected, mem, front, requests, confirmed>>

SettingsChanged(c) ==
    /\ pc[c] = "version"
    /\ state.version # version
    /\ mem' = [mem EXCEPT ![c].version = version]
    /\ Goto(c, "load")
    /\ UNCHANGED <<slotVars, version, broker, state, connected, front, requests, confirmed>>

\* The file cannot be read now; the service goes on with what it has.
SettingsUnreadable(c) ==
    /\ pc[c] \in {"version", "load"}
    /\ mem' = [mem EXCEPT ![c].version = 0]
    /\ Reloaded(c)
    /\ UNCHANGED <<slotVars, version, broker, state, connected, front, requests, confirmed>>

LoadSettings(c) ==
    /\ pc[c] = "load"
    /\ mem' = [mem EXCEPT ![c].section = Sections[version]]
    /\ Goto(c, "store")
    /\ UNCHANGED <<slotVars, version, broker, state, connected, front, requests, confirmed>>

\* Variant: only a catalog that is fetched is settled.
ResettledNever(catalog, section) == catalog

\* The catalog of a session, settled again for another section.
Resettled(catalog, section) ==
    IF catalog = None THEN None
    ELSE [catalog EXCEPT !.entries = WithSettings(@, section)]

\* The session there is, if there is one, with its catalog settled again.
ResettledSession(section) ==
    IF state.session = None THEN None
    ELSE [state.session EXCEPT !.catalog = Resettled(@, section)]

\* Variant: the version is that of the file as it is when the lock is taken.
StoredVersionNow(c) == version

\* The version that was read before the file was.
StoredVersion(c) == mem[c].version

\* One section under the lock: the version, the cap, the verdicts.
StoreSettings(c) ==
    LET new == mem[c].section
    IN  /\ pc[c] = "store"
        /\ IF new = state.section
           THEN /\ state' = [state EXCEPT !.version = StoredVersion(c)]
                /\ UNCHANGED slotVars
           ELSE /\ state' = [state EXCEPT
                        !.version = StoredVersion(c),
                        !.section = new,
                        !.session = ResettledSession(new)]
                /\ Resize(new.cap)
        /\ mem' = [mem EXCEPT ![c].section = None, ![c].version = 0]
        /\ Reloaded(c)
        /\ UNCHANGED <<version, broker, connected, front, requests, confirmed>>

\* The identity of the broker's session, if there is one.
Identify(c) ==
    /\ pc[c] = "identify"
    /\ mem' = [mem EXCEPT ![c].now = broker.identity]
    /\ Goto(c, "adopt")
    /\ UNCHANGED <<slotVars, version, broker, state, connected, front, requests, confirmed>>

Adopt(c) ==
    /\ pc[c] = "adopt"
    /\ state' = Adopted(IF NeedsBearer(Op(c)) THEN mem[c].bearer ELSE mem[c].now)
    /\ IF Op(c) = "status"
       THEN Reply(c, "done")
       ELSE /\ Goto(c, CASE NeedsBearer(Op(c)) -> "catalog"
                         [] Op(c) = "check"    -> "due"
                         [] OTHER              -> "early")
            /\ UNCHANGED <<mem, front>>
    /\ UNCHANGED <<slotVars, version, broker, connected, requests, confirmed>>

-----------------------------------------------------------------------------
(* The catalog *)

\* Five minutes since the last attempt to fetch a catalog for this session.
Due == state.session # None /\ state.session.attempted = "due"

\* The watcher: nothing to fetch, or no bearer to fetch it with.
NotDue(c) ==
    /\ pc[c] = "due"
    /\ state' = IF Due THEN [state EXCEPT !.session.attempted = "recent"] ELSE state
    /\ Reply(c, "done")
    /\ UNCHANGED <<slotVars, version, broker, connected, requests, confirmed>>

FetchDue(c) ==
    /\ pc[c] = "due" /\ Due
    /\ broker.identity # None
    /\ mem' = [mem EXCEPT ![c].bearer = broker.identity]
    /\ Goto(c, "fetch")
    /\ UNCHANGED <<slotVars, version, broker, state, connected, front, requests, confirmed>>

HasCatalog == state.session # None /\ state.session.catalog # None

\* `catalog_for` takes the catalog of the session there is.
CatalogHeld(c) ==
    /\ pc[c] = "catalog"
    /\ HasCatalog
    /\ mem' = [mem EXCEPT ![c].catalog = state.session.catalog]
    /\ Goto(c, "serve")
    /\ UNCHANGED <<slotVars, version, broker, state, connected, front, requests, confirmed>>

NoCatalog(c) ==
    /\ pc[c] = "catalog"
    /\ ~HasCatalog
    /\ Goto(c, "fetch")
    /\ UNCHANGED <<slotVars, version, broker, state, connected, mem, front, requests, confirmed>>

Fetch(c) ==
    /\ pc[c] = "fetch"
    /\ state' = IF SessionOf(mem[c].bearer)
                THEN [state EXCEPT !.session.attempted = "recent"] ELSE state
    /\ Goto(c, "connect")
    /\ UNCHANGED <<slotVars, version, broker, connected, mem, front, requests, confirmed>>

\* Variant: the connection there is serves any bearer.
ConnectedForAny(i) == IF connected = None THEN i ELSE connected

\* The connection for a bearer, kept or made anew. Others wait meanwhile.
ConnectedFor(i) == i

Connect(c) ==
    /\ pc[c] = "connect"
    /\ connected' = ConnectedFor(mem[c].bearer)
    /\ mem' = [mem EXCEPT ![c].over = connected']
    /\ IF Op(c) = "call" /\ mem[c].catalog # None
       THEN /\ Goto(c, "running")
            /\ front' = [front EXCEPT ![c].ran = TRUE]
       ELSE /\ Goto(c, "listing")
            /\ UNCHANGED front
    /\ UNCHANGED <<slotVars, version, broker, state, requests, confirmed>>

\* The catalog a listing makes, and whose Gateway listed it.
CatalogOf(tools, over, section) ==
    [listed |-> tools, by |-> over, entries |-> Build(tools, section)]

\* The state with a catalog, if the session is still that of the bearer.
KeptCatalog(c, catalog) ==
    IF SessionOf(mem[c].bearer) THEN [state EXCEPT !.session.catalog = catalog] ELSE state

Listed(c) ==
    /\ pc[c] = "listing"
    /\ \E tools \in Listings[mem[c].over] :
        LET catalog == CatalogOf(tools, mem[c].over, state.section)
        IN  /\ state' = KeptCatalog(c, catalog)
            /\ IF Op(c) = "check"
               THEN Reply(c, "done")
               ELSE /\ mem' = [mem EXCEPT ![c].catalog = catalog, ![c].over = None]
                    /\ Goto(c, "serve")
                    /\ UNCHANGED front
    /\ UNCHANGED <<slotVars, version, broker, connected, requests, confirmed>>

\* An error of the connection forgets it, if it is still the one that is kept.
Forget(c) ==
    \/ UNCHANGED connected
    \/ connected = mem[c].over /\ connected' = None

\* The Gateway cannot be reached, fails, or does not list in time.
NotListed(c) ==
    /\ \/ pc[c] = "connect" /\ mem[c].catalog = None /\ UNCHANGED connected
       \/ pc[c] = "listing" /\ Forget(c)
    /\ Reply(c, "unavailable")
    /\ UNCHANGED <<slotVars, version, broker, state, requests, confirmed>>

-----------------------------------------------------------------------------
(* The operations *)

Entries(c) == mem[c].catalog.entries

\* What a search or a question for one tool answers as callable.
Shown(c) ==
    IF Op(c) = "search"
    THEN Search(Entries(c), mem[c].req.query, ActiveFor(mem[c].bearer)).tools
    ELSE {name \in DOMAIN Entries(c) \cap {mem[c].req.name} :
            Entries(c)[name].server \in ActiveFor(mem[c].bearer)}

Answer(c) ==
    /\ pc[c] = "serve" /\ Op(c) \in {"search", "describe"}
    /\ Reply(c, "done")
    /\ UNCHANGED <<slotVars, version, broker, state, connected, requests, confirmed>>

\* A tool call: the tool must be known and its server active. An "ask" tool
\* needs the user; a slot comes after the answer.
CheckCall(c) ==
    LET name == mem[c].req.name
    IN  /\ pc[c] = "serve" /\ Op(c) = "call"
        /\ IF name \in DOMAIN Entries(c) /\ Entries(c)[name].server \in ActiveFor(mem[c].bearer)
           THEN /\ Goto(c, IF Entries(c)[name].verdict = "ask" THEN "ask" ELSE "slot")
                /\ UNCHANGED <<mem, front>>
           ELSE Reply(c, "inactive")
        /\ UNCHANGED <<slotVars, version, broker, state, connected, requests, confirmed>>

CheckServer(c) ==
    LET server == mem[c].req.server
    IN  /\ pc[c] = "serve" /\ Op(c) = "activate"
        /\ IF ToolsOf(Entries(c), server) = {} THEN Reply(c, "unknown")
           ELSE IF server \in ActiveFor(mem[c].bearer) THEN Reply(c, "done")
           ELSE /\ Goto(c, "ask")
                /\ UNCHANGED <<mem, front>>
        /\ UNCHANGED <<slotVars, version, broker, state, connected, requests, confirmed>>

\* A switch without an argument answers the selection; one with a bad argument,
\* or that the daemon would refuse, is refused before the user is asked.
Early(c) ==
    /\ pc[c] = "early"
    /\ \/ Reply(c, "done")
       \/ Reply(c, "refused")
       \/ Goto(c, "ask") /\ UNCHANGED <<mem, front>>
    /\ UNCHANGED <<slotVars, version, broker, state, connected, requests, confirmed>>

\* The question goes to the client. Nobody reads it if the connection is gone.
Ask(c) ==
    /\ pc[c] = "ask"
    /\ IF front[c].stage = "open"
       THEN Goto(c, "asked") /\ UNCHANGED <<mem, front>>
       ELSE Reply(c, "cancelled")
    /\ UNCHANGED <<slotVars, version, broker, state, connected, requests, confirmed>>

\* An answer came, or the connection closed, which counts as a cancellation.
Accepted(c) ==
    /\ pc[c] = "asked" /\ mem[c].answer = "accept"
    /\ Goto(c, CASE Op(c) = "call" -> "slot" [] Op(c) = "activate" -> "same" [] OTHER -> "switch")
    /\ UNCHANGED <<slotVars, version, broker, state, connected, mem, front, requests, confirmed>>

Declined(c) ==
    /\ pc[c] = "asked"
    /\ \/ mem[c].answer \in {"decline", "cancel", "unsupported"}
       \/ mem[c].answer = None /\ front[c].stage = "none"
    /\ Reply(c, "nothing_run")
    /\ UNCHANGED <<slotVars, version, broker, state, connected, requests, confirmed>>

TakeSlot(c) ==
    /\ pc[c] = "slot"
    /\ Acquire(c)
    /\ Goto(c, "same")
    /\ UNCHANGED <<version, broker, state, connected, mem, front, requests, confirmed>>

\* `require_same_session`: what the broker holds is read, adopted, and then
\* the session is compared with the bearer, in three sections.
ReadIdentity(c) ==
    /\ pc[c] = "same"
    /\ mem' = [mem EXCEPT ![c].now = broker.identity]
    /\ Goto(c, "readopt")
    /\ UNCHANGED <<slotVars, version, broker, state, connected, front, requests, confirmed>>

Readopt(c) ==
    /\ pc[c] = "readopt"
    /\ state' = Adopted(mem[c].now)
    /\ Goto(c, "compare")
    /\ UNCHANGED <<slotVars, version, broker, connected, mem, front, requests, confirmed>>

SameSession(c) == SessionOf(mem[c].bearer)

CompareForCall(c) ==
    /\ pc[c] = "compare" /\ Op(c) = "call"
    /\ IF SameSession(c)
       THEN Goto(c, "connect") /\ UNCHANGED <<slotVars, mem>>
       ELSE Goto(c, "drop") /\ Release(c) /\ mem' = [mem EXCEPT ![c].answer = "stale"]
    /\ UNCHANGED <<version, broker, state, connected, front, requests, confirmed>>

Activate(c) ==
    /\ pc[c] = "compare" /\ Op(c) = "activate"
    /\ IF SameSession(c)
       THEN /\ state' = [state EXCEPT !.session.active = @ \cup {mem[c].req.server}]
            /\ Reply(c, "done")
       ELSE /\ Reply(c, "unavailable")
            /\ UNCHANGED state
    /\ UNCHANGED <<slotVars, version, broker, connected, requests, confirmed>>

\* The call ends: an answer of the Gateway, an error, or 300 seconds.
CallEnds(c) ==
    /\ \/ pc[c] = "running" /\ Forget(c)
       \/ pc[c] = "connect" /\ Op(c) = "call" /\ mem[c].catalog # None /\ UNCHANGED connected
    /\ Release(c)
    /\ Goto(c, "drop")
    /\ UNCHANGED <<version, broker, state, mem, front, requests, confirmed>>

\* The slot's permit goes back, and the client gets its answer.
Drop(c) ==
    /\ pc[c] = "drop"
    /\ IF slot[c] = "returning" THEN GiveBack(c) ELSE UNCHANGED slotVars
    /\ Reply(c, IF mem[c].answer = "stale" THEN "unavailable" ELSE "done")
    /\ UNCHANGED <<version, broker, state, connected, requests, confirmed>>

\* The daemon's switch: another team or Gateway, or a refusal.
Switch(c) ==
    /\ pc[c] = "switch"
    /\ \/ /\ broker.identity # None
          /\ Moves
          /\ IF Op(c) = "team" /\ mem[c].now # None
             THEN Goto(c, "forget") /\ UNCHANGED <<mem, front>>
             ELSE Reply(c, "done")
       \/ /\ Reply(c, "refused")
          /\ UNCHANGED broker
    /\ UNCHANGED <<slotVars, version, state, connected, requests, confirmed>>

\* After a switch of the team the catalog is due at once.
ForgetFetchTime(c) ==
    /\ pc[c] = "forget"
    /\ state' = IF SessionOf(mem[c].now)
                THEN [state EXCEPT !.session.attempted = "due"] ELSE state
    /\ Reply(c, "done")
    /\ UNCHANGED <<slotVars, version, broker, connected, requests, confirmed>>

-----------------------------------------------------------------------------
(* The stdio server and its client *)

Asking(c) == pc[c] = "asked" /\ mem[c].answer = None

\* What the user said yes to.
Agreed(c) ==
    IF Op(c) = "activate" THEN {<<mem[c].bearer, mem[c].req.server>>} ELSE {}

\* A client that cannot ask.
Unsupported(c) ==
    /\ front[c].asks = "mute" /\ front[c].stage = "open" /\ Asking(c)
    /\ mem' = [mem EXCEPT ![c].answer = "unsupported"]
    /\ UNCHANGED <<slotVars, version, broker, state, connected, pc, front, requests, confirmed>>

\* A client with the handshake of 2025 is asked by a request of the server's own.
ShowDialog(c) ==
    /\ front[c].asks = "peer" /\ front[c].stage = "open" /\ Asking(c)
    /\ front' = [front EXCEPT ![c].stage = "asking"]
    /\ UNCHANGED <<slotVars, version, broker, state, connected, pc, mem, requests, confirmed>>

UserAnswers(c, answer) ==
    /\ front[c].stage = "asking"
    /\ front' = [front EXCEPT ![c].stage = "open", ![c].yes = (answer = "accept")]
    /\ mem' = [mem EXCEPT ![c].answer = answer]
    /\ confirmed' = IF answer = "accept" THEN confirmed \cup Agreed(c) ELSE confirmed
    /\ UNCHANGED <<slotVars, version, broker, state, connected, pc, requests>>

\* A client of 2026 gets an `input_required` result; the conversation is parked
\* under a fresh request state, and a timer is set.
Park(c) ==
    /\ front[c].asks = "inline" /\ front[c].stage = "open" /\ Asking(c)
    /\ front' = [front EXCEPT ![c].stage = "parked"]
    /\ UNCHANGED <<slotVars, version, broker, state, connected, pc, mem, requests, confirmed>>

\* The client calls again, with the request state and the user's answer. The
\* conversation leaves the table first, so that it is continued once.
Resume(c, answer) ==
    /\ front[c].stage = "parked"
    /\ front' = [front EXCEPT ![c].stage = "open", ![c].yes = (answer = "accept")]
    /\ mem' = [mem EXCEPT ![c].answer = answer]
    /\ confirmed' = IF answer = "accept" THEN confirmed \cup Agreed(c) ELSE confirmed
    /\ UNCHANGED <<slotVars, version, broker, state, connected, pc, requests>>

\* The call names another tool or other arguments: the conversation is dropped.
ResumeOther(c) ==
    /\ front[c].stage = "parked"
    /\ front' = [front EXCEPT ![c].stage = "none", ![c].told = "nothing_run"]
    /\ UNCHANGED <<slotVars, version, broker, state, connected, pc, mem, requests, confirmed>>

\* Variant: the timer answers, but the conversation stays in the table.
ExpireKeeping(c) ==
    /\ front[c].stage = "parked"
    /\ front' = [front EXCEPT ![c].told = "nothing_run"]
    /\ UNCHANGED <<slotVars, version, broker, state, connected, pc, mem, requests, confirmed>>

\* The timer drops what is still parked.
Expire(c) ==
    /\ front[c].stage = "parked"
    /\ front' = [front EXCEPT ![c].stage = "none", ![c].told = "nothing_run"]
    /\ UNCHANGED <<slotVars, version, broker, state, connected, pc, mem, requests, confirmed>>

\* `relay mcp` ends with its client, and with it the connection. The task
\* learns of it where it asks.
Die(c) ==
    /\ pc[c] \in {"ask", "asked"} /\ front[c].stage # "none"
    /\ front' = [front EXCEPT ![c].stage = "none"]
    /\ UNCHANGED <<slotVars, version, broker, state, connected, pc, mem, requests, confirmed>>

-----------------------------------------------------------------------------
(* The rest of the world *)

Edit ==
    /\ version < Len(Sections)
    /\ version' = version + 1
    /\ UNCHANGED <<slotVars, broker, state, connected, pc, mem, front, requests, confirmed>>

\* Other clients of the broker sign in, sign out and switch.
BrokerMoves ==
    /\ \/ broker' = [broker EXCEPT !.identity = None]
       \/ Moves
    /\ UNCHANGED <<slotVars, version, state, connected, pc, mem, front, requests, confirmed>>

\* Five minutes pass since a fetch.
Age ==
    /\ state.session # None /\ state.session.attempted = "recent"
    /\ state' = [state EXCEPT !.session.attempted = "due"]
    /\ UNCHANGED <<slotVars, version, broker, connected, pc, mem, front, requests, confirmed>>

Daemon(c) ==
    \/ Admit(c) \/ AdmitCaller(c) \/ AdmitRefused(c)
    \/ SettingsKnown(c) \/ SettingsChanged(c) \/ SettingsUnreadable(c)
    \/ LoadSettings(c) \/ StoreSettings(c) \/ Identify(c) \/ Adopt(c)
    \/ NotDue(c) \/ FetchDue(c) \/ CatalogHeld(c) \/ NoCatalog(c) \/ Fetch(c)
    \/ Connect(c) \/ Listed(c) \/ NotListed(c)
    \/ Answer(c) \/ CheckCall(c) \/ CheckServer(c) \/ Early(c) \/ Ask(c)
    \/ Accepted(c) \/ Declined(c) \/ ReadIdentity(c) \/ Readopt(c)
    \/ CompareForCall(c) \/ Activate(c) \/ CallEnds(c) \/ Drop(c)
    \/ Switch(c) \/ ForgetFetchTime(c)

Client(c) ==
    \/ \E r \in Request[c] : Call_(c, r)
    \/ ShowDialog(c)
    \/ \E answer \in Answers : UserAnswers(c, answer) \/ Resume(c, answer)
    \/ ResumeOther(c) \/ Die(c)

StdioServer(c) == Unsupported(c) \/ Park(c) \/ Expire(c)

Next ==
    \/ \E c \in Call : Daemon(c) \/ TakeSlot(c) \/ Client(c) \/ StdioServer(c)
    \/ Edit
    \/ BrokerMoves
    \/ Age

Spec == Init /\ [][Next]_vars

\* A task takes its steps: calls to the Gateway and to the broker have limits of
\* time. Waiters for a slot are served in turn (tokio's semaphore is fair). The
\* timer of a parked conversation fires. Nothing is assumed of users.
Progress ==
    \A c \in Call : WF_vars(Daemon(c) \/ StdioServer(c)) /\ SF_vars(TakeSlot(c))

LiveSpec == Spec /\ Progress

-----------------------------------------------------------------------------
(* Properties *)

\* The settings a reload stored are never older than the version it stored with
\* them: from the first edit after the start on, a service that knows the file's
\* version has the file's section, its cap of slots, and verdicts by it, whatever
\* reloads overlapped. Until that edit it may keep what the start paired.
KnownVersionMeansKnownSection ==
    state.version = version /\ version > 1 => state.section = Sections[version]

CapFollowsSection == ledger.cap = Bounded(state.section.cap)

\* The catalog a session serves is what one built from its listing under the
\* section of the moment would be: a reload that regroups and decides again, a
\* fetch that was under way, and their order make no difference.
CatalogFollowsSection ==
    HasCatalog =>
        LET catalog == state.session.catalog
        IN  catalog.entries = Build(catalog.listed, state.section)

\* The catalog of a session was listed for its identity: not over a connection
\* kept for another, nor by a fetch begun for another.
CatalogIsOfIdentity ==
    HasCatalog => state.session.catalog.by = state.session.identity

\* A server is active, or its tools are shown as callable, only if the user
\* accepted it for the identity of that session.
ActiveMeansConfirmed ==
    /\ state.session # None =>
        \A server \in state.session.active : <<state.session.identity, server>> \in confirmed
    /\ \A c \in Call : pc[c] = "serve" /\ Op(c) \in {"search", "describe"} =>
        \A name \in Shown(c) : <<mem[c].bearer, Entries(c)[name].server>> \in confirmed

\* A call that runs without the user's yes to that very call was decided to be
\* an "allow" tool, and its name stood for one tool of the Gateway only.
RunsConfirmedOrAllowed ==
    \A c \in Call : pc[c] = "running" /\ ~front[c].yes =>
        LET name  == mem[c].req.name
            tools == mem[c].catalog.listed
        IN  /\ Entries(c)[name].verdict = "allow"
            /\ Cardinality({i \in DOMAIN tools : tools[i].name = name}) = 1

\* A client that was told that nothing was run is told the truth, now and later.
ToldNothingRan == \A c \in Call : front[c].told = "nothing_run" => ~front[c].ran

\* Whatever users do, a call of a client that is not waited for in a dialog of
\* its own ends: a parked confirmation is answered or expires, a call that waits
\* for a slot gets one.
EveryCallEnds ==
    \A c \in Call : (pc[c] # "idle" /\ front[c].asks # "peer") ~> (pc[c] = "idle")

=============================================================================
