------------------------------ MODULE Account ------------------------------
(***************************************************************************)
(* The account of the daemon (src/account/mod.rs): what a Gateway says of  *)
(* the teams and budget of whoever is signed in, read every five minutes,  *)
(* and again after each switch, sign-in and sign-out, by the commands the  *)
(* daemon answers (src/daemon.rs).                                         *)
(*                                                                         *)
(* The broker is what it shows: a target and what is held for it, each of  *)
(* its requests one step.  One reader at a time is in a pass; the broker   *)
(* moves between any two steps of it.                                      *)
(***************************************************************************)
EXTENDS Naturals

CONSTANTS
  Gateway, User, Team,
  Command,     \* the requests the daemon is asked
  Poller,      \* poll_forever
  Op,          \* what is asked: records of an op, a team, a url, a user
  Settings,    \* targets that others save: a url, a team, a static key or none
  Exchanging,  \* the Gateways that exchange an IdP session for a credential
  Environments,  \* the Gateways in the list of environments
  Devices,     \* the brokers a run starts with
  Listed,      \* the teams each Gateway lists at first
  MaxMoves,    \* bound: later requests, and what others do to the broker and
               \* on the Gateways
  None

ASSUME AccountAssumption ==
  /\ Poller \notin Command
  /\ MaxMoves \in Nat
  /\ Op # {}
  /\ \A op \in Op : op.op \in {"status", "recheck", "switch_team", "switch_environment",
                               "sign_in", "sign_out"}
  /\ \A b \in Devices :
       /\ DOMAIN b = {"url", "team", "static", "session", "user", "valid", "minted", "era"}
       /\ b.era = 0
       /\ b.static # None => b.session = None /\ b.user = None

VARIABLES
  broker,      \* the target: url, team, static key; what is held: the user of
               \* the IdP session, of the credential, valid or not, a fresh
               \* minted key; and how often the target was saved by others
  renewing,    \* a request of another thread holds the renewal lock
  lists,       \* the teams each Gateway lists for its users
  account,     \* AccountState
  pass,        \* who holds AccountService.pass
  reader,      \* what the poll and each request are at
  moves

vars == <<broker, renewing, lists, account, pass, reader, moves>>

Reader == Command \cup {Poller}

\* The Gateway's part of what is held is dropped; the session, too.
Unheld(b) == [b EXCEPT !.user = None, !.valid = FALSE, !.minted = FALSE]
SignedOut(b) == [Unheld(b) EXCEPT !.session = None]

\* What a session gets: a credential, and for a team a key; a Gateway without
\* the exchange is served the identity token, and nothing is held for it.
Issued(b) ==
  IF b.url \notin Exchanging THEN {b}
  ELSE {[b EXCEPT !.user = b.session, !.valid = TRUE, !.minted = minted] :
          minted \in {FALSE, b.team # None}}

\* Who the token that the broker serves belongs to.
Owner(b) == IF b.static # None THEN b.static ELSE b.session

\* identity_of the status: an expired credential is not signed in, nor is a
\* session without one.
SignedIn(b) == b.static # None \/ (b.user # None /\ b.valid)
Identified(b) == [url |-> b.url, user |-> b.user, team |-> b.team]
IdentityOf(b) == IF SignedIn(b) THEN Identified(b) ELSE None

\* session_identity: an expired credential still has one.
HeldIdentity == IF broker.static # None \/ broker.user # None
                THEN Identified(broker) ELSE None

NoAccount == [teams |-> None, failed |-> FALSE, budget |-> None]

Idle == [at |-> "idle", op |-> None, status |-> None, reads |-> FALSE,
         seen |-> None, token |-> None, identity |-> None,
         user |-> None, acted |-> FALSE]

Init ==
  /\ broker \in Devices
  /\ renewing = FALSE
  /\ lists = Listed
  /\ account = [identity |-> None, team |-> None, teams |-> None,
                failed |-> FALSE, budget |-> None, due |-> TRUE,
                watched |-> FALSE]
  /\ pass = None
  /\ reader = [p \in Reader |-> Idle]
  /\ moves = 0

At(p, place) == reader[p].at = place
Becomes(p, fields) == reader' = [reader EXCEPT ![p] =
  [f \in DOMAIN @ |-> IF f \in DOMAIN fields THEN fields[f] ELSE @[f]]]
Goes(p, place) == Becomes(p, [at |-> place])

Outside == <<broker, renewing, lists, moves>>

Move == moves < MaxMoves /\ moves' = moves + 1

-----------------------------------------------------------------------------
(* A pass *)

\* Variant: the team of the last read does not count.
DueUnlessIdentified(status) ==
  account.identity # IdentityOf(status) \/ account.due

\* poll: the account is due when the broker shows another identity or team
\* than was read, or the interval went by.
Due(status) ==
  \/ account.identity # IdentityOf(status)
  \/ account.team # status.team
  \/ account.due

\* The pass begins; a poll nobody watches ends here.
Begin(p) ==
  /\ At(p, "pass") /\ pass = None
  /\ IF p = Poller /\ ~account.watched
     THEN reader' = [reader EXCEPT ![p] = Idle] /\ UNCHANGED pass
     ELSE /\ pass' = p
          /\ Becomes(p, [at |-> "target", status |-> broker,
                         reads |-> p # Poller \/ Due(broker)])
  /\ UNCHANGED <<Outside, account>>

\* poll_account: an IdP broker needs a session or a credential.
Target(p) ==
  /\ At(p, "target")
  /\ IF ~reader[p].reads THEN Goes(p, "probe")
     ELSE Becomes(p, [at |-> IF broker.static = None /\ broker.session = None
                                /\ broker.user = None
                             THEN "clear" ELSE "token",
                      seen |-> broker])
  /\ UNCHANGED <<Outside, account, pass>>

Bears(p, b) == Becomes(p, [at |-> "userId", token |-> [url |-> b.url, owner |-> Owner(b)]])

\* A static key is that of the target seen, a fresh key whatever is held by now.
TokenAtHand(p) ==
  LET seen == reader[p].seen IN
  /\ At(p, "token")
  /\ seen.static # None \/ broker.minted
  /\ Bears(p, IF seen.static # None THEN seen ELSE broker)
  /\ UNCHANGED <<Outside, account, pass>>

\* A token that has to be got is left to whoever holds the renewal lock;
\* under it, it is that of the target by now.
Renewable(p) == At(p, "token") /\ reader[p].seen.static = None /\ ~broker.minted

TokenLeft(p) ==
  /\ Renewable(p) /\ renewing
  /\ Goes(p, "probe")
  /\ UNCHANGED <<Outside, account, pass>>

TokenRenewed(p) ==
  /\ Renewable(p) /\ ~renewing
  /\ broker.static # None \/ broker.session # None
  /\ broker' \in IF broker.static # None THEN {broker} ELSE Issued(broker)
  /\ Bears(p, broker)
  /\ UNCHANGED <<renewing, lists, account, pass, moves>>

\* No session, an exchange refused, or a credential that turns out dead.
TokenRefused(p) ==
  /\ Renewable(p) /\ ~renewing /\ broker.static = None
  /\ IF broker.valid THEN Move ELSE UNCHANGED moves
  /\ broker' = [broker EXCEPT !.valid = FALSE]
  /\ Goes(p, "clear")
  /\ UNCHANGED <<renewing, lists, account, pass>>

\* bearer_from: the target admitted at first, the user of the credential held
\* by now.
UserId(p) ==
  /\ At(p, "userId")
  /\ Becomes(p, [at |-> "user",
                 identity |-> [Identified(reader[p].seen) EXCEPT
                                 !.user = broker.user]])
  /\ UNCHANGED <<Outside, account, pass>>

\* No session, or none the bearer could be renewed with: nothing is kept.
Clear(p) ==
  /\ At(p, "clear")
  /\ account' = [f \in DOMAIN account |->
       CASE f \in DOMAIN NoAccount -> NoAccount[f]
         [] f = "identity" -> IdentityOf(reader[p].status)
         [] f = "team" -> reader[p].status.team
         [] f = "due" -> FALSE
         [] OTHER -> account[f]]
  /\ Goes(p, "probe")
  /\ UNCHANGED <<Outside, pass>>

\* Whom /user/info is asked about: the bearer's user, or, if the status showed
\* a static key, the one that /key/info names for the token.
AskedFor(r) ==
  IF r.identity.user # None THEN r.identity.user
  ELSE IF r.status.static # None THEN r.token.owner ELSE None

\* The bearer's Gateway answers, or fails; a session without a credential has
\* no user to ask about.
ReadUser(p) ==
  LET r == reader[p] IN
  /\ At(p, "user")
  /\ \/ /\ AskedFor(r) # None
        /\ Becomes(p, [at |-> "team",
                       user |-> [rows |-> lists[r.identity.url],
                                 url |-> r.identity.url, of |-> AskedFor(r)]])
     \/ Becomes(p, [at |-> "team", user |-> None])
  /\ UNCHANGED <<Outside, account, pass>>

\* teams_from: a list that fails or is empty is the current team.
Rows(r) == IF r.user # None /\ r.user.rows # {} THEN r.user.rows
           ELSE {r.status.team} \ {None}

\* previous_budget: that of the same identity and team.
Previous(r) ==
  IF /\ account.identity = r.identity /\ account.budget # None
     /\ account.budget.team = r.status.team
  THEN {account.budget} ELSE {None}

\* budget_for: the team's own answer, or what the user's list says of it; a
\* Gateway that is out of reach leaves the last budget.
Budgets(r) ==
  LET own == [url |-> r.identity.url, team |-> r.status.team]
      listed == IF r.user # None /\ r.status.team \in r.user.rows
                THEN {own, None} ELSE {None}
  IN  IF r.status.team = None THEN {None}
      ELSE {own} \cup listed \cup Previous(r)

\* Variant: what was read is stored for the identity of the status.
StoredForStatus(r) == IdentityOf(r.status)

\* What was read is stored for the bearer's identity, beside the team of the
\* status.
StoredFor(r) == r.identity

\* The list of teams: whose it is, and how old the target it was read for.
ReadTeams(r) ==
  [rows |-> Rows(r), era |-> r.status.era,
   url |-> IF r.user = None THEN None ELSE r.user.url,
   of |-> IF r.user = None THEN None ELSE r.user.of]

Store(p) ==
  LET r == reader[p] IN
  /\ At(p, "team")
  /\ \E budget \in Budgets(r) :
       account' = [account EXCEPT
         !.identity = StoredFor(r), !.team = r.status.team,
         !.teams = ReadTeams(r),
         !.failed = r.user = None \/ r.user.rows = {},
         !.budget = budget, !.due = FALSE]
  /\ Becomes(p, [at |-> "probe", seen |-> None, token |-> None,
                 identity |-> None, user |-> None])
  /\ UNCHANGED <<Outside, pass>>

\* The Gateway is probed, which leaves what is kept here as it is; the pass ends.
Probe(p) ==
  /\ At(p, "probe")
  /\ pass' = None
  /\ reader' = [reader EXCEPT ![p] =
       IF p = Poller THEN Idle
       ELSE [Idle EXCEPT !.at = "status", !.op = reader[p].op,
                         !.acted = reader[p].acted]]
  /\ UNCHANGED <<Outside, account>>

-----------------------------------------------------------------------------
(* The poll and the requests *)

\* poll_forever: a tick at a time.
Wake ==
  /\ At(Poller, "idle")
  /\ Goes(Poller, "pass")
  /\ UNCHANGED <<Outside, account, pass>>

\* The command is answered.
Ends(c) == reader' = [reader EXCEPT ![c] = [Idle EXCEPT !.at = "done"]]

\* What a request begins with.
First == [status |-> "status", recheck |-> "pass", switch_team |-> "refusal",
          switch_environment |-> "act", sign_in |-> "act", sign_out |-> "act"]

Ask(c, op) ==
  /\ \/ At(c, "idle") /\ UNCHANGED moves
     \/ At(c, "done") /\ Move
  /\ reader' = [reader EXCEPT ![c] = [Idle EXCEPT !.op = op,
                                                !.at = First[op.op]]]
  /\ UNCHANGED <<broker, renewing, lists, account, pass>>

\* status, which recheck ends with: the account is watched from now on. A
\* team is looked for again, anything else is done.
Status(c) ==
  LET r == reader[c] IN
  /\ At(c, "status")
  /\ account' = [account EXCEPT !.watched = TRUE]
  /\ IF r.op.op = "switch_team" /\ ~r.acted THEN Goes(c, "again") ELSE Ends(c)
  /\ UNCHANGED <<Outside, pass>>

\* known_teams: only a list that was read, for the identity held by now.
Known == /\ HeldIdentity # None /\ account.identity = HeldIdentity
         /\ account.teams # None /\ ~account.failed

Unlisted(c) == Known /\ reader[c].op.team \notin account.teams.rows

\* A static key has no teams to switch between; a team that is not in a list
\* is looked for in a list that is read again, and refused when it is not
\* there either.
RefuseTeam(c) ==
  /\ At(c, "refusal")
  /\ IF broker.static # None THEN Ends(c)
     ELSE Goes(c, IF Unlisted(c) THEN "pass" ELSE "act")
  /\ UNCHANGED <<Outside, account, pass>>

RefuseTeamAgain(c) ==
  /\ At(c, "again")
  /\ IF Unlisted(c) THEN Ends(c) ELSE Goes(c, "act")
  /\ UNCHANGED <<Outside, account, pass>>

\* What the broker may be after it did what is asked: a switch takes a session
\* to another target, unless it is there.
SwitchedTo(b, url, team) ==
  IF b.url = url /\ b.team = team THEN {b} \cup Issued(b)
  ELSE Issued([Unheld(b) EXCEPT !.url = url, !.team = team])

MovedBy(op) ==
  \/ /\ op.op = "switch_team" /\ broker.session # None
     /\ broker' \in SwitchedTo(broker, broker.url, op.team)
  \/ /\ op.op = "switch_environment" /\ broker.session # None
     /\ broker' \in SwitchedTo(broker, op.url, op.team)
  \/ /\ op.op = "sign_in"
     /\ broker' \in Issued([Unheld(broker) EXCEPT !.session = op.user])
  \/ op.op = "sign_out" /\ broker' = SignedOut(broker)

\* The broker does what is asked, or refuses. The daemon reads the account
\* again; the answer waits three seconds for that, the read is ended anyway.
Act(c) ==
  /\ At(c, "act") /\ ~renewing
  /\ \/ /\ broker.static = None
        /\ MovedBy(reader[c].op)
        /\ Becomes(c, [at |-> "pass", acted |-> TRUE])
     \/ /\ Ends(c)
        /\ UNCHANGED broker
  /\ UNCHANGED <<renewing, lists, account, pass, moves>>

-----------------------------------------------------------------------------
(* Others *)

\* Requests and ticks of the broker itself, settings that are saved, and
\* credentials and keys that expire.
StartRenewal ==
  /\ ~renewing /\ Move /\ renewing' = TRUE
  /\ UNCHANGED <<broker, lists, account, pass, reader>>

EndRenewal ==
  /\ renewing /\ renewing' = FALSE
  /\ \/ UNCHANGED broker
     \/ broker.session # None /\ broker' \in Issued(broker)
  /\ UNCHANGED <<lists, account, pass, reader, moves>>

Expire ==
  /\ broker.valid /\ Move
  /\ broker' = [broker EXCEPT !.valid = FALSE]
  /\ UNCHANGED <<renewing, lists, account, pass, reader>>

\* A key is not extended with a credential that has expired.
KeyExpires ==
  /\ broker.minted /\ ~broker.valid
  /\ broker' = [broker EXCEPT !.minted = FALSE]
  /\ UNCHANGED <<renewing, lists, account, pass, reader, moves>>

\* apply_saved_settings: another mode, or a Gateway off the list, signs out;
\* another environment or team keeps the session.
Retargeted(settings) ==
  LET b == [broker EXCEPT !.url = settings.url, !.team = settings.team,
                          !.static = settings.static, !.era = @ + 1]
      moved == settings.url # broker.url
  IN  IF \/ settings.static # broker.static
         \/ moved /\ ~({settings.url, broker.url} \subseteq Environments)
      THEN SignedOut(b)
      ELSE IF moved \/ settings.team # broker.team THEN Unheld(b) ELSE b

Edit(settings) ==
  /\ ~renewing /\ Move
  /\ broker' = Retargeted(settings)
  /\ UNCHANGED <<renewing, lists, account, pass, reader>>

Enlist(g) ==
  /\ lists[g] # Team /\ Move
  /\ lists' = [lists EXCEPT ![g] = Team]
  /\ UNCHANGED <<broker, renewing, account, pass, reader>>

\* Five minutes since the account was read; or since it was last looked at.
Interval ==
  /\ ~account.due
  /\ account' = [account EXCEPT !.due = TRUE]
  /\ UNCHANGED <<Outside, pass, reader>>

Unwatch ==
  /\ account.watched
  /\ account' = [account EXCEPT !.watched = FALSE]
  /\ UNCHANGED <<Outside, pass, reader>>

-----------------------------------------------------------------------------
(* Specification *)

Pass(p) ==
  \/ Begin(p) \/ Target(p)
  \/ TokenAtHand(p) \/ TokenLeft(p) \/ TokenRenewed(p) \/ TokenRefused(p)
  \/ UserId(p) \/ Clear(p) \/ ReadUser(p) \/ Store(p) \/ Probe(p)

Serve(c) ==
  \/ Status(c) \/ RefuseTeam(c) \/ RefuseTeamAgain(c) \/ Act(c)

Others ==
  \/ StartRenewal \/ EndRenewal \/ Expire \/ KeyExpires \/ Interval \/ Unwatch
  \/ \E s \in Settings : Edit(s)
  \/ \E g \in Gateway : Enlist(g)

Next ==
  \/ \E p \in Reader : Pass(p)
  \/ \E c \in Command : Serve(c) \/ \E op \in Op : Ask(c, op)
  \/ Wake \/ Others

Spec == Init /\ [][Next]_vars

\* The daemon's threads run and its ticks come, and a key runs out; a renewal
\* ends, and so does every request to a Gateway.
LiveSpec ==
  /\ Spec /\ WF_vars(Wake) /\ WF_vars(EndRenewal)
  /\ WF_vars(KeyExpires)
  /\ \A p \in Reader : WF_vars(Pass(p))

-----------------------------------------------------------------------------
(* Properties *)

\* What passive_status shows beside the broker's identity: the account is
\* left out when it is another's, the budget when it is of another team.
Shown == IdentityOf(broker) # None /\ account.identity = IdentityOf(broker)

ShownBudget == IF Shown /\ account.budget # None
                    /\ account.budget.team = broker.team
               THEN account.budget ELSE None

\* Nobody is shown the account of somebody else: the list of teams is the one
\* their Gateway gave for them, and the budget the one it gave for the team they
\* are on, whatever the broker did while they were read, and however old they
\* are (poll_account stores for the bearer's identity, not for the status it
\* started from; previous_budget keeps a budget only for the same one). An
\* identity does not tell static keys apart: with one, the list is that of the
\* key's owner unless the settings were saved since the pass that read it began.
ShownIsTheirOwn ==
  /\ Shown /\ account.teams # None /\ ~account.failed =>
       /\ account.teams.url = broker.url
       /\ broker.static = None => account.teams.of = broker.user
       /\ broker.static # None /\ account.teams.era = broker.era
            => account.teams.of = broker.static
  /\ ShownBudget # None => ShownBudget.url = broker.url

\* A Gateway without the exchange: a session, and no credential to show.
ServesIdentityTokens ==
  broker.session # None /\ broker.user = None /\ broker.url \notin Exchanging

\* Once the broker stays where it is, a watched account gets to be that of
\* its identity and team, and without waiting for the interval, even if the read
\* that the broker moved under stored a mixture of before and after (but not
\* where identity tokens are served, which the status does not show: there it is
\* read at every poll). With a static key it gets to be one read since the key
\* was saved, if the interval goes by.
PollCatchesUp ==
  /\ <>[](account.watched /\ ~ServesIdentityTokens =>
            account.identity = IdentityOf(broker) /\ account.team = broker.team)
  /\ []<>account.due =>
       <>[](account.watched /\ broker.static # None =>
              account.teams # None /\ account.teams.era = broker.era)
=============================================================================
