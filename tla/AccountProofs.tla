--------------------------- MODULE AccountProofs ----------------------------
(* What the daemon shows of an account is its owner's, for any number of      *)
(* commands, Gateways, users, teams and static keys, whatever the broker does *)
(* while a pass reads, and whatever the Gateways answer.                      *)
EXTENDS Account, TLAPS

\* What the records hold at least.
Fields ==
  /\ DOMAIN account = {"identity", "team", "teams", "failed", "budget", "due", "watched"}
  /\ DOMAIN broker = {"url", "team", "static", "session", "user", "valid", "minted", "era"}
  /\ DOMAIN reader = Reader
  /\ \A p \in Reader : DOMAIN reader[p] = DOMAIN Idle

\* A list of teams that was read for an identity: of its Gateway and of its
\* user; without a user, and unless the settings were saved since, of the owner
\* of the static key there is.
Theirs(teams, identity) ==
  /\ teams.url = identity.url
  /\ identity.user # None => teams.of = identity.user
  /\ identity.user = None /\ teams.era = broker.era /\ broker.static # None
       => teams.of = broker.static

\* What is kept was read for one identity, even if the budget is one that a
\* pass before this read.
KeptForOne ==
  /\ account.teams # None => account.teams.era \in 0..broker.era
  /\ account.teams # None /\ ~account.failed => Theirs(account.teams, account.identity)
  /\ account.budget # None => account.budget.url = account.identity.url

\* A target that a pass saw is the present one, unless the settings were saved.
Seen(b) == b.era = broker.era => b.static = broker.static

Reading == {"target", "token", "userId", "user", "team"}

\* A pass under way: its targets are of the past, its token is the static
\* key's owner's, and what it read is what it will be kept for.
PassSound(r) ==
  /\ r.at \in Reading => r.status.era \in 0..broker.era
  /\ r.at = "token" => r.seen.era \in r.status.era..broker.era /\ Seen(r.seen)
  /\ r.at \in {"userId", "user", "team"} =>
       (r.status.era = broker.era /\ broker.static # None => r.token.owner = broker.static)
  /\ r.at = "team" /\ r.user # None =>
       /\ r.user.url = r.identity.url
       /\ r.identity.user # None => r.user.of = r.identity.user
       /\ r.identity.user = None => r.user.of = r.token.owner

\* A static key comes with no session.
KeyAlone == broker.static # None => broker.session = None /\ broker.user = None

AccountInv ==
  /\ Fields
  /\ KeyAlone
  /\ broker.era \in Nat
  /\ KeptForOne
  /\ \A p \in Reader : PassSound(reader[p])

-----------------------------------------------------------------------------
LEMMA FirstAccount == Init => AccountInv
<1> SUFFICES ASSUME Init PROVE AccountInv
  OBVIOUS
<1>1. \A p \in Reader : reader[p] = Idle
  BY DEF Init
<1>2. broker \in Devices
  BY DEF Init
<1>3. /\ DOMAIN broker = {"url", "team", "static", "session", "user", "valid", "minted", "era"}
      /\ broker.era = 0
  BY <1>2, AccountAssumption
<1>4. KeyAlone
  BY <1>2, AccountAssumption DEF KeyAlone
<1> QED
  BY <1>1, <1>3, <1>4 DEF Init, AccountInv, Fields, KeptForOne, KeyAlone, PassSound, Reading, Idle

\* A pass changes no more than its own reader.
LEMMA BecomesAlone ==
  ASSUME AccountInv, NEW p \in Reader, NEW fields, Becomes(p, fields)
  PROVE  /\ DOMAIN reader' = Reader
         /\ DOMAIN reader'[p] = DOMAIN Idle
         /\ \A f \in DOMAIN Idle :
              reader'[p][f] = IF f \in DOMAIN fields THEN fields[f] ELSE reader[p][f]
         /\ \A q \in Reader \ {p} : reader'[q] = reader[q]
BY DEF Becomes, AccountInv, Fields

\* Whatever is held for a target, the invariant is about the target, what is
\* kept, and the reader that took the step.
LEMMA StepKeeps ==
  ASSUME AccountInv, NEW p \in Reader,
         DOMAIN broker' = DOMAIN broker,
         broker'.era = broker.era, broker'.static = broker.static,
         broker' = broker \/ broker.static = None,
         DOMAIN account' = DOMAIN account, KeptForOne',
         DOMAIN reader' = Reader, DOMAIN reader'[p] = DOMAIN Idle,
         \A q \in Reader \ {p} : reader'[q] = reader[q],
         PassSound(reader[p])'
  PROVE  AccountInv'
<1>1. \A q \in Reader \ {p} : PassSound(reader[q])'
  BY DEF AccountInv, PassSound, Seen
<1>2. KeyAlone'
  BY DEF AccountInv, KeyAlone
<1> QED
  BY <1>1, <1>2 DEF AccountInv, Fields

\* What is kept stays sound while it and the target stay.
LEMMA KeptStays ==
  ASSUME AccountInv, broker'.era = broker.era, broker'.static = broker.static,
         account'.teams = account.teams, account'.failed = account.failed,
         account'.identity = account.identity, account'.budget = account.budget
  PROVE  KeptForOne'
BY DEF AccountInv, KeptForOne, Theirs

\* Issuing and holding leave the target as it is.
LEMMA IssuedKeeps ==
  ASSUME NEW b, NEW c \in Issued(b),
         DOMAIN b = {"url", "team", "static", "session", "user", "valid", "minted", "era"}
  PROVE  DOMAIN c = DOMAIN b /\ c.era = b.era /\ c.static = b.static /\ c.url = b.url
BY DEF Issued

LEMMA UnheldKeeps ==
  ASSUME NEW b,
         DOMAIN b = {"url", "team", "static", "session", "user", "valid", "minted", "era"}
  PROVE  /\ DOMAIN Unheld(b) = DOMAIN b /\ Unheld(b).era = b.era /\ Unheld(b).static = b.static
         /\ DOMAIN SignedOut(b) = DOMAIN b
         /\ SignedOut(b).era = b.era /\ SignedOut(b).static = b.static
         /\ Unheld(b).session = b.session /\ Unheld(b).user = None
         /\ SignedOut(b).session = None /\ SignedOut(b).user = None
BY DEF Unheld, SignedOut

-----------------------------------------------------------------------------
(* The steps of a pass *)

LEMMA BeginKeeps ==
  ASSUME AccountInv, NEW p \in Reader, Begin(p)
  PROVE  AccountInv'
<1> DEFINE first == [at |-> "target", status |-> broker, reads |-> p # Poller \/ Due(broker)]
<1>1. CASE reader' = [reader EXCEPT ![p] = Idle]
  <2>1. DOMAIN reader'[p] = DOMAIN Idle /\ PassSound(reader[p])'
    BY <1>1 DEF AccountInv, Fields, PassSound, Reading, Idle
  <2> QED
    BY <1>1, <2>1, StepKeeps, KeptStays DEF Begin, Outside, AccountInv, Fields
<1>2. CASE Becomes(p, first)
  <2>1. reader'[p].at = "target" /\ reader'[p].status = broker
    BY <1>2, BecomesAlone DEF Idle
  <2>2. PassSound(reader[p])'
    BY <2>1 DEF Begin, Outside, AccountInv, PassSound, Reading
  <2> QED
    BY <1>2, <2>2, BecomesAlone, StepKeeps, KeptStays DEF Begin, Outside
<1> QED
  BY <1>1, <1>2 DEF Begin

LEMMA TargetKeeps ==
  ASSUME AccountInv, NEW p \in Reader, Target(p)
  PROVE  AccountInv'
<1>1. PICK fields : Becomes(p, fields) /\
        \/ fields = [at |-> "probe"]
        \/ fields = [at |-> "clear", seen |-> broker]
        \/ fields = [at |-> "token", seen |-> broker]
  BY DEF Target, Goes
<1>2. /\ reader'[p].at \in {"probe", "clear", "token"}
      /\ reader'[p].status = reader[p].status
      /\ reader'[p].at = "token" => reader'[p].seen = broker
  BY <1>1, BecomesAlone DEF Idle
<1>3. PassSound(reader[p])'
  BY <1>2 DEF Target, At, Outside, AccountInv, PassSound, Reading, Seen
<1> QED
  BY <1>1, <1>3, BecomesAlone, StepKeeps, KeptStays DEF Target, Outside

\* The token, however it comes: with a static key it is that key's owner's,
\* unless the settings were saved since the pass began.
LEMMA BearsSound ==
  ASSUME AccountInv, NEW p \in Reader, At(p, "token"), NEW b, Bears(p, b),
         \/ b = reader[p].seen /\ b.static # None
         \/ b = broker /\ reader[p].seen.static = None,
         broker'.era = broker.era, broker'.static = broker.static
  PROVE  PassSound(reader[p])'
<1> DEFINE fields == [at |-> "userId", token |-> [url |-> b.url, owner |-> Owner(b)]]
<1>1. /\ reader'[p].at = "userId" /\ reader'[p].token.owner = Owner(b)
      /\ reader'[p].status = reader[p].status
  <2>1. Becomes(p, fields)
    BY DEF Bears
  <2> QED
    BY <2>1, BecomesAlone DEF Idle
<1>2. /\ reader[p].status.era \in 0..broker.era
      /\ reader[p].seen.era \in reader[p].status.era..broker.era /\ Seen(reader[p].seen)
      /\ broker.era \in Nat
  BY DEF At, AccountInv, PassSound, Reading
<1>3. ASSUME reader[p].status.era = broker.era, broker.static # None
      PROVE  Owner(b) = broker.static
  BY <1>2, <1>3 DEF Owner, Seen
<1> QED
  BY <1>1, <1>2, <1>3 DEF PassSound, Reading

LEMMA TokenKeeps ==
  ASSUME AccountInv, NEW p \in Reader,
         TokenAtHand(p) \/ TokenLeft(p) \/ TokenRenewed(p) \/ TokenRefused(p)
  PROVE  AccountInv'
<1>1. CASE TokenAtHand(p)
  <2>1. PICK b : /\ Bears(p, b)
                 /\ \/ b = reader[p].seen /\ b.static # None
                    \/ b = broker /\ reader[p].seen.static = None
    BY <1>1 DEF TokenAtHand
  <2>2. PassSound(reader[p])'
    BY <1>1, <2>1, BearsSound DEF TokenAtHand, Outside
  <2> QED
    BY <1>1, <2>1, <2>2, BecomesAlone, StepKeeps, KeptStays DEF TokenAtHand, Outside, Bears
<1>2. CASE TokenRenewed(p)
  <2>1. /\ DOMAIN broker' = DOMAIN broker
        /\ broker'.era = broker.era /\ broker'.static = broker.static
    BY <1>2, IssuedKeeps DEF TokenRenewed, AccountInv, Fields
  <2>2. PassSound(reader[p])'
    BY <1>2, <2>1, BearsSound DEF TokenRenewed, Renewable
  <2> QED
    BY <1>2, <2>1, <2>2, BecomesAlone, StepKeeps, KeptStays DEF TokenRenewed, Bears
<1>3. CASE TokenLeft(p) \/ TokenRefused(p)
  <2>1. PICK fields : /\ Becomes(p, fields)
                      /\ fields = [at |-> "probe"] \/ fields = [at |-> "clear"]
    BY <1>3 DEF TokenLeft, TokenRefused, Goes
  <2>2. reader'[p].at \in {"probe", "clear"}
    BY <2>1, BecomesAlone DEF Idle
  <2>3. PassSound(reader[p])'
    BY <2>2 DEF PassSound, Reading
  <2>4. /\ DOMAIN broker' = DOMAIN broker
        /\ broker'.era = broker.era /\ broker'.static = broker.static
        /\ broker' = broker \/ broker.static = None
        /\ account' = account
    BY <1>3 DEF TokenLeft, TokenRefused, Outside, AccountInv, Fields
  <2> QED
    BY <2>1, <2>3, <2>4, BecomesAlone, StepKeeps, KeptStays
<1> QED
  BY <1>1, <1>2, <1>3

LEMMA UserKeeps ==
  ASSUME AccountInv, NEW p \in Reader, UserId(p) \/ ReadUser(p)
  PROVE  AccountInv'
<1> DEFINE r == reader[p]
<1>1. CASE UserId(p)
  <2>1. PICK identity : Becomes(p, [at |-> "user", identity |-> identity])
    BY <1>1 DEF UserId
  <2>2. /\ reader'[p].at = "user" /\ reader'[p].status = r.status
        /\ reader'[p].token = r.token
    BY <2>1, BecomesAlone DEF Idle
  <2>3. PassSound(reader[p])'
    BY <1>1, <2>2 DEF UserId, At, Outside, AccountInv, PassSound, Reading
  <2> QED
    BY <1>1, <2>1, <2>3, BecomesAlone, StepKeeps, KeptStays DEF UserId, Outside
<1>2. CASE ReadUser(p)
  <2> DEFINE read == [rows |-> lists[r.identity.url], url |-> r.identity.url,
                      of |-> AskedFor(r)]
  <2>0. \/ AskedFor(r) # None /\ Becomes(p, [at |-> "team", user |-> read])
        \/ Becomes(p, [at |-> "team", user |-> None])
    BY <1>2 DEF ReadUser
  <2>1. PICK user : /\ Becomes(p, [at |-> "team", user |-> user])
                    /\ user # None => user = read /\ AskedFor(r) # None
    BY <2>0
  <2>2. /\ reader'[p].at = "team" /\ reader'[p].status = r.status
        /\ reader'[p].token = r.token /\ reader'[p].identity = r.identity
        /\ reader'[p].user = user
    BY <2>1, BecomesAlone DEF Idle
  <2>3. PassSound(reader[p])'
    BY <1>2, <2>1, <2>2 DEF ReadUser, At, Outside, AccountInv, PassSound, Reading, AskedFor
  <2> QED
    BY <1>2, <2>1, <2>3, BecomesAlone, StepKeeps, KeptStays DEF ReadUser, Outside
<1> QED
  BY <1>1, <1>2

\* A budget is of the identity it is kept for, asked for now or kept.
LEMMA BudgetsAreTheirs ==
  ASSUME AccountInv, NEW r, NEW budget \in Budgets(r), budget # None
  PROVE  budget.url = r.identity.url
BY DEF AccountInv, KeptForOne, Budgets, Previous

LEMMA KeepingKeeps ==
  ASSUME AccountInv, NEW p \in Reader, Clear(p) \/ Store(p)
  PROVE  AccountInv'
<1>1. CASE Clear(p)
  <2>1. /\ DOMAIN account' = DOMAIN account
        /\ account'.teams = None /\ account'.budget = None
    BY <1>1 DEF Clear, NoAccount, AccountInv, Fields
  <2>2. Becomes(p, [at |-> "probe"])
    BY <1>1 DEF Clear, Goes
  <2>3. reader'[p].at = "probe"
    BY <2>2, BecomesAlone DEF Idle
  <2>4. PassSound(reader[p])' /\ KeptForOne'
    BY <2>1, <2>3 DEF PassSound, Reading, KeptForOne
  <2> QED
    BY <1>1, <2>1, <2>2, <2>4, BecomesAlone, StepKeeps DEF Clear, Outside
<1>2. CASE Store(p)
  <2> DEFINE r == reader[p]
  <2>1. PICK budget \in Budgets(r) :
          /\ account'.identity = r.identity
          /\ account'.teams = ReadTeams(r)
          /\ account'.failed = (r.user = None \/ r.user.rows = {})
          /\ account'.budget = budget
          /\ DOMAIN account' = DOMAIN account
    BY <1>2 DEF Store, StoredFor, AccountInv, Fields
  <2>2. /\ r.status.era \in 0..broker.era
        /\ r.status.era = broker.era /\ broker.static # None => r.token.owner = broker.static
        /\ r.user # None =>
             /\ r.user.url = r.identity.url
             /\ r.identity.user # None => r.user.of = r.identity.user
             /\ r.identity.user = None => r.user.of = r.token.owner
    BY <1>2 DEF Store, At, AccountInv, PassSound, Reading
  <2>3. ReadTeams(r).era \in 0..broker.era /\ (r.user # None => Theirs(ReadTeams(r), r.identity))
    BY <2>2 DEF ReadTeams, Theirs
  <2>4. budget # None => budget.url = r.identity.url
    BY BudgetsAreTheirs
  <2>5. KeptForOne'
    BY <1>2, <2>1, <2>3, <2>4 DEF Store, Outside, KeptForOne, Theirs
  <2>6. Becomes(p, [at |-> "probe", seen |-> None, token |-> None, identity |-> None, user |-> None])
    BY <1>2 DEF Store
  <2>7. reader'[p].at = "probe"
    BY <2>6, BecomesAlone DEF Idle
  <2>8. PassSound(reader[p])'
    BY <2>7 DEF PassSound, Reading
  <2> QED
    BY <1>2, <2>1, <2>5, <2>6, <2>8, BecomesAlone, StepKeeps DEF Store, Outside
<1> QED
  BY <1>1, <1>2

-----------------------------------------------------------------------------
(* What is not reading *)

Resting == {"idle", "pass", "probe", "clear", "status", "again", "done", "refusal", "act"}

\* A reader that begins or ends a pass, or a request.
LEMMA RestingKeeps ==
  ASSUME AccountInv, NEW p \in Reader,
         DOMAIN broker' = DOMAIN broker,
         broker'.era = broker.era, broker'.static = broker.static,
         broker' = broker \/ broker.static = None,
         DOMAIN account' = DOMAIN account, KeptForOne',
         DOMAIN reader' = Reader, DOMAIN reader'[p] = DOMAIN Idle,
         \A q \in Reader \ {p} : reader'[q] = reader[q],
         reader'[p].at \in Resting
  PROVE  AccountInv'
<1>1. PassSound(reader[p])'
  BY DEF PassSound, Reading, Resting
<1> QED
  BY <1>1, StepKeeps

LEMMA MovedKeeps ==
  ASSUME AccountInv, NEW op, MovedBy(op)
  PROVE  /\ DOMAIN broker' = DOMAIN broker
         /\ broker'.era = broker.era /\ broker'.static = broker.static
<1> DEFINE Whole == {"url", "team", "static", "session", "user", "valid", "minted", "era"}
           Of(c) == DOMAIN c = Whole /\ c.era = broker.era /\ c.static = broker.static
<1>1. Of(broker) /\ Of(Unheld(broker)) /\ Of(SignedOut(broker))
  BY UnheldKeeps DEF AccountInv, Fields
<1>2. ASSUME NEW url, NEW team PROVE \A c \in SwitchedTo(broker, url, team) : Of(c)
  <2>1. Of([Unheld(broker) EXCEPT !.url = url, !.team = team])
    BY <1>1
  <2> QED
    BY <1>1, <2>1, IssuedKeeps DEF SwitchedTo
<1>3. ASSUME NEW user PROVE \A c \in Issued([Unheld(broker) EXCEPT !.session = user]) : Of(c)
  <2>1. Of([Unheld(broker) EXCEPT !.session = user])
    BY <1>1
  <2> QED
    BY <2>1, IssuedKeeps
<1>4. Of(broker')
  BY <1>1, <1>2, <1>3 DEF MovedBy
<1> QED
  BY <1>1, <1>4

\* A request is no pass: it begins one, or ends.
LEMMA RequestsKeep ==
  ASSUME AccountInv, NEW c \in Command, NEW op \in Op, Serve(c) \/ Ask(c, op)
  PROVE  AccountInv'
<1>1. c \in Reader
  BY DEF Reader
<1>2. /\ DOMAIN broker' = DOMAIN broker
      /\ broker'.era = broker.era /\ broker'.static = broker.static
      /\ broker' = broker \/ broker.static = None
  BY MovedKeeps DEF Serve, Status, RefuseTeam, RefuseTeamAgain, Act, Ask, Outside
<1>3. /\ DOMAIN account' = DOMAIN account
      /\ account'.teams = account.teams /\ account'.failed = account.failed
      /\ account'.identity = account.identity /\ account'.budget = account.budget
  BY DEF Serve, Status, RefuseTeam, RefuseTeamAgain, Act, Ask, Outside, AccountInv, Fields
<1>4. KeptForOne'
  BY <1>2, <1>3, KeptStays
<1>5. /\ DOMAIN reader' = Reader /\ DOMAIN reader'[c] = DOMAIN Idle
      /\ \A q \in Reader \ {c} : reader'[q] = reader[q]
      /\ reader'[c].at \in Resting
  <2>1. ASSUME NEW next, reader' = [reader EXCEPT ![c] = next],
               DOMAIN next = DOMAIN Idle, next.at \in Resting
        PROVE  <1>5
    BY <1>1, <2>1 DEF AccountInv, Fields
  <2>4. CASE Ends(c)
    BY <2>1, <2>4 DEF Ends, Idle, Resting
  <2>5. CASE Ask(c, op)
    <3> DEFINE next == [Idle EXCEPT !.op = op, !.at = First[op.op]]
    <3>1. First[op.op] \in Resting
      BY AccountAssumption DEF First, Resting
    <3>2. DOMAIN next = DOMAIN Idle /\ next.at = First[op.op]
      BY DEF Idle
    <3>3. reader' = [reader EXCEPT ![c] = next]
      BY <2>5 DEF Ask
    <3> QED
      BY <2>1, <3>1, <3>2, <3>3
  <2>2. ASSUME NEW place \in {"again", "pass", "act"}, Goes(c, place)
        PROVE  <1>5
    BY <1>1, <2>2, BecomesAlone DEF Goes, Idle, Resting
  <2>3. CASE Becomes(c, [at |-> "pass", acted |-> TRUE])
    BY <1>1, <2>3, BecomesAlone DEF Idle, Resting
  <2> QED
    BY <2>2, <2>3, <2>4, <2>5 DEF Serve, Status, RefuseTeam, RefuseTeamAgain, Act
<1> QED
  BY <1>1, <1>2, <1>3, <1>4, <1>5, RestingKeeps

\* The poll wakes, and a pass ends.
LEMMA PollKeeps ==
  ASSUME AccountInv, NEW p \in Reader, Probe(p) \/ (p = Poller /\ Wake)
  PROVE  AccountInv'
<1>1. KeptForOne'
  BY KeptStays DEF Probe, Wake, Outside
<1>2. CASE Probe(p)
  <2>1. /\ DOMAIN reader' = Reader /\ DOMAIN reader'[p] = DOMAIN Idle
        /\ \A q \in Reader \ {p} : reader'[q] = reader[q]
        /\ reader'[p].at \in Resting
    BY <1>2 DEF Probe, AccountInv, Fields, Idle, Resting
  <2> QED
    BY <1>1, <1>2, <2>1, RestingKeeps DEF Probe, Outside
<1>3. CASE p = Poller /\ Wake
  <2>1. Becomes(p, [at |-> "pass"])
    BY <1>3 DEF Wake, Goes
  <2>2. reader'[p].at \in Resting
    BY <2>1, BecomesAlone DEF Idle, Resting
  <2> QED
    BY <1>1, <1>3, <2>1, <2>2, BecomesAlone, RestingKeeps DEF Wake, Outside
<1> QED
  BY <1>2, <1>3

\* What others do to what is held, on the Gateways, and to the clock.
LEMMA OthersKeep ==
  ASSUME AccountInv, NEW g,
         \/ StartRenewal \/ EndRenewal \/ Expire \/ KeyExpires
         \/ Interval \/ Unwatch \/ Enlist(g) \/ UNCHANGED vars
  PROVE  AccountInv'
<1>1. /\ DOMAIN broker' = DOMAIN broker
      /\ broker'.era = broker.era /\ broker'.static = broker.static
  BY IssuedKeeps DEF StartRenewal, EndRenewal, Expire, KeyExpires, Interval, Unwatch,
     Enlist, Outside, vars, AccountInv, Fields
<1>2. reader' = reader /\ DOMAIN account' = DOMAIN account
  BY DEF StartRenewal, EndRenewal, Expire, KeyExpires, Interval, Unwatch, Enlist,
     vars, AccountInv, Fields
<1>3. /\ account'.teams = account.teams /\ account'.failed = account.failed
      /\ account'.identity = account.identity /\ account'.budget = account.budget
  BY DEF StartRenewal, EndRenewal, Expire, KeyExpires, Interval, Unwatch, Enlist,
     vars, AccountInv, Fields
<1>4. KeptForOne'
  BY <1>1, <1>3, KeptStays
<1>5. \A p \in Reader : PassSound(reader[p])'
  BY <1>1, <1>2 DEF AccountInv, PassSound, Seen
<1>6. KeyAlone'
  BY <1>1 DEF StartRenewal, EndRenewal, Expire, KeyExpires, Interval, Unwatch, Enlist,
     Outside, vars, AccountInv, Fields, KeyAlone
<1> QED
  BY <1>1, <1>2, <1>4, <1>5, <1>6 DEF AccountInv, Fields

\* Settings that are saved: whatever was seen or read before is of an era that
\* is over.
LEMMA EditKeeps ==
  ASSUME AccountInv, NEW settings, Edit(settings)
  PROVE  AccountInv'
<1> DEFINE b == [broker EXCEPT !.url = settings.url, !.team = settings.team,
                               !.static = settings.static, !.era = @ + 1]
<1>1. DOMAIN b = DOMAIN broker /\ b.era = broker.era + 1
  BY DEF AccountInv, Fields
<1>2. DOMAIN broker' = DOMAIN broker /\ broker'.era = broker.era + 1
  <2>1. broker' \in {b, Unheld(b), SignedOut(b)}
    BY DEF Edit, Retargeted
  <2> QED
    BY <1>1, <2>1, UnheldKeeps DEF AccountInv, Fields
<1>3. UNCHANGED <<account, reader>> /\ broker.era \in Nat
  BY DEF Edit, AccountInv
<1>4. KeptForOne'
  BY <1>2, <1>3 DEF AccountInv, KeptForOne, Theirs
<1>5. \A p \in Reader : PassSound(reader[p])'
  <2> TAKE p \in Reader
  <2>1. reader[p].at \in Reading => /\ reader[p].status.era \in 0..broker.era
                                    /\ reader[p].status.era # broker.era + 1
    BY <1>3 DEF AccountInv, PassSound
  <2>2. reader[p].at = "token" => /\ reader[p].seen.era \in reader[p].status.era..broker'.era
                                  /\ reader[p].seen.era # broker'.era
    BY <1>2, <1>3, <2>1 DEF AccountInv, PassSound, Reading
  <2> QED
    BY <1>2, <1>3, <2>1, <2>2 DEF AccountInv, PassSound, Reading, Seen
<1>6. KeyAlone'
  <2>1. CASE settings.static # broker.static
    <3>1. broker' = SignedOut(b)
      BY <2>1 DEF Edit, Retargeted
    <3>2. broker'.session = None /\ broker'.user = None
      BY <1>1, <3>1, UnheldKeeps DEF AccountInv, Fields
    <3> QED
      BY <3>2 DEF KeyAlone
  <2>2. CASE settings.static = broker.static
    <3>1. b.static = broker.static /\ b.session = broker.session /\ b.user = broker.user
      BY <2>2 DEF AccountInv, Fields
    <3>2. broker' \in {b, Unheld(b), SignedOut(b)}
      BY DEF Edit, Retargeted
    <3> HIDE DEF b
    <3>3. /\ b.static # None => b.session = None /\ b.user = None
          /\ broker'.static = b.static
          /\ broker'.session \in {b.session, None} /\ broker'.user \in {b.user, None}
      <4>1. b.static # None => b.session = None /\ b.user = None
        BY <3>1 DEF AccountInv, KeyAlone
      <4> QED
        BY <1>1, <3>2, <4>1, UnheldKeeps DEF AccountInv, Fields
    <3> QED
      BY <3>3 DEF KeyAlone
  <2> QED
    BY <2>1, <2>2
<1> QED
  BY <1>2, <1>3, <1>4, <1>5, <1>6 DEF AccountInv, Fields

-----------------------------------------------------------------------------
\* What is kept was read for one identity, whose account it is, after every step.
THEOREM AccountInvariance == Spec => []AccountInv
<1>1. ASSUME AccountInv, NEW p \in Reader, Pass(p) PROVE AccountInv'
  BY <1>1, BeginKeeps, TargetKeeps, TokenKeeps, UserKeeps, KeepingKeeps, PollKeeps DEF Pass
<1>2. AccountInv /\ [Next]_vars => AccountInv'
  <2> SUFFICES ASSUME AccountInv, [Next]_vars PROVE AccountInv'
    OBVIOUS
  <2>1. CASE \E c \in Command : Serve(c) \/ \E op \in Op : Ask(c, op)
    <3>1. PICK c \in Command : Serve(c) \/ \E op \in Op : Ask(c, op)
      BY <2>1
    <3>2. Op # {}
      BY AccountAssumption
    <3> QED
      BY <3>1, <3>2, RequestsKeep
  <2>2. CASE Wake
    BY <2>2, PollKeeps DEF Reader
  <2>3. CASE Others
    BY <2>3, OthersKeep, EditKeeps DEF Others
  <2> QED
    BY <1>1, <2>1, <2>2, <2>3, OthersKeep DEF Next
<1> QED
  BY <1>2, FirstAccount, PTL DEF Spec

\* Nobody is shown the account of somebody else: passive_status shows what is
\* kept only beside the identity it is kept for; and a list that was read since
\* the settings were saved is that of the owner of the static key there is.
THEOREM AccountIsTheirOwn == Spec => []ShownIsTheirOwn
<1>1. ASSUME AccountInv PROVE ShownIsTheirOwn
  <2>1. Shown => account.identity = Identified(broker)
    BY DEF Shown, IdentityOf
  <2>2. Shown => /\ account.identity.url = broker.url
                 /\ account.identity.user = broker.user
    BY <2>1 DEF Identified
  <2>3. Shown /\ broker.static = None => broker.user # None
    BY DEF Shown, IdentityOf, SignedIn
  <2>4. ShownBudget # None => /\ Shown /\ account.budget # None
                              /\ ShownBudget = account.budget
    BY DEF ShownBudget
  <2> QED
    BY <1>1, <2>2, <2>3, <2>4 DEF AccountInv, KeyAlone, KeptForOne, Theirs, ShownIsTheirOwn
<1> QED
  BY <1>1, AccountInvariance, PTL
=============================================================================
