# LiteLLM Relay: TLA+ models and proofs

LiteLLM Relay is a daemon on a developer's machine. It signs in at the
company's identity provider, turns the session into short-lived credentials of
a LiteLLM Gateway, hands these to the AI tools on the machine, forwards their
requests, and serves MCP tools. This directory holds TLA+ models of the parts
of it where threads, processes, failures and settings meet, the instances TLC
checks, and theorems about the models that TLAPS proves for every instance.

Paths below are relative to the repository's crate; `mod.rs` is
`src/broker/mod.rs`.

| part | specification | instances | proofs |
| --- | --- | --- | --- |
| credential broker | `Settings`, `Broker`, `KeyCustody` (what it promises of its keys) | `MCBroker`: `switch`, `faults`, `ends` | `BrokerSteps`, `BrokerProofs` |
| MCP service, catalog, stdio server | `CallSlots` (the ledger of permits), `McpCatalog`, `McpService` | `MCMcp`: `mcp`, `calls` | `McpProofs` |
| config.yaml and the commands that set a device up | `Config`, `Device` | `MCDevice`: `picks`, `keys` | `DeviceProofs` |
| start of the daemon | `Launch` | `MCLaunch`: `launch` | `LaunchProofs` |
| token commands without a broker | `Tokens` | `MCTokens`: `tokens` | `TokensProofs` |
| account poll and daemon commands | `Account` | `MCAccount`: `account` | `AccountProofs` |
| proxy, CA, credential check | `Proxy` | `MCProxy`: `proxy`, `leaf` | `ProxyProofs` |

The run `x` of module `M` is `M_x.cfg`. `PROJECT.json` has the runs, the mutants,
the theorems, the findings, and the source lines of every definition.
`Config` extends `Settings`, `Device` extends `Config`; `McpService` extends
`CallSlots` and `McpCatalog`; `Broker` extends `Settings` and instantiates
`KeyCustody` with a refinement mapping.

## The system

**Credential broker** (`src/broker/mod.rs`, `session.rs`). Keeps, in memory
only, an IdP session, a Gateway session credential, a key minted with it for
the team, a sticky refusal to mint, and a proxy token; and the *target*, what
it took from the settings last: IdP or static key, Gateway, team, allowed
callers. Every client request runs on a thread of its own. Short mutexes guard
`state` and `target`; `renewal` is held across calls to the IdP and the
Gateway; `switching` puts switches of team or environment one after another.
Correct when: what it serves is for the Gateway and team it is on; no key is
lost before it is deleted; only one is minted for simultaneous requests; a
failed switch changes nothing; nobody waits for ever.
Hard: `config.yaml` changes at any time, forgetting a key is a call to the
Gateway in the middle of a change of target, and several values are read
before a wait for a lock and used after it.

**Settings** (`src/config.rs`). The YAML file, written by the user, MDM, the
onboarding commands and the broker's switches, without any lock. Selection of
the environment and the team, parking of the team an environment had, and the
selection a managed install carries over. Correct when a team picked on one
environment is never sent to another, and a switch can be undone.

**Credential resolution** (`src/ai_tools/gateway_credential.rs`, `token.rs`,
`idp.rs`). Refreshes or exchanges; reuses what is cached while it lasts; opens
a browser if someone is there. The token hooks use it over two files with a
lock file each, the broker over its own state. Correct when two hooks do not
redeem one refresh token twice and a refused credential is not served.

**Key client** (`src/broker/key.rs`): mint, extend, delete over HTTP.

**Caller check and sockets** (`src/broker/caller.rs`, `macos.rs`, `socket.rs`,
`src/mcp/socket.rs`): who is at the other end, one thread for each connection,
and who owns the file of a socket.

**Account service and daemon commands** (`src/account/mod.rs`,
`src/daemon.rs`): a poll of the Gateway for the account and the environments,
with the bearer of the broker; commands wait three seconds for a fresh one.
Correct when nobody is shown the account of somebody else.

**MCP** (`src/mcp/`): a catalog of tools for the signed-in user, verdicts on
calls, confirmations parked over the stdio protocol, a ledger of call slots
whose cap follows the settings, an upstream connection that is rebuilt. Correct
when no more calls run than permits exist, a call runs that was confirmed or is
allowed, a parked confirmation is answered once, and every call ends.

**Proxy** (`src/proxy.rs`, `http.rs`, `cert.rs`, `inference.rs`): intercepts
and forwards; caches whether the CA is trusted. **Shadow observer**
(`src/gateway.rs`): a credential cache with background refresh. **Logs**
(`traffic.rs`, `events.rs`): JSON lines.

**Onboarding** (`src/ai_tools/claude_cli`, `claude_desktop`, `codex`,
`autoconfigure.rs`, `launch_agent.rs`), **setup** and the **installer**:
processes that read one file, ask the Gateway, write others, and may be killed
in between. **RelayBar** and the **dashboard** show what the daemon says.

Interactions: clients, RelayBar and the commands reach broker and account by a
Unix socket; the MCP service takes `SessionBearer`s from the broker, the proxy
takes a `ProxyBearer` for each request, the account poll asks only if nothing
renews; `app.rs` ticks the broker once a minute and calls `shutdown` at the
end, while connections may still be served. All read the settings again when
their version changed. Where one module needs another part of the system, it
keeps of it what it can see: `McpService` and `Account` have a `broker` that
moves between any two of their steps, `Device` a daemon that may refuse a
switch, `Tokens` a Gateway and an IdP that rotate refresh tokens.

`PROJECT.json` lists each component with its state of modelling, and under
`hazards` what is hard to test in them, each with the properties that would
catch it, or why none does.

## Models and code

### Broker

A **thread** (`Thread`) is a running request. `pc` says which step it takes
next, `mem` holds its local variables, under the names of the code where there
is one (`seen` is the target cloned at admission, `at` the one cloned under the
renewal lock, `before` and `held` those of `apply_switch`). A **step** goes
from one point where another thread could interfere to the next: a section
under a short mutex, or a call to the outside with the section that follows.

| code | actions |
| --- | --- |
| `handle`, the tick, `shutdown` | `Arrive`, `Finish` |
| `refresh`, `refresh_unless_renewing` | `Refresh`, `LockRefresh`, `SkipRefresh` |
| `apply_saved_settings`, `forget`, `retire` | `ApplyNothing`, `Apply`, `Retire`, `RetireFails`, `DropToken`, `Retarget` |
| `admit`, `issue`, `issue_from_idp`, `issue_unless_renewing` | `Admit`, `Account`, `Issue`, `LockIssue`, `SkipIssue`, `AnswerIssued` |
| `issue_from_session` | `Begin` |
| `session_credential`, `resolve`, `identity_token`, `advance` | `ResolveFresh`, `ResolveFails`, `ResolveRefreshed`, `ResolveIdentity`, `IdentityReused`, `IdentityRenewed`, `IdentityMissing`, `OpenPage`, `BrowserSignsIn`, `BrowserFails`, `Exchange`, `ExchangeFails`, `Keep`, `KeepNone` |
| `key_or_credential`, `issue_after_dead_bearer` | `MintSkipped`, `Mint`, `MintRefused`, `MintFails`, `MintLost`, `MintUnauthorized`, `Dead` |
| `bearer_for_proxy`, `proxy_credential`, `bearer_from` | `Present`, `ProxyKey`, `AnswerForward`, `ProxyToken`, `Pair` |
| `sign_in`, `sign_out`, `shutdown` | `Snapshot`, `JoinSignIn`, `OwnSignIn`, `Explicit`, `AnswerSignIn`, `SignOut`, `Shutdown` |
| `tick`, `extend_key` | `Tick`, `ExtendNotDue`, `Extend`, `ExtendFails`, `ExtendUnauthorized`, `AnswerTick` |
| `switch_team`, `switch_environment`, `apply_switch`, `switched` | `LockSwitching`, `Plan`, `LockSwitch`, `Store`, `StoreFails`, `Reissue`, `AnswerInPlace`, `SwitchDone`, `Switched`, `Report`, `SwitchUndone`, `Restore`, `Settle` |
| `status` | `Status` |
| user, MDM, time | `Edit`, `HalfLife`, `Expire` |

Abstractions of `Broker`:

- *Time.* `clock.half` and `clock.over` are the sets of ids (of sessions,
  credentials, keys) past their half-life, or refresh window, and past their
  end. A request copies them where the code calls `clock.now()`, and later
  decides by the copy. `Ageing` says what may age in an instance, `MaxAged` bounds
  how much of it is past its half-life at a time. A successful extension takes
  the key's id out of `half`.
- *The settings' version* is a fresh number for each write; the code hashes
  time of modification and length. The file always exists. The two reads
  `version()` and `load()` of one application of the settings are one step.
- *URLs* are compared after trimming, as the code does.
- *The key's team* is not stored in the code: it is the team of the target at
  the mint, and only properties read it. The sticky refusal names a credential
  by id, where the code compares `issued_at`. A dead credential has a flag,
  where the code sets its end to now.
- *Left out*, since no property can tell: `last_source`, `refused_callers`,
  `user_id` and display names, the environment's name in the target, notices,
  aliases, `extension_failed` (it only limits logging), `unanchored` callers.
- *Sections that follow one another* are one step where nothing but a
  stuttering reader could come between: the two parts of `forget`, the writes
  of the session and the credential, the write of a switch and
  `take_gateway_hold`, the target and the file in `switchable_settings`,
  `completed_sign_ins` and `explicit_sign_in_running`.
- *Refusals of a switch in advance* (`team_switch_refusal`,
  `environment_switch_refusal`) and `session_identity` refresh the settings like
  any request and then only read.
- *Poisoned mutexes* are unwrapped by the code and panics are not modelled.
- *The outside* is `Faults`: what may go wrong besides success. `mint_lost` is
  a key the Gateway made whose answer was lost.


### McpService, with CallSlots and McpCatalog

A **call** (`Call`) is one connection to `mcp.sock`, served by one task of the
daemon (`pc`, `mem`), and what the stdio server knows of the same call
(`front`). The lock of the service's state is held for single sections, so a
task's step is such a section, a call to broker or Gateway, or an answer of the
user.

| code | actions |
| --- | --- |
| `admitted_bearer`, `admitted_caller` | `Call_`, `Admit`, `AdmitCaller`, `AdmitRefused` |
| `reload_settings` | `SettingsKnown`, `SettingsChanged`, `SettingsUnreadable`, `LoadSettings`, `StoreSettings` |
| `adopt`, `check_session`, the watcher | `Identify`, `Adopt`, `NotDue`, `FetchDue` |
| `catalog_for`, `fetch_catalog`, `RmcpUpstream` | `CatalogHeld`, `NoCatalog`, `Fetch`, `Connect`, `Listed`, `NotListed` |
| `search`, `describe`, `call`, `activate`, `refuse_early` | `Answer`, `CheckCall`, `CheckServer`, `Early` |
| `confirm`, `PeerLines::ask` | `Ask`, `Accepted`, `Declined` |
| `CallSlots`, `require_same_session`, the call or activation itself | `TakeSlot`, `ReadIdentity`, `Readopt`, `CompareForCall`, `Activate`, `CallEnds`, `Drop` |
| `switch_team`, `switch_environment` | `Switch`, `ForgetFetchTime` |
| stdio server: `client_can_ask`, `converse`, `park`, `resume` | `Unsupported`, `ShowDialog`, `UserAnswers`, `Park`, `Resume`, `ResumeOther`, `Expire`, `Die` |
| user, MDM, broker, time | `Edit`, `BrokerMoves`, `Age` |

`CallSlots` is the ledger alone (`Acquire`, `Release`, `GiveBack`, `Resize`): a cap that
is lowered while permits are out leaves a debt that permits pay as they come
back. `McpCatalog` is the pure part: how listed tools are grouped by server, the
verdict on each, what a search finds. Words of a name are given by the
instance; the split of a name at the separator is a table. A client asks in one
of three ways: it cannot (`mute`), it shows the question itself (`inline`), or
the stdio server asks through the peer (`peer`), and then nobody limits the wait.
The service starts with a section that the file had at some moment of the start
(`Earlier`, or the first version's), because `app.rs` 307 loads the settings
before `McpService::new` looks at the version.

### Config and Device

`Config` has the document and what commands do with it: `EnvironmentsOf` skips
malformed items one by one, `MoveGatewayTo`, `CarryingSelectionFrom` and
`CarryingInstallPicks` select, park and carry, as the methods of these names do. `Device` has the
processes. Each reads `config.yaml`, works on its copy, saves the copy in one
step (a rename), and can be killed between any two steps.

| code | actions |
| --- | --- |
| `run_command`, detection | `Start` (with `Detect`, `FirstStep`) |
| `autoconfigure`: fallback key, gate, one pass per tool | `Fallback`, `Read`, `Gate`, `Picks`, `Configure` |
| `onboard_with` of the three tools | `Picks`, `Configure`, `WriteTool`, `Save` |
| `run_setup`, `auth.rs` | `SetupLoad`, the sign-in steps, `SetupCheck`, `SetupSave` |
| `install.sh`, `carry_selection` | `Copy`, `Overwrite`, `Carry`, `CarrySave`, `Seed` |
| `Broker::switch_team`, `switch_environment`, `apply_switch` | `SwitchLoad`, `SwitchSave`, `SwitchIssue` |
| the LaunchDaemon that `install.sh` writes | `Watch` |
| `replace_atomically` that fails | `StagingFails` |
| operating system, Gateway | `Crash`, `Revoke` |

A tool's file is a record of what is in it (mode, key, URL); `Torn` stands for
one cut short, since those of Claude Code and Codex are not written atomically.
Each Gateway has a verdict of its own on each key (`verdicts`), and a pass
remembers which key it asked which Gateway about (`verified`). The LaunchDaemon
starts when a watched path changed (`trigger`), at load and at its interval; a
Claude Desktop file that is staged and cannot be renamed changes the watched
directory all the same.

### Launch

Servers go `look`, `bind`, `bindMcp`, `bindPort`, `serve`, as `serve` in
`app.rs` does: they look for a daemon that answers, remove the socket's file,
bind it, and take the port at the end. Onboardings follow `ensure_daemon` and
`require_daemon`. launchd (`KeepAlive`, `BootOut`) and the kernel's sockets are
external.

### Tokens

Hooks of the AI tools and Claude Desktop's exchange, each a process: `Look`,
`Lock` and a second look; `Discover`, `Refresh`, `Register`, `Exchange`, `Save`
for the Gateway's store; `LookIdentity`, `LockIdentity`, `RefreshIdentity`,
`OpenPage`, `Callback`, `Deadline`, `Identify`, `SaveIdentity` for the identity.
`Kill` ends one anywhere, and the kernel releases its locks. `Connect` is any
connection to the sign-in listener that is not the callback, queued up to
`MaxQueue` and taken by `Unrelated`; `accept_before` looks at its deadline only
when nothing is queued, and so does `Deadline`. Refresh tokens
rotate. `spent`, `orphaned`, `replayed` and `newest` are history variables that
no action reads.

### Account

The broker is one record: its target (URL, team, static key or none) and what it
holds for it (the user of the IdP session, the user of the credential, whether
that is valid, whether there is a fresh key), in three modes. On a Gateway in
`Exchanging` a session is exchanged for a credential. On another one the identity
token is served, nothing is held for it, and the status shows nobody as signed
in. A static key belongs to an owner that neither the status nor the identity
names. `era` counts the edits, and only the properties read it.

`Begin`, `Target`, `TokenAtHand`, `TokenLeft`, `TokenRenewed`, `TokenRefused`,
`UserId`, `Clear`, `ReadUser`, `Store` and `Probe` are the steps of a pass (`poll`,
`poll_account`) between which the broker moves; `recheck` is the same pass, waited
for. A command of the daemon goes `Ask`, `RefuseTeam`, `RefuseTeamAgain`, `Act`,
then reads the account again, and is answered. `Others` is whatever the broker and
the Gateways do meanwhile: renewals, expiries, edits of each kind (`Retargeted`,
as `apply_saved_settings` decides), new teams.

Abstractions: a switch, a sign-in or a sign-out of the broker is one step here
(`Broker` has its steps); a credential always names its user; the team and the
budget that a static key has by itself are left out; the end of the three seconds
for which a command waits is not a step, as the pass goes on whether it is waited
for or not.

### Proxy

One task per connection. `Accept` classifies it as `parse_route` does; pages
and the dashboard's calls are answered at once, inference goes through
`Admit`, `Bearer`, `Send`, `Relay`, a CONNECT through `Trust`, `Authority`,
`Verify`, `Settle` (the verdict on the CA, behind its lock) to a `Tunnel` or a `Capture`
with `Files` and the steps of `ensure_leaf_cert`, `Upstream`, `Exchange`,
`Response`. `Fail` is what `serve_forever` logs. Beside them is the cached check
of the saved credential with its background probes (`Checked`, `Refresh`,
`StoreBackground`). A verdict on the CA is what the keychain says, or "untrusted"
where it could not be asked: `ensure_ca` failed, `security` could not be started,
or gave no answer in time. `grounds` remembers when there last was such a reason
for either verdict; no action reads it. `ensure_ca` writes its two files one after
another under the lock of the verdict; that they are there or not, or fail, is all
the model has of it.

## Properties and mutants

Properties speak of what could go wrong between several steps of several
actors; each module's are at its end, each with the code it is about. Operators
with a comment that begins `Variant` are wrong on purpose: a plausible mistake
in the definition that follows them. `PROJECT.json` pairs each with a property,
and substituting it makes TLC find that property violated.

## Runs

| run | instance | shows |
| --- | --- | --- |
| `switch` | 2 threads, 3 requests of six kinds, the exchange or the mint may fail, session or key come of age | types, exclusion, tokens for the right Gateway, switches done or undone, sign-out deletes; `CustodyAndSwitches`, the inductive invariants of the keys and of the switches; `KeepsCustody`: `Broker` implements `KeyCustody` |
| `faults` | 2 requests, eight kinds of fault, sessions, credentials and keys come of age | a refused bearer is not used again; a key is never without the credential it is deleted with |
| `ends` | 2 requests of any of nine kinds, one of four edits, no symmetry | the inductive invariant `Inv`; status and account poll end whatever happens at the browser; every request ends if the browser's wait does |
| `mcp` | 2 calls, 3 requests (calls, an activation, a background check, a switch of the team), 2 identities, 3 versions of the settings with caps of 1 and 2 | permits conserved; a known version means its section; catalog of the right identity and rules (the start may leave the section of before the first version); only confirmed or allowed calls run |
| `calls` | one slot, three requests (calls, an activation, a search, a check), clients of every way of asking | every call ends; who is told nothing ran is told the truth, also when the timer of a parked question fires beside its answer |
| `picks` | 2 processes, 3 commands that move the selection or configure tools, Linux hosts with one tool, crashes, failed saves, refused switches, revoked keys, 2 Gateways of which one refuses the device's key | a picked team stays on its environment; an install keeps picks; a key is written only for a Gateway that accepted it |
| `keys` | one process and the LaunchDaemon with all its starts, 2 commands, four kinds of fault, two kinds of Mac with several tools, keys that both Gateways accept or not | the watcher comes to rest |
| `launch` | 2 servers by hand and launchd's, 2 onboardings, 2 ends | a server that looked is kept off a live socket; a daemon comes up |
| `tokens` | 2 hooks of one team, Claude Desktop of another, any start, one fault, one step of age, one connection queued at a time (`MaxQueue`), as many as come | no refresh token redeemed twice; no older credential brought back; every hook ends |
| `account` | the poll and one command, a Gateway that exchanges and one that does not, 2 users, 2 teams, 2 static keys, 2 moves | nobody is shown another's account; the poll catches up |
| `proxy` | 2 connections, 4 ticks or changes of keychain and settings, verdicts kept for 2 ticks (`Recheck`), 2 background probes | the verdict on the CA is recent; one answer, one end; the check settles |
| `leaf` | 2 clients of one host | the violation below |

*Bounds.* Two threads, processes or connections show any race of two; where a
third party matters it is there under its own name (the watcher, launchd, the
poller, Claude Desktop, the broker that moves by itself). Each request passes
through a dozen steps or more, so that three of them contain all interleavings
of, say, a switch that fails with a request that waits for its lock and a
sign-out in the middle. Two environments, identities, Gateways or teams are what
"the other" needs; a third Gateway (`g3`) is outside the list of environments;
three versions of the MCP section allow a value to come back. `MaxAged`
counts ids past their half-life, so that with 2 any two of session, credential
and key are old together. `MaxMoves`, `MaxEnds`, `MaxFaults` and
`MaxAges` bound what the outside does. One queued connection is enough to keep
`Deadline` from looking, and another may come as soon as it was taken. What a bound
excludes is more of the same; for the broker and the ledger the proofs cover any number.

*Symmetry* is used for threads (`switch`, `faults`), identities (`mcp`) and
processes (`picks`), in runs of safety properties only. *Deadlock* is checked for
the broker, which has an explicit `Terminated`; in the other runs requests or
commands run out and the system may stop.

### What does not hold

The run `leaf` finds that two connections to a host that was never intercepted
both make its certificate, over the same file names (`cert.rs` 158): what is left
may be a certificate of one key beside another key. Since both files exist, they
are never made again, and every later interception of the host fails.

Other places where the code and a comment, a test's name or `docs/mdm.md`
disagree came up while modelling, and have no run. They are the reason for some
qualifications in the properties, and for what instances leave out.

- A session bearer may name the Gateway of before a switch with a key of after
  it (`session.rs` 78-81): the target is cloned, then the bearer issued.
- A caller taken off the allowlist while its request waits still gets the new
  proxy token (`mod.rs` 630, against `docs/mdm.md` 478-481).
- A second sign-in that arrives early in the first undoes it (`mod.rs` 730).
- After a 401 on an extension the key is dropped and never deleted (`mod.rs`
  1408, 1438, against `docs/mdm.md` 353); a request that waits while the daemon
  shuts down mints a key that stays (`mod.rs` 919, against `app.rs` 431-433).
  `switch` therefore has no 401 and no shutdown.
- A switch undoes an edit made while it waited for the lock (`mod.rs` 864), and an
  onboarding or setup that saves its copy late undoes a switch, against
  `docs/mdm.md` 441-444. `crossed` in `Device` marks the worst of it: a refused
  team switch whose old team is restored on a device that has moved.
- An environment listed under one name or URL twice is found by its first entry only
  (`config.rs` 264-276), so that a switch to the second does not report where it
  went. The theorems about switches exclude this and the edits (`Undisturbed`).
- An edit that moves `gateway.url` off the list during a switch that fails leaves
  key and credential without the session (`mod.rs` 881-898).
- Without a token exchange a background request on a signed-out device is told
  `gateway_error` and not `signed_out` (`mod.rs` 1250).
- Calls may start beyond a cap that was lowered meanwhile, until the debt is
  paid (`service.rs` 254-265, against `docs/mdm.md` 548-550): `CallSlots` proves
  that the sum comes out, not that no more than the cap run.
- A confirmed call may run though its session ended after the comparison
  (`service.rs` 660-675); the test
  `should_refuse_a_confirmed_call_when_the_session_ended_during_the_dialog` ends
  the session before it. The verdict on a call is reached before it waits for a
  slot.
- A bearer fetched earlier that is adopted late resets a newer session of the
  service, which then fetches its catalog again.
- The daemon loads the settings for its start, and the MCP service looks at their
  version afterwards (`app.rs` 307, `service.rs` 296-305). An edit between the two
  leaves the section of before under the version of after, and no reload corrects
  it until the file changes again. `KnownVersionMeansKnownSection` speaks of what
  reloads store, that is of every version but the first.
- Two static keys of one Gateway and team have one identity (`account/mod.rs`
  452-458, `session.rs` 39-46). When a key is replaced by another owner's, the
  account of the owner before is shown until the next read, up to five minutes later
  (`BUDGET_INTERVAL_SECONDS`). `ShownIsTheirOwn` therefore says of static keys only
  that the account is the owner's unless the settings were saved since the pass
  that read it began, and `PollCatchesUp` that it gets to be so if the interval
  goes by.
- On a Gateway without the exchange the poll stores an identity without a user
  (`session.rs` 81-94) while the status shows nobody (`mod.rs` 935), so the two
  never agree, the account is never shown, and every poll reads it again.
  `PollCatchesUp` excepts it (`ServesIdentityTokens`).
- A managed team for `tools` is sent to a Gateway outside the list (`docs/mdm.md`
  434-435, against `claude_cli/mod.rs` 94-97).
- A pass of `autoconfigure` reads `config.yaml` for the key of last resort, again
  for its gate, which asks the Gateway, and again for each tool. A key saved
  between any two of these is written unchecked (on Linux also for Claude Code,
  where the gate finds a key that only the setup has just saved), which
  `VerifiedKeysOnly` excepts. So it does a Gateway: where the command names none,
  the gate asks the one `config.yaml` has then (`autoconfigure.rs` 155-163), and a
  switch, an onboarding or a setup that saves before the tool is configured has the
  key written for a Gateway that was never asked. A fallback key that was read
  early is enrolled over a newer one.
- A Claude Desktop file that is staged and cannot be renamed is removed again
  (`claude_desktop/mod.rs` 472-480), both in the directory the LaunchDaemon watches:
  as long as the rename fails, every run of it starts the next. `WatchSettles` has
  as its premise that this stops.
- The deadline of a sign-in is looked at only when no connection is queued
  (`idp.rs` 403-417): programs that keep connecting to its listener, each with two
  seconds to say something, put it off as long as they like, for the token hooks as
  well as for the broker's sign-in. `EveryHookEnds` and `EveryRequestEnds` have as
  their premise that this stops.
- The CA counts as untrusted for up to a minute after the keychain was slow, or
  could not be asked (`cert.rs` 82-112, `proxy.rs` 426-435), though it is trusted.
  `VerdictIsRecent` lets a connection be tunnelled on those grounds, and intercepted
  on none but the keychain's yes.
- Two servers that both looked before either bound take each other's socket
  (`raced`); two onboardings may both bootstrap the agent, and one then fails.
- `now` is read before the wait for a lock (`gateway_credential.rs`), so a hook
  may print a token that expired while it waited.
- `append_event` writes text and newline in two writes without a lock.

### Fairness

No fairness is given to users, browsers, edits or faults.

- `Broker!SpecWorking`: weak fairness for each thread's own steps, since HTTP
  calls have time limits of half a minute and sections are short. None for the
  browser: `StatusNeverWaits` must hold without. `EveryRequestEnds` assumes it
  as its own premise: the wait for the callback ends after five minutes
  (`CALLBACK_TIMEOUT`, `src/ai_tools/idp.rs`), if connections do not go on queueing
  at its listener, which `Tokens` models.
- `McpService!Progress`: weak fairness for a task's and the stdio server's steps
  (time limits upstream, the timer of a parked conversation), strong fairness for
  taking a slot, because the waiters of tokio's semaphore are served in turn.
  Calls asked through a peer are excepted from `EveryCallEnds`: nothing limits
  that dialog.
- `Device`: processes go on; launchd starts the watcher again and again, whether or
  not a path changed, because its plist has a `StartInterval`. `Launch`: servers and
  commands go on, launchd keeps the agent alive. `Tokens`: a hook's own steps,
  every request and the wait for the page having a deadline; what connects to the
  listener has none, and need not stop; locks need no
  fairness for a bounded number of hooks. `Account`: threads, the poll's
  interval, the end of a renewal. `Proxy`: probes have a timeout, entries age,
  an open dashboard asks again.

## Proofs

Each theorem holds for every value of the constants that satisfies the named
assumption of the module. Where an invariant a run checks is not inductive, the
strengthening and the reason for it are given here.

**The broker: what it keeps is for its target.** `BrokerProofs` proves for all
constants that satisfy `BrokerAssumption` (any number of threads and requests,
any settings, any edits, faults and bounds):

- `Invariance`: `Spec => []Inv`;
- `TypeSafety`, `Exclusion`, `KeyIsForTarget`, `CredentialIsForTarget`,
  `KeyIsBacked`, `ProxyBearerIsPaired`: the invariants of the same content.

`KeyMatchesTarget` is not inductive. A thread that applies settings empties the
state, waits for a `DELETE`, and then moves the target: that nothing is put into
the state meanwhile depends on who may mint. `Inv` therefore adds what each
thread knows at each point: that it holds the renewal lock at the steps in
`Locked`, that what it issues is for the target as it is (`IssuesForTarget`),
that the state is empty before the target moves (`LeavesNothing`), that the
credential it mints with is the one in the state and not dead
(`BearerIsKept`), that what a switch holds was issued for the target it left
(`HoldsWhatWasIssued`), where it goes on after applying settings
(`ReturnsWell`), and for the proxy's requests the way they take (`Forwards`).
The run `ends` checks `Inv` on an instance.

The argument: a step of a thread concerns other threads only through the target,
the key and the credential, which only the holder of the lock changes, and what
`Inv` says of the others needs the lock too (`Others`, `Step`). What is left is
each thread's own part, in one lemma for each action (`BrokerSteps`).
`PreviousUndoesApplied`, in `BrokerSteps`: the patch a switch keeps puts the
settings back, whatever they are.

**The broker: ids.** `BearerLastsLong` proves `BearerIsValid`. Between the look
at the clock and the use of the bearer other threads renew, and time passes; that
the copy of the clock still speaks of the same credential needs every id that is
remembered anywhere to have been given out (`RemembersIds`), so that a new one is
none of those the copy says have ended. `IdInvariance` is that invariant, for any
faults and edits.

**The broker: where the keys are.** `EveryLiveKeyIsHeld` is not inductive either: a
mint puts the new key where the old one was, so one must know that no live key was
there, and where it had gone. `KeyInv` says of each thread that a switch which
has taken the key out of the state leaves the state without one until it mints or
puts it back (`HoldsKeys`, `Bare`), that a key is minted over none
(`MintsOverNone`), that a sign-out keeps the state empty until it has answered
(`SignsOutAlone`), and that steps of ticks and switches are reached by ticks and
switches only (`MovesOn`); and of the keys, that an id names one. The first
part of `BrokerProofs` shows that every step either leaves keys alone, moves them between the state and
the hands of its own thread, or mints. From `KeyInvariance` follow

- `NoKeyIsLost`, `SignOutLeavesNoKey`;
- `CustodyIsKept`: the broker implements `KeyCustody`. By `KeyInv` the keys set
  aside are the live ones that are not in the state, so that each step of the
  broker is one of `Mint`, `SetAside`, `PutBack`, `Vanish`, a step of others, or a
  stutter.

These four assume `HonestGateway`: no mint whose answer is lost, no `DELETE` that
fails, no 401. Each of the three really loses a key (see "What does not hold";
`retire` logs a failed `DELETE` and goes on). Every other fault is covered, as are
edits at any time and a shutdown. The
run `switch` satisfies the hypothesis, with failing exchanges and mints, and
checks `CustodyInv`, which is `KeyInv` with the ids, as part of
`CustodyAndSwitches`.

**The broker: switches.** A switch reads the settings, waits for the renewal
lock, writes `config.yaml`, moves the target, issues a key there, and may have to
take all of that back. What it then reports, and what it leaves behind, depends
on the file being as it was read. `Undisturbed` says so: nobody else edits
`config.yaml`, and no list of environments names one twice. Where it holds,
`SwitchInvariance` proves for any number of threads, any settings and any faults
that

- the target is what the file says (`InStep`), except while a switch that wrote the
  file has not moved the target yet (`Writing`), and then the switch holds that
  target in its hands (`FileInv`);
- one switch is under way at a time, the one that holds the lock `switching`, and
  it is at one of these stages (`SwitchThread`): it has not read the settings
  (`Coming`); it has a plan and the file is as read (`Leaving`); there is nothing
  to move (`InPlace`); the file is what the plan made of it (`Arriving`); the file
  is put back (`Undoing`); it has its answer (`Ending`).

`SwitchedMeansMoved` and `FailedSwitchRestores` are not inductive without these
stages: a switch compares and reports with copies that are several steps old. From
the invariant follow

- `SwitchesMove` (`SwitchedMeansMoved`), which also needs that no environment has
  the name that stands for none (`NameAssumption`);
- `FailedSwitchesRestore` (`FailedSwitchRestores`), if the settings can be written:
  with `"store"` among the faults the undoing itself may fail, and the file then
  keeps what the switch wrote (`mod.rs` 886, which logs it and goes on);
- `KeysAreFew` (`OneKeyPerTeam`), with `HonestGateway`: beside the key in the
  state at most the one a switch took out is live, and that one is of another team,
  because a switch that moves has a target other than the one it left.

The run `switch` satisfies all hypotheses and checks the invariant itself, in
`CustodyAndSwitches`.

**The ledger.** `McpProofs` proves `Conservation` (permits that are free,
held and on their way back are the cap and the debt) and `NoOverflow` for any
set of calls and any caps, from `SlotsInvariance`. Conservation alone is not
inductive: that a permit which pays a debt finds one to pay needs
`DebtIsCovered`, which bounds the debt by the permits that are out.

**The MCP service: settings and slots.** `McpProofs` proves `ServiceUsesSlots`:
every step of the service is a step of `CallSlots` or leaves it alone, a
refinement, so that `ServiceConserves` follows for the whole service from the
ledger's theorem. `ReloadsSettle` and `CapIsTheSections` follow from
`ServiceInvariance`: whatever the start left under the first version, a reload reads
the version before it reads the file, so that what it stores is never older than the
version stored with it (`ReadInOrder`), and no other step touches either (`Aside`).
They hold for any edits and any number of
overlapping reloads.

**The MCP service: session and confirmations.** `McpProofs` proves
`CatalogIsSettled`, `CatalogIsItsOwn`, `ActiveIsConfirmed`, `RunsAreCleared` and
`ToldTheTruth` from one invariant, `SessionInv`. It says of the session that its
catalog was built from the listing of its own identity under the section the
service holds (`SessionSound`), and of each task what it carries across its
waits: which bearer it lists with (`Bearing`), that the catalog it looks at has
verdicts for all its tools (`Fetched`), that only a task which waits has a dialog
(`Waiting`), that a server about to be activated was accepted for that bearer
(`Consented`), that a call on its way was said yes to or is of a tool the verdicts
allow (`Cleared`), and that the stdio server says "nothing was run" only of a
call that will not be sent (`Truthful`). `ActiveMeansConfirmed` needs two of
these: a server is activated for the session's identity as it is compared after
the wait, by a task whose question was asked with an earlier bearer.

**Token commands.** `TokensProofs` proves `RotationIsSafe` (`NoReplay`) and
`UpsertKeepsOthers` (`StoreIsNewest`) for any number of commands and teams, kills,
faults and ages. The invariant `TokensInv` says that whoever holds a lock file
knows what is on disk (`KnowsGw`, `KnowsId`), and that a refresh token on disk
has not been redeemed, unless the holder of the lock is about to replace it or was
killed before it could (`CredentialsSound`, `SessionSound`). For the step that
saves, it has to be known that what is saved was made by this very command and is
nowhere yet (`Saving`, `Unmade`, `Unpaged`).

**Account.** `AccountProofs` proves `AccountIsTheirOwn` (`ShownIsTheirOwn`) from
`AccountInv`, which follows a pass through its reads (`PassSound`). What it is about
to store was read on the Gateway of its identity, and about the user the identity
names, though target, token and user are read one after another. An identity
without a user is that of a static key, or of an identity token: what was read for
it is the owner's of the token, and with a static key that is the key's own, unless
the settings were saved since the pass began (`era`). What is kept has the same
property (`KeptForOne`), the budget of an earlier pass included, and a broker with a
static key holds nothing of a session (`KeyAlone`).

**The proxy.** `EveryAnswerIsOne` (`OneAnswerOneEnd`) follows from an invariant
that says, for each place a connection may be at, how many answers and ends it has
had (`Along`); what makes it inductive are the places where a failure is still to
be told, since it depends on where one came from whether the client was answered
and the end logged. `VerdictsAreRecent` (`VerdictIsRecent`) needs three facts about
time (`VerdictInv`): when there last were grounds for either verdict, that a verdict
is no older than a verification takes when it is stored (`VerdictSound`), and that a
task which verifies has what it saw, or its failure, from after it began
(`Looking`). `ProxyAssumption`
has `Recheck > 0` for it, as `CA_TRUST_RECHECK` is (`proxy.rs` 54).

**The device.** Four invariants of `DeviceProofs`, each proved for a command's own
steps with one lemma per action.

- `DeviceTypeInvariance`: `config.yaml` and all copies of it stay documents through
  the operations of `Config`. `Sift`, which stands for the filters of the code, is a
  recursive function; that it is one, and that what it keeps is in the list and
  wanted, is shown from the least number for which it would fail.
- `KeysAreVerified` (`VerifiedKeysOnly`), from `ChecksInv`: from the gate to the
  last tool a pass has asked the Gateway it read about every key that the tools
  which are left may be given there (`Passed`, `Asked`). That the file it writes is
  for the Gateway it asked is lemma `DocumentGateway`: the document a tool gets is
  for the Gateway of the command or of the copy it was made from.
- `PicksAreHome` (`PicksStayHome`), from `PicksInv`. That a picked team is of the
  environment the file names is not inductive: commands hold copies they will save
  or put back later. So all of these have to be `Homely`: they list environments at
  their own URLs, and their picks are of those, unless a refused switch of a team
  has crossed a move (`crossed`).
- `InstallsKeep` (`InstallKeepsPicks`), from `InstallsInv`: what carry-selection
  has made of the old document and the new one keeps what was picked
  (`CarryingKeeps`, by the picks that `PicksOf` counts), and nothing of it changes
  until it is saved.

The last two assume `HomeAssumption`: no two Gateways have one name, and the
documents of administrators and of the start name each environment at its own URL and
pick teams of theirs. Without it a device starts with picks that are nobody's,
and a name listed twice loses the managed team at an install.

**Start of the daemon.** `LookedIsKeptOff` (`LookedMeansKeptOff`), for any number of
servers and onboardings. The invariant says that whoever was found has not ended
since, and that, while it has its socket, nobody who found it is about to bind
(`FoundInv`).

**Model-checked only.** The properties of liveness under fairness, which are out of
the prover's reach: `StatusNeverWaits`, `EveryRequestEnds`, `EveryCallEnds`, `WatchSettles`, `DaemonComesUp`,
`EveryHookEnds`, `PollCatchesUp` and `CheckSettles`. Every invariant and every
action property of a passing run is a theorem. `LeavesArePairs` does not hold. Of
`Sift` it is proved what it returns, not in which order.

## Not modelled

- The caller check (`caller.rs`, `macos.rs`, `apps.rs`): a verdict on a process's
  ancestry and signature, from data that only macOS has. Models take it as
  membership in an allowlist.
- Bytes: HTTP heads and bodies, framing of relayed bodies, TLS, WebSockets, YAML
  text, the tools' own file formats, redaction. Models keep the outcome: parsed or
  not, ended or not.
- The PAC file, the keychain commands, terminal prompts and output: I/O.
- `environments_now` of the account service: a read of the settings with nothing
  kept but a version.
- RelayBar and the dashboard show what the daemon answers; packaging and
  signing scripts build releases.
- Poisoned mutexes and panics.

## Plan

1. A refinement of an abstract specification for the settings, of which `Device` and
   the switches of `Broker` are two implementations, as `KeyCustody` is for keys.
2. The ledger of call slots beyond its sums: how far above a lowered cap the calls
   that run may be, and for how long.
3. `Tokens`: that a hook prints a token that is valid, with the wait for the lock
   as its measure.
