------------------------------- MODULE Device -------------------------------
(***************************************************************************)
(* The commands that set a device up and the files they share: Relay's     *)
(* config.yaml, the copy of the managed config of the last install, and    *)
(* one configuration file per AI tool.  Every command is a process of its  *)
(* own; nothing locks the files, a command reads config.yaml, works on its *)
(* copy of it and saves that copy at the end.                              *)
(*                                                                         *)
(* Onboarding a tool, auto-configuration of all the tools that are         *)
(* installed, the setup wizard, a managed install (install.sh), a switch   *)
(* of team or environment by the daemon, and the LaunchDaemon that watches *)
(* config.yaml and Claude Desktop's managed directory.                     *)
(*                                                                         *)
(* External: what a Gateway says of a key, what the exchange of an IdP     *)
(* sign-in gives, and launchd.  Launch models how the daemon is started.   *)
(***************************************************************************)
EXTENDS Config, FiniteSets, Functions

CONSTANTS
  Proc,          \* processes that run a user's commands, one at a time
  Watcher,       \* the process of the LaunchDaemon
  Commands,      \* the commands that may be run
  Installed,     \* what config.yaml may hold at first
  LegacyEnv,     \* what the env file of an old release may hold
  Factory,       \* the document of RelaySettings::default
  Devices,       \* hosts: the system, and the traces of tools found on it
  KeyVerdicts,   \* what each Gateway says of the keys at first
  Faults,        \* what may go wrong
  Home,          \* the environment that is served at a Gateway's URL
  TeamsOf,       \* the teams of an environment
  MaxCommands,   \* bound: commands that are run
  None, Absent, Torn

Tool == {"claude-code", "claude-desktop", "codex"}
AllTools == <<"claude-code", "claude-desktop", "codex">>

Evidence == {"claude on PATH", "~/.claude", "Claude.app", "Claude support",
             "codex on PATH", "Codex.app", "Codex extension", "~/.codex",
             "claude is a node script"}

FaultKind == {"crash", "save", "tool", "offline", "exchange", "refused",
              "daemon", "revoked"}
Verdict == {"valid", "restricted", "rejected"}

\* What a command may be told: a Gateway, whether it names a team, a key, the
\* parts of an IdP, --env-key, the tools to look at, an environment's name,
\* a managed config.
Command ==
  [kind : {"onboard", "autoconfigure", "setup", "install", "switch_team",
           "switch_environment"},
   tool : Tool, url : MaybeUrl, pick : BOOLEAN, key : MaybeKey,
   idp : IdpSection, env : BOOLEAN, only : SUBSET Tool,
   name : Name \cup {NoName}, managed : RawDocument]

ASSUME DeviceAssumption ==
  /\ Watcher \notin Proc
  /\ Home \in [Gateway -> Name] /\ TeamsOf \in [Name -> SUBSET Team]
  /\ Commands \subseteq Command /\ Installed \subseteq RawDocument
  /\ LegacyEnv \subseteq Document /\ Factory \in Document
  /\ Faults \subseteq FaultKind
  /\ Devices \subseteq [host : {"macos", "other"}, found : SUBSET Evidence]
  /\ KeyVerdicts \subseteq [Gateway -> [StaticKey -> Verdict]]
  /\ MaxCommands \in Nat

VARIABLES
  config,     \* config.yaml
  seeded,     \* .managed-config.yaml: a set of at most one document
  tools,      \* the file of each tool
  device,     \* what the commands find the host to be
  verdicts,   \* what each Gateway says of each key
  trigger,    \* a path the LaunchDaemon watches has changed
  started,    \* commands that were run
  crossed,    \* a refused switch put its team back on another environment
  pc, mem     \* what each process does next, and what it remembers

vars == <<config, seeded, tools, device, verdicts, trigger, started, crossed,
          pc, mem>>

Process == Proc \cup {Watcher}

\* What a tool is told to present to the Gateway, where, and for which team.
ToolFile ==
  [mode : {"broker", "token_helper", "static_key", "env_key", "exchanged",
           "sso"},
   key : MaybeKey, url : MaybeUrl, team : MaybeTeam]

Idle == [cmd |-> None, todo |-> << >>, doc |-> None, file |-> None,
         passed |-> NoKey, refused |-> FALSE, verified |-> None,
         first |-> None, seen |-> None, read |-> None, previous |-> None]

Init ==
  /\ config \in Installed \cup {Absent}
  /\ seeded = {}
  /\ tools = [t \in Tool |-> Absent]
  /\ device \in Devices
  /\ verdicts \in KeyVerdicts
  /\ trigger = FALSE
  /\ started = 0
  /\ crossed = FALSE
  /\ pc = [p \in Process |-> "idle"]
  /\ mem = [p \in Process |-> Idle]

-----------------------------------------------------------------------------
(* Helpers *)

Macos == device.host = "macos"
Cmd(p) == mem[p].cmd
Tool1(p) == Head(mem[p].todo)

Goto(p, label, m) == /\ pc' = [pc EXCEPT ![p] = label]
                     /\ mem' = [mem EXCEPT ![p] = m]

Finish(p) == Goto(p, "idle", Idle)

\* On to the tool after this one, if there is one.
NextTool(p) ==
  LET rest == Tail(mem[p].todo) IN
  IF rest = << >> THEN Finish(p)
  ELSE Goto(p, "configure", [mem[p] EXCEPT !.todo = rest, !.doc = None,
                                           !.file = None, !.read = None])

\* The settings a process reads: config.yaml, else what an old release left
\* in its env file (which is saved at once), else the defaults.
Loaded == IF config # Absent THEN ReadSettings(config)
          ELSE IF LegacyEnv # {} THEN CHOOSE d \in LegacyEnv : TRUE
          ELSE Factory

\* Variant: the file is written even when it holds the document already.
SavedAlways(doc) == config' = doc /\ trigger' = TRUE

\* A file that holds the document stays as it is; any other is replaced, in
\* one step (a rename), which the LaunchDaemon sees.
Saved(doc) == config' = doc /\ trigger' = (trigger \/ config # doc)

Load == IF config = Absent /\ LegacyEnv # {} THEN Saved(Loaded)
        ELSE UNCHANGED <<config, trigger>>

-----------------------------------------------------------------------------
(* Detection *)

Traces ==
  [t \in Tool |->
     CASE t = "claude-code" -> {"claude on PATH", "~/.claude"}
       [] t = "claude-desktop" -> {"Claude.app", "Claude support"}
       [] t = "codex" -> {"codex on PATH", "Codex.app", "Codex extension",
                          "~/.codex"}]

Detect(t) == Traces[t] \cap device.found # {}

Detected(only) ==
  Sift(AllTools, {t \in Tool : Detect(t) /\ (only = {} \/ t \in only)})

-----------------------------------------------------------------------------
(* What a tool is given *)

BearerPlan(configured, key) ==
  IF Macos THEN IF configured \/ key # NoKey THEN "broker" ELSE "none"
  ELSE IF key # NoKey THEN "static_key"
  ELSE IF configured THEN "token_helper" ELSE "none"

KeepKeyForBroker(c, key) ==
  IF Macos /\ ~IsConfigured(c.idp) THEN EnrollIfChanged(c, key) ELSE c

SavedKeyFallback(idp, c) ==
  IF IsConfigured(ApplyIdp(c.idp, idp)) THEN NoKey ELSE c.apiKey

FirstKey(key, other) == IF key # NoKey THEN key ELSE other

NewFile(mode, key, url, team) ==
  [mode |-> mode, key |-> IF mode = "static_key" THEN key ELSE NoKey,
   url |-> IF mode = "broker" THEN NoUrl ELSE url, team |-> team]

\* The document an onboarding works on: what is loaded, on the Gateway of the
\* command, with its IdP, and with the team that is picked with the command.
OnGateway(c, cmd) == MoveGatewayTo(c, cmd.url)

ClaudeDocument(c, cmd, team, key) ==
  LET moved == [OnGateway(c, cmd) EXCEPT !.idp = ApplyIdp(@, cmd.idp)] IN
  KeepKeyForBroker(IF team = NoTeam THEN moved
                   ELSE [moved EXCEPT !.claude = team, !.team = team], key)

ClaudeFile(c, key) ==
  LET configured == IsConfigured(c.idp)
      static == FirstKey(key, IF configured THEN NoKey ELSE c.apiKey)
  IN NewFile(BearerPlan(configured, static), static, c.url, c.claude)

CodexDocument(c, cmd, team, key) ==
  LET moved == [OnGateway(c, cmd) EXCEPT !.idp = ApplyIdp(@, cmd.idp)] IN
  KeepKeyForBroker(IF team = NoTeam THEN moved
                   ELSE [moved EXCEPT !.codex = team, !.team = team], key)

CodexFile(c, cmd, key) ==
  LET configured == IsConfigured(c.idp)
      static == FirstKey(key, IF Macos /\ ~configured THEN c.apiKey ELSE NoKey)
      plan == IF cmd.env THEN IF key # NoKey THEN "none" ELSE "env_key"
              ELSE BearerPlan(configured, static)
  IN NewFile(plan, static, c.url, c.codex)

\* Claude Desktop takes the OIDC flags for itself; a rerun that is given none
\* and no key keeps the ones saved with it.
DesktopSso(c, cmd) ==
  IF cmd.idp # NoSection THEN cmd.idp
  ELSE IF cmd.kind = "autoconfigure" /\ cmd.key = NoKey THEN c.sso
  ELSE NoSection

HalfAnSso(cmd) == (cmd.idp.issuer = NoIdp) # (cmd.idp.client = NoIdp)

DesktopDocument(c, cmd, team, key) ==
  LET enrolled == EnrollIfChanged(OnGateway(c, cmd), key)
      named == IF team = NoTeam THEN enrolled
               ELSE [enrolled EXCEPT !.claude = team, !.team = team]
  IN [named EXCEPT !.sso = DesktopSso(c, cmd)]

\* Variant: a key the Gateway refused is as good as any.
RefusedKeyCounts(c, refused, passed) == c.apiKey

\* The saved key, unless the Gateway refused it and none was passed.
UsableKey(c, refused, passed) ==
  IF refused /\ passed = NoKey THEN NoKey ELSE c.apiKey

DesktopMode(c, usable, passed) ==
  IF c.sso # NoSection THEN "sso"
  ELSE IF Macos /\ (IsConfigured(c.idp) \/ usable # NoKey) THEN "broker"
  ELSE IF passed # NoKey THEN "static_key"
  ELSE IF IsConfigured(c.idp) THEN "exchange"
  ELSE IF usable # NoKey THEN "static_key" ELSE "none"

DesktopFile(c, mode, key) ==
  [mode |-> mode, key |-> IF mode = "static_key" THEN key ELSE NoKey,
   url |-> c.url, team |-> NoTeam]

-----------------------------------------------------------------------------
(* Starting a command *)

Rerun(only) ==
  [kind |-> "autoconfigure", tool |-> "claude-code", url |-> NoUrl,
   pick |-> FALSE, key |-> NoKey, idp |-> NoSection, env |-> FALSE,
   only |-> only, name |-> NoName, managed |-> Factory]

FirstStep == [onboard |-> "configure", autoconfigure |-> "fallback",
              setup |-> "setupLoad", install |-> "copy",
              switch_team |-> "switchLoad", switch_environment |-> "switchLoad"]

Begin(p, cmd) ==
  Goto(p, FirstStep[cmd.kind],
       [Idle EXCEPT !.cmd = cmd, !.passed = cmd.key, !.todo = <<cmd.tool>>])

Start(p) ==
  /\ pc[p] = "idle" /\ started < MaxCommands
  /\ \E cmd \in Commands : Begin(p, cmd)
  /\ started' = started + 1
  /\ UNCHANGED <<config, seeded, tools, device, verdicts, trigger, crossed>>

\* launchd runs the program of the watching daemon when a watched path has
\* changed, again when one changes while it runs, when it is loaded, and at
\* intervals.
Watch(w) ==
  /\ pc[w] = "idle" /\ Macos
  /\ Begin(w, Rerun({"claude-desktop"}))
  /\ trigger' = FALSE
  /\ UNCHANGED <<config, seeded, tools, device, verdicts, started, crossed>>

\* The process is killed: a tool's file it was writing over may be cut short.
Crash(p) ==
  /\ "crash" \in Faults /\ pc[p] # "idle"
  /\ \E torn \in BOOLEAN :
       /\ torn => pc[p] = "write" /\ Tool1(p) # "claude-desktop"
       /\ tools' = [t \in Tool |-> IF torn /\ t = Tool1(p) THEN Torn
                                   ELSE tools[t]]
  /\ Finish(p)
  /\ UNCHANGED <<config, seeded, device, verdicts, trigger, started, crossed>>

\* A Gateway no longer accepts a key.
Revoke(url, key) ==
  /\ "revoked" \in Faults /\ verdicts[url][key] # "rejected"
  /\ verdicts' = [verdicts EXCEPT ![url][key] = "rejected"]
  /\ UNCHANGED <<config, seeded, tools, device, trigger, started, crossed, pc,
                 mem>>

-----------------------------------------------------------------------------
(* Auto-configuration: the key of last resort, the tools, the gate *)

\* What the configuration of a tool turns on, the Gateway it is for included:
\* that of the command, or else the one that is saved.
Read(c, cmd) == [apiKey |-> c.apiKey, idp |-> c.idp, sso |-> c.sso,
                 url |-> OnGateway(c, cmd).url]

Fallback(p) ==
  LET cmd == Cmd(p)
      todo == Detected(cmd.only)
      passed == IF cmd.key # NoKey \/ cmd.env THEN cmd.key
                ELSE SavedKeyFallback(cmd.idp, Loaded)
  IN /\ pc[p] = "fallback"
     /\ Load
     /\ IF todo = << >> THEN Finish(p)
        ELSE Goto(p, "gate", [mem[p] EXCEPT !.todo = todo, !.passed = passed,
                                            !.first = Read(Loaded, cmd)])
     /\ UNCHANGED <<seeded, tools, device, verdicts, started, crossed>>

\* The key this pass would write into some tool's file.
StaticKeyInPlay(c, cmd, passed, todo) ==
  LET wanted == Range(todo)
      desktop == /\ "claude-desktop" \in wanted /\ cmd.idp = NoSection
                 /\ ~(c.sso # NoSection /\ cmd.key = NoKey)
      lands == desktop \/ wanted \cap {"claude-code", "codex"} # {}
  IN IF lands /\ passed # NoKey THEN passed
     ELSE IF desktop THEN c.apiKey ELSE NoKey

\* What a Gateway may answer when it is asked about a key.
CheckOf(url, key) ==
  {verdicts[url][key]} \cup (IF "offline" \in Faults THEN {"unverifiable"} ELSE {})

\* The Gateway the command is for is asked about the key. One that it does not
\* accept ends the pass, unless Claude Desktop would only fall back to it.
Gate(p) ==
  LET c == Loaded
      key == StaticKeyInPlay(c, Cmd(p), mem[p].passed, mem[p].todo)
      m == [mem[p] EXCEPT !.seen = Read(c, Cmd(p))]
      asked == m.seen.url
      Refusal == IsConfigured(c.idp) /\ m.passed = NoKey
  IN /\ pc[p] = "gate"
     /\ Load
     /\ IF key = NoKey THEN Goto(p, "configure", m)
        ELSE \E check \in CheckOf(asked, key) :
               IF check \in {"valid", "restricted"}
               THEN Goto(p, "configure", [m EXCEPT !.verified = <<key, asked>>])
               ELSE IF Refusal
               THEN Goto(p, "configure", [m EXCEPT !.refused = TRUE])
               ELSE Finish(p)
     /\ UNCHANGED <<seeded, tools, device, verdicts, started, crossed>>

-----------------------------------------------------------------------------
(* Onboarding one tool *)

\* The team --team names is one of the Gateway the command moves to.
Picks(c, cmd) ==
  IF cmd.pick THEN TeamsOf[Home[OnGateway(c, cmd).url]] ELSE {NoTeam}

DocumentFor(tool, c, cmd, team, key) ==
  CASE tool = "claude-code" -> ClaudeDocument(c, cmd, team, key)
    [] tool = "codex" -> CodexDocument(c, cmd, team, key)
    [] tool = "claude-desktop" -> DesktopDocument(c, cmd, team, key)

\* An exchange that cannot be had leaves the saved key, if it may be used.
DesktopModes(c, usable, passed) ==
  LET mode == DesktopMode(c, usable, passed) IN
  IF mode # "exchange" THEN {mode}
  ELSE {"exchanged"} \cup
       (IF "exchange" \notin Faults THEN {}
        ELSE {IF usable = NoKey THEN "none" ELSE "static_key"})

\* A Claude Code that is a script of Node cannot use the broker's helper.
NodeScript == "claude is a node script" \in device.found

\* The files an onboarding may come to write, None where it gives up.
FilesFor(tool, doc, m) ==
  LET usable == UsableKey(doc, m.refused, m.passed)
      claude == ClaudeFile(doc, m.passed)
      codex == CodexFile(doc, m.cmd, m.passed)
      Given(file) == IF file.mode = "none" THEN None ELSE file
  IN CASE tool = "claude-code" ->
            {IF claude.mode = "broker" /\ NodeScript THEN None ELSE Given(claude)}
       [] tool = "codex" -> {Given(codex)}
       [] tool = "claude-desktop" ->
            IF HalfAnSso(m.cmd) THEN {None}
            ELSE {Given(DesktopFile(doc, mode, usable)) :
                    mode \in DesktopModes(doc, usable, m.passed)}

Configure(p) ==
  LET m == mem[p]
      c == Loaded
  IN /\ pc[p] = "configure"
     /\ Load
     /\ \E team \in Picks(c, m.cmd) :
          LET doc == DocumentFor(Tool1(p), c, m.cmd, team, m.passed) IN
          \E file \in FilesFor(Tool1(p), doc, m) :
            IF file = None THEN NextTool(p)
            ELSE Goto(p, "write", [m EXCEPT !.doc = doc, !.file = file,
                                            !.read = Read(c, m.cmd)])
     /\ UNCHANGED <<seeded, tools, device, verdicts, started, crossed>>

\* The write of a tool's file ends well, or leaves the file as it was.
Wrote(p, tool) == /\ tools' = [tools EXCEPT ![tool] = mem[p].file]
                  /\ Goto(p, "save", mem[p])

\* Claude Desktop's is staged beside the file and removed again when it cannot
\* be put in its place: the directory that is watched has changed twice.
StagingFails(p) ==
  /\ Tool1(p) = "claude-desktop"
  /\ UNCHANGED tools /\ trigger' = TRUE /\ NextTool(p)

NotWritten(p) == \/ StagingFails(p)
                 \/ UNCHANGED <<tools, trigger>> /\ NextTool(p)

\* Claude Code's and Codex's files are merged into and written over: one that
\* cannot be read is left alone.
WriteClaude(p) ==
  \/ tools["claude-code"] # Torn /\ Wrote(p, "claude-code") /\ UNCHANGED trigger
  \/ tools["claude-code"] = Torn /\ NotWritten(p)

WriteCodex(p) ==
  \/ tools["codex"] # Torn /\ Wrote(p, "codex") /\ UNCHANGED trigger
  \/ tools["codex"] = Torn /\ NotWritten(p)

\* Claude Desktop's is replaced whole, and the LaunchDaemon sees it, unless it
\* is the same; a file of an older layout that cannot be removed fails the
\* command afterwards.
WriteDesktop(p) ==
  /\ tools' = [tools EXCEPT !["claude-desktop"] = mem[p].file]
  /\ trigger' = (trigger \/ tools["claude-desktop"] # mem[p].file)
  /\ \/ Goto(p, "save", mem[p])
     \/ "tool" \in Faults /\ NextTool(p)

WriteTool(p) ==
  /\ pc[p] = "write"
  /\ \/ CASE Tool1(p) = "claude-code" -> WriteClaude(p)
          [] Tool1(p) = "codex" -> WriteCodex(p)
          [] Tool1(p) = "claude-desktop" -> WriteDesktop(p)
     \/ "tool" \in Faults /\ NotWritten(p)
  /\ UNCHANGED <<config, seeded, device, verdicts, started, crossed>>

Save(p) ==
  /\ pc[p] = "save"
  /\ \/ Saved(mem[p].doc)
     \/ "save" \in Faults /\ UNCHANGED <<config, trigger>>
  /\ NextTool(p)
  /\ UNCHANGED <<seeded, tools, device, verdicts, started, crossed>>

-----------------------------------------------------------------------------
(* The setup wizard *)

\* The settings are read before the developer signs in, and saved after.
SetupLoad(p) ==
  /\ pc[p] = "setupLoad"
  /\ Load
  /\ Goto(p, IF mem[p].passed # NoKey THEN "setupCheck" ELSE "setupSignIn",
          [mem[p] EXCEPT !.doc = Loaded])
  /\ UNCHANGED <<seeded, tools, device, verdicts, started, crossed>>

\* A key to set up with, pasted or from the Gateway; without one it ends.
Provide(p, key) == IF key = NoKey THEN Finish(p)
                   ELSE Goto(p, "setupCheck", [mem[p] EXCEPT !.passed = key])

\* The wizard asks for a key, or opens the browser on a sign-in that the
\* Gateway started.
StartCliSso(p) ==
  /\ pc[p] = "setupSignIn"
  /\ \/ \E key \in MaybeKey : Provide(p, key)
     \/ Goto(p, "setupPoll", mem[p])
  /\ UNCHANGED <<config, seeded, tools, device, verdicts, trigger, started,
                 crossed>>

\* It asks every two seconds whether the developer is done: an answer brings a
\* key, or asks for a team, once; the time may be over before.
PollUntilReady(p) ==
  /\ \/ /\ pc[p] \in {"setupPoll", "setupPollTeam"}
        /\ \E key \in MaybeKey : Provide(p, key)
     \/ pc[p] = "setupPoll" /\ Goto(p, "setupTeam", mem[p])
  /\ UNCHANGED <<config, seeded, tools, device, verdicts, trigger, started,
                 crossed>>

\* The developer picks one of the teams, if the Gateway named any.
PromptTeamSelection(p) ==
  /\ pc[p] = "setupTeam"
  /\ Goto(p, "setupPollTeam", mem[p]) \/ Finish(p)
  /\ UNCHANGED <<config, seeded, tools, device, verdicts, trigger, started,
                 crossed>>

\* Only a key that is rejected ends the setup.
SetupCheck(p) ==
  LET m == mem[p] IN
  /\ pc[p] = "setupCheck"
  /\ \E check \in CheckOf(OnGateway(m.doc, m.cmd).url, m.passed) :
       IF check = "rejected" THEN Finish(p)
       ELSE Goto(p, "setupSave",
                 [m EXCEPT !.doc = [OnGateway(m.doc, m.cmd) EXCEPT
                                      !.apiKey = m.passed]])
  /\ UNCHANGED <<config, seeded, tools, device, verdicts, trigger, started,
                 crossed>>

SetupSave(p) ==
  /\ pc[p] = "setupSave"
  /\ \/ Saved(mem[p].doc) /\ Begin(p, Rerun({}))
     \/ /\ "save" \in Faults /\ UNCHANGED <<config, trigger>>
        /\ Finish(p)
  /\ UNCHANGED <<seeded, tools, device, verdicts, started, crossed>>

-----------------------------------------------------------------------------
(* A managed install: install.sh with a managed config *)

Copy(p) ==
  /\ pc[p] = "copy"
  /\ Goto(p, "overwrite", [mem[p] EXCEPT !.previous = config])
  /\ UNCHANGED <<config, seeded, tools, device, verdicts, trigger, started,
                 crossed>>

Overwrite(p) ==
  /\ pc[p] = "overwrite"
  /\ config' = Cmd(p).managed /\ trigger' = TRUE
  /\ Goto(p, IF mem[p].previous = Absent THEN "seed" ELSE "carry", mem[p])
  /\ UNCHANGED <<seeded, tools, device, verdicts, started, crossed>>

\* relay carry-selection, which works on what it finds config.yaml to be.
Carry(p) ==
  LET m == mem[p]
      old == ReadSettings(m.previous)
      seeds == {ReadSettings(s) : s \in seeded}
      carried == CarryingInstallPicks(Loaded, old, seeds)
      next == [m EXCEPT !.previous = old, !.read = Loaded, !.seen = seeds]
  IN /\ pc[p] = "carry"
     /\ IF carried = {}
        THEN Goto(p, "seed", [next EXCEPT !.doc = Loaded])
        ELSE \E doc \in carried : Goto(p, "carrySave", [next EXCEPT !.doc = doc])
     /\ UNCHANGED <<config, seeded, tools, device, verdicts, trigger, started,
                    crossed>>

\* A carry-selection that fails is only warned about.
CarrySave(p) ==
  /\ pc[p] = "carrySave"
  /\ \/ Saved(mem[p].doc)
     \/ "save" \in Faults /\ UNCHANGED <<config, trigger>>
  /\ Goto(p, "seed", mem[p])
  /\ UNCHANGED <<seeded, tools, device, verdicts, started, crossed>>

Seed(p) ==
  /\ pc[p] = "seed"
  /\ seeded' = {Cmd(p).managed}
  /\ Finish(p)
  /\ UNCHANGED <<config, tools, device, verdicts, trigger, started, crossed>>

-----------------------------------------------------------------------------
(* A switch by the daemon (Broker models what it does to the credential) *)

SwitchPatches(c, cmd) ==
  IF cmd.kind = "switch_team"
  THEN {TeamPatch(c, team) :
          team \in TeamsOf[Home[c.url]] \ {ManagedTeam(BrokerView(c))}}
  ELSE {EnvironmentPatch(c, e) :
          e \in {e \in EnvironmentNamed(c, cmd.name) :
                  e.name # CurrentName(c)}}

\* A device without an IdP has nothing to switch.
SwitchLoad(p) ==
  LET m == mem[p]
      c == Loaded
      patches == IF IsConfigured(c.idp) THEN SwitchPatches(c, m.cmd) ELSE {}
  IN /\ pc[p] = "switchLoad"
     /\ Load
     /\ IF patches = {} THEN Finish(p)
        ELSE \E patch \in patches :
               Goto(p, "switchSave", [m EXCEPT !.doc = Applied(patch, c),
                                               !.previous = c])
     /\ UNCHANGED <<seeded, tools, device, verdicts, started, crossed>>

SwitchSave(p) ==
  /\ pc[p] = "switchSave"
  /\ \/ Saved(mem[p].doc) /\ Goto(p, "switchIssue", mem[p])
     \/ /\ "save" \in Faults /\ UNCHANGED <<config, trigger>>
        /\ Finish(p)
  /\ UNCHANGED <<seeded, tools, device, verdicts, started, crossed>>

\* A switch that no credential could be issued for puts back what it
\* changed, in the document it finds.
SwitchIssue(p) ==
  LET old == mem[p].previous
      kind == IF Cmd(p).kind = "switch_team" THEN "team" ELSE "environment"
      restored == Applied(Previous(kind, old), Loaded)
  IN /\ pc[p] = "switchIssue"
     /\ \/ UNCHANGED <<config, trigger, crossed>>
        \/ /\ "refused" \in Faults
           /\ Saved(restored)
           /\ crossed' = (crossed \/ restored.url # old.url)
     /\ Finish(p)
     /\ UNCHANGED <<seeded, tools, device, verdicts, started>>

-----------------------------------------------------------------------------
(* Specification *)

Steps(p) ==
  \/ Fallback(p) \/ Gate(p) \/ Configure(p) \/ WriteTool(p) \/ Save(p)
  \/ SetupLoad(p) \/ StartCliSso(p) \/ PollUntilReady(p)
  \/ PromptTeamSelection(p) \/ SetupCheck(p) \/ SetupSave(p)
  \/ Copy(p) \/ Overwrite(p) \/ Carry(p) \/ CarrySave(p) \/ Seed(p)
  \/ SwitchLoad(p) \/ SwitchSave(p) \/ SwitchIssue(p)

Next ==
  \/ \E p \in Proc : Start(p)
  \/ Watch(Watcher)
  \/ \E p \in Process : Steps(p) \/ Crash(p)
  \/ \E url \in Gateway, key \in StaticKey : Revoke(url, key)

Spec == Init /\ [][Next]_vars

\* A process goes on, and launchd starts the watching daemon, at an interval if
\* nothing else does.
LiveSpec == /\ Spec
            /\ \A p \in Process : WF_vars(Steps(p))
            /\ WF_vars(Watch(Watcher))

-----------------------------------------------------------------------------
(* Properties *)

\* A document whose picked team, and whose parked teams, are of the
\* environment they were picked on.
StaysHome(c) ==
  /\ c.team \in TeamsOf[Home[c.url]] \cup {NoTeam}
  /\ \A n \in Name : c.parked[n] \in TeamsOf[n] \cup {NoTeam}

\* What the list of a document names, it names at its own URL.
HomeEntry == {e \in Entry : e.name = Home[e.url]}
AtHome(c) == StaysHome(c) /\ c.environments \in Seq(HomeEntry)

\* A document that says of a Gateway what is not so has picks that are nobody's:
\* the ones there are at first, and the ones an administrator manages, do not.
ASSUME HomeAssumption ==
  /\ \A u, v \in Gateway : Home[u] = Home[v] => u = v
  /\ \A c \in Installed \cup {cmd.managed : cmd \in Commands} :
       AtHome(ReadSettings(c))
  /\ \A c \in LegacyEnv \cup {Factory} : AtHome(c)

\* Whatever commands overlap, whichever of them are killed and whatever of
\* their saves fail, a team that was picked on one environment is never the
\* picked team of another (move_gateway_to parks it, carry-selection carries
\* it with its environment) -- but for the one way `crossed` records: a
\* refused team switch whose team is restored after another command moved the
\* device.
PicksStayHome == config = Absent \/ crossed \/ StaysHome(config)

\* The team of an environment: the picked one where the device is, the parked
\* one elsewhere.
TeamAt(c, n) == IF n = CurrentName(c) THEN c.team ELSE c.parked[n]

\* A team the developer picked: one that is not what the earlier install
\* left there.  Nobody knows who picked the current team of a device that has
\* no copy of an earlier install.
Picked(old, seeds, n) ==
  /\ TeamAt(old, n) # NoTeam
  /\ seeds = {} => n # CurrentName(old)
  /\ \A s \in seeds : n = CurrentName(s) => TeamAt(old, n) # s.team

Moved(old, seeds) == \A s \in seeds : CurrentName(old) # CurrentName(s)

\* What the document that is saved by carry-selection is to be, from what the
\* device had, what the earlier install had left, and the new managed config.
Kept(new, old, seeds, doc) ==
  LET picks == {n \in Name : Picked(old, seeds, n)}
      listed == {n \in Name : EnvironmentNamed(new, n) # {}}
  IN /\ [doc EXCEPT !.url = new.url, !.team = new.team, !.parked = new.parked]
        = new
     /\ CurrentName(old) \in listed =>
          /\ \A n \in picks \cap listed : TeamAt(doc, n) = TeamAt(old, n)
          /\ Moved(old, seeds) \/ CurrentName(old) \in picks =>
               CurrentName(doc) = CurrentName(old)
          /\ CurrentName(new) \notin picks /\ CurrentName(new) # NoName =>
               TeamAt(doc, CurrentName(new)) = new.team

\* A managed install keeps the environment and the teams the developer
\* picked, and nothing else of the old document; where nothing was picked the
\* new managed team applies (docs/mdm.md:36-44, carrying_install_picks).
InstallKeepsPicks ==
  \A p \in Process :
    (pc[p] = "carrySave" \/ (pc[p] = "seed" /\ mem[p].doc # None)) =>
      Kept(mem[p].read, mem[p].previous, mem[p].seen, mem[p].doc)

\* A pass of autoconfigure that was not told to use an environment variable
\* writes a static key into a tool's file only if the Gateway it is written for
\* accepted that key in this pass, whatever happens between its gate and its
\* writes -- unless config.yaml had another key, IdP, desktop sign-in or, where
\* the command names none, Gateway at one of the three times it is read: for
\* the key of last resort, for the gate, and for the tool
\* (apply_credential_fallback, credential_gate, resolve_credential).
VerifiedKeysOnly ==
  \A p \in Process :
    /\ pc[p] = "write"
    /\ mem[p].cmd.kind = "autoconfigure" /\ ~mem[p].cmd.env
    /\ mem[p].file.mode = "static_key"
    => \/ mem[p].verified = <<mem[p].file.key, mem[p].file.url>>
       \/ ~(mem[p].first = mem[p].seen /\ mem[p].seen = mem[p].read)

\* The daemon that watches config.yaml and Claude Desktop's directory writes to
\* both: each of its runs ends, and once the commands have ended, a run changes
\* nothing that would start another -- provided that no run goes on failing to
\* put a staged file in its place, which changes the directory every time
\* (replace_atomically).
WatchSettles ==
  <>[][~(pc[Watcher] = "write" /\ StagingFails(Watcher))]_vars =>
    /\ []<>(pc[Watcher] = "idle")
    /\ <>[](~Macos \/ ~trigger)
=============================================================================
