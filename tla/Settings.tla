------------------------------ MODULE Settings ------------------------------
(***************************************************************************)
(* The part of ~/.litellm-relay/config.yaml the credential broker reads:   *)
(* which identity provider or static key the device uses, which Gateway    *)
(* and team it is on, the environments a developer may move between with   *)
(* the team parked for each, and the programs that may ask for a           *)
(* credential.  The operators are the pure ones of src/config.rs           *)
(* (RelaySettings) and of src/broker/mod.rs (Mode, Target, GatewayPatch).  *)
(*                                                                         *)
(* URLs are compared by the code after trimming white space and a trailing *)
(* slash; a Gateway here is what is left after that.                       *)
(***************************************************************************)
EXTENDS Naturals, Sequences

CONSTANTS
  Gateway,      \* Gateway URLs
  Team,         \* team ids
  Name,         \* environment names
  Idp,          \* configured identity providers (an IdpSection)
  StaticKey,    \* values of gateway.api_key
  Caller,       \* programs that ask for a credential
  NoTeam, NoName, NoIdp, NoKey, Unconfigured

\* A device on no listed environment has a name of none.
ASSUME NameAssumption == NoName \notin Name

MaybeTeam == Team \cup {NoTeam}

\* The device's way to a credential: an IdP, a static key, or nothing.
Mode == Idp \cup StaticKey \cup {Unconfigured}

Entry == [name : Name, url : Gateway, team : MaybeTeam]

\* gateway.team_by_environment is `parked`; `tools` is claude.team, else
\* codex.team.
Setting ==
  [idp : Idp \cup {NoIdp}, apiKey : StaticKey \cup {NoKey},
   url : Gateway, team : MaybeTeam, parked : [Name -> MaybeTeam],
   environments : Seq(Entry), tools : MaybeTeam, callers : SUBSET Caller]

\* What the broker keeps of the settings it applied last.
TargetType ==
  [version : Nat, mode : Mode, url : Gateway, team : MaybeTeam,
   callers : SUBSET Caller]

-----------------------------------------------------------------------------
(* Environments *)

\* The first entry of the list with this URL, and the first with this name:
\* a set of at most one entry.
EnvironmentWithUrl(s, url) ==
  LET at == {i \in DOMAIN s.environments : s.environments[i].url = url} IN
  {s.environments[i] : i \in {i \in at : \A j \in at : i <= j}}

EnvironmentNamed(s, name) ==
  LET at == {i \in DOMAIN s.environments : s.environments[i].name = name} IN
  {s.environments[i] : i \in {i \in at : \A j \in at : i <= j}}

CurrentEnvironment(s) == EnvironmentWithUrl(s, s.url)

CurrentName(s) ==
  IF CurrentEnvironment(s) = {} THEN NoName
  ELSE (CHOOSE e \in CurrentEnvironment(s) : TRUE).name

\* The teams of claude.team and codex.team count only on the first
\* environment, or on a Gateway outside the list.
OnTheDefaultGateway(s) ==
  \A e \in CurrentEnvironment(s) : s.environments[1].name = e.name

\* The team keys are minted for: the picked one, else the environment's
\* default, else the tools'.
ManagedTeam(s) ==
  LET default == {e.team : e \in CurrentEnvironment(s)} \ {NoTeam} IN
  IF s.team # NoTeam THEN s.team
  ELSE IF default # {} THEN CHOOSE team \in default : TRUE
  ELSE IF OnTheDefaultGateway(s) THEN s.tools
  ELSE NoTeam

ModeOf(s) ==
  IF s.idp # NoIdp THEN s.idp
  ELSE IF s.apiKey # NoKey THEN s.apiKey
  ELSE Unconfigured

TargetOf(s, version) ==
  [version |-> version, mode |-> ModeOf(s), url |-> s.url,
   team |-> ManagedTeam(s), callers |-> s.callers]

\* A move between two Gateways of the new settings' list keeps the session.
BetweenEnvironments(s, from, to) ==
  EnvironmentWithUrl(s, from) # {} /\ EnvironmentWithUrl(s, to) # {}

-----------------------------------------------------------------------------
(* Switches: what a patch changes in the settings, and its inverse *)

Patch == [kind : {"team", "environment"}, url : Gateway, team : MaybeTeam,
          parked : [Name -> MaybeTeam]]

Applied(patch, s) ==
  IF patch.kind = "team"
  THEN [s EXCEPT !.team = patch.team]
  ELSE [s EXCEPT !.url = patch.url, !.team = patch.team,
                 !.parked = patch.parked]

\* The patch that puts the Gateway section of s back.
Previous(kind, s) ==
  [kind |-> kind, url |-> s.url, team |-> s.team, parked |-> s.parked]

TeamPatch(s, team) == [Previous("team", s) EXCEPT !.team = team]

\* Variant: the entry's name is written where its URL belongs.
EnvironmentPatchByName(s, entry) ==
  [kind |-> "environment", url |-> entry.name, team |-> s.parked[entry.name],
   parked |-> [n \in Name |->
                 IF n = CurrentName(s) /\ s.team # NoTeam THEN s.team
                 ELSE IF n = entry.name THEN NoTeam
                 ELSE s.parked[n]]]

\* The team picked on the environment being left is parked under its name;
\* the one parked for the environment being entered is taken out.
EnvironmentPatch(s, entry) ==
  LET leaving == CurrentName(s) IN
  [kind |-> "environment", url |-> entry.url, team |-> s.parked[entry.name],
   parked |-> [n \in Name |->
                 IF n = leaving /\ s.team # NoTeam THEN s.team
                 ELSE IF n = entry.name THEN NoTeam
                 ELSE s.parked[n]]]
=============================================================================
