------------------------------- MODULE Config -------------------------------
(***************************************************************************)
(* config.yaml as the commands read, change and save it (src/config.rs):   *)
(* the whole-document operations of RelaySettings.  A document adds to     *)
(* what the broker reads of the file (Settings) the sections that only the *)
(* commands look at.                                                       *)
(*                                                                         *)
(* A team name is never blank here, and a URL is what is left of it after  *)
(* white space and trailing slashes are taken off.                         *)
(***************************************************************************)
EXTENDS Settings

CONSTANTS
  NoUrl,        \* no URL
  NotAnEntry,   \* an item of `environments` that is not a mapping
  NotAList      \* `environments` that is not a list

ASSUME ConfigAssumption ==
  /\ NoUrl \notin Gateway /\ NoName \notin Name /\ NoTeam \notin Team
  /\ NoIdp \notin Idp /\ NoKey \notin StaticKey

MaybeUrl == Gateway \cup {NoUrl}
MaybeKey == StaticKey \cup {NoKey}

\* The two values an IdP needs (idp.issuer, idp.client_id), each of which may
\* be missing.  The overrides of a command and claude.desktop_sso are of the
\* same shape.
IdpSection == [issuer : Idp \cup {NoIdp}, client : Idp \cup {NoIdp}]
NoSection == [issuer |-> NoIdp, client |-> NoIdp]

Document ==
  [idp : IdpSection, apiKey : MaybeKey, url : Gateway, team : MaybeTeam,
   parked : [Name -> MaybeTeam], environments : Seq(Entry),
   claude : MaybeTeam, codex : MaybeTeam, sso : IdpSection]

\* What the file may hold: an item of the list may be no entry, or one without
\* a name or a URL, and the list may be none.
Slot == [name : Name \cup {NoName}, url : MaybeUrl, team : MaybeTeam]
        \cup {NotAnEntry}

RawDocument ==
  [idp : IdpSection, apiKey : MaybeKey, url : Gateway, team : MaybeTeam,
   parked : [Name -> MaybeTeam], environments : Seq(Slot) \cup {NotAList},
   claude : MaybeTeam, codex : MaybeTeam, sso : IdpSection]

-----------------------------------------------------------------------------
(* Reading *)

\* The wanted items of a list, in their order.
Sift(list, wanted) ==
  LET sifted[n \in 0 .. Len(list)] ==
        IF n = 0 THEN << >>
        ELSE IF list[n] \in wanted THEN Append(sifted[n - 1], list[n])
        ELSE sifted[n - 1]
  IN sifted[Len(list)]

Usable(slot) == slot # NotAnEntry /\ slot.name # NoName /\ slot.url # NoUrl

\* Malformed items are skipped one by one, anything but a list altogether.
EnvironmentsOf(list) ==
  IF list = NotAList THEN << >>
  ELSE Sift(list, {list[i] : i \in {i \in DOMAIN list : Usable(list[i])}})

ReadSettings(file) ==
  [file EXCEPT !.environments = EnvironmentsOf(@)]

\* What the daemon makes of the document.
IsConfigured(idp) == idp.issuer # NoIdp /\ idp.client # NoIdp

BrokerView(c) ==
  [idp |-> IF IsConfigured(c.idp) THEN c.idp.issuer ELSE NoIdp,
   apiKey |-> c.apiKey, url |-> c.url, team |-> c.team, parked |-> c.parked,
   environments |-> c.environments,
   tools |-> IF c.claude # NoTeam THEN c.claude ELSE c.codex, callers |-> {}]

-----------------------------------------------------------------------------
(* Changing *)

\* Variant: the team of the Gateway that is left stays the picked one.
MoveGatewayKeepingTeam(c, url) ==
  IF url = NoUrl THEN c ELSE [c EXCEPT !.url = url]

\* The team picked on the environment that is left is parked under its name,
\* the one parked for the environment that is entered is taken out.
MoveGatewayTo(c, url) ==
  LET left    == IF c.team = NoTeam THEN {}
                 ELSE {e.name : e \in CurrentEnvironment(c)}
      entered == {e.name : e \in EnvironmentWithUrl(c, url)}
  IN IF url = NoUrl \/ url = c.url THEN c
     ELSE [c EXCEPT
            !.url = url,
            !.team = IF entered = {} THEN NoTeam
                     ELSE c.parked[CHOOSE n \in entered : TRUE],
            !.parked = [n \in Name |-> IF n \in left THEN c.team
                                       ELSE IF n \in entered THEN NoTeam
                                       ELSE c.parked[n]]]

\* Only the overrides that were passed are applied.
ApplyIdp(idp, overrides) ==
  [issuer |-> IF overrides.issuer # NoIdp THEN overrides.issuer ELSE idp.issuer,
   client |-> IF overrides.client # NoIdp THEN overrides.client ELSE idp.client]

EnrollIfChanged(c, key) ==
  IF key = NoKey THEN c ELSE [c EXCEPT !.apiKey = key]

-----------------------------------------------------------------------------
(* Carrying the selection of the previous document into a new one: the     *)
(* set of the document that comes out, empty when nothing is carried.      *)

CarryingTeamOnTheSameGateway(new, previous) ==
  IF new.url # previous.url \/ previous.team = NoTeam THEN {}
  ELSE {[new EXCEPT !.team = previous.team]}

NothingParked == [n \in Name |-> NoTeam]

CarryingSelectionFrom(new, previous) ==
  LET parked == [n \in Name |->
        IF EnvironmentNamed(new, n) # {} THEN previous.parked[n] ELSE NoTeam]
      Carried(kept) ==
        LET default == CurrentEnvironment(new) = {kept} IN
        IF default /\ previous.team = NoTeam /\ parked = NothingParked THEN {}
        ELSE {[new EXCEPT
                !.url = kept.url,
                !.team = IF previous.team # NoTeam THEN previous.team
                         ELSE IF default THEN new.team ELSE NoTeam,
                !.parked = parked]}
  IN IF CurrentEnvironment(previous) = {}
     THEN CarryingTeamOnTheSameGateway(new, previous)
     ELSE UNION {Carried(kept) :
                   kept \in EnvironmentNamed(new, CurrentName(previous))}

OnTheGatewayOf(c, other) ==
  IF CurrentEnvironment(c) = {} /\ CurrentEnvironment(other) = {}
  THEN c.url = other.url
  ELSE CurrentName(c) = CurrentName(other)

\* Variant: every team of the document counts as picked.
EveryTeamIsPicked(c, seeded) == c

\* A team equal to the one the earlier install put there is not a pick.
WithoutSeededPicks(c, seeded) ==
  LET Seeded(name, team) == /\ seeded.team # NoTeam /\ team = seeded.team
                            /\ name = CurrentName(seeded)
  IN [c EXCEPT
       !.team = IF OnTheGatewayOf(c, seeded) /\ Seeded(CurrentName(c), @)
                THEN NoTeam ELSE @,
       !.parked = [n \in Name |-> IF Seeded(n, @[n]) THEN NoTeam ELSE @[n]]]

\* The managed team waits under the default environment's name while the
\* developer's pick keeps the device elsewhere.
ParkingTeam(c, name, team) ==
  IF \/ name = NoName \/ team = NoTeam \/ CurrentEnvironment(c) = {}
     \/ CurrentName(c) = name \/ c.parked[name] # NoTeam
  THEN c ELSE [c EXCEPT !.parked[name] = team]

CarryingPicksParkingTheManagedTeam(new, picks) ==
  {ParkingTeam(c, CurrentName(new), new.team) :
     c \in CarryingSelectionFrom(new, picks)}

CarryingPicksOver(new, previous, seeded) ==
  LET picks == WithoutSeededPicks(previous, seeded) IN
  IF /\ picks.team = NoTeam /\ picks.parked = NothingParked
     /\ OnTheGatewayOf(picks, seeded)
  THEN {} ELSE CarryingPicksParkingTheManagedTeam(new, picks)

\* `seeded` is the set of the copy of the last managed config, if there is one.
CarryingInstallPicks(new, previous, seeded) ==
  IF seeded = {}
  THEN CarryingPicksParkingTheManagedTeam(new, [previous EXCEPT !.team = NoTeam])
  ELSE UNION {CarryingPicksOver(new, previous, s) : s \in seeded}
=============================================================================
