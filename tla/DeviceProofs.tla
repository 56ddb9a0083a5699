---------------------------- MODULE DeviceProofs ----------------------------
(***************************************************************************)
(* What the commands that set a device up write, and what they keep, for   *)
(* any number of processes, commands, environments and teams, whichever of *)
(* them are killed and whatever fails.                                     *)
(*                                                                         *)
(* Four invariants, each kept by every step of a process for what it       *)
(* writes and what it remembers: the files hold documents (DeviceType); a  *)
(* pass of autoconfigure knows what the Gateway accepted (ChecksInv);      *)
(* picks are of their environments (PicksInv, under HomeAssumption); an    *)
(* install has kept what was picked (InstallsInv).  Before them come the   *)
(* lemmas about the operations on a document that the code has as pure     *)
(* functions.                                                              *)
(***************************************************************************)
EXTENDS Device, WellFoundedInduction, TLAPS

-----------------------------------------------------------------------------
(* Sift computes what it says, by the least number for which it would not     *)

LEMMA Least ==
  ASSUME NEW T, T \subseteq Nat, T # {}
  PROVE  \E n \in T : \A k \in T : ~(k < n)
  <1>1. \E x \in T : \A y \in T : ~ (<<y, x>> \in OpToRel(<, Nat))
    BY WFMin, NatLessThanWellFounded
  <1> QED
    BY <1>1 DEF OpToRel

\* What the recursive function of Sift is to satisfy, up to n.
Sifting(list, wanted, n, f) ==
  f = [i \in 0 .. n |->
         IF i = 0 THEN << >>
         ELSE IF list[i] \in wanted THEN Append(f[i - 1], list[i])
         ELSE f[i - 1]]

LEMMA SiftingExists ==
  ASSUME NEW list, NEW wanted, NEW n \in Nat
  PROVE  \E f : Sifting(list, wanted, n, f)
  <1> DEFINE T == {m \in Nat : ~ \E f : Sifting(list, wanted, m, f)}
  <1> SUFFICES ASSUME T # {} PROVE FALSE
    OBVIOUS
  <1>1. PICK m \in T : \A k \in T : ~(k < m)
    <2>1. T \subseteq Nat
      OBVIOUS
    <2> HIDE DEF T
    <2> QED
      BY <2>1, Least
  <1>2. m # 0
    <2>1. Sifting(list, wanted, 0, [i \in 0 .. 0 |-> << >>])
      BY DEF Sifting
    <2> QED
      BY <2>1
  <1>3. PICK g : Sifting(list, wanted, m - 1, g)
    BY <1>1, <1>2
  <1> DEFINE step(f, i) == IF list[i] \in wanted THEN Append(f[i - 1], list[i])
                           ELSE f[i - 1]
             h == [i \in 0 .. m |-> IF i < m THEN g[i] ELSE step(g, i)]
  <1>4. /\ m \in Nat /\ m # 0
        /\ \A i \in 0 .. m - 1 : g[i] = IF i = 0 THEN << >> ELSE step(g, i)
    BY <1>2, <1>3 DEF Sifting
  <1>5. \A i \in 0 .. m : h[i] = IF i = 0 THEN << >> ELSE step(h, i)
    <2> SUFFICES ASSUME NEW i \in 0 .. m
                 PROVE  h[i] = IF i = 0 THEN << >> ELSE step(h, i)
      OBVIOUS
    <2>1. i # 0 => i - 1 \in 0 .. m - 1 /\ h[i - 1] = g[i - 1]
      BY <1>4
    <2>2. i < m => h[i] = g[i] /\ i \in 0 .. m - 1
      BY <1>4
    <2>3. i = m => h[i] = step(g, i)
      BY <1>4
    <2> HIDE DEF h
    <2> QED
      BY <1>4, <2>1, <2>2, <2>3
  <1>6. Sifting(list, wanted, m, h)
    <2>1. h = [i \in 0 .. m |-> h[i]]
      OBVIOUS
    <2> HIDE DEF h
    <2> QED
      BY <1>5, <2>1 DEF Sifting
  <1> QED
    BY <1>6

\* Only items of the list that are wanted are left.
LEMMA SiftKeepsWanted ==
  ASSUME NEW S, NEW list \in Seq(S), NEW wanted
  PROVE  Sift(list, wanted) \in Seq(S \cap wanted)
  <1> DEFINE f == CHOOSE g : Sifting(list, wanted, Len(list), g)
  <1>1. Sift(list, wanted) = f[Len(list)]
    BY Zenon DEF Sift, Sifting
  <1>2. Sifting(list, wanted, Len(list), f)
    <2>1. Len(list) \in Nat
      OBVIOUS
    <2>2. \E g : Sifting(list, wanted, Len(list), g)
      BY <2>1, SiftingExists
    <2> QED
      BY <2>2
  <1> HIDE DEF f
  <1>3. \A i \in 0 .. Len(list) :
          f[i] = IF i = 0 THEN << >>
                 ELSE IF list[i] \in wanted THEN Append(f[i - 1], list[i])
                 ELSE f[i - 1]
    BY <1>2 DEF Sifting
  <1> DEFINE T == {n \in 0 .. Len(list) : f[n] \notin Seq(S \cap wanted)}
  <1>4. T = {}
    <2> SUFFICES ASSUME T # {} PROVE FALSE
      OBVIOUS
    <2>1. PICK m \in T : \A k \in T : ~(k < m)
      <3>1. T \subseteq Nat
        OBVIOUS
      <3> HIDE DEF T
      <3> QED
        BY <3>1, Least
    <2>2. m \in 1 .. Len(list)
      <3>1. f[0] = << >> /\ << >> \in Seq(S \cap wanted)
        BY <1>3
      <3>2. m \in 0 .. Len(list) /\ f[m] \notin Seq(S \cap wanted)
        OBVIOUS
      <3>3. Len(list) \in Nat
        OBVIOUS
      <3> HIDE DEF T
      <3>4. m # 0
        BY <3>1, <3>2, Zenon
      <3> QED
        BY <3>2, <3>3, <3>4
    <2>3. f[m - 1] \in Seq(S \cap wanted)
      BY <2>1, <2>2
    <2>4. list[m] \in S
      BY <2>2
    <2>5. f[m] \in Seq(S \cap wanted)
      <3>1. f[m] = IF list[m] \in wanted THEN Append(f[m - 1], list[m])
                   ELSE f[m - 1]
        BY <1>3, <2>2
      <3> QED
        BY <2>3, <2>4, <3>1
    <2> QED
      BY <2>5
  <1> QED
    BY <1>1, <1>4

-----------------------------------------------------------------------------
(* Documents *)

LEMMA DocumentsCanBeRead == Document \subseteq RawDocument
  <1>1. Entry \subseteq Slot
    BY DEF Entry, Slot, MaybeUrl
  <1>2. Seq(Entry) \subseteq Seq(Slot)
    BY <1>1
  <1> QED
    BY <1>2 DEF Document, RawDocument

\* Reading leaves the entries that can be used.
LEMMA ListsAreRead ==
  ASSUME NEW list \in Seq(Slot) \cup {NotAList}
  PROVE  EnvironmentsOf(list) \in Seq(Entry)
  <1>1. CASE list = NotAList
    BY <1>1 DEF EnvironmentsOf
  <1>2. CASE list # NotAList
    <2> DEFINE usable == {list[i] : i \in {i \in DOMAIN list : Usable(list[i])}}
    <2>1. EnvironmentsOf(list) \in Seq(Slot \cap usable)
      <3>1. EnvironmentsOf(list) = Sift(list, usable)
        BY <1>2 DEF EnvironmentsOf
      <3>2. list \in Seq(Slot)
        BY <1>2
      <3> HIDE DEF usable
      <3> QED
        BY <3>1, <3>2, SiftKeepsWanted
    <2>2. Slot \cap usable \subseteq Entry
      BY DEF Slot, Entry, Usable, MaybeUrl
    <2> HIDE DEF usable
    <2> QED
      BY <2>1, <2>2
  <1> QED
    BY <1>1, <1>2

LEMMA DocumentsAreRead ==
  ASSUME NEW file \in RawDocument
  PROVE  ReadSettings(file) \in Document
  <1>1. file.environments \in Seq(Slot) \cup {NotAList}
    BY DEF RawDocument
  <1>2. EnvironmentsOf(file.environments) \in Seq(Entry)
    BY <1>1, ListsAreRead
  <1>3. ReadSettings(file) = [file EXCEPT !.environments =
                                EnvironmentsOf(file.environments)]
    BY DEF ReadSettings, RawDocument
  <1> QED
    BY <1>2, <1>3 DEF RawDocument, Document

LEMMA LoadedIsDocument ==
  ASSUME config # Absent => config \in RawDocument
  PROVE  Loaded \in Document
  <1>1. LegacyEnv # {} => (CHOOSE d \in LegacyEnv : TRUE) \in Document
    BY DeviceAssumption
  <1> QED
    BY <1>1, DocumentsAreRead, DeviceAssumption DEF Loaded

\* The environments of a document are entries.
LEMMA EnvironmentsAreEntries ==
  ASSUME NEW c \in Document, NEW url, NEW name
  PROVE  /\ \A e \in EnvironmentWithUrl(c, url) : e \in Entry /\ e.url = url
         /\ \A e \in EnvironmentNamed(c, name) : e \in Entry /\ e.name = name
  <1>1. c.environments \in Seq(Entry)
    BY DEF Document
  <1> QED
    BY <1>1 DEF EnvironmentWithUrl, EnvironmentNamed

LEMMA MovesAreDocuments ==
  ASSUME NEW c \in Document, NEW url \in MaybeUrl
  PROVE  MoveGatewayTo(c, url) \in Document
  <1> DEFINE entered == {e.name : e \in EnvironmentWithUrl(c, url)}
             left == IF c.team = NoTeam THEN {}
                     ELSE {e.name : e \in CurrentEnvironment(c)}
             team == IF entered = {} THEN NoTeam
                     ELSE c.parked[CHOOSE n \in entered : TRUE]
             parked == [n \in Name |-> IF n \in left THEN c.team
                                       ELSE IF n \in entered THEN NoTeam
                                       ELSE c.parked[n]]
  <1>1. CASE url = NoUrl \/ url = c.url
    BY <1>1 DEF MoveGatewayTo
  <1>2. CASE ~(url = NoUrl \/ url = c.url)
    <2>1. entered \subseteq Name
      BY EnvironmentsAreEntries DEF Entry
    <2>2. c.team \in MaybeTeam /\ c.parked \in [Name -> MaybeTeam]
      BY DEF Document
    <2>3. team \in MaybeTeam
      <3>1. entered # {} => (CHOOSE n \in entered : TRUE) \in Name
        BY <2>1
      <3> HIDE DEF entered
      <3> QED
        BY <2>2, <3>1 DEF MaybeTeam
    <2>4. parked \in [Name -> MaybeTeam]
      <3> HIDE DEF entered, left
      <3> QED
        BY <2>2 DEF MaybeTeam
    <2>5. MoveGatewayTo(c, url)
            = [c EXCEPT !.url = url, !.team = team, !.parked = parked]
      BY <1>2, Zenon DEF MoveGatewayTo
    <2>6. url \in Gateway
      BY <1>2 DEF MaybeUrl
    <2> HIDE DEF team, parked
    <2> QED
      BY <2>3, <2>4, <2>5, <2>6 DEF Document
  <1> QED
    BY <1>1, <1>2

LEMMA IdpsAreSections ==
  ASSUME NEW idp \in IdpSection, NEW overrides \in IdpSection
  PROVE  ApplyIdp(idp, overrides) \in IdpSection
  BY DEF ApplyIdp, IdpSection

LEMMA PicksAreTeams ==
  ASSUME NEW c \in Document, NEW cmd \in Command
  PROVE  Picks(c, cmd) \subseteq MaybeTeam
  <1>1. OnGateway(c, cmd) \in Document
    BY MovesAreDocuments DEF OnGateway, Command
  <1>2. OnGateway(c, cmd).url \in Gateway
    BY <1>1 DEF Document
  <1> QED
    BY <1>2, DeviceAssumption DEF Picks, MaybeTeam

\* What an onboarding makes of a document is one, whichever the tool.
LEMMA OnboardingsAreDocuments ==
  ASSUME NEW c \in Document, NEW cmd \in Command, NEW team \in MaybeTeam,
         NEW key \in MaybeKey, NEW tool \in Tool
  PROVE  DocumentFor(tool, c, cmd, team, key) \in Document
  <1>1. OnGateway(c, cmd) \in Document /\ cmd.idp \in IdpSection
    BY MovesAreDocuments DEF OnGateway, Command
  <1> DEFINE moved == [OnGateway(c, cmd) EXCEPT !.idp = ApplyIdp(@, cmd.idp)]
  <1>2. moved \in Document
    <2>1. OnGateway(c, cmd).idp \in IdpSection
      BY <1>1 DEF Document
    <2>2. ApplyIdp(OnGateway(c, cmd).idp, cmd.idp) \in IdpSection
      BY <1>1, <2>1, IdpsAreSections
    <2> QED
      BY <1>1, <2>2 DEF Document
  <1>3. \A d \in Document : KeepKeyForBroker(d, key) \in Document
    BY DEF KeepKeyForBroker, EnrollIfChanged, Document
  <1>4. CASE tool = "claude-code"
    <2>1. ClaudeDocument(c, cmd, team, key) \in Document
      <3>1. (IF team = NoTeam THEN moved
             ELSE [moved EXCEPT !.claude = team, !.team = team]) \in Document
        BY <1>2 DEF Document
      <3> QED
        BY <1>3, <3>1 DEF ClaudeDocument
    <2> QED
      BY <1>4, <2>1 DEF DocumentFor
  <1>5. CASE tool = "codex"
    <2>1. CodexDocument(c, cmd, team, key) \in Document
      <3>1. (IF team = NoTeam THEN moved
             ELSE [moved EXCEPT !.codex = team, !.team = team]) \in Document
        BY <1>2 DEF Document
      <3> QED
        BY <1>3, <3>1 DEF CodexDocument
    <2> QED
      BY <1>5, <2>1 DEF DocumentFor
  <1>6. CASE tool = "claude-desktop"
    <2> DEFINE enrolled == EnrollIfChanged(OnGateway(c, cmd), key)
               named == IF team = NoTeam THEN enrolled
                        ELSE [enrolled EXCEPT !.claude = team, !.team = team]
    <2>1. enrolled \in Document
      BY <1>1 DEF EnrollIfChanged, Document
    <2> HIDE DEF enrolled
    <2>2. named \in Document
      BY <2>1 DEF Document
    <2>3. DesktopSso(c, cmd) \in IdpSection
      BY <1>1 DEF DesktopSso, Document, NoSection, IdpSection
    <2> HIDE DEF named
    <2>4. [named EXCEPT !.sso = DesktopSso(c, cmd)] \in Document
      BY <2>2, <2>3 DEF Document
    <2>5. DesktopDocument(c, cmd, team, key) \in Document
      BY <2>4, Zenon DEF DesktopDocument, named, enrolled
    <2> QED
      BY <1>6, <2>5 DEF DocumentFor
  <1> QED
    BY <1>4, <1>5, <1>6 DEF Tool

\* So are what the daemon's switches make of it,
LEMMA SwitchesAreDocuments ==
  ASSUME NEW c \in Document, NEW cmd \in Command,
         NEW patch \in SwitchPatches(c, cmd)
  PROVE  Applied(patch, c) \in Document
  <1>1. /\ c.url \in Gateway /\ c.team \in MaybeTeam
        /\ c.parked \in [Name -> MaybeTeam]
    BY DEF Document
  <1>2. CASE cmd.kind = "switch_team"
    <2>1. PICK team \in TeamsOf[Home[c.url]] : patch = TeamPatch(c, team)
      BY <1>2 DEF SwitchPatches
    <2>2. team \in MaybeTeam
      BY <1>1, <2>1, DeviceAssumption DEF MaybeTeam
    <2>3. Applied(patch, c) = [c EXCEPT !.team = team]
      BY <2>1 DEF TeamPatch, Previous, Applied
    <2> QED
      BY <2>2, <2>3 DEF Document
  <1>3. CASE cmd.kind # "switch_team"
    <2>1. PICK e \in EnvironmentNamed(c, cmd.name) : patch = EnvironmentPatch(c, e)
      BY <1>3 DEF SwitchPatches
    <2>2. e.url \in Gateway /\ e.name \in Name
      BY EnvironmentsAreEntries DEF Entry
    <2>3. /\ patch.kind = "environment" /\ patch.url = e.url
          /\ patch.team = c.parked[e.name]
          /\ patch.parked \in [Name -> MaybeTeam]
      BY <1>1, <2>1 DEF EnvironmentPatch, MaybeTeam
    <2>4. Applied(patch, c) = [c EXCEPT !.url = patch.url, !.team = patch.team,
                                        !.parked = patch.parked]
      BY <2>3 DEF Applied
    <2> QED
      BY <1>1, <2>2, <2>3, <2>4 DEF Document
  <1> QED
    BY <1>2, <1>3

LEMMA UndoneAreDocuments ==
  ASSUME NEW c \in Document, NEW old \in Document, NEW kind \in {"team", "environment"}
  PROVE  Applied(Previous(kind, old), c) \in Document
  BY DEF Applied, Previous, Document

\* and what carry-selection saves.
LEMMA CarriedAreDocuments ==
  ASSUME NEW new \in Document, NEW previous \in Document
  PROVE  /\ CarryingSelectionFrom(new, previous) \subseteq Document
         /\ CarryingPicksParkingTheManagedTeam(new, previous) \subseteq Document
  <1> DEFINE parked == [n \in Name |->
               IF EnvironmentNamed(new, n) # {} THEN previous.parked[n] ELSE NoTeam]
             Carry1(kept, team) == [new EXCEPT !.url = kept.url, !.team = team,
                                               !.parked = parked]
  <1>1. ASSUME NEW doc \in CarryingSelectionFrom(new, previous)
        PROVE  doc \in Document
    <2>1. CASE CurrentEnvironment(previous) = {}
      <3>1. doc = [new EXCEPT !.team = previous.team]
        BY <1>1, <2>1 DEF CarryingSelectionFrom, CarryingTeamOnTheSameGateway
      <3> QED
        BY <3>1 DEF Document
    <2>2. CASE CurrentEnvironment(previous) # {}
      <3>1. PICK kept \in EnvironmentNamed(new, CurrentName(previous)) :
              \/ doc = Carry1(kept, previous.team)
              \/ doc = Carry1(kept, new.team)
              \/ doc = Carry1(kept, NoTeam)
        BY <1>1, <2>2 DEF CarryingSelectionFrom
      <3>2. kept.url \in Gateway
        BY EnvironmentsAreEntries DEF Entry
      <3>3. parked \in [Name -> MaybeTeam]
        BY DEF Document, MaybeTeam
      <3> HIDE DEF parked
      <3>4. \A team \in MaybeTeam : Carry1(kept, team) \in Document
        BY <3>2, <3>3 DEF Document
      <3>5. {previous.team, new.team, NoTeam} \subseteq MaybeTeam
        BY DEF Document, MaybeTeam
      <3> HIDE DEF Carry1
      <3> QED
        BY <3>1, <3>4, <3>5
    <2> QED
      BY <2>1, <2>2
  <1>2. ASSUME NEW c \in Document
        PROVE  ParkingTeam(c, CurrentName(new), new.team) \in Document
    <2>1. new.team \in MaybeTeam
      BY DEF Document
    <2> QED
      BY <2>1 DEF ParkingTeam, Document
  <1> QED
    BY <1>1, <1>2 DEF CarryingPicksParkingTheManagedTeam

LEMMA PicksAreDocuments ==
  ASSUME NEW c \in Document, NEW seeds
  PROVE  /\ WithoutSeededPicks(c, seeds) \in Document
         /\ [c EXCEPT !.team = NoTeam] \in Document
  <1>1. /\ c.team \in MaybeTeam /\ c.parked \in [Name -> MaybeTeam]
        /\ NoTeam \in MaybeTeam
    BY DEF Document, MaybeTeam
  <1>2. PICK team \in MaybeTeam, parked \in [Name -> MaybeTeam] :
          WithoutSeededPicks(c, seeds)
            = [c EXCEPT !.team = team, !.parked = parked]
    <2> DEFINE Seeded(name, team) ==
                 /\ seeds.team # NoTeam /\ team = seeds.team
                 /\ name = CurrentName(seeds)
               team == IF OnTheGatewayOf(c, seeds) /\ Seeded(CurrentName(c), c.team)
                       THEN NoTeam ELSE c.team
               parked == [n \in Name |-> IF Seeded(n, c.parked[n]) THEN NoTeam
                                         ELSE c.parked[n]]
    <2>1. WithoutSeededPicks(c, seeds)
            = [c EXCEPT !.team = team, !.parked = parked]
      BY DEF WithoutSeededPicks, Document
    <2>2. team \in MaybeTeam /\ parked \in [Name -> MaybeTeam]
      <3> HIDE DEF Seeded
      <3> QED
        BY <1>1
    <2> HIDE DEF team, parked
    <2> QED
      BY <2>1, <2>2
  <1> QED
    BY <1>1, <1>2 DEF Document

LEMMA InstallsAreDocuments ==
  ASSUME NEW new \in Document, NEW previous \in Document, NEW seeds
  PROVE  CarryingInstallPicks(new, previous, seeds) \subseteq Document
  <1>1. \A s : CarryingPicksOver(new, previous, s) \subseteq Document
    BY CarriedAreDocuments, PicksAreDocuments DEF CarryingPicksOver
  <1> QED
    BY <1>1, CarriedAreDocuments, PicksAreDocuments DEF CarryingInstallPicks

-----------------------------------------------------------------------------
(* Types *)

MemoryField == {"cmd", "todo", "doc", "file", "passed", "refused", "verified",
                "first", "seen", "read", "previous"}

Shape ==
  /\ pc = [p \in Process |-> pc[p]] /\ mem = [p \in Process |-> mem[p]]
  /\ \A p \in Process : DOMAIN mem[p] = MemoryField

Setup == {"setupSignIn", "setupPoll", "setupTeam", "setupPollTeam",
          "setupCheck", "setupSave"}

\* What a process that is at this label has in its memory.
Holds(label, m) ==
  /\ label # "idle" => m.cmd \in Command /\ m.passed \in MaybeKey
  /\ label \in {"gate", "configure", "write", "save"} =>
       /\ m.todo \in Seq(Tool) /\ m.todo # << >>
       /\ m.cmd.kind \in {"onboard", "autoconfigure"}
  /\ label \in {"fallback", "gate"} => m.cmd.kind = "autoconfigure"
  /\ label \in Setup \cup {"write", "save", "carrySave", "switchSave"} =>
       m.doc \in Document
  /\ label \in {"overwrite", "carry"} /\ m.previous # Absent =>
       m.previous \in RawDocument
  /\ label = "carry" => m.previous # Absent
  /\ label \in {"switchSave", "switchIssue"} => m.previous \in Document

FilesTyped ==
  /\ config # Absent => config \in RawDocument
  /\ seeded \subseteq RawDocument

DeviceType == Shape /\ FilesTyped /\ \A p \in Process : Holds(pc[p], mem[p])

\* A step of a process is its own.
LEMMA Going ==
  ASSUME Shape, NEW p \in Process, NEW label, NEW m, Goto(p, label, m),
         DOMAIN m = MemoryField
  PROVE  /\ Shape' /\ pc'[p] = label /\ mem'[p] = m
         /\ \A q \in Process \ {p} : pc'[q] = pc[q] /\ mem'[q] = mem[q]
  BY DEF Shape, Goto

LEMMA IdleIsMemory == DOMAIN Idle = MemoryField
  BY DEF Idle, MemoryField

\* Whoever ends, or begins, holds what it needs.
LEMMA IdleHolds == Holds("idle", Idle)
  BY DEF Holds, Setup

LEMMA RerunsAreCommands ==
  ASSUME NEW only \in SUBSET Tool
  PROVE  Rerun(only) \in Command
  <1>1. Factory \in RawDocument
    BY DeviceAssumption, DocumentsCanBeRead
  <1>2. NoSection \in IdpSection
    BY DEF NoSection, IdpSection
  <1> QED
    BY <1>1, <1>2 DEF Rerun, Command, MaybeUrl, MaybeKey, Tool

BeginMemory(cmd) ==
  [Idle EXCEPT !.cmd = cmd, !.passed = cmd.key, !.todo = <<cmd.tool>>]

LEMMA BeginHolds ==
  ASSUME NEW cmd \in Command
  PROVE  /\ Holds(FirstStep[cmd.kind], BeginMemory(cmd))
         /\ DOMAIN BeginMemory(cmd) = MemoryField
  <1>1. DOMAIN BeginMemory(cmd) = MemoryField
    BY DEF BeginMemory, Idle, MemoryField
  <1>2. /\ BeginMemory(cmd).cmd = cmd /\ BeginMemory(cmd).passed = cmd.key
        /\ BeginMemory(cmd).todo = <<cmd.tool>>
    BY DEF BeginMemory, Idle
  <1>3. cmd.tool \in Tool /\ cmd.key \in MaybeKey
    BY DEF Command
  <1>4. <<cmd.tool>> \in Seq(Tool) /\ <<cmd.tool>> # << >>
    BY <1>3
  <1>5. \/ FirstStep[cmd.kind] = "configure" /\ cmd.kind = "onboard"
        \/ FirstStep[cmd.kind] = "fallback" /\ cmd.kind = "autoconfigure"
        \/ FirstStep[cmd.kind] \in {"setupLoad", "copy", "switchLoad"}
    BY DEF FirstStep, Command
  <1> QED
    BY <1>1, <1>2, <1>3, <1>4, <1>5 DEF Holds, Setup

\* On to the next tool, or to the end.
LEMMA NextToolHolds ==
  ASSUME Shape, NEW p \in Process, NextTool(p), mem[p].cmd \in Command,
         mem[p].passed \in MaybeKey, mem[p].todo \in Seq(Tool),
         mem[p].todo # << >>, mem[p].cmd.kind \in {"onboard", "autoconfigure"}
  PROVE  /\ Shape' /\ Holds(pc'[p], mem'[p])
         /\ \A q \in Process \ {p} : pc'[q] = pc[q] /\ mem'[q] = mem[q]
  <1>1. CASE Finish(p)
    BY <1>1, Going, IdleHolds, IdleIsMemory DEF Finish
  <1>2. CASE ~Finish(p)
    <2> DEFINE m == [mem[p] EXCEPT !.todo = Tail(mem[p].todo), !.doc = None,
                                   !.file = None, !.read = None]
    <2>1. Goto(p, "configure", m) /\ Tail(mem[p].todo) # << >>
      BY <1>2 DEF NextTool
    <2>2. DOMAIN m = MemoryField
      BY DEF Shape
    <2>3. /\ m.cmd = mem[p].cmd /\ m.passed = mem[p].passed
          /\ m.todo = Tail(mem[p].todo)
      BY DEF Shape, MemoryField
    <2>4. m.todo \in Seq(Tool) /\ m.todo # << >>
      BY <2>1, <2>3
    <2> HIDE DEF m
    <2>5. Holds("configure", m)
      BY <2>3, <2>4 DEF Holds, Setup
    <2> QED
      BY <2>1, <2>2, <2>5, Going
  <1> QED
    BY <1>1, <1>2

\* Whatever a command reads or saves leaves a document in the file.
LEMMA FilesStayTyped ==
  ASSUME FilesTyped, seeded' = seeded,
         \/ Load \/ UNCHANGED config \/ \E doc \in Document : Saved(doc)
  PROVE  FilesTyped'
  <1>1. Loaded \in Document
    BY LoadedIsDocument DEF FilesTyped
  <1>2. config' = config \/ config' \in Document
    BY <1>1 DEF Load, Saved
  <1> QED
    BY <1>2, DocumentsCanBeRead DEF FilesTyped

\* The steps of a process keep the types of the files, and its own.
Keeps(p) ==
  /\ Shape' /\ FilesTyped' /\ Holds(pc'[p], mem'[p])
  /\ \A q \in Process \ {p} : pc'[q] = pc[q] /\ mem'[q] = mem[q]

\* One that ends,
LEMMA FinishKeeps ==
  ASSUME DeviceType, NEW p \in Process, Finish(p), FilesTyped'
  PROVE  Keeps(p)
  BY Going, IdleHolds, IdleIsMemory DEF Finish, Keeps, DeviceType

\* one that goes on to another label with what it has to hold there.
LEMMA GoingKeeps ==
  ASSUME DeviceType, NEW p \in Process, NEW label, NEW m, Goto(p, label, m),
         DOMAIN m = MemoryField, Holds(label, m), FilesTyped'
  PROVE  Keeps(p)
  BY Going DEF Keeps, DeviceType

LEMMA SiftedTools == \A only : Detected(only) \in Seq(Tool)
  <1>1. AllTools \in Seq(Tool)
    BY DEF AllTools, Tool
  <1> SUFFICES ASSUME NEW only PROVE Detected(only) \in Seq(Tool)
    OBVIOUS
  <1> DEFINE wanted == {t \in Tool : Detect(t) /\ (only = {} \/ t \in only)}
  <1>2. Sift(AllTools, wanted) \in Seq(Tool \cap wanted)
    <2> HIDE DEF wanted
    <2> QED
      BY <1>1, SiftKeepsWanted
  <1>3. Tool \cap wanted \subseteq Tool
    OBVIOUS
  <1>4. Detected(only) = Sift(AllTools, wanted)
    BY DEF Detected
  <1> HIDE DEF wanted
  <1> QED
    BY <1>2, <1>3, <1>4

LEMMA FallbackKeeps ==
  ASSUME DeviceType, NEW p \in Process, Fallback(p)
  PROVE  Keeps(p)
  <1>1. FilesTyped'
    BY FilesStayTyped DEF Fallback, DeviceType
  <1>2. CASE Finish(p)
    BY <1>1, <1>2, FinishKeeps
  <1>3. CASE ~Finish(p)
    <2> DEFINE cmd == Cmd(p)
               todo == Detected(cmd.only)
               passed == IF cmd.key # NoKey \/ cmd.env THEN cmd.key
                         ELSE SavedKeyFallback(cmd.idp, Loaded)
               m == [mem[p] EXCEPT !.todo = todo, !.passed = passed,
                                   !.first = Read(Loaded, cmd)]
    <2>1. Goto(p, "gate", m) /\ todo # << >>
      BY <1>3 DEF Fallback
    <2>2. cmd \in Command /\ DOMAIN mem[p] = MemoryField
      BY DEF DeviceType, Shape, Holds, Fallback, Cmd
    <2>3. passed \in MaybeKey
      <3>1. Loaded.apiKey \in MaybeKey
        BY LoadedIsDocument DEF DeviceType, FilesTyped, Document
      <3>2. cmd.key \in MaybeKey /\ NoKey \in MaybeKey
        BY <2>2 DEF Command, MaybeKey
      <3> QED
        BY <3>1, <3>2 DEF SavedKeyFallback
    <2>4. todo \in Seq(Tool)
      BY SiftedTools
    <2>5. DOMAIN m = MemoryField /\ m.cmd = cmd /\ m.todo = todo /\ m.passed = passed
      BY <2>2 DEF MemoryField, Cmd
    <2>6. cmd.kind = "autoconfigure"
      BY DEF DeviceType, Holds, Fallback, Cmd
    <2> HIDE DEF m, todo, passed, cmd
    <2>7. Holds("gate", m)
      BY <2>1, <2>2, <2>3, <2>4, <2>5, <2>6 DEF Holds, Setup
    <2> QED
      BY <1>1, <2>1, <2>5, <2>7, GoingKeeps
  <1> QED
    BY <1>2, <1>3

LEMMA GateKeeps ==
  ASSUME DeviceType, NEW p \in Process, Gate(p)
  PROVE  Keeps(p)
  <1>1. FilesTyped'
    BY FilesStayTyped DEF Gate, DeviceType
  <1>2. CASE Finish(p)
    BY <1>1, <1>2, FinishKeeps
  <1>3. CASE ~Finish(p)
    <2> DEFINE m == [mem[p] EXCEPT !.seen = Read(Loaded, Cmd(p))]
    <2>1. DOMAIN mem[p] = MemoryField
      BY DEF DeviceType, Shape
    <2>2. PICK r : /\ Goto(p, "configure", r) /\ DOMAIN r = MemoryField
                   /\ r.cmd = mem[p].cmd /\ r.passed = mem[p].passed
                   /\ r.todo = mem[p].todo
      <3>1. \/ Goto(p, "configure", m)
            \/ \E asked : Goto(p, "configure", [m EXCEPT !.verified = asked])
            \/ Goto(p, "configure", [m EXCEPT !.refused = TRUE])
        BY <1>3 DEF Gate
      <3> DEFINE Same(r) == /\ DOMAIN r = MemoryField
                            /\ r.cmd = mem[p].cmd /\ r.passed = mem[p].passed
                            /\ r.todo = mem[p].todo
      <3>2. Same(m)
        BY <2>1 DEF MemoryField
      <3> HIDE DEF m
      <3>3. /\ \A asked : Same([m EXCEPT !.verified = asked])
            /\ Same([m EXCEPT !.refused = TRUE])
        BY <3>2 DEF MemoryField
      <3> HIDE DEF Same
      <3>4. \E r : Goto(p, "configure", r) /\ Same(r)
        BY <3>1, <3>2, <3>3
      <3> QED
        BY <3>4 DEF Same
    <2>3. Holds("gate", mem[p])
      BY DEF Gate, DeviceType
    <2>4. Holds("configure", r)
      BY <2>2, <2>3 DEF Holds, Setup
    <2> QED
      BY <1>1, <2>2, <2>4, GoingKeeps
  <1> QED
    BY <1>2, <1>3

LEMMA ConfigureKeeps ==
  ASSUME DeviceType, NEW p \in Process, Configure(p)
  PROVE  Keeps(p)
  <1>1. FilesTyped'
    BY FilesStayTyped DEF Configure, DeviceType
  <1>2. Holds("configure", mem[p]) /\ DOMAIN mem[p] = MemoryField
    BY DEF Configure, DeviceType, Shape
  <1>3. CASE NextTool(p)
    BY <1>1, <1>2, <1>3, NextToolHolds DEF Keeps, Holds, DeviceType
  <1>4. CASE ~NextTool(p)
    <2>1. PICK team \in Picks(Loaded, mem[p].cmd) : \E file :
            Goto(p, "write",
              [mem[p] EXCEPT !.doc = DocumentFor(Tool1(p), Loaded, mem[p].cmd,
                                                 team, mem[p].passed),
                             !.file = file, !.read = Read(Loaded, mem[p].cmd)])
      BY <1>4 DEF Configure
    <2>2. PICK file :
            Goto(p, "write",
              [mem[p] EXCEPT !.doc = DocumentFor(Tool1(p), Loaded, mem[p].cmd,
                                                 team, mem[p].passed),
                             !.file = file, !.read = Read(Loaded, mem[p].cmd)])
      BY <2>1
    <2> DEFINE doc == DocumentFor(Tool1(p), Loaded, mem[p].cmd, team, mem[p].passed)
               m == [mem[p] EXCEPT !.doc = doc, !.file = file, !.read = Read(Loaded, mem[p].cmd)]
    <2>3. doc \in Document
      <3>1. Loaded \in Document
        BY LoadedIsDocument DEF DeviceType, FilesTyped
      <3>2. mem[p].cmd \in Command /\ mem[p].passed \in MaybeKey
        BY <1>2 DEF Holds
      <3>3. Tool1(p) \in Tool
        BY <1>2 DEF Holds, Tool1
      <3>4. team \in MaybeTeam
        BY <3>1, <3>2, PicksAreTeams
      <3> QED
        BY <3>1, <3>2, <3>3, <3>4, OnboardingsAreDocuments
    <2> HIDE DEF doc
    <2>4. /\ DOMAIN m = MemoryField /\ m.cmd = mem[p].cmd /\ m.doc = doc
          /\ m.passed = mem[p].passed /\ m.todo = mem[p].todo
      BY <1>2 DEF MemoryField
    <2>5. Goto(p, "write", m)
      BY <2>2 DEF doc
    <2> HIDE DEF m
    <2>6. Holds("write", m)
      BY <1>2, <2>3, <2>4 DEF Holds, Setup
    <2> QED
      BY <1>1, <2>4, <2>5, <2>6, GoingKeeps
  <1> QED
    BY <1>3, <1>4

LEMMA WriteToolKeeps ==
  ASSUME DeviceType, NEW p \in Process, WriteTool(p)
  PROVE  Keeps(p)
  <1>1. FilesTyped'
    BY DEF WriteTool, DeviceType, FilesTyped
  <1>2. Holds("write", mem[p]) /\ DOMAIN mem[p] = MemoryField
    BY DEF WriteTool, DeviceType, Shape
  <1>3. CASE NextTool(p)
    BY <1>1, <1>2, <1>3, NextToolHolds DEF Keeps, Holds, DeviceType
  <1>4. CASE Goto(p, "save", mem[p])
    <2>1. Holds("save", mem[p])
      BY <1>2 DEF Holds, Setup
    <2> QED
      BY <1>1, <1>2, <1>4, <2>1, GoingKeeps
  <1>5. Tool1(p) \in Tool
    BY <1>2 DEF Holds, Tool1
  <1> QED
    BY <1>3, <1>4, <1>5 DEF WriteTool, WriteClaude, WriteCodex, WriteDesktop, Wrote,
       NotWritten, StagingFails, Tool

LEMMA SaveKeeps ==
  ASSUME DeviceType, NEW p \in Process, Save(p)
  PROVE  Keeps(p)
  <1>1. Holds("save", mem[p])
    BY DEF Save, DeviceType
  <1>2. FilesTyped'
    BY <1>1, FilesStayTyped DEF Save, DeviceType, Holds
  <1> QED
    BY <1>1, <1>2, NextToolHolds DEF Save, Keeps, Holds, DeviceType

\* The setup wizard.
LEMMA SetupKeeps ==
  ASSUME DeviceType, NEW p \in Process,
         \/ SetupLoad(p) \/ StartCliSso(p) \/ PollUntilReady(p)
         \/ PromptTeamSelection(p) \/ SetupCheck(p) \/ SetupSave(p)
  PROVE  Keeps(p)
  <1>1. /\ DOMAIN mem[p] = MemoryField /\ Holds(pc[p], mem[p])
        /\ FilesTyped
    BY DEF DeviceType, Shape
  <1>2. CASE SetupLoad(p)
    <2> DEFINE m == [mem[p] EXCEPT !.doc = Loaded]
    <2>1. FilesTyped'
      BY <1>2, FilesStayTyped DEF SetupLoad, DeviceType
    <2>2. Loaded \in Document
      BY <1>1, LoadedIsDocument DEF FilesTyped
    <2>3. /\ DOMAIN m = MemoryField /\ m.doc = Loaded /\ m.cmd = mem[p].cmd
          /\ m.passed = mem[p].passed
      BY <1>1 DEF MemoryField
    <2>4. PICK label \in {"setupCheck", "setupSignIn"} : Goto(p, label, m)
      BY <1>2 DEF SetupLoad
    <2> HIDE DEF m
    <2>5. Holds(label, m)
      BY <1>1, <1>2, <2>2, <2>3 DEF Holds, Setup, SetupLoad
    <2> QED
      BY <2>1, <2>3, <2>4, <2>5, GoingKeeps
  <1>3. ASSUME FilesTyped', pc[p] \in Setup,
               NEW label \in Setup, NEW m, Goto(p, label, m), DOMAIN m = MemoryField,
               m.cmd = mem[p].cmd, m.passed \in MaybeKey, m.doc \in Document
        PROVE  Keeps(p)
    <2>1. Holds(label, m)
      BY <1>1, <1>3 DEF Holds, Setup
    <2> QED
      BY <1>3, <2>1, GoingKeeps
  <1>4. ASSUME pc[p] \in Setup, NEW key \in MaybeKey, Provide(p, key), FilesTyped'
        PROVE  Keeps(p)
    <2>1. CASE key = NoKey
      BY <1>4, <2>1, FinishKeeps DEF Provide
    <2>2. CASE key # NoKey
      <3> DEFINE m == [mem[p] EXCEPT !.passed = key]
      <3>1. /\ DOMAIN m = MemoryField /\ m.cmd = mem[p].cmd /\ m.passed = key
            /\ m.doc = mem[p].doc
        BY <1>1 DEF MemoryField
      <3>2. Goto(p, "setupCheck", m)
        BY <1>4, <2>2 DEF Provide
      <3>3. m.doc \in Document
        BY <1>1, <1>4, <3>1 DEF Holds
      <3> HIDE DEF m
      <3>4. "setupCheck" \in Setup
        BY DEF Setup
      <3> QED
        BY <1>3, <1>4, <3>1, <3>2, <3>3, <3>4
    <2> QED
      BY <2>1, <2>2
  <1>5. CASE StartCliSso(p) \/ PollUntilReady(p) \/ PromptTeamSelection(p)
    <2>1. FilesTyped' /\ pc[p] \in Setup
      BY <1>1, <1>5 DEF StartCliSso, PollUntilReady, PromptTeamSelection, FilesTyped,
         Setup
    <2>2. mem[p].doc \in Document /\ mem[p].passed \in MaybeKey
      BY <1>1, <2>1 DEF Holds, Setup
    <2>3. \/ \E key \in MaybeKey : Provide(p, key)
          \/ \E label \in Setup : Goto(p, label, mem[p])
          \/ Finish(p)
      BY <1>5 DEF StartCliSso, PollUntilReady, PromptTeamSelection, Setup
    <2> QED
      BY <1>1, <1>3, <1>4, <2>1, <2>2, <2>3, FinishKeeps
  <1>6. CASE SetupCheck(p)
    <2> DEFINE doc == [OnGateway(mem[p].doc, mem[p].cmd) EXCEPT !.apiKey = mem[p].passed]
               m == [mem[p] EXCEPT !.doc = doc]
    <2>1. FilesTyped' /\ pc[p] \in Setup
      BY <1>1, <1>6 DEF SetupCheck, FilesTyped, Setup
    <2>2. Finish(p) \/ Goto(p, "setupSave", m)
      BY <1>6 DEF SetupCheck
    <2>3. doc \in Document
      <3>1. /\ mem[p].doc \in Document /\ mem[p].passed \in MaybeKey
            /\ mem[p].cmd \in Command
        BY <1>1, <2>1 DEF Holds, Setup
      <3>2. OnGateway(mem[p].doc, mem[p].cmd) \in Document
        BY <3>1, MovesAreDocuments DEF OnGateway, Command
      <3> QED
        BY <3>1, <3>2 DEF Document
    <2> HIDE DEF doc
    <2>4. /\ DOMAIN m = MemoryField /\ m.cmd = mem[p].cmd /\ m.doc = doc
          /\ m.passed = mem[p].passed
      BY <1>1 DEF MemoryField
    <2>5. m.passed \in MaybeKey /\ "setupSave" \in Setup
      BY <1>1, <2>1, <2>4 DEF Holds, Setup
    <2> HIDE DEF m
    <2> QED
      BY <1>3, <2>1, <2>2, <2>3, <2>4, <2>5, FinishKeeps
  <1>7. CASE SetupSave(p)
    <2>1. mem[p].doc \in Document
      BY <1>1, <1>7 DEF SetupSave, Holds, Setup
    <2>2. FilesTyped'
      BY <1>1, <1>7, <2>1, FilesStayTyped DEF SetupSave
    <2>3. CASE Begin(p, Rerun({}))
      <3>1. Rerun({}) \in Command
        BY RerunsAreCommands
      <3>2. Goto(p, FirstStep[Rerun({}).kind], BeginMemory(Rerun({})))
        BY <2>3 DEF Begin, BeginMemory
      <3> QED
        BY <2>2, <3>1, <3>2, BeginHolds, GoingKeeps
    <2> QED
      BY <1>7, <2>2, <2>3, FinishKeeps DEF SetupSave
  <1> QED
    BY <1>2, <1>5, <1>6, <1>7

\* A managed install.
LEMMA InstallKeeps ==
  ASSUME DeviceType, NEW p \in Process,
         Copy(p) \/ Overwrite(p) \/ Carry(p) \/ CarrySave(p) \/ Seed(p)
  PROVE  Keeps(p)
  <1>1. /\ DOMAIN mem[p] = MemoryField /\ Holds(pc[p], mem[p])
        /\ FilesTyped
    BY DEF DeviceType, Shape
  <1>2. CASE Copy(p)
    <2> DEFINE m == [mem[p] EXCEPT !.previous = config]
    <2>1. FilesTyped' /\ Goto(p, "overwrite", m)
      BY <1>1, <1>2 DEF Copy, FilesTyped
    <2>2. /\ DOMAIN m = MemoryField /\ m.cmd = mem[p].cmd
          /\ m.passed = mem[p].passed /\ m.previous = config
      BY <1>1 DEF MemoryField
    <2> HIDE DEF m
    <2>3. Holds("overwrite", m)
      BY <1>1, <1>2, <2>2 DEF Holds, Setup, Copy, FilesTyped
    <2> QED
      BY <2>1, <2>2, <2>3, GoingKeeps
  <1>3. CASE Overwrite(p)
    <2>1. mem[p].cmd.managed \in RawDocument
      BY <1>1, <1>3 DEF Holds, Overwrite, Command
    <2>2. FilesTyped'
      BY <1>1, <1>3, <2>1 DEF Overwrite, FilesTyped, Cmd
    <2>3. \/ Goto(p, "seed", mem[p])
          \/ mem[p].previous # Absent /\ Goto(p, "carry", mem[p])
      BY <1>3 DEF Overwrite
    <2>4. /\ Holds("seed", mem[p])
          /\ mem[p].previous # Absent => Holds("carry", mem[p])
      BY <1>1, <1>3 DEF Holds, Setup, Overwrite
    <2> QED
      BY <1>1, <2>2, <2>3, <2>4, GoingKeeps
  <1>4. CASE Carry(p)
    <2> DEFINE old == ReadSettings(mem[p].previous)
               seeds == {ReadSettings(s) : s \in seeded}
               carried == CarryingInstallPicks(Loaded, old, seeds)
               m(doc) == [mem[p] EXCEPT !.previous = old, !.read = Loaded,
                                        !.seen = seeds, !.doc = doc]
    <2>1. FilesTyped'
      BY <1>1, <1>4 DEF Carry, FilesTyped
    <2>2. \/ Goto(p, "seed", m(Loaded))
          \/ \E doc \in carried : Goto(p, "carrySave", m(doc))
      <3> DEFINE next == [mem[p] EXCEPT !.previous = old, !.read = Loaded,
                                        !.seen = seeds]
      <3>1. \/ Goto(p, "seed", [next EXCEPT !.doc = Loaded])
            \/ \E doc \in carried : Goto(p, "carrySave", [next EXCEPT !.doc = doc])
        BY <1>4, Zenon DEF Carry
      <3>2. \A doc : [next EXCEPT !.doc = doc] = m(doc)
        BY <1>1 DEF MemoryField
      <3> HIDE DEF next, m
      <3> QED
        BY <3>1, <3>2
    <2>3. \A doc : /\ DOMAIN m(doc) = MemoryField /\ m(doc).cmd = mem[p].cmd
                   /\ m(doc).passed = mem[p].passed /\ m(doc).doc = doc
      BY <1>1 DEF MemoryField
    <2>4. Loaded \in Document
      BY <1>1, LoadedIsDocument DEF FilesTyped
    <2>5. carried \subseteq Document
      <3>1. old \in Document
        BY <1>1, <1>4, DocumentsAreRead DEF Carry, Holds
      <3> HIDE DEF old, seeds
      <3> QED
        BY <2>4, <3>1, InstallsAreDocuments
    <2> HIDE DEF m, carried, old, seeds
    <2>6. Holds("seed", m(Loaded)) /\ \A doc \in Document : Holds("carrySave", m(doc))
      BY <1>1, <1>4, <2>3 DEF Holds, Setup, Carry
    <2> QED
      BY <2>1, <2>2, <2>3, <2>5, <2>6, GoingKeeps
  <1>5. CASE CarrySave(p)
    <2>1. mem[p].doc \in Document
      BY <1>1, <1>5 DEF CarrySave, Holds
    <2>2. FilesTyped'
      BY <1>1, <1>5, <2>1, FilesStayTyped DEF CarrySave
    <2>3. Holds("seed", mem[p])
      BY <1>1, <1>5 DEF Holds, Setup, CarrySave
    <2> QED
      BY <1>1, <1>5, <2>2, <2>3, GoingKeeps DEF CarrySave
  <1>6. CASE Seed(p)
    <2>1. mem[p].cmd.managed \in RawDocument
      BY <1>1, <1>6 DEF Holds, Seed, Command
    <2>2. FilesTyped'
      BY <1>1, <1>6, <2>1 DEF Seed, FilesTyped, Cmd
    <2> QED
      BY <1>6, <2>2, FinishKeeps DEF Seed
  <1> QED
    BY <1>2, <1>3, <1>4, <1>5, <1>6

\* A switch by the daemon.
LEMMA SwitchKeeps ==
  ASSUME DeviceType, NEW p \in Process,
         SwitchLoad(p) \/ SwitchSave(p) \/ SwitchIssue(p)
  PROVE  Keeps(p)
  <1>1. /\ DOMAIN mem[p] = MemoryField /\ Holds(pc[p], mem[p])
        /\ FilesTyped
    BY DEF DeviceType, Shape
  <1>2. CASE SwitchLoad(p)
    <2> DEFINE m(doc) == [mem[p] EXCEPT !.doc = doc, !.previous = Loaded]
    <2>1. FilesTyped'
      BY <1>1, <1>2, FilesStayTyped DEF SwitchLoad
    <2>2. Loaded \in Document /\ mem[p].cmd \in Command
      BY <1>1, <1>2, LoadedIsDocument DEF FilesTyped, Holds, SwitchLoad
    <2>3. \/ Finish(p)
          \/ \E patch \in SwitchPatches(Loaded, mem[p].cmd) :
               Goto(p, "switchSave", m(Applied(patch, Loaded)))
      BY <1>2 DEF SwitchLoad
    <2>4. \A doc : /\ DOMAIN m(doc) = MemoryField /\ m(doc).cmd = mem[p].cmd
                   /\ m(doc).passed = mem[p].passed /\ m(doc).doc = doc
                   /\ m(doc).previous = Loaded
      BY <1>1 DEF MemoryField
    <2> HIDE DEF m
    <2>5. \A doc \in Document : Holds("switchSave", m(doc))
      BY <1>1, <1>2, <2>2, <2>4 DEF Holds, Setup, SwitchLoad
    <2>6. \A patch \in SwitchPatches(Loaded, mem[p].cmd) :
            Applied(patch, Loaded) \in Document
      BY <2>2, SwitchesAreDocuments
    <2> QED
      BY <2>1, <2>3, <2>4, <2>5, <2>6, FinishKeeps, GoingKeeps
  <1>3. CASE SwitchSave(p)
    <2>1. mem[p].doc \in Document
      BY <1>1, <1>3 DEF SwitchSave, Holds
    <2>2. FilesTyped'
      BY <1>1, <1>3, <2>1, FilesStayTyped DEF SwitchSave
    <2>3. Holds("switchIssue", mem[p])
      BY <1>1, <1>3 DEF Holds, Setup, SwitchSave
    <2> QED
      BY <1>1, <1>3, <2>2, <2>3, GoingKeeps, FinishKeeps DEF SwitchSave
  <1>4. CASE SwitchIssue(p)
    <2>1. Loaded \in Document /\ mem[p].previous \in Document
      BY <1>1, <1>4, LoadedIsDocument DEF FilesTyped, Holds, SwitchIssue
    <2>2. \A kind \in {"team", "environment"} :
            Applied(Previous(kind, mem[p].previous), Loaded) \in Document
      BY <2>1, UndoneAreDocuments
    <2>3. UNCHANGED config \/ \E doc \in Document : Saved(doc)
      BY <1>4, <2>2 DEF SwitchIssue
    <2>4. FilesTyped'
      BY <1>1, <1>4, <2>3, FilesStayTyped DEF SwitchIssue
    <2> QED
      BY <1>4, <2>4, FinishKeeps DEF SwitchIssue
  <1> QED
    BY <1>2, <1>3, <1>4

LEMMA FirstTypes == Init => DeviceType
  <1> SUFFICES ASSUME Init PROVE DeviceType
    OBVIOUS
  <1>1. Shape
    BY IdleIsMemory DEF Init, Shape
  <1>2. FilesTyped
    BY DeviceAssumption DEF Init, FilesTyped
  <1>3. \A p \in Process : Holds(pc[p], mem[p])
    BY IdleHolds DEF Init
  <1> QED
    BY <1>1, <1>2, <1>3 DEF DeviceType

LEMMA StepsKeep ==
  ASSUME DeviceType, NEW p \in Process,
         \/ Steps(p) \/ Crash(p)
         \/ p \in Proc /\ Start(p)
         \/ p = Watcher /\ Watch(Watcher)
  PROVE  Keeps(p)
  <1>1. CASE Crash(p)
    <2>1. FilesTyped' /\ Finish(p)
      BY <1>1 DEF Crash, DeviceType, FilesTyped
    <2> QED
      BY <2>1, FinishKeeps
  <1>2. ASSUME NEW cmd \in Command, Begin(p, cmd), FilesTyped'
        PROVE  Keeps(p)
    <2>1. Goto(p, FirstStep[cmd.kind], BeginMemory(cmd))
      BY <1>2 DEF Begin, BeginMemory
    <2> QED
      BY <1>2, <2>1, BeginHolds, GoingKeeps
  <1>3. CASE p \in Proc /\ Start(p)
    <2>1. FilesTyped' /\ \E cmd \in Command : Begin(p, cmd)
      BY <1>3, DeviceAssumption DEF Start, DeviceType, FilesTyped
    <2> QED
      BY <1>2, <2>1
  <1>4. CASE p = Watcher /\ Watch(Watcher)
    <2>1. FilesTyped' /\ Begin(p, Rerun({"claude-desktop"}))
      BY <1>4 DEF Watch, DeviceType, FilesTyped
    <2>2. Rerun({"claude-desktop"}) \in Command
      BY RerunsAreCommands DEF Tool
    <2> QED
      BY <1>2, <2>1, <2>2
  <1>5. CASE Steps(p)
    BY <1>5, FallbackKeeps, GateKeeps, ConfigureKeeps, WriteToolKeeps, SaveKeeps,
       SetupKeeps, InstallKeeps, SwitchKeeps DEF Steps
  <1> QED
    BY <1>1, <1>3, <1>4, <1>5

\* The files hold documents, and every command has in its memory what its next
\* step works on: a copy of config.yaml, the tools that are left, a file to
\* write.
THEOREM DeviceTypeInvariance == Spec => []DeviceType
  <1>1. ASSUME DeviceType, NEW p \in Process, Keeps(p) PROVE DeviceType'
    BY <1>1 DEF Keeps, DeviceType
  <1>2. ASSUME DeviceType, (\E url \in Gateway, key \in StaticKey : Revoke(url, key)) \/ UNCHANGED vars
        PROVE  DeviceType'
    <2>1. UNCHANGED <<config, seeded, pc, mem>>
      BY <1>2 DEF Revoke, vars
    <2> QED
      BY <1>2, <2>1 DEF DeviceType, Shape, FilesTyped
  <1>3. ASSUME DeviceType, [Next]_vars PROVE DeviceType'
    <2>1. CASE \E p \in Proc : Start(p)
      BY <1>1, <1>3, <2>1, StepsKeep DEF Process
    <2>2. CASE Watch(Watcher)
      BY <1>1, <1>3, <2>2, StepsKeep DEF Process
    <2>3. CASE \E p \in Process : Steps(p) \/ Crash(p)
      <3>1. PICK p \in Process : Steps(p) \/ Crash(p)
        BY <2>3
      <3>2. Keeps(p)
        BY <1>3, <3>1, StepsKeep
      <3> QED
        BY <1>1, <1>3, <3>2
    <2> QED
      BY <1>2, <1>3, <2>1, <2>2, <2>3 DEF Next
  <1> QED
    BY <1>3, FirstTypes, PTL DEF Spec

-----------------------------------------------------------------------------
(* Keys *)

\* What a pass that was not told to use an environment variable knows of the
\* keys it may write: the one of last resort is the command's, or the one that
\* was saved when the pass began, for a device that has no IdP.
Passed(m) ==
  m.passed = FirstKey(m.cmd.key, SavedKeyFallback(m.cmd.idp, m.first))

\* Claude Desktop is to be configured, and not with a sign-in of its own.
DesktopLands(m) ==
  /\ "claude-desktop" \in Range(m.todo) /\ m.cmd.idp = NoSection
  /\ m.seen.sso = NoSection \/ m.cmd.key # NoKey

Lands(m) == DesktopLands(m) \/ Range(m.todo) \cap {"claude-code", "codex"} # {}

\* The Gateway the pass is for has accepted the key, if a tool that is left would be given it;
\* and if Claude Desktop is to be configured with the saved one, it has
\* accepted that, or the pass knows better.
Asked(m) ==
  /\ m.passed # NoKey /\ Lands(m) => m.verified = <<m.passed, m.seen.url>>
  /\ m.passed = NoKey /\ DesktopLands(m) =>
       \/ m.seen.apiKey = NoKey \/ m.refused
       \/ m.verified = <<m.seen.apiKey, m.seen.url>>

Checks(label, m) ==
  m.cmd.kind = "autoconfigure" /\ ~m.cmd.env =>
    /\ label \in {"gate", "configure", "write", "save"} => Passed(m)
    /\ label \in {"configure", "write", "save"} => Asked(m)
    /\ label = "write" /\ m.file.mode = "static_key" =>
         \/ m.verified = <<m.file.key, m.file.url>>
         \/ ~(m.first = m.seen /\ m.seen = m.read)

ChecksInv == \A p \in Process : Checks(pc[p], mem[p])

\* Each tool's file, if it carries a static key.
LEMMA ClaudeKeys ==
  ASSUME NEW c \in Document, NEW m, m.cmd \in Command, m.cmd.kind = "autoconfigure",
         ~m.cmd.env, Passed(m), Asked(m), m.passed \in MaybeKey,
         "claude-code" \in Range(m.todo), m.first = Read(c, m.cmd), NEW team \in MaybeTeam,
         NEW doc, doc = ClaudeDocument(c, m.cmd, team, m.passed),
         ClaudeFile(doc, m.passed).mode = "static_key"
  PROVE  m.verified = <<ClaudeFile(doc, m.passed).key, m.seen.url>>
  <1> DEFINE moved == OnGateway(c, m.cmd)
  <1>1. moved \in Document /\ moved.idp = c.idp /\ moved.apiKey = c.apiKey
    <2>1. m.cmd.url \in MaybeUrl
      BY DEF Command
    <2>2. moved \in Document
      BY <2>1, MovesAreDocuments DEF OnGateway
    <2>3. moved.idp = c.idp /\ moved.apiKey = c.apiKey
      BY DEF OnGateway, MoveGatewayTo, Document
    <2> QED
      BY <2>2, <2>3
  <1> HIDE DEF moved
  <1>2. /\ doc.idp = ApplyIdp(c.idp, m.cmd.idp)
        /\ ~Macos => doc.apiKey = c.apiKey
    BY <1>1 DEF ClaudeDocument, KeepKeyForBroker, EnrollIfChanged, Document, moved
  <1> DEFINE configured == IsConfigured(doc.idp)
             static == FirstKey(m.passed, IF configured THEN NoKey ELSE doc.apiKey)
  <1>3. /\ ClaudeFile(doc, m.passed).mode = BearerPlan(configured, static)
        /\ BearerPlan(configured, static) = "static_key" =>
             ClaudeFile(doc, m.passed).key = static
    BY DEF ClaudeFile, NewFile
  <1>4. ~Macos /\ static # NoKey
    BY <1>3 DEF BearerPlan
  <1>5. m.passed # NoKey
    <2>1. SUFFICES ASSUME m.passed = NoKey PROVE FALSE
      OBVIOUS
    <2>2. ~configured /\ static = c.apiKey /\ c.apiKey # NoKey
      BY <1>2, <1>4, <2>1 DEF FirstKey
    <2>3. SavedKeyFallback(m.cmd.idp, m.first) = c.apiKey
      BY <1>2, <2>2 DEF SavedKeyFallback, Read
    <2> QED
      BY <2>1, <2>2, <2>3 DEF Passed, FirstKey
  <1> QED
    BY <1>3, <1>5 DEF Asked, Lands, FirstKey

LEMMA CodexKeys ==
  ASSUME NEW doc, NEW m, ~m.cmd.env, Asked(m), "codex" \in Range(m.todo),
         CodexFile(doc, m.cmd, m.passed).mode = "static_key"
  PROVE  m.verified = <<CodexFile(doc, m.cmd, m.passed).key, m.seen.url>>
  <1> DEFINE configured == IsConfigured(doc.idp)
             static == FirstKey(m.passed, IF Macos /\ ~configured THEN doc.apiKey
                                          ELSE NoKey)
             plan == BearerPlan(configured, static)
  <1>1. CodexFile(doc, m.cmd, m.passed) = NewFile(plan, static, doc.url, doc.codex)
    BY DEF CodexFile
  <1>2. plan = "static_key" /\ CodexFile(doc, m.cmd, m.passed).key = static
    BY <1>1 DEF NewFile
  <1>3. ~Macos /\ static # NoKey
    BY <1>2 DEF BearerPlan
  <1> QED
    BY <1>2, <1>3 DEF Asked, Lands, FirstKey

LEMMA DesktopKeys ==
  ASSUME NEW c \in Document, NEW m, m.cmd \in Command, m.cmd.kind = "autoconfigure",
         Asked(m), m.passed \in MaybeKey, "claude-desktop" \in Range(m.todo),
         m.seen = Read(c, m.cmd), NEW team \in MaybeTeam,
         NEW doc, doc = DesktopDocument(c, m.cmd, team, m.passed),
         NEW usable, usable = UsableKey(doc, m.refused, m.passed),
         NEW mode \in DesktopModes(doc, usable, m.passed), mode = "static_key"
  PROVE  m.verified = <<usable, m.seen.url>>
  <1> DEFINE moved == OnGateway(c, m.cmd)
  <1>1. moved \in Document /\ moved.sso = c.sso /\ moved.apiKey = c.apiKey
    <2>1. m.cmd.url \in MaybeUrl
      BY DEF Command
    <2>2. moved \in Document
      BY <2>1, MovesAreDocuments DEF OnGateway
    <2>3. moved.sso = c.sso /\ moved.apiKey = c.apiKey
      BY DEF OnGateway, MoveGatewayTo, Document
    <2> QED
      BY <2>2, <2>3
  <1> HIDE DEF moved
  <1>2. /\ doc.sso = DesktopSso(c, m.cmd)
        /\ doc.apiKey = FirstKey(m.passed, c.apiKey)
    BY <1>1 DEF DesktopDocument, EnrollIfChanged, Document, FirstKey, moved
  <1>3. doc.sso = NoSection /\ (usable # NoKey \/ m.passed # NoKey)
    BY DEF DesktopModes, DesktopMode
  <1>4. m.cmd.idp = NoSection /\ (c.sso = NoSection \/ m.cmd.key # NoKey)
    BY <1>2, <1>3 DEF DesktopSso
  <1> DEFINE desktop == DesktopLands(m)
  <1>5. desktop
    BY <1>4 DEF DesktopLands, Read
  <1>6. CASE m.passed # NoKey
    BY <1>2, <1>5, <1>6 DEF Asked, Lands, UsableKey, FirstKey
  <1>7. CASE m.passed = NoKey
    <2>1. usable = c.apiKey /\ ~m.refused /\ c.apiKey # NoKey
      BY <1>2, <1>3, <1>7 DEF UsableKey, FirstKey
    <2> QED
      BY <1>5, <1>7, <2>1 DEF Asked, Read
  <1> QED
    BY <1>6, <1>7

\* Whatever tool it is for, a document is on the Gateway of the command.
LEMMA DocumentGateway ==
  ASSUME NEW c \in Document, NEW cmd \in Command, NEW tool \in Tool,
         NEW team \in MaybeTeam, NEW key
  PROVE  DocumentFor(tool, c, cmd, team, key).url = OnGateway(c, cmd).url
  <1> DEFINE moved == OnGateway(c, cmd)
  <1>1. moved \in Document
    BY MovesAreDocuments DEF OnGateway, Command
  <1> HIDE DEF moved
  <1>2. /\ ClaudeDocument(c, cmd, team, key).url = moved.url
        /\ CodexDocument(c, cmd, team, key).url = moved.url
    BY <1>1 DEF ClaudeDocument, CodexDocument, KeepKeyForBroker, EnrollIfChanged,
                Document, moved
  <1>3. DesktopDocument(c, cmd, team, key).url = moved.url
    BY <1>1 DEF DesktopDocument, EnrollIfChanged, Document, moved
  <1> QED
    BY <1>2, <1>3 DEF DocumentFor, Tool, moved

\* A process that does not work on a tool has nothing to check.
LEMMA NothingToCheck ==
  ASSUME NEW label, NEW m, label \notin {"gate", "configure", "write", "save"}
  PROVE  Checks(label, m)
  BY DEF Checks

LEMMA BeginChecks ==
  ASSUME Shape, NEW p \in Process, NEW cmd \in Command, Begin(p, cmd)
  PROVE  Checks(pc'[p], mem'[p])
  <1>1. Goto(p, FirstStep[cmd.kind], BeginMemory(cmd))
    BY DEF Begin, BeginMemory
  <1>2. DOMAIN BeginMemory(cmd) = MemoryField /\ BeginMemory(cmd).cmd = cmd
    BY DEF BeginMemory, Idle, MemoryField
  <1>3. pc'[p] = FirstStep[cmd.kind] /\ mem'[p].cmd = cmd
    BY <1>1, <1>2, Going
  <1>4. \/ cmd.kind = "onboard"
        \/ FirstStep[cmd.kind] \in {"fallback", "setupLoad", "copy", "switchLoad"}
    BY DEF FirstStep, Command
  <1> QED
    BY <1>3, <1>4 DEF Checks

\* The tools that are left were there before.
LEMMA NextToolChecks ==
  ASSUME Shape, NEW p \in Process, NextTool(p), Checks(pc[p], mem[p]),
         pc[p] \in {"configure", "write", "save"},
         mem[p].todo \in Seq(Tool), mem[p].todo # << >>
  PROVE  Checks(pc'[p], mem'[p])
  <1>1. CASE Finish(p)
    BY <1>1, Going, IdleIsMemory, NothingToCheck DEF Finish
  <1>2. CASE ~Finish(p)
    <2> DEFINE m == [mem[p] EXCEPT !.todo = Tail(mem[p].todo), !.doc = None,
                                   !.file = None, !.read = None]
    <2>1. Goto(p, "configure", m) /\ DOMAIN m = MemoryField
      BY <1>2 DEF NextTool, Shape
    <2>2. /\ m.cmd = mem[p].cmd /\ m.passed = mem[p].passed
          /\ m.verified = mem[p].verified /\ m.refused = mem[p].refused
          /\ m.first = mem[p].first /\ m.seen = mem[p].seen
          /\ m.todo = Tail(mem[p].todo)
      BY DEF Shape, MemoryField
    <2>3. Range(Tail(mem[p].todo)) \subseteq Range(mem[p].todo)
      BY DEF Range
    <2> HIDE DEF m
    <2>4. Checks("configure", m)
      BY <2>2, <2>3 DEF Checks, Passed, Asked, Lands, DesktopLands
    <2> QED
      BY <2>1, <2>4, Going
  <1> QED
    BY <1>1, <1>2

LEMMA FallbackChecks ==
  ASSUME DeviceType, NEW p \in Process, Fallback(p)
  PROVE  Checks(pc'[p], mem'[p])
  <1>1. CASE Finish(p)
    BY <1>1, Going, IdleIsMemory, NothingToCheck DEF Finish, DeviceType
  <1>2. CASE ~Finish(p)
    <2> DEFINE cmd == mem[p].cmd
               passed == IF cmd.key # NoKey \/ cmd.env THEN cmd.key
                         ELSE SavedKeyFallback(cmd.idp, Loaded)
               m == [mem[p] EXCEPT !.todo = Detected(cmd.only), !.passed = passed,
                                   !.first = Read(Loaded, cmd)]
    <2>1. Goto(p, "gate", m)
      BY <1>2 DEF Fallback, Cmd
    <2>2. /\ DOMAIN m = MemoryField /\ m.cmd = cmd /\ m.passed = passed
          /\ m.first = Read(Loaded, cmd)
      BY DEF DeviceType, Shape, MemoryField
    <2> HIDE DEF m
    <2>3. Checks("gate", m)
      BY <2>2 DEF Checks, Passed, FirstKey, SavedKeyFallback, Read
    <2> QED
      BY <2>1, <2>2, <2>3, Going DEF DeviceType
  <1> QED
    BY <1>1, <1>2

LEMMA GateChecks ==
  ASSUME DeviceType, NEW p \in Process, Gate(p), Checks(pc[p], mem[p])
  PROVE  Checks(pc'[p], mem'[p])
  <1>1. CASE Finish(p)
    BY <1>1, Going, IdleIsMemory, NothingToCheck DEF Finish, DeviceType
  <1>2. CASE ~Finish(p)
    <2> DEFINE c == Loaded
               key == StaticKeyInPlay(c, mem[p].cmd, mem[p].passed, mem[p].todo)
               asked == Read(c, mem[p].cmd).url
               m == [mem[p] EXCEPT !.seen = Read(c, mem[p].cmd)]
    <2>1. PICK r : /\ Goto(p, "configure", r) /\ DOMAIN r = MemoryField
                   /\ r.cmd = mem[p].cmd /\ r.passed = mem[p].passed
                   /\ r.todo = mem[p].todo /\ r.seen = Read(c, mem[p].cmd)
                   /\ r.first = mem[p].first
                   /\ \/ key = NoKey \/ r.verified = <<key, asked>>
                      \/ r.refused /\ r.passed = NoKey
      <3> DEFINE Same(r) == /\ DOMAIN r = MemoryField
                            /\ r.cmd = mem[p].cmd /\ r.passed = mem[p].passed
                            /\ r.todo = mem[p].todo /\ r.seen = Read(c, mem[p].cmd)
                            /\ r.first = mem[p].first
      <3>1. Same(m)
        BY DEF DeviceType, Shape, MemoryField
      <3>2. \/ Goto(p, "configure", m) /\ key = NoKey
            \/ Goto(p, "configure", [m EXCEPT !.verified = <<key, asked>>])
            \/ Goto(p, "configure", [m EXCEPT !.refused = TRUE]) /\ m.passed = NoKey
        <4>1. m.seen.url = asked
          BY DEF DeviceType, Shape, MemoryField
        <4> QED
          BY <1>2, <4>1 DEF Gate, Cmd
      <3> HIDE DEF m, key, asked
      <3>3. /\ Same([m EXCEPT !.verified = <<key, asked>>])
            /\ [m EXCEPT !.verified = <<key, asked>>].verified = <<key, asked>>
            /\ Same([m EXCEPT !.refused = TRUE])
            /\ [m EXCEPT !.refused = TRUE].refused
        BY <3>1 DEF MemoryField
      <3>4. \E r : /\ Goto(p, "configure", r) /\ Same(r)
                   /\ \/ key = NoKey \/ r.verified = <<key, asked>>
                      \/ r.refused /\ r.passed = NoKey
        BY <3>1, <3>2, <3>3
      <3> QED
        BY <3>4
    <2>2. /\ r.cmd \in Command /\ r.todo \in Seq(Tool) /\ r.todo # << >>
          /\ r.cmd.kind = "autoconfigure"
      BY <2>1 DEF Gate, DeviceType, Holds
    <2> DEFINE lands == Lands(r)
               desktop == DesktopLands(r)
    <2>3. key = IF lands /\ r.passed # NoKey THEN r.passed
                ELSE IF desktop THEN c.apiKey ELSE NoKey
      BY <2>1 DEF StaticKeyInPlay, Lands, DesktopLands, Read
    <2>4. r.seen.apiKey = c.apiKey /\ r.seen.url = asked
      BY <2>1 DEF Read
    <2> HIDE DEF key, asked, lands, desktop
    <2>5. Asked(r)
      BY <2>1, <2>3, <2>4 DEF Asked, lands, desktop
    <2>6. Checks("configure", r)
      BY <2>1, <2>5 DEF Checks, Gate, Passed
    <2> QED
      BY <2>1, <2>6, Going DEF DeviceType
  <1> QED
    BY <1>1, <1>2

LEMMA ConfigureChecks ==
  ASSUME DeviceType, NEW p \in Process, Configure(p), Checks(pc[p], mem[p])
  PROVE  Checks(pc'[p], mem'[p])
  <1> DEFINE m == mem[p]
             c == Loaded
             tool == Tool1(p)
  <1>1. /\ DOMAIN m = MemoryField /\ Holds("configure", m) /\ c \in Document
        /\ Checks("configure", m)
    BY LoadedIsDocument DEF DeviceType, Shape, Configure, FilesTyped
  <1>2. tool \in Tool /\ tool \in Range(m.todo)
    BY <1>1 DEF Holds, Tool1, Range
  <1>3. CASE NextTool(p)
    BY <1>1, <1>3, NextToolChecks DEF Holds, DeviceType, Configure
  <1>4. CASE ~NextTool(p)
    <2>1. PICK team \in Picks(c, m.cmd) :
            \E file \in FilesFor(tool, DocumentFor(tool, c, m.cmd, team, m.passed), m) :
              /\ file # None
              /\ Goto(p, "write",
                      [m EXCEPT !.doc = DocumentFor(tool, c, m.cmd, team, m.passed),
                                !.file = file, !.read = Read(c, m.cmd)])
      BY <1>4 DEF Configure
    <2> DEFINE doc == DocumentFor(tool, c, m.cmd, team, m.passed)
    <2>2. PICK file \in FilesFor(tool, doc, m) :
            /\ file # None
            /\ Goto(p, "write", [m EXCEPT !.doc = doc, !.file = file, !.read = Read(c, m.cmd)])
      BY <2>1
    <2> DEFINE r == [m EXCEPT !.doc = doc, !.file = file, !.read = Read(c, m.cmd)]
    <2>3. /\ DOMAIN r = MemoryField /\ r.cmd = m.cmd /\ r.passed = m.passed
          /\ r.todo = m.todo /\ r.seen = m.seen /\ r.first = m.first
          /\ r.verified = m.verified /\ r.refused = m.refused
          /\ r.file = file /\ r.read = Read(c, m.cmd)
      BY <1>1 DEF MemoryField
    <2> HIDE DEF m, c, tool
    <2>4. ASSUME m.cmd.kind = "autoconfigure", ~m.cmd.env, file.mode = "static_key",
                 m.first = m.seen, m.seen = Read(c, m.cmd)
          PROVE  m.verified = <<file.key, file.url>>
      <3>1. /\ m.cmd \in Command /\ m.passed \in MaybeKey /\ Passed(m) /\ Asked(m)
        BY <1>1, <2>4 DEF Holds, Checks
      <3>2. team \in MaybeTeam
        BY <1>1, <2>1, <3>1, PicksAreTeams
      <3>3. tool \in Range(m.todo) /\ doc.url = m.seen.url
        BY <1>1, <1>2, <2>4, <3>1, <3>2, DocumentGateway DEF Read
      <3>4. CASE tool = "claude-code"
        <4>1. doc = ClaudeDocument(c, m.cmd, team, m.passed)
          BY <3>4 DEF DocumentFor
        <4> HIDE DEF doc
        <4>2. file = ClaudeFile(doc, m.passed) /\ file.url = m.seen.url
          BY <2>2, <2>4, <3>3, <3>4 DEF FilesFor, ClaudeFile, NewFile
        <4> QED
          BY <1>1, <2>4, <3>1, <3>2, <3>4, <3>3, <4>1, <4>2, ClaudeKeys
      <3>5. CASE tool = "codex"
        <4> HIDE DEF doc
        <4>1. file = CodexFile(doc, m.cmd, m.passed) /\ file.url = m.seen.url
          BY <2>2, <2>4, <3>3, <3>5 DEF FilesFor, CodexFile, NewFile
        <4> QED
          BY <2>4, <3>1, <3>5, <3>3, <4>1, CodexKeys
      <3>6. CASE tool = "claude-desktop"
        <4> DEFINE usable == UsableKey(doc, m.refused, m.passed)
        <4>1. doc = DesktopDocument(c, m.cmd, team, m.passed)
          BY <3>6 DEF DocumentFor
        <4> HIDE DEF doc
        <4>2. PICK mode \in DesktopModes(doc, usable, m.passed) :
                file = DesktopFile(doc, mode, usable)
          BY <2>2, <3>6 DEF FilesFor
        <4> HIDE DEF usable
        <4>3. mode = "static_key" /\ file.key = usable /\ file.url = m.seen.url
          BY <2>4, <3>3, <4>2 DEF DesktopFile
        <4>4. m.verified = <<usable, m.seen.url>>
          BY <1>1, <1>2, <2>4, <3>1, <3>2, <3>6, <4>1, <4>2, <4>3, DesktopKeys
             DEF usable
        <4> QED
          BY <4>3, <4>4
      <3> QED
        BY <1>2, <3>4, <3>5, <3>6 DEF Tool
    <2> HIDE DEF r, doc
    <2>5. Checks("write", r)
      BY <1>1, <2>3, <2>4 DEF Checks, Passed, Asked, Lands, DesktopLands
    <2>6. Goto(p, "write", r)
      BY <2>2 DEF r
    <2> QED
      BY <2>3, <2>5, <2>6, Going DEF DeviceType
  <1> QED
    BY <1>3, <1>4


LEMMA WriteToolChecks ==
  ASSUME DeviceType, NEW p \in Process, WriteTool(p), Checks(pc[p], mem[p])
  PROVE  Checks(pc'[p], mem'[p])
  <1>1. Holds("write", mem[p]) /\ Checks("write", mem[p]) /\ Shape
    BY DEF WriteTool, DeviceType
  <1>2. CASE NextTool(p)
    BY <1>1, <1>2, NextToolChecks DEF Holds, WriteTool
  <1>3. CASE Goto(p, "save", mem[p])
    <2>1. Checks("save", mem[p])
      BY <1>1 DEF Checks
    <2>2. DOMAIN mem[p] = MemoryField
      BY <1>1 DEF Shape
    <2> QED
      BY <1>1, <1>3, <2>1, <2>2, Going
  <1>4. Tool1(p) \in Tool
    BY <1>1 DEF Holds, Tool1
  <1> QED
    BY <1>2, <1>3, <1>4 DEF WriteTool, WriteClaude, WriteCodex, WriteDesktop, Wrote,
       NotWritten, StagingFails, Tool

LEMMA SaveChecks ==
  ASSUME DeviceType, NEW p \in Process, Save(p), Checks(pc[p], mem[p])
  PROVE  Checks(pc'[p], mem'[p])
  <1>1. Holds("save", mem[p]) /\ pc[p] = "save" /\ NextTool(p) /\ Shape
    BY DEF Save, DeviceType
  <1> QED
    BY <1>1, NextToolChecks DEF Holds

\* The other commands write no tool's file.
LEMMA OthersCheckNothing ==
  ASSUME Shape, NEW p \in Process,
         \E label, m : Goto(p, label, m)
                       /\ label \notin {"gate", "configure", "write", "save"}
  PROVE  Checks(pc'[p], mem'[p])
  BY NothingToCheck DEF Goto, Shape

LEMMA SetupChecks ==
  ASSUME DeviceType, NEW p \in Process,
         \/ SetupLoad(p) \/ StartCliSso(p) \/ PollUntilReady(p)
         \/ PromptTeamSelection(p) \/ SetupCheck(p) \/ SetupSave(p)
  PROVE  Checks(pc'[p], mem'[p])
  <1> DEFINE Quiet == \E label, m : Goto(p, label, m)
                        /\ label \notin {"gate", "configure", "write", "save"}
  <1>1. Finish(p) => Quiet
    BY DEF Finish
  <1>2. ASSUME NEW key, Provide(p, key) PROVE Quiet
    BY <1>1, <1>2 DEF Provide
  <1>3. CASE SetupLoad(p)
    <2>1. Quiet
      BY <1>3 DEF SetupLoad
    <2> QED
      BY <2>1, OthersCheckNothing DEF DeviceType
  <1>4. CASE StartCliSso(p) \/ PollUntilReady(p) \/ PromptTeamSelection(p)
    <2>1. Quiet
      BY <1>1, <1>2, <1>4 DEF StartCliSso, PollUntilReady, PromptTeamSelection
    <2> QED
      BY <2>1, OthersCheckNothing DEF DeviceType
  <1>5. CASE SetupCheck(p)
    <2>1. Quiet
      BY <1>1, <1>5 DEF SetupCheck
    <2> QED
      BY <2>1, OthersCheckNothing DEF DeviceType
  <1>6. CASE SetupSave(p)
    <2>1. CASE Begin(p, Rerun({}))
      <3>1. Rerun({}) \in Command
        BY RerunsAreCommands
      <3> QED
        BY <2>1, <3>1, BeginChecks DEF DeviceType
    <2>2. CASE Finish(p)
      BY <1>1, <2>2, OthersCheckNothing DEF DeviceType
    <2> QED
      BY <1>6, <2>1, <2>2 DEF SetupSave
  <1> QED
    BY <1>3, <1>4, <1>5, <1>6

LEMMA InstallAndSwitchChecks ==
  ASSUME DeviceType, NEW p \in Process,
         \/ Copy(p) \/ Overwrite(p) \/ Carry(p) \/ CarrySave(p) \/ Seed(p)
         \/ SwitchLoad(p) \/ SwitchSave(p) \/ SwitchIssue(p)
  PROVE  Checks(pc'[p], mem'[p])
  <1> DEFINE Quiet == \E label, m : Goto(p, label, m)
                        /\ label \notin {"gate", "configure", "write", "save"}
  <1>1. Finish(p) => Quiet
    BY DEF Finish
  <1>2. Copy(p) \/ Overwrite(p) \/ CarrySave(p) \/ Seed(p) => Quiet
    BY <1>1 DEF Copy, Overwrite, CarrySave, Seed
  <1>3. ASSUME Carry(p) PROVE Quiet
    <2>1. \E m : Goto(p, "seed", m) \/ Goto(p, "carrySave", m)
      BY <1>3, Zenon DEF Carry
    <2> QED
      BY <2>1
  <1>4. ASSUME SwitchLoad(p) \/ SwitchSave(p) \/ SwitchIssue(p) PROVE Quiet
    <2>1. CASE SwitchLoad(p)
      <3>1. Finish(p) \/ \E m : Goto(p, "switchSave", m)
        BY <2>1, Zenon DEF SwitchLoad
      <3> QED
        BY <1>1, <3>1
    <2>2. CASE SwitchSave(p) \/ SwitchIssue(p)
      <3>1. Finish(p) \/ Goto(p, "switchIssue", mem[p])
        BY <2>2, Zenon DEF SwitchSave, SwitchIssue
      <3> QED
        BY <1>1, <3>1
    <2> QED
      BY <1>4, <2>1, <2>2
  <1>5. Quiet
    BY <1>2, <1>3, <1>4
  <1> QED
    BY <1>5, OthersCheckNothing DEF DeviceType

\* Any step of a process keeps what it knows of the keys.
LEMMA StepsCheck ==
  ASSUME DeviceType, NEW p \in Process, Checks(pc[p], mem[p]),
         \/ Steps(p) \/ Crash(p)
         \/ p \in Proc /\ Start(p)
         \/ p = Watcher /\ Watch(Watcher)
  PROVE  Checks(pc'[p], mem'[p])
  <1>1. CASE Crash(p)
    BY <1>1, Going, IdleIsMemory, NothingToCheck DEF Crash, Finish, DeviceType
  <1>2. CASE p \in Proc /\ Start(p)
    BY <1>2, DeviceAssumption, BeginChecks DEF Start, DeviceType
  <1>3. CASE p = Watcher /\ Watch(Watcher)
    <2>1. Rerun({"claude-desktop"}) \in Command
      BY RerunsAreCommands DEF Tool
    <2> QED
      BY <1>3, <2>1, BeginChecks DEF Watch, DeviceType
  <1>4. CASE Steps(p)
    BY <1>4, FallbackChecks, GateChecks, ConfigureChecks, WriteToolChecks, SaveChecks,
       SetupChecks, InstallAndSwitchChecks DEF Steps
  <1> QED
    BY <1>1, <1>2, <1>3, <1>4

\* From the gate to the last tool, a pass of autoconfigure has asked about every
\* key that the tools that are left may be given, at the Gateway that it read for
\* them (credential_gate).
THEOREM ChecksInvariance == Spec => []ChecksInv
  <1>1. Init => ChecksInv
    BY NothingToCheck DEF Init, ChecksInv
  <1>2. ASSUME DeviceType, ChecksInv, [Next]_vars PROVE ChecksInv'
    <2>1. ASSUME NEW p \in Process,
                 \/ Steps(p) \/ Crash(p)
                 \/ p \in Proc /\ Start(p)
                 \/ p = Watcher /\ Watch(Watcher)
          PROVE  ChecksInv'
      <3>1. Checks(pc'[p], mem'[p])
        BY <1>2, <2>1, StepsCheck DEF ChecksInv
      <3>2. \A q \in Process \ {p} : pc'[q] = pc[q] /\ mem'[q] = mem[q]
        BY <1>2, <2>1, StepsKeep DEF Keeps
      <3> QED
        BY <1>2, <3>1, <3>2 DEF ChecksInv
    <2>2. CASE (\E url \in Gateway, key \in StaticKey : Revoke(url, key)) \/ UNCHANGED vars
      BY <1>2, <2>2 DEF Revoke, vars, ChecksInv
    <2>3. Proc \subseteq Process /\ Watcher \in Process
      BY DEF Process
    <2>4. CASE \E p \in Proc : Start(p)
      BY <2>1, <2>3, <2>4
    <2>5. CASE Watch(Watcher)
      BY <2>1, <2>3, <2>5
    <2>6. CASE \E p \in Process : Steps(p) \/ Crash(p)
      BY <2>1, <2>6
    <2> QED
      BY <1>2, <2>2, <2>4, <2>5, <2>6 DEF Next
  <1> QED
    BY <1>1, <1>2, DeviceTypeInvariance, PTL DEF Spec

\* A static key is written only for a Gateway that accepted it in this pass, with
\* nothing but the exception that VerifiedKeysOnly states: config.yaml, which a
\* pass reads three times, changed in the key, or in the Gateway, between them
\* (apply_credential_fallback, credential_gate, resolve_credential).
THEOREM KeysAreVerified == Spec => []VerifiedKeysOnly
  <1>1. ChecksInv => VerifiedKeysOnly
    BY DEF ChecksInv, Checks, VerifiedKeysOnly
  <1> QED
    BY <1>1, ChecksInvariance, PTL

-----------------------------------------------------------------------------
(* Lists: what is named at its own URL is found by either *)

Listed(c) == c.environments \in Seq(HomeEntry)

\* There is one environment at most of a URL, or a name, and it is the same.
LEMMA OneEntry ==
  ASSUME NEW c, Listed(c), NEW url \in Gateway
  PROVE  /\ \A e \in EnvironmentWithUrl(c, url) :
              e \in HomeEntry /\ e.url = url /\ e.name = Home[url]
         /\ \A e, f \in EnvironmentWithUrl(c, url) : e = f
         /\ EnvironmentNamed(c, Home[url]) = EnvironmentWithUrl(c, url)
  <1> DEFINE list == c.environments
             at == {i \in DOMAIN list : list[i].url = url}
             named == {i \in DOMAIN list : list[i].name = Home[url]}
  <1>1. \A i \in DOMAIN list : list[i] \in HomeEntry
    BY DEF Listed
  <1>2. \A i \in DOMAIN list : list[i].name = Home[list[i].url] /\ list[i].url \in Gateway
    BY <1>1 DEF HomeEntry, Entry
  <1>3. at = named
    BY <1>2, HomeAssumption
  <1>4. EnvironmentWithUrl(c, url)
          = {list[i] : i \in {i \in at : \A j \in at : i <= j}}
    BY Zenon DEF EnvironmentWithUrl
  <1>5. EnvironmentNamed(c, Home[url])
          = {list[i] : i \in {i \in named : \A j \in named : i <= j}}
    BY Zenon DEF EnvironmentNamed
  <1>6. at \subseteq Nat
    BY DEF Listed
  <1>7. \A i, j \in at : (\A k \in at : i <= k) /\ (\A k \in at : j <= k) => i = j
    BY <1>6
  <1>8. \A i \in at : list[i] \in HomeEntry /\ list[i].url = url
                      /\ list[i].name = Home[url]
    BY <1>1, <1>2
  <1> HIDE DEF list, at, named
  <1> QED
    BY <1>3, <1>4, <1>5, <1>7, <1>8

LEMMA CurrentIsHome ==
  ASSUME NEW c \in Document, Listed(c)
  PROVE  /\ CurrentEnvironment(c) = {} => CurrentName(c) = NoName
         /\ CurrentEnvironment(c) # {} => CurrentName(c) = Home[c.url]
         /\ CurrentName(c) \in Name \cup {NoName}
  <1>1. c.url \in Gateway
    BY DEF Document
  <1>2. \A e \in CurrentEnvironment(c) : e.name = Home[c.url]
    BY <1>1, OneEntry DEF CurrentEnvironment
  <1>3. Home[c.url] \in Name
    BY <1>1, DeviceAssumption
  <1> QED
    BY <1>2, <1>3 DEF CurrentName

\* A named environment is where its name is at home.
LEMMA NamedIsHome ==
  ASSUME NEW c, Listed(c), NEW name, NEW e \in EnvironmentNamed(c, name)
  PROVE  e \in HomeEntry /\ e.name = name /\ name = Home[e.url] /\ e.url \in Gateway
  BY DEF EnvironmentNamed, Listed, HomeEntry, Entry

\* Reading a document that is at home leaves it there.
LEMMA ReadIsHome ==
  ASSUME NEW c \in Document, Listed(c)
  PROVE  /\ Listed(ReadSettings(c))
         /\ StaysHome(c) => StaysHome(ReadSettings(c))
  <1> DEFINE list == c.environments
             usable == {list[i] : i \in {i \in DOMAIN list : Usable(list[i])}}
  <1>1. ReadSettings(c) = [c EXCEPT !.environments = EnvironmentsOf(list)]
    BY DEF ReadSettings, Document
  <1>2. EnvironmentsOf(list) \in Seq(HomeEntry)
    <2>1. CASE list = NotAList
      BY <2>1 DEF EnvironmentsOf
    <2>2. CASE list # NotAList
      <3>1. EnvironmentsOf(list) = Sift(list, usable)
        BY <2>2 DEF EnvironmentsOf
      <3>2. list \in Seq(HomeEntry)
        BY DEF Listed
      <3> HIDE DEF list, usable
      <3>3. Sift(list, usable) \in Seq(HomeEntry \cap usable)
        BY <3>2, SiftKeepsWanted
      <3> QED
        BY <3>1, <3>3
    <2> QED
      BY <2>1, <2>2
  <1> HIDE DEF list
  <1> QED
    BY <1>1, <1>2 DEF Listed, StaysHome, Document

-----------------------------------------------------------------------------
(* Picks: no operation on a document takes a team from its environment *)

LEMMA MovesStayHome ==
  ASSUME NEW c \in Document, Listed(c), NEW url \in MaybeUrl
  PROVE  /\ MoveGatewayTo(c, url).environments = c.environments
         /\ StaysHome(c) => StaysHome(MoveGatewayTo(c, url))
  <1> DEFINE entered == {e.name : e \in EnvironmentWithUrl(c, url)}
             left == IF c.team = NoTeam THEN {}
                     ELSE {e.name : e \in CurrentEnvironment(c)}
             team == IF entered = {} THEN NoTeam
                     ELSE c.parked[CHOOSE n \in entered : TRUE]
             parked == [n \in Name |-> IF n \in left THEN c.team
                                       ELSE IF n \in entered THEN NoTeam
                                       ELSE c.parked[n]]
  <1>1. CASE url = NoUrl \/ url = c.url
    BY <1>1 DEF MoveGatewayTo
  <1>2. CASE ~(url = NoUrl \/ url = c.url)
    <2>1. url \in Gateway /\ c.url \in Gateway
      BY <1>2 DEF MaybeUrl, Document
    <2>2. entered \subseteq {Home[url]} /\ left \subseteq {Home[c.url]}
      BY <2>1, OneEntry DEF CurrentEnvironment
    <2>3. Home[url] \in Name
      BY <2>1, DeviceAssumption
    <2>4. MoveGatewayTo(c, url)
            = [c EXCEPT !.url = url, !.team = team, !.parked = parked]
      BY <1>2, Zenon DEF MoveGatewayTo
    <2> DEFINE moved == MoveGatewayTo(c, url)
    <2>5. /\ moved.environments = c.environments /\ moved.url = url
          /\ moved.team = team /\ moved.parked = parked
      BY <2>4 DEF Document
    <2> HIDE DEF moved
    <2>6. ASSUME StaysHome(c) PROVE StaysHome(moved)
      <3>1. /\ c.team \in TeamsOf[Home[c.url]] \cup {NoTeam}
            /\ \A n \in Name : c.parked[n] \in TeamsOf[n] \cup {NoTeam}
        BY <2>6 DEF StaysHome
      <3>2. team \in TeamsOf[Home[url]] \cup {NoTeam}
        <4>1. entered # {} => (CHOOSE n \in entered : TRUE) = Home[url]
          BY <2>2
        <4> HIDE DEF entered
        <4> QED
          BY <2>3, <3>1, <4>1
      <3>3. \A n \in Name : parked[n] \in TeamsOf[n] \cup {NoTeam}
        <4> HIDE DEF entered, left
        <4> QED
          BY <2>2, <3>1
      <3> HIDE DEF team, parked
      <3> QED
        BY <2>5, <3>2, <3>3 DEF StaysHome
    <2> QED
      BY <2>5, <2>6 DEF moved
  <1> QED
    BY <1>1, <1>2

LEMMA OnboardingsStayHome ==
  ASSUME NEW c \in Document, Listed(c), NEW cmd \in Command, NEW tool \in Tool,
         NEW team \in Picks(c, cmd), NEW key \in MaybeKey
  PROVE  LET doc == DocumentFor(tool, c, cmd, team, key) IN
         /\ doc.environments = c.environments
         /\ StaysHome(c) => StaysHome(doc)
  <1> DEFINE moved == OnGateway(c, cmd)
  <1>1. /\ moved \in Document /\ moved.environments = c.environments
        /\ StaysHome(c) => StaysHome(moved)
    BY MovesAreDocuments, MovesStayHome DEF OnGateway, Command
  <1>2. team \in TeamsOf[Home[moved.url]] \cup {NoTeam}
    BY DEF Picks
  <1> HIDE DEF moved
  <1> DEFINE Like(d) == /\ d \in Document /\ d.url = moved.url
                        /\ d.environments = moved.environments
                        /\ d.parked = moved.parked
                        /\ d.team \in {moved.team, team}
  <1>3. ASSUME NEW d, d.url = moved.url, d.environments = moved.environments,
               d.parked = moved.parked, d.team \in {moved.team, team}
        PROVE  /\ d.environments = c.environments
               /\ StaysHome(c) => StaysHome(d)
    BY <1>1, <1>2, <1>3 DEF StaysHome
  <1>4. ASSUME NEW d \in Document
        PROVE  LET kept == KeepKeyForBroker(d, key) IN
               /\ kept.url = d.url /\ kept.environments = d.environments
               /\ kept.parked = d.parked /\ kept.team = d.team
    BY DEF KeepKeyForBroker, EnrollIfChanged, Document
  <1> DEFINE signed == [moved EXCEPT !.idp = ApplyIdp(@, cmd.idp)]
  <1>5. /\ signed \in Document /\ signed.url = moved.url /\ signed.team = moved.team
        /\ signed.environments = moved.environments /\ signed.parked = moved.parked
    <2>1. ApplyIdp(moved.idp, cmd.idp) \in IdpSection
      BY <1>1, IdpsAreSections DEF Document, Command
    <2> QED
      BY <1>1, <2>1 DEF Document
  <1> HIDE DEF signed
  <1>6. team \in MaybeTeam
    BY PicksAreTeams
  <1>7. CASE tool = "claude-code"
    <2> DEFINE named == IF team = NoTeam THEN signed
                        ELSE [signed EXCEPT !.claude = team, !.team = team]
    <2>1. Like(named)
      BY <1>5, <1>6 DEF Document
    <2>2. DocumentFor(tool, c, cmd, team, key) = KeepKeyForBroker(named, key)
      BY <1>7, Zenon DEF DocumentFor, ClaudeDocument, signed, moved
    <2> HIDE DEF named
    <2> QED
      BY <1>3, <1>4, <2>1, <2>2
  <1>8. CASE tool = "codex"
    <2> DEFINE named == IF team = NoTeam THEN signed
                        ELSE [signed EXCEPT !.codex = team, !.team = team]
    <2>1. Like(named)
      BY <1>5, <1>6 DEF Document
    <2>2. DocumentFor(tool, c, cmd, team, key) = KeepKeyForBroker(named, key)
      BY <1>8, Zenon DEF DocumentFor, CodexDocument, signed, moved
    <2> HIDE DEF named
    <2> QED
      BY <1>3, <1>4, <2>1, <2>2
  <1>9. CASE tool = "claude-desktop"
    <2> DEFINE enrolled == EnrollIfChanged(moved, key)
               named == IF team = NoTeam THEN enrolled
                        ELSE [enrolled EXCEPT !.claude = team, !.team = team]
               doc == [named EXCEPT !.sso = DesktopSso(c, cmd)]
    <2>1. /\ enrolled \in Document /\ enrolled.url = moved.url
          /\ enrolled.team = moved.team
          /\ enrolled.environments = moved.environments
          /\ enrolled.parked = moved.parked
      BY <1>1 DEF EnrollIfChanged, Document
    <2> HIDE DEF enrolled
    <2>2. Like(named)
      BY <1>6, <2>1 DEF Document
    <2> HIDE DEF named
    <2>3. /\ doc.url = moved.url /\ doc.environments = moved.environments
          /\ doc.parked = moved.parked /\ doc.team \in {moved.team, team}
      BY <2>2 DEF Document
    <2>4. DocumentFor(tool, c, cmd, team, key) = doc
      BY <1>9, Zenon DEF DocumentFor, DesktopDocument, named, enrolled, moved
    <2> HIDE DEF doc
    <2> QED
      BY <1>3, <2>3, <2>4
  <1> QED
    BY <1>7, <1>8, <1>9 DEF Tool


LEMMA SwitchesStayHome ==
  ASSUME NEW c \in Document, Listed(c), NEW cmd \in Command,
         NEW patch \in SwitchPatches(c, cmd)
  PROVE  /\ Applied(patch, c).environments = c.environments
         /\ StaysHome(c) => StaysHome(Applied(patch, c))
  <1>1. CASE cmd.kind = "switch_team"
    <2>1. PICK team \in TeamsOf[Home[c.url]] : patch = TeamPatch(c, team)
      BY <1>1 DEF SwitchPatches
    <2>2. Applied(patch, c) = [c EXCEPT !.team = team]
      BY <2>1 DEF TeamPatch, Previous, Applied
    <2> QED
      BY <2>1, <2>2 DEF Document, StaysHome
  <1>2. CASE cmd.kind # "switch_team"
    <2>1. PICK e \in EnvironmentNamed(c, cmd.name) : patch = EnvironmentPatch(c, e)
      BY <1>2 DEF SwitchPatches
    <2>2. e.url \in Gateway /\ e.name = Home[e.url] /\ e.name \in Name
      BY NamedIsHome DEF HomeEntry, Entry
    <2> DEFINE parked == [n \in Name |->
                 IF n = CurrentName(c) /\ c.team # NoTeam THEN c.team
                 ELSE IF n = e.name THEN NoTeam
                 ELSE c.parked[n]]
    <2>3. /\ patch.kind = "environment" /\ patch.url = e.url
          /\ patch.team = c.parked[e.name] /\ patch.parked = parked
      BY <2>1 DEF EnvironmentPatch
    <2> DEFINE doc == Applied(patch, c)
    <2>4. /\ doc.url = e.url /\ doc.team = c.parked[e.name]
          /\ doc.parked = parked /\ doc.environments = c.environments
      BY <2>3 DEF Applied, Document
    <2> HIDE DEF doc
    <2>5. ASSUME StaysHome(c) PROVE StaysHome(doc)
      <3>1. CurrentName(c) \in Name => CurrentName(c) = Home[c.url]
        BY CurrentIsHome, NameAssumption
      <3>2. \A n \in Name : parked[n] \in TeamsOf[n] \cup {NoTeam}
        BY <2>5, <3>1 DEF StaysHome
      <3> HIDE DEF parked
      <3> QED
        BY <2>2, <2>4, <2>5, <3>2 DEF StaysHome
    <2> QED
      BY <2>4, <2>5 DEF doc
  <1> QED
    BY <1>1, <1>2

\* A refused switch puts a team back where it was, or crosses.
LEMMA UndoneStayHome ==
  ASSUME NEW c \in Document, NEW old \in Document, NEW kind \in {"team", "environment"}
  PROVE  LET restored == Applied(Previous(kind, old), c) IN
         /\ restored.environments = c.environments
         /\ StaysHome(c) /\ StaysHome(old) /\ restored.url = old.url
              => StaysHome(restored)
  <1>1. CASE kind = "team"
    <2>1. Applied(Previous(kind, old), c) = [c EXCEPT !.team = old.team]
      BY <1>1 DEF Applied, Previous
    <2> QED
      BY <2>1 DEF StaysHome, Document
  <1>2. CASE kind = "environment"
    <2>1. Applied(Previous(kind, old), c)
            = [c EXCEPT !.url = old.url, !.team = old.team, !.parked = old.parked]
      BY <1>2 DEF Applied, Previous
    <2> QED
      BY <2>1 DEF StaysHome, Document
  <1> QED
    BY <1>1, <1>2

\* What carry-selection keeps of an old document, whichever of its picks count.
Counted(old, picks) ==
  /\ picks \in Document
  /\ picks.url = old.url /\ picks.environments = old.environments
  /\ picks.team \in {old.team, NoTeam}
  /\ \A n \in Name : picks.parked[n] \in {old.parked[n], NoTeam}

LEMMA PicksAreCounted ==
  ASSUME NEW old \in Document, NEW seeds
  PROVE  /\ Counted(old, WithoutSeededPicks(old, seeds))
         /\ Counted(old, [old EXCEPT !.team = NoTeam])
  <1> DEFINE Seeded(name, team) == /\ seeds.team # NoTeam /\ team = seeds.team
                                   /\ name = CurrentName(seeds)
             team == IF OnTheGatewayOf(old, seeds) /\ Seeded(CurrentName(old), old.team)
                     THEN NoTeam ELSE old.team
             parked == [n \in Name |-> IF Seeded(n, old.parked[n]) THEN NoTeam
                                       ELSE old.parked[n]]
  <1>1. WithoutSeededPicks(old, seeds)
          = [old EXCEPT !.team = team, !.parked = parked]
    BY DEF WithoutSeededPicks, Document
  <1>2. /\ team \in {old.team, NoTeam}
        /\ \A n \in Name : parked[n] \in {old.parked[n], NoTeam}
    <2> HIDE DEF Seeded
    <2> QED
      OBVIOUS
  <1> HIDE DEF team, parked
  <1> DEFINE picks == WithoutSeededPicks(old, seeds)
  <1>3. /\ picks.url = old.url /\ picks.environments = old.environments
        /\ picks.team = team /\ picks.parked = parked
    BY <1>1 DEF Document
  <1> HIDE DEF picks
  <1>4. Counted(old, picks)
    BY <1>2, <1>3, PicksAreDocuments DEF Counted, picks
  <1>5. Counted(old, [old EXCEPT !.team = NoTeam])
    BY PicksAreDocuments DEF Counted, Document
  <1> QED
    BY <1>4, <1>5 DEF picks

\* Whatever is carried is on an environment of the new list, with what is
\* parked for those.
CarriedParked(new, picks) ==
  [n \in Name |-> IF EnvironmentNamed(new, n) # {} THEN picks.parked[n] ELSE NoTeam]

CarriedTo(new, picks, kept) ==
  [new EXCEPT !.url = kept.url,
              !.team = IF picks.team # NoTeam THEN picks.team
                       ELSE IF CurrentEnvironment(new) = {kept} THEN new.team
                       ELSE NoTeam,
              !.parked = CarriedParked(new, picks)]

LEMMA WhatIsCarried ==
  ASSUME NEW new, NEW picks, NEW doc \in CarryingSelectionFrom(new, picks)
  PROVE  \/ /\ new.url = picks.url /\ picks.team # NoTeam
            /\ CurrentEnvironment(picks) = {}
            /\ doc = [new EXCEPT !.team = picks.team]
         \/ /\ CurrentEnvironment(picks) # {}
            /\ \E kept \in EnvironmentNamed(new, CurrentName(picks)) :
                 doc = CarriedTo(new, picks, kept)
  <1>1. CASE CurrentEnvironment(picks) = {}
    BY <1>1 DEF CarryingSelectionFrom, CarryingTeamOnTheSameGateway
  <1>2. CASE CurrentEnvironment(picks) # {}
    BY <1>2, Zenon DEF CarryingSelectionFrom, CarriedTo, CarriedParked
  <1> QED
    BY <1>1, <1>2

LEMMA CarriedStayHome ==
  ASSUME NEW new \in Document, NEW old \in Document, Listed(new), Listed(old),
         NEW picks, Counted(old, picks), StaysHome(new), StaysHome(old),
         NEW doc \in CarryingSelectionFrom(new, picks)
  PROVE  StaysHome(doc)
  <1>1. /\ picks \in Document /\ picks.url = old.url /\ Listed(picks)
        /\ picks.team \in TeamsOf[Home[old.url]] \cup {NoTeam}
        /\ \A n \in Name : picks.parked[n] \in TeamsOf[n] \cup {NoTeam}
    BY DEF Counted, StaysHome, Listed
  <1>2. CASE new.url = picks.url /\ doc = [new EXCEPT !.team = picks.team]
    BY <1>1, <1>2 DEF StaysHome, Document
  <1>3. ASSUME CurrentEnvironment(picks) # {},
               NEW kept \in EnvironmentNamed(new, CurrentName(picks)),
               doc = CarriedTo(new, picks, kept)
        PROVE  StaysHome(doc)
    <2>1. Home[kept.url] = Home[old.url]
      BY <1>1, <1>3, CurrentIsHome, NamedIsHome
    <2>2. CurrentEnvironment(new) = {kept} => new.url = kept.url
      BY OneEntry DEF CurrentEnvironment, Document
    <2> DEFINE team == IF picks.team # NoTeam THEN picks.team
                       ELSE IF CurrentEnvironment(new) = {kept} THEN new.team
                       ELSE NoTeam
    <2>3. team \in TeamsOf[Home[kept.url]] \cup {NoTeam}
      BY <1>1, <2>1, <2>2 DEF StaysHome
    <2>4. \A n \in Name : CarriedParked(new, picks)[n] \in TeamsOf[n] \cup {NoTeam}
      BY <1>1 DEF CarriedParked
    <2>5. /\ doc.url = kept.url /\ doc.team = team
          /\ doc.parked = CarriedParked(new, picks)
      BY <1>3, Zenon DEF CarriedTo, Document
    <2> HIDE DEF team
    <2> QED
      BY <2>3, <2>4, <2>5 DEF StaysHome
  <1> QED
    BY <1>2, <1>3, WhatIsCarried

LEMMA CarriedKeepTheList ==
  ASSUME NEW new \in Document, NEW picks, NEW doc \in CarryingSelectionFrom(new, picks)
  PROVE  doc.environments = new.environments
  <1>1. CASE doc = [new EXCEPT !.team = picks.team]
    BY <1>1 DEF Document
  <1>2. ASSUME NEW kept, doc = CarriedTo(new, picks, kept)
        PROVE  doc.environments = new.environments
    BY <1>2, Zenon DEF CarriedTo, Document
  <1> QED
    BY <1>1, <1>2, WhatIsCarried

LEMMA ParkingStaysHome ==
  ASSUME NEW new \in Document, Listed(new), NEW c \in Document
  PROVE  LET doc == ParkingTeam(c, CurrentName(new), new.team) IN
         /\ doc.environments = c.environments /\ doc.url = c.url /\ doc.team = c.team
         /\ StaysHome(new) /\ StaysHome(c) => StaysHome(doc)
  <1> DEFINE name == CurrentName(new)
             doc == ParkingTeam(c, name, new.team)
  <1>1. name # NoName => name = Home[new.url] /\ name \in Name
    BY CurrentIsHome, DeviceAssumption DEF Document
  <1> HIDE DEF name
  <1>2. CASE doc = c
    BY <1>2 DEF name
  <1>3. CASE doc # c
    <2>1. name # NoName /\ doc = [c EXCEPT !.parked[name] = new.team]
      BY <1>3 DEF ParkingTeam
    <2>2. /\ doc.environments = c.environments /\ doc.url = c.url /\ doc.team = c.team
          /\ doc.parked = [c.parked EXCEPT ![name] = new.team]
      BY <2>1 DEF Document
    <2> HIDE DEF doc
    <2>3. StaysHome(new) /\ StaysHome(c) => StaysHome(doc)
      BY <1>1, <2>1, <2>2 DEF StaysHome, Document
    <2> QED
      BY <2>2, <2>3 DEF doc, name
  <1> QED
    BY <1>2, <1>3

LEMMA InstallsStayHome ==
  ASSUME NEW new \in Document, NEW old \in Document, Listed(new), Listed(old),
         NEW seeds, NEW doc \in CarryingInstallPicks(new, old, seeds)
  PROVE  /\ doc.environments = new.environments
         /\ StaysHome(new) /\ StaysHome(old) => StaysHome(doc)
  <1>1. PICK picks : /\ Counted(old, picks)
                     /\ doc \in CarryingPicksParkingTheManagedTeam(new, picks)
    <2>1. CASE seeds = {}
      BY <2>1, PicksAreCounted DEF CarryingInstallPicks
    <2>2. CASE seeds # {}
      BY <2>2, PicksAreCounted DEF CarryingInstallPicks, CarryingPicksOver
    <2> QED
      BY <2>1, <2>2
  <1>2. PICK c \in CarryingSelectionFrom(new, picks) :
          doc = ParkingTeam(c, CurrentName(new), new.team)
    BY <1>1 DEF CarryingPicksParkingTheManagedTeam
  <1>3. picks \in Document
    BY <1>1 DEF Counted
  <1>4. c \in Document
    BY <1>2, <1>3, CarriedAreDocuments
  <1>5. c.environments = new.environments
    BY <1>2, CarriedKeepTheList
  <1>6. StaysHome(new) /\ StaysHome(old) => StaysHome(c)
    BY <1>1, <1>2, CarriedStayHome
  <1> QED
    BY <1>2, <1>4, <1>5, <1>6, ParkingStaysHome

-----------------------------------------------------------------------------
(* Picks in the files, and in flight *)

\* The list names nothing that is not so, and no pick has crossed but the one
\* way that is recorded.
Homely(c, free) == Listed(c) /\ (free \/ StaysHome(c))

Settled(label, m, free) ==
  /\ label # "idle" => AtHome(ReadSettings(m.cmd.managed))
  /\ label \in Setup \cup {"write", "save", "carrySave", "switchSave"} =>
       Homely(m.doc, free)
  /\ label \in {"overwrite", "carry"} /\ m.previous # Absent =>
       Homely(ReadSettings(m.previous), free)
  /\ label \in {"switchSave", "switchIssue"} => Homely(m.previous, free)

FileSettled == config # Absent => Homely(ReadSettings(config), crossed)

PicksInv == FileSettled /\ \A p \in Process : Settled(pc[p], mem[p], crossed)

LEMMA LoadedIsHome ==
  ASSUME FileSettled
  PROVE  Homely(Loaded, crossed)
  <1>1. LegacyEnv # {} => (CHOOSE d \in LegacyEnv : TRUE) \in LegacyEnv
    OBVIOUS
  <1> QED
    BY <1>1, HomeAssumption DEF FileSettled, Loaded, Homely, AtHome, Listed

\* What a command reads or saves leaves the file as it should be.
LEMMA FileStaysSettled ==
  ASSUME FilesTyped, FileSettled, crossed => crossed',
         \/ Load \/ UNCHANGED config
         \/ \E doc \in Document : Saved(doc) /\ Homely(doc, crossed')
  PROVE  FileSettled'
  <1>1. ASSUME NEW doc \in Document, Saved(doc), Homely(doc, crossed')
        PROVE  FileSettled'
    BY <1>1, ReadIsHome DEF Saved, FileSettled, Homely
  <1>2. ASSUME UNCHANGED config PROVE FileSettled'
    BY <1>2 DEF FileSettled, Homely
  <1>3. Loaded \in Document /\ Homely(Loaded, crossed')
    BY LoadedIsDocument, LoadedIsHome DEF FilesTyped, Homely
  <1> QED
    BY <1>1, <1>2, <1>3 DEF Load

\* The steps of a process keep picks at home in the file and in its memory.
Houses(p) == /\ FileSettled' /\ (crossed => crossed')
             /\ Settled(pc'[p], mem'[p], crossed')

LEMMA FinishHouses ==
  ASSUME Shape, NEW p \in Process, Finish(p), FileSettled', crossed => crossed'
  PROVE  Houses(p)
  <1>1. pc'[p] = "idle"
    BY Going, IdleIsMemory DEF Finish
  <1> QED
    BY <1>1 DEF Houses, Settled, Setup

LEMMA GoingHouses ==
  ASSUME Shape, NEW p \in Process, NEW label, NEW m, Goto(p, label, m),
         DOMAIN m = MemoryField, FileSettled', crossed => crossed',
         Settled(label, m, crossed')
  PROVE  Houses(p)
  BY Going DEF Houses

\* A command that begins has nothing in its memory but what it was told.
LEMMA BeginHouses ==
  ASSUME Shape, NEW p \in Process, NEW cmd \in Command, Begin(p, cmd),
         AtHome(ReadSettings(cmd.managed)), FileSettled', crossed => crossed'
  PROVE  Houses(p)
  <1>1. Goto(p, FirstStep[cmd.kind], BeginMemory(cmd))
    BY DEF Begin, BeginMemory
  <1>2. DOMAIN BeginMemory(cmd) = MemoryField /\ BeginMemory(cmd).cmd = cmd
    BY DEF BeginMemory, Idle, MemoryField
  <1>3. FirstStep[cmd.kind] \in {"configure", "fallback", "setupLoad", "copy",
                                 "switchLoad"}
    BY DEF FirstStep, Command
  <1>4. Settled(FirstStep[cmd.kind], BeginMemory(cmd), crossed')
    BY <1>2, <1>3 DEF Settled, Setup
  <1> QED
    BY <1>1, <1>2, <1>4, GoingHouses

LEMMA RerunsAreHome ==
  ASSUME NEW only
  PROVE  AtHome(ReadSettings(Rerun(only).managed))
  <1>1. Rerun(only).managed = Factory
    BY DEF Rerun
  <1> QED
    BY <1>1, HomeAssumption, DeviceAssumption, ReadIsHome DEF AtHome, Listed

LEMMA NextToolHouses ==
  ASSUME Shape, NEW p \in Process, NextTool(p), FileSettled', crossed => crossed',
         AtHome(ReadSettings(mem[p].cmd.managed))
  PROVE  Houses(p)
  <1>1. CASE Finish(p)
    BY <1>1, FinishHouses
  <1>2. CASE ~Finish(p)
    <2> DEFINE m == [mem[p] EXCEPT !.todo = Tail(mem[p].todo), !.doc = None,
                                   !.file = None, !.read = None]
    <2>1. Goto(p, "configure", m)
      BY <1>2 DEF NextTool
    <2>2. DOMAIN m = MemoryField /\ m.cmd = mem[p].cmd
      BY DEF Shape, MemoryField
    <2> HIDE DEF m
    <2>3. Settled("configure", m, crossed')
      BY <2>2 DEF Settled, Setup
    <2> QED
      BY <2>1, <2>2, <2>3, GoingHouses
  <1> QED
    BY <1>1, <1>2

\* What every step of a process may use.
Ready(p) == /\ DeviceType /\ PicksInv /\ p \in Process
            /\ Loaded \in Document /\ Homely(Loaded, crossed)
            /\ DOMAIN mem[p] = MemoryField
            /\ Holds(pc[p], mem[p]) /\ Settled(pc[p], mem[p], crossed)
            /\ Shape /\ FilesTyped /\ FileSettled

LEMMA BeingReady ==
  ASSUME DeviceType, PicksInv, NEW p \in Process
  PROVE  Ready(p)
  <1>1. Shape /\ FilesTyped /\ FileSettled
    BY DEF DeviceType, PicksInv
  <1>2. Loaded \in Document /\ Homely(Loaded, crossed)
    BY <1>1, LoadedIsDocument, LoadedIsHome DEF FilesTyped
  <1> QED
    BY <1>1, <1>2 DEF Ready, DeviceType, PicksInv, Shape

LEMMA FallbackAndGateHouse ==
  ASSUME NEW p \in Process, Ready(p), Fallback(p) \/ Gate(p)
  PROVE  Houses(p)
  <1>1. FileSettled' /\ (crossed => crossed')
    BY FileStaysSettled DEF Ready, Fallback, Gate
  <1>2. pc[p] # "idle"
    BY DEF Fallback, Gate
  <1>3. ASSUME NEW label \in {"gate", "configure"}, NEW m, Goto(p, label, m),
               DOMAIN m = MemoryField, m.cmd = mem[p].cmd
        PROVE  Houses(p)
    <2>1. Settled(label, m, crossed')
      BY <1>2, <1>3 DEF Ready, Settled, Setup
    <2> QED
      BY <1>1, <1>3, <2>1, GoingHouses DEF Ready
  <1>4. CASE Finish(p)
    BY <1>1, <1>4, FinishHouses DEF Ready
  <1>5. CASE Fallback(p) /\ ~Finish(p)
    <2>1. PICK todo, passed, first :
            Goto(p, "gate", [mem[p] EXCEPT !.todo = todo, !.passed = passed,
                                           !.first = first])
      BY <1>5, Zenon DEF Fallback
    <2> DEFINE m == [mem[p] EXCEPT !.todo = todo, !.passed = passed, !.first = first]
    <2>2. DOMAIN m = MemoryField /\ m.cmd = mem[p].cmd
      BY DEF Ready, MemoryField
    <2> HIDE DEF m
    <2>3. Goto(p, "gate", m)
      BY <2>1 DEF m
    <2> QED
      BY <1>3, <2>2, <2>3
  <1>6. CASE Gate(p) /\ ~Finish(p)
    <2> DEFINE m == [mem[p] EXCEPT !.seen = Read(Loaded, Cmd(p))]
    <2>1. DOMAIN m = MemoryField /\ m.cmd = mem[p].cmd
      BY DEF Ready, MemoryField
    <2>2. \/ Goto(p, "configure", m)
          \/ \E key : Goto(p, "configure", [m EXCEPT !.verified = key])
          \/ Goto(p, "configure", [m EXCEPT !.refused = TRUE])
      BY <1>6 DEF Gate
    <2> HIDE DEF m
    <2>3. /\ \A key : /\ DOMAIN [m EXCEPT !.verified = key] = MemoryField
                      /\ [m EXCEPT !.verified = key].cmd = mem[p].cmd
          /\ DOMAIN [m EXCEPT !.refused = TRUE] = MemoryField
          /\ [m EXCEPT !.refused = TRUE].cmd = mem[p].cmd
      BY <2>1 DEF MemoryField
    <2> QED
      BY <1>3, <2>1, <2>2, <2>3
  <1> QED
    BY <1>4, <1>5, <1>6

LEMMA ConfigureHouses ==
  ASSUME NEW p \in Process, Ready(p), Configure(p)
  PROVE  Houses(p)
  <1> DEFINE m == mem[p]
             c == Loaded
             tool == Tool1(p)
  <1>1. FileSettled' /\ crossed' = crossed
    BY FileStaysSettled DEF Ready, Configure
  <1>2. /\ m.cmd \in Command /\ m.passed \in MaybeKey /\ tool \in Tool
        /\ AtHome(ReadSettings(m.cmd.managed))
    BY DEF Ready, Configure, Holds, Settled, Tool1
  <1>3. CASE NextTool(p)
    BY <1>1, <1>2, <1>3, NextToolHouses DEF Ready
  <1>4. CASE ~NextTool(p)
    <2>1. PICK team \in Picks(c, m.cmd) :
            \E file :
              Goto(p, "write",
                   [m EXCEPT !.doc = DocumentFor(tool, c, m.cmd, team, m.passed),
                             !.file = file, !.read = Read(c, m.cmd)])
      BY <1>4 DEF Configure
    <2> DEFINE doc == DocumentFor(tool, c, m.cmd, team, m.passed)
               r(file) == [m EXCEPT !.doc = doc, !.file = file, !.read = Read(c, m.cmd)]
    <2>2. PICK file : Goto(p, "write", r(file))
      BY <2>1
    <2>3. Homely(doc, crossed)
      BY <1>2, OnboardingsStayHome DEF Ready, Homely, Listed
    <2>4. DOMAIN r(file) = MemoryField /\ r(file).cmd = m.cmd /\ r(file).doc = doc
      BY DEF Ready, MemoryField
    <2> HIDE DEF r, doc
    <2>5. Settled("write", r(file), crossed')
      BY <1>1, <1>2, <2>3, <2>4 DEF Settled, Setup
    <2> QED
      BY <1>1, <2>2, <2>4, <2>5, GoingHouses DEF Ready
  <1> QED
    BY <1>3, <1>4


LEMMA WriteToolHouses ==
  ASSUME NEW p \in Process, Ready(p), WriteTool(p)
  PROVE  Houses(p)
  <1>1. /\ FileSettled' /\ crossed' = crossed
        /\ AtHome(ReadSettings(mem[p].cmd.managed))
        /\ Homely(mem[p].doc, crossed)
    BY FileStaysSettled DEF Ready, WriteTool, Settled
  <1>2. CASE NextTool(p)
    BY <1>1, <1>2, NextToolHouses DEF Ready
  <1>3. CASE Goto(p, "save", mem[p])
    <2>1. Settled("save", mem[p], crossed')
      BY <1>1 DEF Settled, Setup
    <2> QED
      BY <1>1, <1>3, <2>1, GoingHouses DEF Ready
  <1>4. Tool1(p) \in Tool
    BY DEF Ready, WriteTool, Holds, Tool1
  <1> QED
    BY <1>2, <1>3, <1>4 DEF WriteTool, WriteClaude, WriteCodex, WriteDesktop, Wrote,
       NotWritten, StagingFails, Tool

LEMMA SaveHouses ==
  ASSUME NEW p \in Process, Ready(p), Save(p)
  PROVE  Houses(p)
  <1>1. /\ mem[p].doc \in Document /\ Homely(mem[p].doc, crossed)
        /\ AtHome(ReadSettings(mem[p].cmd.managed)) /\ crossed' = crossed
    BY DEF Ready, Save, Settled, Holds
  <1>2. FileSettled'
    BY <1>1, FileStaysSettled DEF Ready, Save
  <1> QED
    BY <1>1, <1>2, NextToolHouses DEF Ready, Save

LEMMA SetupHouses ==
  ASSUME NEW p \in Process, Ready(p),
         \/ SetupLoad(p) \/ StartCliSso(p) \/ PollUntilReady(p)
         \/ PromptTeamSelection(p) \/ SetupCheck(p) \/ SetupSave(p)
  PROVE  Houses(p)
  <1>1. /\ crossed' = crossed /\ mem[p].cmd \in Command
        /\ AtHome(ReadSettings(mem[p].cmd.managed))
    BY DEF Ready, SetupLoad, StartCliSso, PollUntilReady, PromptTeamSelection,
       SetupCheck, SetupSave, Settled, Holds
  <1>2. ASSUME FileSettled', NEW label \in Setup, NEW m, Goto(p, label, m),
               DOMAIN m = MemoryField, m.cmd = mem[p].cmd, Homely(m.doc, crossed)
        PROVE  Houses(p)
    <2>1. Settled(label, m, crossed')
      BY <1>1, <1>2 DEF Settled, Setup
    <2> QED
      BY <1>1, <1>2, <2>1, GoingHouses DEF Ready
  <1>3. CASE SetupLoad(p)
    <2> DEFINE m == [mem[p] EXCEPT !.doc = Loaded]
    <2>1. FileSettled'
      BY <1>1, <1>3, FileStaysSettled DEF Ready, SetupLoad
    <2>2. DOMAIN m = MemoryField /\ m.cmd = mem[p].cmd /\ m.doc = Loaded
      BY DEF Ready, MemoryField
    <2>3. PICK label \in Setup : Goto(p, label, m)
      BY <1>3 DEF SetupLoad, Setup
    <2> HIDE DEF m
    <2> QED
      BY <1>2, <2>1, <2>2, <2>3 DEF Ready
  <1>4. CASE StartCliSso(p) \/ PollUntilReady(p) \/ PromptTeamSelection(p)
    <2>1. FileSettled' /\ pc[p] \in Setup
      BY <1>1, <1>4, FileStaysSettled DEF Ready, StartCliSso, PollUntilReady,
         PromptTeamSelection, Setup
    <2>2. Homely(mem[p].doc, crossed)
      BY <2>1 DEF Ready, Settled
    <2>3. \/ \E key \in MaybeKey : Provide(p, key)
          \/ \E label \in Setup : Goto(p, label, mem[p])
          \/ Finish(p)
      BY <1>4 DEF StartCliSso, PollUntilReady, PromptTeamSelection, Setup
    <2>4. ASSUME NEW key, Provide(p, key), ~Finish(p) PROVE Houses(p)
      <3> DEFINE m == [mem[p] EXCEPT !.passed = key]
      <3>1. DOMAIN m = MemoryField /\ m.cmd = mem[p].cmd /\ m.doc = mem[p].doc
        BY DEF Ready, MemoryField
      <3>2. Goto(p, "setupCheck", m) /\ "setupCheck" \in Setup
        BY <2>4 DEF Provide, Setup
      <3> HIDE DEF m
      <3> QED
        BY <1>2, <2>1, <2>2, <3>1, <3>2
    <2>5. ASSUME NEW label \in Setup, Goto(p, label, mem[p]) PROVE Houses(p)
      BY <1>2, <2>1, <2>2, <2>5 DEF Ready
    <2> QED
      BY <1>1, <2>1, <2>3, <2>4, <2>5, FinishHouses DEF Ready
  <1>5. CASE SetupCheck(p)
    <2> DEFINE doc == [OnGateway(mem[p].doc, mem[p].cmd) EXCEPT !.apiKey = mem[p].passed]
               m == [mem[p] EXCEPT !.doc = doc]
    <2>1. FileSettled' /\ mem[p].doc \in Document /\ Homely(mem[p].doc, crossed)
      BY <1>1, <1>5, FileStaysSettled DEF Ready, SetupCheck, Settled, Holds, Setup
    <2>2. Finish(p) \/ Goto(p, "setupSave", m)
      BY <1>5 DEF SetupCheck
    <2>3. Homely(doc, crossed)
      <3> DEFINE moved == OnGateway(mem[p].doc, mem[p].cmd)
      <3>1. moved \in Document /\ Homely(moved, crossed)
        BY <1>1, <2>1, MovesAreDocuments, MovesStayHome
           DEF OnGateway, Command, Homely, Listed
      <3> HIDE DEF moved
      <3>2. /\ doc.url = moved.url /\ doc.team = moved.team
            /\ doc.parked = moved.parked /\ doc.environments = moved.environments
        BY <3>1, Zenon DEF Document, moved
      <3> QED
        BY <3>1, <3>2 DEF Homely, Listed, StaysHome
    <2> HIDE DEF doc
    <2>4. DOMAIN m = MemoryField /\ m.cmd = mem[p].cmd /\ m.doc = doc
      BY DEF Ready, MemoryField
    <2> HIDE DEF m
    <2>5. "setupSave" \in Setup
      BY DEF Setup
    <2> QED
      BY <1>1, <1>2, <2>1, <2>2, <2>3, <2>4, <2>5, FinishHouses DEF Ready
  <1>6. CASE SetupSave(p)
    <2>1. mem[p].doc \in Document /\ Homely(mem[p].doc, crossed)
      BY <1>6 DEF Ready, SetupSave, Settled, Holds, Setup
    <2>2. FileSettled'
      BY <1>1, <1>6, <2>1, FileStaysSettled DEF Ready, SetupSave
    <2>3. CASE Begin(p, Rerun({}))
      BY <1>1, <2>2, <2>3, BeginHouses, RerunsAreHome, RerunsAreCommands DEF Ready
    <2> QED
      BY <1>1, <1>6, <2>2, <2>3, FinishHouses DEF Ready, SetupSave
  <1> QED
    BY <1>3, <1>4, <1>5, <1>6

LEMMA InstallHouses ==
  ASSUME NEW p \in Process, Ready(p),
         Copy(p) \/ Overwrite(p) \/ Carry(p) \/ CarrySave(p) \/ Seed(p)
  PROVE  Houses(p)
  <1>1. /\ crossed' = crossed /\ mem[p].cmd \in Command
        /\ AtHome(ReadSettings(mem[p].cmd.managed))
    BY DEF Ready, Copy, Overwrite, Carry, CarrySave, Seed, Settled, Holds
  <1>2. CASE Copy(p)
    <2> DEFINE m == [mem[p] EXCEPT !.previous = config]
    <2>1. FileSettled' /\ Goto(p, "overwrite", m)
      BY <1>1, <1>2, FileStaysSettled DEF Ready, Copy
    <2>2. DOMAIN m = MemoryField /\ m.cmd = mem[p].cmd /\ m.previous = config
      BY DEF Ready, MemoryField
    <2> HIDE DEF m
    <2>3. Settled("overwrite", m, crossed')
      BY <1>1, <2>2 DEF Ready, Settled, Setup, FileSettled
    <2> QED
      BY <1>1, <2>1, <2>2, <2>3, GoingHouses DEF Ready
  <1>3. CASE Overwrite(p)
    <2>1. FileSettled'
      BY <1>1, <1>3 DEF Overwrite, Cmd, FileSettled, Homely, AtHome, Listed
    <2>2. \/ Goto(p, "seed", mem[p]) /\ Settled("seed", mem[p], crossed')
          \/ Goto(p, "carry", mem[p]) /\ Settled("carry", mem[p], crossed')
      BY <1>1, <1>3 DEF Ready, Overwrite, Settled, Setup
    <2> QED
      BY <1>1, <2>1, <2>2, GoingHouses DEF Ready
  <1>4. CASE Carry(p)
    <2> DEFINE old == ReadSettings(mem[p].previous)
               seeds == {ReadSettings(s) : s \in seeded}
               carried == CarryingInstallPicks(Loaded, old, seeds)
    <2>1. FileSettled' /\ old \in Document /\ Homely(old, crossed)
      <3>1. FileSettled'
        <4>1. UNCHANGED config
          BY <1>4, Zenon DEF Carry
        <4> QED
          BY <1>1, <4>1, FileStaysSettled DEF Ready
      <3>2. pc[p] = "carry"
        BY <1>4, Zenon DEF Carry
      <3>3. mem[p].previous # Absent /\ mem[p].previous \in RawDocument
        BY <3>2 DEF Ready, Holds
      <3>4. Homely(old, crossed)
        BY <3>2, <3>3 DEF Ready, Settled
      <3> QED
        BY <3>1, <3>3, <3>4, DocumentsAreRead
    <2>2. PICK label, doc :
            /\ \/ label = "seed"
               \/ label = "carrySave" /\ doc \in carried
            /\ Goto(p, label, [[mem[p] EXCEPT !.previous = old, !.read = Loaded,
                                              !.seen = seeds] EXCEPT !.doc = doc])
      BY <1>4, Zenon DEF Carry
    <2> DEFINE m == [[mem[p] EXCEPT !.previous = old, !.read = Loaded,
                                    !.seen = seeds] EXCEPT !.doc = doc]
    <2>3. DOMAIN m = MemoryField /\ m.cmd = mem[p].cmd /\ m.doc = doc
      BY DEF Ready, MemoryField
    <2>4. Goto(p, label, m)
      BY <2>2
    <2>5. label = "carrySave" => Homely(doc, crossed)
      <3> HIDE DEF old, seeds
      <3> QED
        BY <2>1, <2>2, InstallsStayHome DEF Ready, Homely, Listed
    <2> HIDE DEF m
    <2>6. Settled(label, m, crossed')
      BY <1>1, <2>2, <2>3, <2>5 DEF Settled, Setup
    <2> QED
      BY <1>1, <2>1, <2>3, <2>4, <2>6, GoingHouses DEF Ready
  <1>5. CASE CarrySave(p)
    <2>1. mem[p].doc \in Document /\ Homely(mem[p].doc, crossed)
      BY <1>5 DEF Ready, CarrySave, Settled, Holds
    <2>2. FileSettled'
      BY <1>1, <1>5, <2>1, FileStaysSettled DEF Ready, CarrySave
    <2>3. Settled("seed", mem[p], crossed')
      BY <1>1 DEF Settled, Setup
    <2> QED
      BY <1>1, <1>5, <2>2, <2>3, GoingHouses DEF Ready, CarrySave
  <1>6. CASE Seed(p)
    BY <1>1, <1>6, FileStaysSettled, FinishHouses DEF Ready, Seed
  <1> QED
    BY <1>2, <1>3, <1>4, <1>5, <1>6

LEMMA SwitchHouses ==
  ASSUME NEW p \in Process, Ready(p),
         SwitchLoad(p) \/ SwitchSave(p) \/ SwitchIssue(p)
  PROVE  Houses(p)
  <1>1. mem[p].cmd \in Command /\ AtHome(ReadSettings(mem[p].cmd.managed))
    BY DEF Ready, SwitchLoad, SwitchSave, SwitchIssue, Settled, Holds
  <1>2. CASE SwitchLoad(p)
    <2>1. FileSettled' /\ crossed' = crossed
      BY <1>2, FileStaysSettled DEF Ready, SwitchLoad
    <2>2. CASE Finish(p)
      BY <2>1, <2>2, FinishHouses DEF Ready
    <2>3. CASE ~Finish(p)
      <3>1. PICK patch \in SwitchPatches(Loaded, mem[p].cmd) :
              Goto(p, "switchSave", [mem[p] EXCEPT !.doc = Applied(patch, Loaded),
                                                   !.previous = Loaded])
        BY <1>2, <2>3 DEF SwitchLoad
      <3> DEFINE doc == Applied(patch, Loaded)
                 m == [mem[p] EXCEPT !.doc = doc, !.previous = Loaded]
      <3>2. Homely(doc, crossed)
        BY <1>1, SwitchesStayHome DEF Ready, Homely, Listed
      <3> HIDE DEF doc
      <3>3. /\ DOMAIN m = MemoryField /\ m.cmd = mem[p].cmd /\ m.doc = doc
            /\ m.previous = Loaded
        BY DEF Ready, MemoryField
      <3>4. Goto(p, "switchSave", m)
        BY <3>1 DEF doc
      <3> HIDE DEF m
      <3>5. Settled("switchSave", m, crossed')
        BY <1>1, <2>1, <3>2, <3>3 DEF Ready, Settled, Setup
      <3> QED
        BY <2>1, <3>3, <3>4, <3>5, GoingHouses DEF Ready
    <2> QED
      BY <2>2, <2>3
  <1>3. CASE SwitchSave(p)
    <2>1. /\ mem[p].doc \in Document /\ Homely(mem[p].doc, crossed)
          /\ Homely(mem[p].previous, crossed) /\ crossed' = crossed
      BY <1>3 DEF Ready, SwitchSave, Settled, Holds
    <2>2. FileSettled'
      BY <1>3, <2>1, FileStaysSettled DEF Ready, SwitchSave
    <2>3. Settled("switchIssue", mem[p], crossed')
      BY <1>1, <2>1 DEF Settled, Setup
    <2> QED
      BY <1>3, <2>1, <2>2, <2>3, GoingHouses, FinishHouses DEF Ready, SwitchSave
  <1>4. CASE SwitchIssue(p)
    <2> DEFINE old == mem[p].previous
    <2>1. old \in Document /\ Homely(old, crossed)
      BY <1>4 DEF Ready, SwitchIssue, Settled, Holds
    <2>2. PICK kind \in {"team", "environment"} :
            \/ UNCHANGED <<config, trigger, crossed>>
            \/ /\ Saved(Applied(Previous(kind, old), Loaded))
               /\ crossed' = (crossed
                              \/ Applied(Previous(kind, old), Loaded).url # old.url)
      BY <1>4 DEF SwitchIssue
    <2> DEFINE restored == Applied(Previous(kind, old), Loaded)
    <2>3. /\ restored \in Document
          /\ Homely(restored, crossed \/ restored.url # old.url)
      BY <2>1, UndoneAreDocuments, UndoneStayHome DEF Ready, Homely, Listed
    <2> HIDE DEF old, restored
    <2>4. crossed => crossed'
      BY <2>2
    <2>5. UNCHANGED config \/ (Saved(restored) /\ Homely(restored, crossed'))
      BY <2>2, <2>3 DEF restored
    <2>6. FileSettled'
      BY <2>3, <2>4, <2>5, FileStaysSettled DEF Ready
    <2> QED
      BY <1>4, <2>4, <2>6, FinishHouses DEF Ready, SwitchIssue
  <1> QED
    BY <1>2, <1>3, <1>4

LEMMA StepsHouse ==
  ASSUME NEW p \in Process, Ready(p),
         \/ Steps(p) \/ Crash(p)
         \/ p \in Proc /\ Start(p)
         \/ p = Watcher /\ Watch(Watcher)
  PROVE  Houses(p)
  <1>1. CASE Crash(p)
    BY <1>1, FileStaysSettled, FinishHouses DEF Ready, Crash
  <1>2. CASE p \in Proc /\ Start(p)
    <2>1. FileSettled' /\ crossed' = crossed
      BY <1>2, FileStaysSettled DEF Ready, Start
    <2>2. PICK cmd \in Commands : Begin(p, cmd)
      BY <1>2 DEF Start
    <2>3. cmd \in Command /\ AtHome(ReadSettings(cmd.managed))
      BY DeviceAssumption, HomeAssumption
    <2> QED
      BY <2>1, <2>2, <2>3, BeginHouses DEF Ready
  <1>3. CASE p = Watcher /\ Watch(Watcher)
    <2>1. FileSettled' /\ crossed' = crossed
      BY <1>3, FileStaysSettled DEF Ready, Watch
    <2>2. Rerun({"claude-desktop"}) \in Command
      BY RerunsAreCommands DEF Tool
    <2> QED
      BY <1>3, <2>1, <2>2, BeginHouses, RerunsAreHome DEF Ready, Watch
  <1>4. CASE Steps(p)
    BY <1>4, FallbackAndGateHouse, ConfigureHouses, WriteToolHouses, SaveHouses,
       SetupHouses, InstallHouses, SwitchHouses DEF Steps
  <1> QED
    BY <1>1, <1>2, <1>3, <1>4

\* Picked and parked teams are of their environments in config.yaml and in every
\* copy of it that a command works on, would save or would put back, until a
\* refused switch of a team crosses (move_gateway_to, GatewayPatch,
\* carrying_selection_from).
THEOREM PicksInvariance == Spec => []PicksInv
  <1>1. Init => PicksInv
    BY HomeAssumption DEF Init, PicksInv, FileSettled, Settled, Setup, Homely, AtHome,
       Listed
  <1>2. ASSUME DeviceType, PicksInv, [Next]_vars PROVE PicksInv'
    <2>1. ASSUME NEW p \in Process,
                 \/ Steps(p) \/ Crash(p)
                 \/ p \in Proc /\ Start(p)
                 \/ p = Watcher /\ Watch(Watcher)
          PROVE  PicksInv'
      <3>1. Houses(p)
        BY <1>2, <2>1, BeingReady, StepsHouse
      <3>2. \A q \in Process \ {p} : pc'[q] = pc[q] /\ mem'[q] = mem[q]
        BY <1>2, <2>1, StepsKeep DEF Keeps
      <3>3. \A q \in Process \ {p} : Settled(pc'[q], mem'[q], crossed')
        BY <1>2, <3>1, <3>2 DEF PicksInv, Houses, Settled, Homely
      <3> QED
        BY <3>1, <3>3 DEF PicksInv, Houses
    <2>2. CASE (\E url \in Gateway, key \in StaticKey : Revoke(url, key)) \/ UNCHANGED vars
      BY <1>2, <2>2 DEF Revoke, vars, PicksInv, FileSettled
    <2>3. Proc \subseteq Process /\ Watcher \in Process
      BY DEF Process
    <2>4. CASE \E p \in Proc : Start(p)
      BY <2>1, <2>3, <2>4
    <2>5. CASE Watch(Watcher)
      BY <2>1, <2>3, <2>5
    <2>6. CASE \E p \in Process : Steps(p) \/ Crash(p)
      BY <2>1, <2>6
    <2> QED
      BY <1>2, <2>2, <2>4, <2>5, <2>6 DEF Next
  <1> QED
    BY <1>1, <1>2, DeviceTypeInvariance, PTL DEF Spec

\* A team that was picked on one environment is never the picked team of
\* another, but for the one way that `crossed` records, whichever commands
\* overlap (move_gateway_to, switch_team, switch_environment, carry-selection).
THEOREM PicksAreHome == Spec => []PicksStayHome
  <1>1. DeviceType /\ PicksInv => PicksStayHome
    BY DEF DeviceType, FilesTyped, PicksInv, FileSettled, Homely, StaysHome,
       ReadSettings, RawDocument, PicksStayHome
  <1> QED
    BY <1>1, DeviceTypeInvariance, PicksInvariance, PTL

-----------------------------------------------------------------------------
(* Installs: what carry-selection saves keeps what was picked *)

\* A document differs from the new one in what it is about only.
Tuned(new, doc) ==
  \E url, team, parked :
    doc = [new EXCEPT !.url = url, !.team = team, !.parked = parked]

LEMMA TunedKeepsTheRest ==
  ASSUME NEW new \in Document, NEW doc, Tuned(new, doc)
  PROVE  [doc EXCEPT !.url = new.url, !.team = new.team, !.parked = new.parked] = new
  <1>1. PICK url, team, parked :
          doc = [new EXCEPT !.url = url, !.team = team, !.parked = parked]
    BY DEF Tuned
  <1>2. DOMAIN new = {"idp", "apiKey", "url", "team", "parked", "environments",
                      "claude", "codex", "sso"}
    BY DEF Document
  <1>3. new = [f \in DOMAIN new |-> new[f]]
    BY DEF Document
  <1> QED
    BY <1>1, <1>2, <1>3

LEMMA CarriedAreTuned ==
  ASSUME NEW new \in Document, NEW picks,
         NEW doc \in CarryingPicksParkingTheManagedTeam(new, picks)
  PROVE  Tuned(new, doc)
  <1>1. PICK c \in CarryingSelectionFrom(new, picks) :
          doc = ParkingTeam(c, CurrentName(new), new.team)
    BY DEF CarryingPicksParkingTheManagedTeam
  <1>2. PICK url, team, parked :
          c = [new EXCEPT !.url = url, !.team = team, !.parked = parked]
    <2>1. CASE c = [new EXCEPT !.team = picks.team]
      <3>1. c = [new EXCEPT !.url = new.url, !.team = picks.team,
                            !.parked = new.parked]
        BY <2>1 DEF Document
      <3> QED
        BY <3>1
    <2>2. ASSUME NEW kept, c = CarriedTo(new, picks, kept)
          PROVE  \E url, team, parked :
                   c = [new EXCEPT !.url = url, !.team = team, !.parked = parked]
      BY <2>2, Zenon DEF CarriedTo
    <2> QED
      BY <2>1, <2>2, WhatIsCarried
  <1>3. \/ doc = c
        \/ doc = [c EXCEPT !.parked[CurrentName(new)] = new.team]
    BY <1>1 DEF ParkingTeam
  <1>4. CASE doc = c
    BY <1>2, <1>4 DEF Tuned
  <1>5. CASE doc = [c EXCEPT !.parked[CurrentName(new)] = new.team]
    <2> DEFINE more == [parked EXCEPT ![CurrentName(new)] = new.team]
    <2>1. c.parked = parked
      BY <1>2 DEF Document
    <2>2. doc = [c EXCEPT !.parked = more]
      BY <1>5, <2>1
    <2> HIDE DEF more
    <2>3. doc = [new EXCEPT !.url = url, !.team = team, !.parked = more]
      BY <1>2, <2>2 DEF Document
    <2> QED
      BY <2>3 DEF Tuned
  <1> QED
    BY <1>3, <1>4, <1>5

\* The picks of a document are what carry-selection counts as picked.
PicksOf(old, seeds, picks) ==
  /\ Counted(old, picks)
  /\ \A n \in Name : TeamAt(picks, n) = IF Picked(old, seeds, n) THEN TeamAt(old, n)
                                        ELSE NoTeam

LEMMA CountedIsThere ==
  ASSUME NEW old, NEW picks, Counted(old, picks)
  PROVE  /\ CurrentEnvironment(picks) = CurrentEnvironment(old)
         /\ CurrentName(picks) = CurrentName(old)
  BY DEF Counted, CurrentEnvironment, EnvironmentWithUrl, CurrentName

\* Without a copy of the earlier managed config, the current team is not one.
LEMMA PicksWithoutACopy ==
  ASSUME NEW old \in Document
  PROVE  PicksOf(old, {}, [old EXCEPT !.team = NoTeam])
  <1> DEFINE picks == [old EXCEPT !.team = NoTeam]
  <1>1. Counted(old, picks) /\ CurrentName(picks) = CurrentName(old)
    BY PicksAreCounted, CountedIsThere
  <1>2. picks.team = NoTeam /\ picks.parked = old.parked
    BY DEF Document
  <1> HIDE DEF picks
  <1>3. \A n \in Name : TeamAt(picks, n) = IF Picked(old, {}, n) THEN TeamAt(old, n)
                                           ELSE NoTeam
    BY <1>1, <1>2 DEF Picked, TeamAt
  <1> QED
    BY <1>1, <1>3 DEF PicksOf, picks

\* With one, neither is the team that it put there.
LEMMA PicksWithACopy ==
  ASSUME NEW old \in Document, Listed(old), NEW s,
         CurrentEnvironment(old) # {}
  PROVE  PicksOf(old, {s}, WithoutSeededPicks(old, s))
  <1> DEFINE picks == WithoutSeededPicks(old, s)
             here == CurrentName(old)
             Seeded(name, team) == /\ s.team # NoTeam /\ team = s.team
                                   /\ name = CurrentName(s)
  <1>1. Counted(old, picks) /\ CurrentName(picks) = here
    BY PicksAreCounted, CountedIsThere
  <1>2. OnTheGatewayOf(old, s) <=> here = CurrentName(s)
    BY DEF OnTheGatewayOf
  <1>3. /\ picks.team = IF here = CurrentName(s) /\ Seeded(here, old.team) THEN NoTeam
                        ELSE old.team
        /\ \A n \in Name : picks.parked[n] = IF Seeded(n, old.parked[n]) THEN NoTeam
                                             ELSE old.parked[n]
    BY <1>2 DEF WithoutSeededPicks, Document
  <1>4. \A n \in Name : Picked(old, {s}, n) <=>
          TeamAt(old, n) # NoTeam /\ (n = CurrentName(s) => TeamAt(old, n) # s.team)
    BY DEF Picked
  <1> HIDE DEF picks
  <1>5. \A n \in Name : TeamAt(picks, n) = IF Picked(old, {s}, n) THEN TeamAt(old, n)
                                           ELSE NoTeam
    BY <1>1, <1>3, <1>4 DEF TeamAt
  <1> QED
    BY <1>1, <1>5 DEF PicksOf, picks

LEMMA CarryingKeeps ==
  ASSUME NEW new \in Document, NEW old \in Document, Listed(new), Listed(old),
         NEW seeds, NEW picks, CurrentEnvironment(old) # {} => PicksOf(old, seeds, picks),
         Counted(old, picks), NEW doc,
         \/ doc \in CarryingPicksParkingTheManagedTeam(new, picks)
         \/ doc = new /\ CarryingPicksParkingTheManagedTeam(new, picks) = {}
  PROVE  Kept(new, old, seeds, doc)
  <1> DEFINE here == CurrentName(old)
             default == CurrentName(new)
  <1>1. [doc EXCEPT !.url = new.url, !.team = new.team, !.parked = new.parked] = new
    <2>1. CASE doc = new
      BY <2>1 DEF Document
    <2>2. CASE doc # new
      BY <2>2, CarriedAreTuned, TunedKeepsTheRest
    <2> QED
      BY <2>1, <2>2
  <1>2. ASSUME here \in Name, EnvironmentNamed(new, here) # {}
        PROVE  /\ \A n \in Name : Picked(old, seeds, n) /\ EnvironmentNamed(new, n) # {}
                                    => TeamAt(doc, n) = TeamAt(old, n)
               /\ CurrentName(doc) = here
               /\ default # NoName /\ ~Picked(old, seeds, default)
                    => TeamAt(doc, default) = new.team
    <2>1. /\ CurrentEnvironment(old) # {} /\ PicksOf(old, seeds, picks)
          /\ CurrentName(picks) = here /\ CurrentEnvironment(picks) # {}
      BY <1>2, CurrentIsHome, CountedIsThere, NameAssumption
    <2>2. PICK kept \in EnvironmentNamed(new, here) : TRUE
      BY <1>2
    <2>3. /\ kept.url \in Gateway /\ here = Home[kept.url]
          /\ EnvironmentNamed(new, here) = {kept}
          /\ EnvironmentWithUrl(new, kept.url) = {kept}
      <3>1. kept.url \in Gateway /\ here = Home[kept.url]
        BY NamedIsHome
      <3> QED
        BY <2>2, <3>1, OneEntry
    <2>4. (CurrentEnvironment(new) = {kept}) <=> default = here
      <3>1. CASE new.url = kept.url
        BY <2>3, <3>1, CurrentIsHome DEF CurrentEnvironment
      <3>2. CASE new.url # kept.url
        <4>1. CurrentEnvironment(new) # {kept}
          BY <3>2, OneEntry DEF CurrentEnvironment, Document
        <4>2. default # here
          BY <1>2, <2>3, <3>2, CurrentIsHome, HomeAssumption, NameAssumption
             DEF Document
        <4> QED
          BY <4>1, <4>2
      <3> QED
        BY <3>1, <3>2
    <2> DEFINE c == CarriedTo(new, picks, kept)
    <2>5. CarryingSelectionFrom(new, picks) =
            IF default = here /\ picks.team = NoTeam
               /\ CarriedParked(new, picks) = NothingParked
            THEN {} ELSE {c}
      <3>1. CarryingSelectionFrom(new, picks) =
              UNION {IF CurrentEnvironment(new) = {k} /\ picks.team = NoTeam
                        /\ CarriedParked(new, picks) = NothingParked
                     THEN {} ELSE {CarriedTo(new, picks, k)} :
                       k \in EnvironmentNamed(new, CurrentName(picks))}
        BY <2>1, Zenon DEF CarryingSelectionFrom, CarriedTo, CarriedParked
      <3>2. \A k : k \in EnvironmentNamed(new, CurrentName(picks)) <=> k = kept
        BY <2>1, <2>3
      <3> HIDE DEF c
      <3> QED
        BY <2>4, <3>1, <3>2 DEF c
    <2>6. \A n \in Name : TeamAt(picks, n) = IF Picked(old, seeds, n) THEN TeamAt(old, n)
                                             ELSE NoTeam
      BY <2>1 DEF PicksOf
    <2>7. CASE doc = new /\ CarryingSelectionFrom(new, picks) = {}
      <3>1. /\ default = here /\ picks.team = NoTeam
            /\ CarriedParked(new, picks) = NothingParked
        BY <2>5, <2>7
      <3>2. \A n \in Name : EnvironmentNamed(new, n) # {} => TeamAt(picks, n) = NoTeam
        BY <2>1, <3>1 DEF TeamAt, CarriedParked, NothingParked
      <3>3. \A n \in Name : Picked(old, seeds, n) => TeamAt(old, n) # NoTeam
        BY DEF Picked
      <3> QED
        BY <2>6, <2>7, <3>1, <3>2, <3>3 DEF TeamAt
    <2>8. CASE CarryingSelectionFrom(new, picks) = {c}
               /\ doc = ParkingTeam(c, default, new.team)
      <3>1. /\ c.url = kept.url /\ c.environments = new.environments
            /\ c.parked = CarriedParked(new, picks)
            /\ c.team = IF picks.team # NoTeam THEN picks.team
                        ELSE IF default = here THEN new.team ELSE NoTeam
        BY <2>4, Zenon DEF CarriedTo, Document
      <3>2. c \in Document
        <4>1. picks \in Document
          BY DEF Counted
        <4> QED
          BY <2>8, <4>1, CarriedAreDocuments
      <3> HIDE DEF c
      <3>3. ASSUME NEW d, d.url = kept.url, d.environments = new.environments
            PROVE  CurrentEnvironment(d) = {kept} /\ CurrentName(d) = here
        <4>1. CurrentEnvironment(d) = {kept}
          BY <2>3, <3>3 DEF CurrentEnvironment, EnvironmentWithUrl
        <4>2. kept.name = here
          BY NamedIsHome
        <4> QED
          BY <4>1, <4>2 DEF CurrentName
      <3>4. /\ doc.url = c.url /\ doc.environments = c.environments /\ doc.team = c.team
        BY <2>8, <3>2, ParkingStaysHome
      <3>5. CurrentName(doc) = here /\ CurrentName(c) = here /\ CurrentEnvironment(c) # {}
        BY <3>1, <3>3, <3>4
      <3>6. \A n \in Name :
              doc.parked[n] = IF n = default /\ new.team # NoTeam /\ default # here
                                 /\ c.parked[n] = NoTeam
                              THEN new.team ELSE c.parked[n]
        BY <2>8, <3>2, <3>5, NameAssumption DEF ParkingTeam, Document
      <3>7. \A n \in Name : c.parked[n] = IF EnvironmentNamed(new, n) # {}
                                          THEN picks.parked[n] ELSE NoTeam
        BY <3>1 DEF CarriedParked
      <3>8. ASSUME NEW n \in Name, Picked(old, seeds, n), EnvironmentNamed(new, n) # {}
            PROVE  TeamAt(doc, n) = TeamAt(old, n)
        <4>1. TeamAt(picks, n) = TeamAt(old, n) /\ TeamAt(old, n) # NoTeam
          BY <2>6, <3>8 DEF Picked
        <4> QED
          BY <2>1, <3>1, <3>4, <3>5, <3>6, <3>7, <3>8, <4>1 DEF TeamAt
      <3>9. ASSUME default # NoName, ~Picked(old, seeds, default)
            PROVE  TeamAt(doc, default) = new.team
        <4>1. default \in Name /\ EnvironmentNamed(new, default) # {}
          <5>1. new.url \in Gateway
            BY DEF Document
          <5>2. CurrentEnvironment(new) # {} /\ default = Home[new.url]
            BY <3>9, CurrentIsHome
          <5>3. EnvironmentNamed(new, Home[new.url]) = CurrentEnvironment(new)
            BY <5>1, OneEntry DEF CurrentEnvironment
          <5> QED
            BY <5>1, <5>2, <5>3, DeviceAssumption
        <4>2. TeamAt(picks, default) = NoTeam
          BY <2>6, <3>9, <4>1
        <4> QED
          BY <2>1, <3>1, <3>4, <3>5, <3>6, <3>7, <4>1, <4>2 DEF TeamAt
      <3> QED
        BY <3>5, <3>8, <3>9
    <2> QED
      BY <2>5, <2>7, <2>8 DEF CarryingPicksParkingTheManagedTeam
  <1> DEFINE counted == {n \in Name : Picked(old, seeds, n)}
             listed == {n \in Name : EnvironmentNamed(new, n) # {}}
  <1>3. default # NoName => default \in Name
    BY CurrentIsHome
  <1>4. ASSUME here \in listed
        PROVE  /\ \A n \in counted \cap listed : TeamAt(doc, n) = TeamAt(old, n)
               /\ CurrentName(doc) = here
               /\ default \notin counted /\ default # NoName
                    => TeamAt(doc, default) = new.team
    <2> HIDE DEF here, default
    <2> QED
      BY <1>2, <1>3, <1>4
  <1> QED
    BY <1>1, <1>4, Zenon DEF Kept


\* Where nothing was picked, and the device is where it was put, all stays new.
LEMMA NothingPickedNothingKept ==
  ASSUME NEW new \in Document, NEW old \in Document, Listed(old), NEW s, NEW picks,
         Counted(old, picks), CurrentEnvironment(old) # {} => PicksOf(old, {s}, picks),
         picks.team = NoTeam, picks.parked = NothingParked, OnTheGatewayOf(picks, s)
  PROVE  Kept(new, old, {s}, new)
  <1> DEFINE here == CurrentName(old)
             default == CurrentName(new)
             counted == {n \in Name : Picked(old, {s}, n)}
             listed == {n \in Name : EnvironmentNamed(new, n) # {}}
  <1>1. [new EXCEPT !.url = new.url, !.team = new.team, !.parked = new.parked] = new
    BY DEF Document
  <1>2. ASSUME here \in Name
        PROVE  counted = {} /\ ~Moved(old, {s})
    <2>1. /\ CurrentEnvironment(old) # {} /\ PicksOf(old, {s}, picks)
          /\ CurrentEnvironment(picks) # {} /\ CurrentName(picks) = here
      BY <1>2, CurrentIsHome, CountedIsThere, NameAssumption
    <2>2. here = CurrentName(s)
      BY <2>1 DEF OnTheGatewayOf
    <2>3. \A n \in Name : TeamAt(picks, n) = NoTeam
      BY DEF TeamAt, NothingParked
    <2>4. \A n \in Name : ~Picked(old, {s}, n)
      <3>1. \A n \in Name : Picked(old, {s}, n) => TeamAt(old, n) # NoTeam
        BY DEF Picked
      <3> QED
        BY <2>1, <2>3, <3>1 DEF PicksOf
    <2> QED
      BY <2>2, <2>4 DEF Moved
  <1>3. TeamAt(new, default) = new.team
    BY DEF TeamAt
  <1>4. ASSUME here \in listed
        PROVE  /\ \A n \in counted \cap listed : TeamAt(new, n) = TeamAt(old, n)
               /\ Moved(old, {s}) \/ here \in counted => default = here
               /\ default \notin counted /\ default # NoName
                    => TeamAt(new, default) = new.team
    <2> HIDE DEF here, default, counted
    <2> QED
      BY <1>2, <1>3, <1>4
  <1> QED
    BY <1>1, <1>4, Zenon DEF Kept

LEMMA InstallsKeepPicks ==
  ASSUME NEW new \in Document, NEW old \in Document, Listed(new), Listed(old),
         NEW seeds, \A s, t \in seeds : s = t, NEW doc,
         \/ doc \in CarryingInstallPicks(new, old, seeds)
         \/ doc = new /\ CarryingInstallPicks(new, old, seeds) = {}
  PROVE  Kept(new, old, seeds, doc)
  <1>1. CASE seeds = {}
    <2> DEFINE picks == [old EXCEPT !.team = NoTeam]
    <2>1. PicksOf(old, {}, picks) /\ Counted(old, picks)
      BY PicksWithoutACopy, PicksAreCounted
    <2>2. CarryingInstallPicks(new, old, {})
            = CarryingPicksParkingTheManagedTeam(new, picks)
      BY DEF CarryingInstallPicks
    <2> HIDE DEF picks
    <2> QED
      BY <1>1, <2>1, <2>2, CarryingKeeps
  <1>2. CASE seeds # {}
    <2>1. PICK s : seeds = {s}
      BY <1>2
    <2> DEFINE picks == WithoutSeededPicks(old, s)
               none == /\ picks.team = NoTeam /\ picks.parked = NothingParked
                       /\ OnTheGatewayOf(picks, s)
    <2>2. CarryingInstallPicks(new, old, {s})
            = IF none THEN {} ELSE CarryingPicksParkingTheManagedTeam(new, picks)
      <3>1. CarryingInstallPicks(new, old, {s}) = CarryingPicksOver(new, old, s)
        BY DEF CarryingInstallPicks
      <3> QED
        BY <3>1, Zenon DEF CarryingPicksOver
    <2>3. /\ Counted(old, picks)
          /\ CurrentEnvironment(old) # {} => PicksOf(old, {s}, picks)
      BY PicksAreCounted, PicksWithACopy
    <2> HIDE DEF picks
    <2>4. CASE none
      BY <2>1, <2>2, <2>3, <2>4, NothingPickedNothingKept
    <2>5. CASE ~none
      BY <2>1, <2>2, <2>3, <2>5, CarryingKeeps
    <2> QED
      BY <2>4, <2>5
  <1> QED
    BY <1>1, <1>2

\* An install that has carried what it found keeps that in its memory until it
\* is done.
Carried(label, m) ==
  /\ label \in {"copy", "overwrite"} => m.doc = None
  /\ label = "carrySave" \/ (label = "seed" /\ m.doc # None) =>
       Kept(m.read, m.previous, m.seen, m.doc)

OneCopy == \A s, t \in seeded : s = t

InstallsInv == OneCopy /\ \A p \in Process : Carried(pc[p], mem[p])

\* The other commands' steps end elsewhere.
LEMMA OthersCarryNothing ==
  ASSUME NEW label, NEW m, label \notin {"copy", "overwrite", "carrySave", "seed"}
  PROVE  Carried(label, m)
  BY DEF Carried

LEMMA CarryCarries ==
  ASSUME NEW p \in Process, Ready(p), OneCopy, Carry(p)
  PROVE  Carried(pc'[p], mem'[p])
  <1> DEFINE new == Loaded
             old == ReadSettings(mem[p].previous)
             seeds == {ReadSettings(s) : s \in seeded}
             carried == CarryingInstallPicks(new, old, seeds)
             next == [mem[p] EXCEPT !.previous = old, !.read = new, !.seen = seeds]
  <1>1. PICK label, doc :
          /\ \/ doc = new /\ carried = {}
             \/ doc \in carried
          /\ Goto(p, label, [next EXCEPT !.doc = doc])
          /\ label \in {"seed", "carrySave"}
    BY Zenon DEF Carry
  <1>2. old \in Document /\ Listed(old) /\ Listed(new) /\ new \in Document
    <2>1. pc[p] = "carry"
      BY Zenon DEF Carry
    <2>2. mem[p].previous # Absent /\ mem[p].previous \in RawDocument
      BY <2>1 DEF Ready, Holds
    <2>3. Homely(old, crossed)
      BY <2>1, <2>2 DEF Ready, Settled
    <2> QED
      BY <2>2, <2>3, DocumentsAreRead DEF Ready, Homely
  <1>3. \A s, t \in seeds : s = t
    BY DEF OneCopy
  <1> DEFINE m == [next EXCEPT !.doc = doc]
  <1>4. /\ DOMAIN m = MemoryField /\ m.read = new /\ m.previous = old
        /\ m.seen = seeds /\ m.doc = doc
    BY DEF Ready, MemoryField
  <1>5. Goto(p, label, m)
    BY <1>1
  <1> HIDE DEF m, carried, seeds, old, new
  <1>6. Kept(new, old, seeds, doc)
    BY <1>1, <1>2, <1>3, InstallsKeepPicks DEF carried
  <1>7. Carried(label, m)
    BY <1>1, <1>4, <1>6 DEF Carried
  <1> QED
    BY <1>4, <1>5, <1>7, Going DEF Ready

LEMMA InstallCarries ==
  ASSUME NEW p \in Process, Ready(p), OneCopy, Carried(pc[p], mem[p]),
         Copy(p) \/ Overwrite(p) \/ CarrySave(p) \/ Seed(p)
  PROVE  Carried(pc'[p], mem'[p]) /\ OneCopy'
  <1>1. CASE Copy(p)
    <2> DEFINE m == [mem[p] EXCEPT !.previous = config]
    <2>1. Goto(p, "overwrite", m) /\ seeded' = seeded
      BY <1>1 DEF Copy
    <2>2. DOMAIN m = MemoryField /\ m.doc = mem[p].doc
      BY DEF Ready, MemoryField
    <2> HIDE DEF m
    <2>3. Carried("overwrite", m)
      BY <1>1, <2>2 DEF Carried, Copy
    <2> QED
      BY <2>1, <2>2, <2>3, Going DEF Ready, OneCopy
  <1>2. CASE Overwrite(p)
    <2>1. \/ Goto(p, "seed", mem[p]) \/ Goto(p, "carry", mem[p])
      BY <1>2 DEF Overwrite
    <2>2. Carried("seed", mem[p]) /\ Carried("carry", mem[p])
      BY <1>2 DEF Carried, Overwrite
    <2>3. seeded' = seeded
      BY <1>2 DEF Overwrite
    <2> QED
      BY <2>1, <2>2, <2>3, Going DEF Ready, OneCopy
  <1>3. CASE CarrySave(p)
    <2>1. Goto(p, "seed", mem[p]) /\ Carried("seed", mem[p]) /\ seeded' = seeded
      BY <1>3 DEF Carried, CarrySave
    <2> QED
      BY <2>1, Going DEF Ready, OneCopy
  <1>4. CASE Seed(p)
    <2>1. Finish(p) /\ OneCopy'
      BY <1>4 DEF Seed, OneCopy
    <2>2. Carried("idle", Idle)
      BY DEF Carried
    <2> QED
      BY <2>1, <2>2, Going, IdleIsMemory DEF Ready, Finish
  <1> QED
    BY <1>1, <1>2, <1>3, <1>4

LEMMA BeginCarries ==
  ASSUME Shape, NEW p \in Process, NEW cmd \in Command, Begin(p, cmd)
  PROVE  Carried(pc'[p], mem'[p])
  <1>1. Goto(p, FirstStep[cmd.kind], BeginMemory(cmd))
    BY DEF Begin, BeginMemory
  <1>2. DOMAIN BeginMemory(cmd) = MemoryField /\ BeginMemory(cmd).doc = None
    BY DEF BeginMemory, Idle, MemoryField
  <1>3. FirstStep[cmd.kind] \notin {"carrySave", "seed"}
    BY DEF FirstStep, Command
  <1>4. Carried(FirstStep[cmd.kind], BeginMemory(cmd))
    BY <1>2, <1>3 DEF Carried
  <1> QED
    BY <1>1, <1>2, <1>4, Going

LEMMA StepsCarry ==
  ASSUME NEW p \in Process, Ready(p), OneCopy, Carried(pc[p], mem[p]),
         \/ Steps(p) \/ Crash(p)
         \/ p \in Proc /\ Start(p)
         \/ p = Watcher /\ Watch(Watcher)
  PROVE  Carried(pc'[p], mem'[p]) /\ OneCopy'
  <1> DEFINE Other == \E label, m : Goto(p, label, m)
                        /\ label \notin {"copy", "overwrite", "carrySave", "seed"}
  <1>1. Other => Carried(pc'[p], mem'[p])
    BY OthersCarryNothing DEF Goto, Ready, Shape
  <1>2. Finish(p) => Other
    BY DEF Finish
  <1>3. NextTool(p) => Other
    BY <1>2 DEF NextTool
  <1>4. \A key : Provide(p, key) => Other
    BY <1>2 DEF Provide
  <1>5. CASE Crash(p)
    BY <1>1, <1>2, <1>5 DEF Crash, OneCopy
  <1>6. CASE p \in Proc /\ Start(p)
    BY <1>6, DeviceAssumption, BeginCarries DEF Start, Ready, OneCopy
  <1>7. CASE p = Watcher /\ Watch(Watcher)
    <2>1. Rerun({"claude-desktop"}) \in Command
      BY RerunsAreCommands DEF Tool
    <2> QED
      BY <1>7, <2>1, BeginCarries DEF Watch, Ready, OneCopy
  <1>8. CASE Carry(p)
    <2>1. seeded' = seeded
      BY <1>8, Zenon DEF Carry
    <2> QED
      BY <1>8, <2>1, CarryCarries DEF OneCopy
  <1>9. CASE Copy(p) \/ Overwrite(p) \/ CarrySave(p) \/ Seed(p)
    BY <1>9, InstallCarries
  <1>10. CASE SetupSave(p)
    <2>1. Rerun({}) \in Command
      BY RerunsAreCommands
    <2>2. Begin(p, Rerun({})) \/ Finish(p)
      BY <1>10 DEF SetupSave
    <2>3. seeded' = seeded
      BY <1>10 DEF SetupSave
    <2> QED
      BY <1>1, <1>2, <2>1, <2>2, <2>3, BeginCarries DEF Ready, OneCopy
  <1>11. ASSUME \/ Fallback(p) \/ Gate(p) \/ Configure(p) \/ WriteTool(p) \/ Save(p)
                \/ SetupLoad(p) \/ StartCliSso(p) \/ PollUntilReady(p)
                \/ PromptTeamSelection(p) \/ SetupCheck(p)
                \/ SwitchLoad(p) \/ SwitchSave(p) \/ SwitchIssue(p)
         PROVE  Other /\ seeded' = seeded
    <2>1. CASE Fallback(p) \/ Gate(p)
      <3>1. \/ Finish(p)
            \/ \E label \in {"gate", "configure"} : \E m : Goto(p, label, m)
        BY <2>1, Zenon DEF Fallback, Gate
      <3> QED
        BY <1>2, <2>1, <3>1 DEF Fallback, Gate
    <2>2. CASE Configure(p) \/ Save(p)
      <3>1. NextTool(p) \/ \E m : Goto(p, "write", m)
        BY <2>2, Zenon DEF Configure, Save
      <3>2. seeded' = seeded
        BY <2>2, Zenon DEF Configure, Save
      <3> QED
        BY <1>3, <3>1, <3>2
    <2>3. CASE WriteTool(p)
      <3>1. Tool1(p) \in Tool
        BY <2>3 DEF Ready, WriteTool, Holds, Tool1
      <3>2. NextTool(p) \/ Goto(p, "save", mem[p])
        BY <2>3, <3>1 DEF WriteTool, WriteClaude, WriteCodex, WriteDesktop, Wrote,
           NotWritten, StagingFails, Tool
      <3> QED
        BY <1>3, <2>3, <3>2 DEF WriteTool
    <2>4. CASE SetupLoad(p)
      BY <2>4 DEF SetupLoad
    <2>5. CASE StartCliSso(p) \/ PollUntilReady(p) \/ PromptTeamSelection(p)
      BY <1>2, <1>4, <2>5 DEF StartCliSso, PollUntilReady, PromptTeamSelection
    <2>6. CASE SetupCheck(p)
      BY <1>2, <2>6 DEF SetupCheck
    <2>7. CASE SwitchLoad(p)
      <3>1. Finish(p) \/ \E m : Goto(p, "switchSave", m)
        BY <2>7, Zenon DEF SwitchLoad
      <3>2. seeded' = seeded
        BY <2>7, Zenon DEF SwitchLoad
      <3> QED
        BY <1>2, <3>1, <3>2
    <2>8. CASE SwitchSave(p) \/ SwitchIssue(p)
      <3>1. Finish(p) \/ Goto(p, "switchIssue", mem[p])
        BY <2>8, Zenon DEF SwitchSave, SwitchIssue
      <3> QED
        BY <1>2, <2>8, <3>1 DEF SwitchSave, SwitchIssue
    <2> QED
      BY <1>11, <2>1, <2>2, <2>3, <2>4, <2>5, <2>6, <2>7, <2>8
  <1> QED
    BY <1>1, <1>5, <1>6, <1>7, <1>8, <1>9, <1>10, <1>11 DEF Steps, OneCopy

\* From the moment that carry-selection is through, an install has in its memory
\* a document that keeps what was picked (carrying_install_picks).
THEOREM InstallsInvariance == Spec => []InstallsInv
  <1>1. Init => InstallsInv
    BY OthersCarryNothing DEF Init, InstallsInv, OneCopy
  <1>2. ASSUME DeviceType, PicksInv, InstallsInv, [Next]_vars PROVE InstallsInv'
    <2>1. ASSUME NEW p \in Process,
                 \/ Steps(p) \/ Crash(p)
                 \/ p \in Proc /\ Start(p)
                 \/ p = Watcher /\ Watch(Watcher)
          PROVE  InstallsInv'
      <3>1. Carried(pc'[p], mem'[p]) /\ OneCopy'
        BY <1>2, <2>1, BeingReady, StepsCarry DEF InstallsInv
      <3>2. \A q \in Process \ {p} : pc'[q] = pc[q] /\ mem'[q] = mem[q]
        BY <1>2, <2>1, StepsKeep DEF Keeps
      <3> QED
        BY <1>2, <3>1, <3>2 DEF InstallsInv
    <2>2. CASE (\E url \in Gateway, key \in StaticKey : Revoke(url, key)) \/ UNCHANGED vars
      BY <1>2, <2>2 DEF Revoke, vars, InstallsInv, OneCopy
    <2>3. Proc \subseteq Process /\ Watcher \in Process
      BY DEF Process
    <2>4. CASE \E p \in Proc : Start(p)
      BY <2>1, <2>3, <2>4
    <2>5. CASE Watch(Watcher)
      BY <2>1, <2>3, <2>5
    <2>6. CASE \E p \in Process : Steps(p) \/ Crash(p)
      BY <2>1, <2>6
    <2> QED
      BY <1>2, <2>2, <2>4, <2>5, <2>6 DEF Next
  <1> QED
    BY <1>1, <1>2, DeviceTypeInvariance, PicksInvariance, PTL DEF Spec

\* A managed install keeps the environment and the teams the developer picked,
\* and where nothing was picked the new managed team applies
\* (carrying_install_picks).
THEOREM InstallsKeep == Spec => []InstallKeepsPicks
  <1>1. InstallsInv => InstallKeepsPicks
    BY DEF InstallsInv, Carried, InstallKeepsPicks
  <1> QED
    BY <1>1, InstallsInvariance, PTL
=============================================================================
