------------------------------ MODULE MCDevice ------------------------------
(* Small instances of Device for TLC.                                        *)
EXTENDS Device, TLC

CONSTANTS u1, u2, n1, n2, a1, b1, a2, k1, k2, p1, p2

\* Two environments, with two teams on the first and one on the second.
MCHome == (u1 :> n1) @@ (u2 :> n2)
MCTeamsOf == (n1 :> {a1, b1}) @@ (n2 :> {a2})

In(name, url, team) == [name |-> name, url |-> url, team |-> team]
Section(idp) == [issuer |-> idp, client |-> idp]

MCFactory ==
    [idp |-> NoSection, apiKey |-> NoKey, url |-> u1, team |-> NoTeam,
     parked |-> [n \in Name |-> NoTeam], environments |-> << >>,
     claude |-> NoTeam, codex |-> NoTeam, sso |-> NoSection]

\* What an administrator manages: both environments, one of them written
\* wrong, and a team for the device.
Managed(team) ==
    [MCFactory EXCEPT !.idp = Section("idp"), !.team = team,
        !.environments = <<In(n1, u1, NoTeam), In(n2, NoUrl, NoTeam),
                           NotAnEntry, In(n2, u2, NoTeam)>>]

\* A device with a key of its own, one that was managed before the copy of the
\* managed config was kept, and one with a desktop sign-in.
Keyed == [MCFactory EXCEPT !.apiKey = k1]
SignedOn == [Keyed EXCEPT !.sso = Section("idp"), !.environments = NotAList]

MCInstalled == {MCFactory, Keyed, Managed(a1), SignedOn}

MCLegacyEnv == {[MCFactory EXCEPT !.apiKey = k1]}

Mac(traces) == [host |-> "macos", found |-> traces]
Linux(traces) == [host |-> "other", found |-> traces]

EveryTool == {"claude on PATH", "Claude.app", "~/.codex"}

\* Hosts on which static keys are written.
MCLinux == {Linux({"claude on PATH"}), Linux({"Claude.app"})}

MCSymmetry == Permutations({p1, p2})

MCDevices ==
    {Mac(EveryTool \ {"~/.codex"}),
     Mac({"~/.codex", "~/.claude", "claude is a node script"})}

\* Gateways that accept every key but k1, each where `accepts` says otherwise.
Keys(accepts) == [u \in {u1, u2} |-> [k \in {k1, k2} |->
                    IF k = k1 /\ ~accepts[u] THEN "rejected" ELSE "valid"]]
OwnKeys == {Keys([u \in {u1, u2} |-> u = u1])}
AnyKeys == {Keys([u \in {u1, u2} |-> accepted]) : accepted \in BOOLEAN}

Do(kind) == [Rerun({}) EXCEPT !.kind = kind]
OnboardAt(tool, url) == [Do("onboard") EXCEPT !.tool = tool, !.url = url, !.pick = TRUE]
SetupAt(url, key) == [Do("setup") EXCEPT !.url = url, !.key = key]
Install(team) == [Do("install") EXCEPT !.managed = Managed(team)]
SwitchTo(name) == [Do("switch_environment") EXCEPT !.name = name]

\* What moves picks about; an install changes the managed team of some devices.
MCSelections ==
    {OnboardAt("claude-desktop", u2), Install(b1), SwitchTo(n1),
     SwitchTo(n2), Do("switch_team"), SetupAt(u2, k2), Rerun({})}

\* What writes keys.
MCKeys ==
    {Rerun({}), [Rerun({}) EXCEPT !.env = TRUE], [Rerun({}) EXCEPT !.key = k2], SetupAt(u1, NoKey), Install(a1),
     [Rerun({}) EXCEPT !.idp = [issuer |-> "idp", client |-> NoIdp]],
     [OnboardAt("codex", NoUrl) EXCEPT !.pick = FALSE],
     [OnboardAt("claude-code", NoUrl) EXCEPT !.idp = Section("idp")]}
=============================================================================
