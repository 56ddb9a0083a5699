----------------------------- MODULE MCAccount -----------------------------
(* Two Gateways, one of them without the token exchange, two users, two teams, *)
(* two static keys, and a request at the daemon.                             *)
EXTENDS Account

CONSTANTS g1, g2, u1, u2, t1, t2, k1, k2

Broker(url, user, team, static) ==
  [url |-> url, team |-> team, static |-> static, session |-> user,
   user |-> IF url \in Exchanging THEN user ELSE None,
   valid |-> user # None /\ url \in Exchanging, minted |-> FALSE, era |-> 0]

StartBrokers == {Broker(g1, u1, t1, None), Broker(g2, None, t1, k1)}

FirstLists == [g \in Gateway |-> IF g = g1 THEN {t1} ELSE {}]

Asked(op, url, team, user) == [op |-> op, url |-> url, team |-> team, user |-> user]

Ops == {Asked("status", None, None, None), Asked("recheck", None, None, None),
        Asked("switch_team", None, t2, None),
        Asked("switch_environment", g2, t1, None),
        Asked("sign_in", None, None, u1), Asked("sign_in", None, None, u2),
        Asked("sign_out", None, None, None)}

SavedSettings == {[url |-> g1, team |-> t2, static |-> None],
                  [url |-> g2, team |-> t1, static |-> k2]}
=============================================================================
