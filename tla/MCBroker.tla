------------------------------ MODULE MCBroker ------------------------------
(* Small instances of Broker for TLC. *)
EXTENDS Broker, TLC

CONSTANTS g1, g2, g3, a, b, n1, n2, idp, c1, c2, idp2, sk, t1, t2

Setting0 == [idp |-> idp, apiKey |-> NoKey, url |-> g1, team |-> a,
             parked |-> [n \in Name |-> NoTeam],
             environments |-> <<[name |-> n1, url |-> g1, team |-> NoTeam],
                                [name |-> n2, url |-> g2, team |-> NoTeam]>>,
             tools |-> NoTeam, callers |-> {c1}]
OneInstalled == {Setting0}

Req(op, context) == [op |-> op, context |-> context, caller |-> c1,
                     team |-> b, name |-> n2]

\* Switches, sign-ins and sign-outs beside requests that need a token.
SwitchRequests == {Req("switch_team", "background"),
                   Req("switch_environment", "background"),
                   Req("proxy_credential", "interactive"),
                   Req("bearer_for_proxy", "background"),
                   Req("sign_in", "interactive"), Req("sign_out", "background")}
NoEdits == {}
ThreadSymmetry == Permutations(Thread)

\* What may meet a Gateway and an IdP at their worst.
FaultRequests == {Req("credential", "interactive"), Req("tick", "background"),
                  Req("session_bearer", "background"),
                  Req("sign_out", "background")}

\* A request of every kind, beside a settings file that others rewrite: another
\* team, a Gateway outside the list, a static key, garbage.
EveryRequest == {Req("sign_in", "interactive"), Req("sign_out", "background"),
                 Req("credential", "interactive"), Req("tick", "background"),
                 Req("switch_environment", "background"),
                 Req("bearer_for_proxy", "background"),
                 Req("status", "background"), Req("shutdown", "background"),
                 Req("account_bearer", "background")}
SomeEdits == {[Setting0 EXCEPT !.team = b], [Setting0 EXCEPT !.url = g3],
              [Setting0 EXCEPT !.idp = NoIdp, !.apiKey = sk], Malformed}
=============================================================================
