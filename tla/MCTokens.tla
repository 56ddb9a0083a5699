------------------------------ MODULE MCTokens ------------------------------
(* A small instance of Tokens for TLC: two hooks of one team and Claude      *)
(* Desktop, or a hook, of another.                                           *)
EXTENDS Tokens

Teams == {"a", "b"}

TheTeam == [h \in Command |-> IF h \in {"h1", "h2"} THEN "a" ELSE "b"]

Entry(t) == [id |-> <<t, "initial">>, refresh |-> <<t, "initial">>]
EntryWithout(t) == [id |-> <<t, "initial">>, refresh |-> None]

\* Nobody ever signed in; all is about to expire, or has expired.
Device(a, b, s, left) ==
  [credentials |-> [t \in Teams |-> IF t = "a" THEN a ELSE b], session |-> s,
   life |-> [n \in {"a", "b", "session"} \X {"initial"} |-> left]]

Devices ==
  {Device(None, None, None, 3)}
    \cup {Device(Entry("a"), Entry("b"), Entry("session"), left) : left \in 0..2}
    \cup {Device(EntryWithout("a"), Entry("b"), None, 1)}
=============================================================================
