----------------------------- MODULE KeyCustody -----------------------------
(* What the broker promises of the keys it has minted, whatever its threads  *)
(* do with them: a key that a Gateway accepts is in use or set aside, there  *)
(* is one in use at most, and one that is gone never comes back. Broker      *)
(* implements it, with a Gateway that carries out what it is asked.          *)
EXTENDS Naturals

CONSTANTS Nobody      \* no key

VARIABLES
  inUse,      \* the key that is served, while a Gateway accepts it
  aside,      \* keys taken out of use, to be deleted or put back
  accepted,   \* keys some Gateway accepts
  last        \* the last id that was given out

custody == <<inUse, aside, accepted, last>>

Init == inUse = Nobody /\ aside = {} /\ accepted = {} /\ last = 0

\* A key is new, and there is none in use.
Mint ==
  /\ inUse = Nobody
  /\ \E key \in accepted' :
       /\ accepted' = accepted \cup {key}
       /\ key.id > last /\ last' = key.id
       /\ inUse' = key
  /\ UNCHANGED aside

SetAside ==
  /\ inUse # Nobody
  /\ inUse' = Nobody /\ aside' = aside \cup {inUse}
  /\ UNCHANGED <<accepted, last>>

\* Only the key of a switch that failed comes back, and not over another.
PutBack ==
  /\ inUse = Nobody
  /\ inUse' \in aside /\ aside' = aside \ {inUse'}
  /\ UNCHANGED <<accepted, last>>

\* A key is deleted, or its time has come.
Vanish ==
  /\ \E key \in accepted :
       /\ accepted' = accepted \ {key}
       /\ aside' = aside \ {key}
       /\ inUse' = IF inUse = key THEN Nobody ELSE inUse
  /\ UNCHANGED last

\* An id is given to something else.
Elsewhere == last' > last /\ UNCHANGED <<inUse, aside, accepted>>

Next == Mint \/ SetAside \/ PutBack \/ Vanish \/ Elsewhere

Spec == Init /\ [][Next]_custody
=============================================================================
