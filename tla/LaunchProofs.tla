---------------------------- MODULE LaunchProofs ----------------------------
(***************************************************************************)
(* A server that looked for a daemon while one answered does not take that *)
(* one's socket: the daemon answers until it ends or another server takes  *)
(* the socket, and either way it is looked for anew.                       *)
(***************************************************************************)
EXTENDS Launch, TLAPS

Stage == {"down", "ask", "askAgent", "bind", "bindMcp", "bindPort", "serves"}

Shape == /\ serving \in [Server -> Stage]
         /\ found \in [Server -> SUBSET Server]

\* Whoever was found has not ended since; and while it has the socket, those
\* who found it are not about to bind.
FoundInv ==
  \A t \in Server :
    /\ found[t] # {} => Listens(t)
    /\ socket = t => \A s \in found[t] : serving[s] \notin {"askAgent", "bind"}

LaunchInv == Shape /\ FoundInv

\* A server that ends is found no more, and neither it nor anyone else comes
\* closer to binding.
LEMMA EndingKeeps ==
  ASSUME LaunchInv, NEW s \in Server, Ended(s), UNCHANGED socket
  PROVE  LaunchInv'
  BY DEF LaunchInv, Shape, FoundInv, Ended, Listens, Stage

\* One that asks is found out, or finds that nobody answers.
LEMMA AskingKeeps ==
  ASSUME LaunchInv, NEW s \in Server, Ask(s)
  PROVE  LaunchInv'
  <1>1. Shape'
    BY DEF LaunchInv, Shape, Ask, Advance, Stage
  <1>2. ASSUME NEW t \in Server
        PROVE  /\ (found[t] # {} => Listens(t))'
               /\ (socket = t => \A u \in found[t] :
                                   serving[u] \notin {"askAgent", "bind"})'
    <2>1. t \in Answering <=> socket = t /\ Listens(t)
      BY DEF Answering
    <2>2. found'[t] = IF t \in Answering THEN found[t] \cup {s} ELSE found[t]
      BY DEF Ask
    <2>3. serving' = [serving EXCEPT ![s] = IF Answers THEN "down"
                                            ELSE IF s = Agent THEN "bind"
                                            ELSE "askAgent"]
      BY DEF Ask, Advance
    <2>4. s # t \/ ~Listens(t)
      BY DEF Ask, Listens
    <2>5. Listens(t) => Listens(t)'
      BY <2>3, <2>4 DEF Listens, LaunchInv, Shape
    <2>6. CASE t \in Answering
      <3>1. Answers
        BY <2>6 DEF Answers
      <3> QED
        BY <2>1, <2>2, <2>3, <2>5, <2>6, <3>1 DEF LaunchInv, Shape, FoundInv, Ask
    <2>7. CASE t \notin Answering
      <3>1. socket = t => found[t] = {}
        BY <2>1, <2>7 DEF LaunchInv, FoundInv
      <3> QED
        BY <2>2, <2>5, <2>7, <3>1 DEF LaunchInv, FoundInv, Ask
    <2> QED
      BY <2>6, <2>7
  <1> QED
    BY <1>1, <1>2 DEF LaunchInv, FoundInv

\* One that binds was found by nobody.
LEMMA BindingKeeps ==
  ASSUME LaunchInv, NEW s \in Server, Bind(s)
  PROVE  LaunchInv'
  <1>1. found[s] = {}
    BY DEF LaunchInv, FoundInv, Listens, Bind
  <1> QED
    BY <1>1 DEF LaunchInv, Shape, FoundInv, Bind, Advance, Listens, Stage

LEMMA ServingKeeps ==
  ASSUME LaunchInv, NEW s \in Server,
         Run(s) \/ AskAgent(s) \/ BindMcp(s) \/ BindPort(s) \/ End(s)
  PROVE  LaunchInv'
  <1>1. CASE Run(s)
    BY <1>1 DEF LaunchInv, Shape, FoundInv, Run, Advance, Listens, Stage
  <1>2. CASE AskAgent(s)
    BY <1>2 DEF LaunchInv, Shape, FoundInv, AskAgent, Advance, Listens, Stage
  <1>3. CASE BindMcp(s)
    BY <1>3 DEF LaunchInv, Shape, FoundInv, BindMcp, Advance, Listens, Stage
  <1>4. CASE BindPort(s) /\ port = None
    BY <1>4 DEF LaunchInv, Shape, FoundInv, BindPort, Advance, Listens, Stage
  <1>5. CASE (BindPort(s) /\ port # None) \/ End(s)
    BY <1>5, EndingKeeps DEF BindPort, End
  <1> QED
    BY <1>1, <1>2, <1>3, <1>4, <1>5

LEMMA OthersKeep ==
  ASSUME LaunchInv,
         \/ KeepAlive \/ BootOut
         \/ \E o \in Onboarding : Require(o)
         \/ UNCHANGED vars
  PROVE  LaunchInv'
  <1>1. Agent \in Server
    BY DEF Server
  <1>2. CASE KeepAlive
    BY <1>1, <1>2 DEF LaunchInv, Shape, FoundInv, KeepAlive, Advance, Listens, Stage
  <1>3. CASE BootOut
    BY <1>1, <1>3, EndingKeeps DEF BootOut
  <1>4. ASSUME UNCHANGED <<serving, found, socket>> PROVE LaunchInv'
    BY <1>4 DEF LaunchInv, Shape, FoundInv, Listens
  <1>5. ASSUME NEW o \in Onboarding, Require(o) PROVE LaunchInv'
    <2>1. UNCHANGED socket
      BY <1>5 DEF Require, LookFirst, LookForAgent, Poll, Restart, Install, Untouched
    <2>2. CASE Restart(o) /\ loaded
      BY <1>1, <2>1, <2>2, EndingKeeps DEF Restart
    <2>3. CASE ~(Restart(o) /\ loaded)
      BY <1>4, <1>5, <2>1, <2>3
         DEF Require, LookFirst, LookForAgent, Poll, Restart, Install
    <2> QED
      BY <2>2, <2>3
  <1>6. CASE UNCHANGED vars
    BY <1>4, <1>6 DEF vars
  <1> QED
    BY <1>2, <1>3, <1>5, <1>6

LEMMA StepsKeep ==
  ASSUME LaunchInv, [Next]_vars
  PROVE  LaunchInv'
  <1>1. CASE \E s \in Server : Run(s) \/ Serve(s) \/ End(s)
    BY <1>1, AskingKeeps, BindingKeeps, ServingKeeps DEF Serve
  <1>2. CASE KeepAlive \/ BootOut \/ (\E o \in Onboarding : Require(o)) \/ UNCHANGED vars
    BY <1>2, OthersKeep
  <1> QED
    BY <1>1, <1>2 DEF Next

\* Only who binds takes the socket.
LEMMA WhoTakesTheSocket ==
  ASSUME [Next]_vars, socket' # socket
  PROVE  \E s \in Server : Bind(s)
  <1>1. ASSUME NEW s \in Server, Run(s) \/ Ask(s) \/ AskAgent(s) \/ BindMcp(s)
                                 \/ BindPort(s) \/ End(s)
        PROVE  UNCHANGED socket
    BY <1>1 DEF Run, Ask, AskAgent, BindMcp, BindPort, End
  <1>2. ASSUME NEW o \in Onboarding, Require(o)
        PROVE  UNCHANGED socket
    BY <1>2 DEF Require, LookFirst, LookForAgent, Poll, Restart, Install, Untouched
  <1>3. KeepAlive \/ BootOut \/ UNCHANGED vars => UNCHANGED socket
    BY DEF KeepAlive, BootOut, vars
  <1> QED
    BY <1>1, <1>2, <1>3 DEF Next, Serve

\* Whoever found a daemon that still has its socket is not on the way to binding
\* (serve_refusal).
THEOREM LaunchInvariance == Spec => []LaunchInv
  <1>1. Init => LaunchInv
    BY DEF Init, LaunchInv, Shape, FoundInv, Stage
  <1> QED
    BY <1>1, StepsKeep, PTL DEF Spec

\* A server never takes the socket of a daemon that answered when it looked,
\* however servers start, end and race (serve_refusal, then bind).
THEOREM LookedIsKeptOff == Spec => LookedMeansKeptOff
  <1>1. ASSUME LaunchInv, [Next]_vars
        PROVE  [\A s, t \in Server :
                  socket = t /\ Listens(t) /\ socket' = s /\ s # t
                    => s \notin found[t]]_vars
    <2>1. ASSUME NEW s \in Server, NEW t \in Server,
                 socket = t, socket' = s, s # t
          PROVE  s \notin found[t]
      <3>1. PICK u \in Server : Bind(u)
        BY <1>1, <2>1, WhoTakesTheSocket
      <3>2. u = s /\ serving[s] = "bind"
        BY <2>1, <3>1 DEF Bind
      <3> QED
        BY <1>1, <2>1, <3>2 DEF LaunchInv, FoundInv
    <2> QED
      BY <2>1
  <1> QED
    BY <1>1, LaunchInvariance, PTL DEF Spec, LookedMeansKeptOff
=============================================================================
