------------------------------- MODULE Launch -------------------------------
(***************************************************************************)
(* How the daemon of a macOS device comes up: `relay serve` (serve and     *)
(* serve_refusal in src/app.rs, bind in src/broker/socket.rs) run by       *)
(* launchd as the LaunchAgent or by hand in a terminal, and the            *)
(* onboardings that make sure a daemon answers (src/ai_tools/              *)
(* launch_agent.rs).  What they share is the LaunchAgent, the file of the  *)
(* broker's socket, that of the MCP socket and the proxy's port.           *)
(*                                                                         *)
(* External: launchd (KeepAlive, bootstrap, kickstart, bootout) and the    *)
(* kernel's sockets.                                                       *)
(***************************************************************************)
EXTENDS Naturals

CONSTANTS
  Agent,        \* the server launchd runs
  Terminal,     \* the servers run by hand
  Onboarding,   \* the commands that require a daemon
  GracePolls,   \* polls an agent that is loaded is given to answer
  AnswerPolls,  \* polls a daemon that was started is given to answer
  MaxStarts,    \* bound: servers started by hand
  MaxEnds,      \* bound: servers that are stopped or crash, agents booted out
  None

ASSUME LaunchAssumption ==
  /\ Agent \notin Terminal
  /\ {GracePolls, AnswerPolls, MaxStarts, MaxEnds} \subseteq Nat

VARIABLES
  loaded,    \* launchd has the LaunchAgent
  serving,   \* how far each server got
  socket,    \* who bound the file of the broker's socket last
  mcpSocket, \* who bound the file of the MCP socket last
  port,      \* who listens on the proxy's port
  step,      \* what each onboarding does next
  polls,     \* how many polls it has left
  started, ended,
  found,     \* servers that had looked for a daemon while this one answered
  raced      \* a server took the socket of one that answered

vars == <<loaded, serving, socket, mcpSocket, port, step, polls, started,
          ended, found, raced>>

Server == Terminal \cup {Agent}

\* A server is down; asks whether a daemon answers, then whether the agent is
\* loaded; binds the broker's socket, the MCP socket, the port; serves.  Every
\* onboarding starts with its first look.
Init ==
  /\ loaded \in BOOLEAN
  /\ serving = [s \in Server |-> "down"]
  /\ socket = None /\ mcpSocket = None /\ port = None
  /\ step = [o \in Onboarding |-> "answers"]
  /\ polls = [o \in Onboarding |-> 0]
  /\ started = 0 /\ ended = 0
  /\ found = [s \in Server |-> {}]
  /\ raced = FALSE

-----------------------------------------------------------------------------
(* Sockets *)

Listens(s) == serving[s] \in {"bindMcp", "bindPort", "serves"}

\* A connection is accepted by the server that bound the file last, while it
\* lives: the listener of a server whose file was replaced gets none, and the
\* file of one that ended refuses.
Answering == {s \in Server : socket = s /\ Listens(s)}
Answers == Answering # {}

Ended(s) ==
  /\ serving' = [serving EXCEPT ![s] = "down"]
  /\ port' = IF port = s THEN None ELSE port
  /\ found' = [found EXCEPT ![s] = {}]

-----------------------------------------------------------------------------
(* relay serve *)

Advance(s, stage) == serving' = [serving EXCEPT ![s] = stage]

\* launchd keeps the agent running; a developer runs one in a terminal.
KeepAlive ==
  /\ loaded /\ serving[Agent] = "down"
  /\ Advance(Agent, "ask")
  /\ UNCHANGED <<loaded, socket, mcpSocket, port, step, polls, started, ended,
                 found, raced>>

Run(s) ==
  /\ s \in Terminal /\ serving[s] = "down" /\ started < MaxStarts
  /\ Advance(s, "ask")
  /\ started' = started + 1
  /\ UNCHANGED <<loaded, socket, mcpSocket, port, step, polls, ended, found,
                 raced>>

\* Variant: the agent, too, asks whether the agent is loaded.
AskAsTerminal(s) ==
  /\ serving[s] = "ask"
  /\ found' = [t \in Server |-> IF t \in Answering THEN found[t] \cup {s}
                                ELSE found[t]]
  /\ Advance(s, IF Answers THEN "down" ELSE "askAgent")
  /\ UNCHANGED <<loaded, socket, mcpSocket, port, step, polls, started, ended,
                 raced>>

\* Variant: a server does not mind that another one answers.
AskNobody(s) ==
  /\ serving[s] = "ask"
  /\ found' = [t \in Server |-> IF t \in Answering THEN found[t] \cup {s}
                                ELSE found[t]]
  /\ Advance(s, IF s = Agent THEN "bind" ELSE "askAgent")
  /\ UNCHANGED <<loaded, socket, mcpSocket, port, step, polls, started, ended,
                 raced>>

\* A daemon that answers refuses any other; only a server that is not the
\* agent itself asks for the agent, too.
Ask(s) ==
  /\ serving[s] = "ask"
  /\ found' = [t \in Server |-> IF t \in Answering THEN found[t] \cup {s}
                                ELSE found[t]]
  /\ Advance(s, IF Answers THEN "down" ELSE IF s = Agent THEN "bind"
                ELSE "askAgent")
  /\ UNCHANGED <<loaded, socket, mcpSocket, port, step, polls, started, ended,
                 raced>>

AskAgent(s) ==
  /\ serving[s] = "askAgent"
  /\ Advance(s, IF loaded THEN "down" ELSE "bind")
  /\ UNCHANGED <<loaded, socket, mcpSocket, port, step, polls, started, ended,
                 found, raced>>

\* A file that is there already is removed, whoever listens on it.
Bind(s) ==
  /\ serving[s] = "bind"
  /\ socket' = s
  /\ raced' = (raced \/ Answers)
  /\ Advance(s, "bindMcp")
  /\ UNCHANGED <<loaded, mcpSocket, port, step, polls, started, ended, found>>

BindMcp(s) ==
  /\ serving[s] = "bindMcp"
  /\ mcpSocket' = s
  /\ Advance(s, "bindPort")
  /\ UNCHANGED <<loaded, socket, port, step, polls, started, ended, found,
                 raced>>

\* A port that is taken ends the server: its files stay.
BindPort(s) ==
  /\ serving[s] = "bindPort"
  /\ IF port = None
     THEN /\ port' = s
          /\ Advance(s, "serves")
          /\ UNCHANGED found
     ELSE Ended(s)
  /\ UNCHANGED <<loaded, socket, mcpSocket, step, polls, started, ended, raced>>

\* A signal, or a crash.
End(s) ==
  /\ serving[s] # "down" /\ ended < MaxEnds
  /\ Ended(s)
  /\ ended' = ended + 1
  /\ UNCHANGED <<loaded, socket, mcpSocket, step, polls, started, raced>>

\* launchctl bootout, by the developer.
BootOut ==
  /\ loaded /\ ended < MaxEnds
  /\ loaded' = FALSE
  /\ Ended(Agent)
  /\ ended' = ended + 1
  /\ UNCHANGED <<socket, mcpSocket, step, polls, started, raced>>

-----------------------------------------------------------------------------
(* ensure_daemon *)

Then(o, next) == step' = [step EXCEPT ![o] = next]

Untouched == UNCHANGED <<socket, mcpSocket, started, ended, raced>>

\* One look at the socket: the agent is asked for only when nobody answers.
LookFirst(o) ==
  /\ step[o] = "answers"
  /\ Then(o, IF Answers THEN "answered" ELSE "loaded")
  /\ Untouched /\ UNCHANGED <<loaded, serving, port, found, polls>>

LookForAgent(o) ==
  /\ step[o] = "loaded"
  /\ IF loaded
     THEN Then(o, "grace") /\ polls' = [polls EXCEPT ![o] = GracePolls]
     ELSE Then(o, "install") /\ UNCHANGED polls
  /\ Untouched /\ UNCHANGED <<loaded, serving, port, found>>

\* The polls of an agent that may be on its way up, and those of one that was
\* started: each waits, then asks.
Poll(o, from, out) ==
  /\ step[o] = from
  /\ IF polls[o] = 0 THEN Then(o, out) /\ UNCHANGED polls
     ELSE /\ Then(o, IF Answers THEN "answered" ELSE from)
          /\ polls' = [polls EXCEPT ![o] = @ - 1]
  /\ Untouched /\ UNCHANGED <<loaded, serving, port, found>>

Wait(o) == Then(o, "wait") /\ polls' = [polls EXCEPT ![o] = AnswerPolls]

\* launchctl kickstart -k: the agent is killed, and launchd runs it again.
Restart(o) ==
  /\ step[o] = "restart"
  /\ IF loaded THEN Ended(Agent) /\ Wait(o)
     ELSE Then(o, "failed") /\ UNCHANGED <<serving, port, found, polls>>
  /\ Untouched /\ UNCHANGED loaded

\* launchctl bootstrap, which fails when the agent is loaded by now.
Install(o) ==
  /\ step[o] = "install"
  /\ IF loaded THEN Then(o, "failed") /\ UNCHANGED <<loaded, polls>>
     ELSE loaded' = TRUE /\ Wait(o)
  /\ Untouched /\ UNCHANGED <<serving, port, found>>

-----------------------------------------------------------------------------
(* Specification *)

Serve(s) == Ask(s) \/ AskAgent(s) \/ Bind(s) \/ BindMcp(s) \/ BindPort(s)

Require(o) ==
  \/ LookFirst(o) \/ LookForAgent(o) \/ Poll(o, "grace", "restart")
  \/ Restart(o) \/ Install(o) \/ Poll(o, "wait", "failed")

Next ==
  \/ KeepAlive \/ BootOut
  \/ \E s \in Server : Run(s) \/ Serve(s) \/ End(s)
  \/ \E o \in Onboarding : Require(o)

Spec == Init /\ [][Next]_vars

\* Servers and commands go on, and launchd runs what it keeps alive.
LiveSpec == /\ Spec
            /\ WF_vars(KeepAlive)
            /\ \A s \in Server : WF_vars(Serve(s))
            /\ \A o \in Onboarding : WF_vars(Require(o))

-----------------------------------------------------------------------------
(* Properties *)

\* A server never takes the socket of a daemon that already answered when the
\* server looked: two servers come in each other's way only when both looked
\* before either had bound (serve_refusal, then bind, which removes the file
\* of a live daemon).
LookedMeansKeptOff ==
  [][\A s, t \in Server :
       socket = t /\ Listens(t) /\ socket' = s /\ s # t => s \notin found[t]]_vars

\* Whatever was stopped, killed or booted out, and however the onboardings of
\* several commands and the servers run by hand come between, a daemon answers
\* in the end and keeps answering wherever the agent is loaded, which is what
\* onboarding makes of a device (require_daemon) -- unless two servers raced.
DaemonComesUp == <>[](raced \/ ~loaded \/ Answers)
=============================================================================
