---------------------------- MODULE ProxyProofs -----------------------------
(* What the proxy tells its clients, its log and itself, for any number of    *)
(* connections, hosts and keys, any time limits, and whatever fails.          *)
EXTENDS Proxy, TLAPS

-----------------------------------------------------------------------------
(* Connections *)

Field == {"at", "host", "heads", "opened", "ends", "seen", "since", "csr",
          "pair", "decided"}

Shape ==
  /\ conn = [c \in Conn |-> conn[c]]
  /\ \A c \in Conn : DOMAIN conn[c] = Field

\* A step of a connection sets the fields it names, and no other connection.
LEMMA Becoming ==
  ASSUME Shape, NEW c \in Conn, NEW fields, Becomes(c, fields)
  PROVE  /\ Shape'
         /\ \A d \in Conn \ {c} : conn'[d] = conn[d]
         /\ \A f \in Field :
              conn'[c][f] = IF f \in DOMAIN fields THEN fields[f] ELSE conn[c][f]
  BY DEF Becomes, Shape

\* What only moves on stays as it was otherwise.
LEMMA Going ==
  ASSUME Shape, NEW c \in Conn, NEW place, Goes(c, place)
  PROVE  /\ conn'[c].at = place
         /\ conn'[c].heads = conn[c].heads
         /\ conn'[c].ends = conn[c].ends
         /\ conn'[c].opened = conn[c].opened
         /\ conn'[c].decided = conn[c].decided
  BY Becoming DEF Goes, Field

\* The three ways a connection comes to its end, or to its first answer.
LEMMA Answering ==
  ASSUME Shape, NEW c \in Conn, Answers(c)
  PROVE  /\ conn'[c].at = "done"
         /\ conn'[c].heads = conn[c].heads + 1
         /\ conn'[c].ends = conn[c].ends
         /\ conn'[c].opened = conn[c].opened
         /\ conn'[c].decided = conn[c].decided
  BY Becoming DEF Answers, Field

LEMMA Stopping ==
  ASSUME Shape, NEW c \in Conn, Ends(c)
  PROVE  /\ conn'[c].at = "done"
         /\ conn'[c].heads = conn[c].heads
         /\ conn'[c].ends = conn[c].ends + 1
         /\ conn'[c].opened = conn[c].opened
         /\ conn'[c].decided = conn[c].decided
  BY Becoming DEF Ends, Field

LEMMA Beginning ==
  ASSUME Shape, NEW c \in Conn, NEW place,
         Becomes(c, [at |-> place, heads |-> conn[c].heads + 1])
  PROVE  /\ conn'[c].at = place
         /\ conn'[c].heads = conn[c].heads + 1
         /\ conn'[c].ends = conn[c].ends
         /\ conn'[c].opened = conn[c].opened
         /\ conn'[c].decided = conn[c].decided
  BY Becoming DEF Field

\* Where a connection is in no hurry to learn of the keychain.
Elsewhere(place) == place \notin {"trust", "ca", "verify", "settle"}

-----------------------------------------------------------------------------
(* Answers and ends *)

\* Nothing was said to the client, and nothing logged,
Untold == {"idle", "page", "clear", "saved", "check", "refresh", "admit", "send",
           "shadow"}

\* it was logged that the connection is there,
Logged == {"trust", "ca", "verify", "settle", "dial", "capture"}

\* the client was told of the tunnel.
Told == {"tunnel", "leaf", "load", "key", "csr", "sign", "cert", "signed",
         "unsigned", "upstream", "request", "response", "upgraded", "ingest",
         "respond", "closing"}

\* How much was said and logged, by where the connection is.
Along(r) ==
  /\ r.at \in Untold \cup Logged \cup Told \cup {"relay", "refused", "failed",
                                                 "done"}
  /\ r.at \in Untold \cup {"relay"} => ~r.opened
  /\ r.at \in Untold \cup Logged => r.heads = 0 /\ r.ends = 0
  /\ r.at \in Told \cup {"relay"} => r.heads = 1 /\ r.ends = 0
  /\ r.at = "refused" => r.heads = 0 /\ r.ends = 1
  /\ r.at = "failed" => /\ r.heads \in {0, 1} /\ r.ends \in {0, 1}
                        /\ r.ends = 1 => r.heads = 0
  /\ r.at = "done" => /\ r.heads \in {0, 1} /\ r.ends \in {0, 1, 2}
                      /\ r.ends = 2 => r.heads = 0
                      /\ r.opened => r.ends # 0

AnswersInv == use \in Uses /\ Shape /\ \A c \in Conn : Along(conn[c])

LEMMA FirstAnswers == Init => AnswersInv
  BY DEF Init, AnswersInv, Shape, Field, Fresh, Along, Untold, Logged, Told

\* A page, or what the dashboard asks for.
LEMMA ShowsAlong ==
  ASSUME AnswersInv, NEW c \in Conn, Show(c) \/ ClearEvents(c)
  PROVE  Along(conn'[c])
  <1> USE DEF AnswersInv, Along, Untold, Logged, Told, At
  <1>1. CASE Page(c)
    BY <1>1, Answering, Going DEF Page
  <1>2. CASE ClearEvents(c)
    BY <1>2, Going DEF ClearEvents
  <1>3. CASE ReadSaved(c) \/ Checked(c) \/ Refresh(c)
    <2>1. /\ conn'[c].at \in {"check", "page", "refresh"}
          /\ conn'[c].heads = conn[c].heads
          /\ conn'[c].ends = conn[c].ends
          /\ conn'[c].opened = conn[c].opened
      BY <1>3, Becoming DEF ReadSaved, Checked, Refresh, Goes, Field
    <2>2. conn[c].at \in Untold
      BY <1>3 DEF ReadSaved, Checked, Refresh
    <2> QED
      BY <2>1, <2>2
  <1>4. CASE Fail(c)
    BY <1>4, Stopping DEF Fail
  <1>5. CASE Close(c)
    BY <1>5 DEF Close, Fresh, Shape
  <1> QED
    BY <1>1, <1>2, <1>3, <1>4, <1>5 DEF Show

\* An inference request.
LEMMA ForwardsAlong ==
  ASSUME AnswersInv, NEW c \in Conn, Admit(c) \/ Send(c) \/ Relay(c)
  PROVE  Along(conn'[c])
  <1> USE DEF AnswersInv, Along, Untold, Logged, Told, At
  <1>1. CASE Admit(c)
    <2>1. Goes(c, "send") \/ Goes(c, "page")
      BY <1>1 DEF Admit
    <2> QED
      BY <1>1, <2>1, Going DEF Admit
  <1>2. CASE Send(c)
    BY <1>2, Going, Beginning DEF Send
  <1>3. CASE Relay(c)
    BY <1>3, Going DEF Relay
  <1> QED
    BY <1>1, <1>2, <1>3

\* A CONNECT, until it is decided on, and a tunnel.
LEMMA ConnectsAlong ==
  ASSUME AnswersInv, NEW c \in Conn,
         \/ Shadow(c) \/ Trust(c) \/ Authority(c) \/ Verify(c) \/ Settle(c)
         \/ Dial(c) \/ Refuse502(c) \/ Tunnel(c)
  PROVE  Along(conn'[c])
  <1> USE DEF AnswersInv, Along, Untold, Logged, Told, At
  <1>1. CASE Shadow(c) \/ Trust(c) \/ Authority(c) \/ Verify(c) \/ Settle(c)
    <2>1. /\ conn'[c].at \in Logged
          /\ conn'[c].heads = conn[c].heads
          /\ conn'[c].ends = conn[c].ends
      BY <1>1, Becoming DEF Shadow, Trust, Authority, Verify, Settle, Decides, Goes, Field
    <2>2. conn[c].at \in Untold \cup Logged
      BY <1>1 DEF Shadow, Trust, Authority, Verify, Settle
    <2> QED
      BY <2>1, <2>2
  <1>2. CASE Dial(c)
    <2>1. CASE Becomes(c, [at |-> "refused", ends |-> conn[c].ends + 1])
      BY <1>2, <2>1, Becoming DEF Dial, Field
    <2>2. CASE Becomes(c, [at |-> "tunnel", heads |-> conn[c].heads + 1])
      BY <1>2, <2>2, Beginning DEF Dial
    <2>3. CASE Goes(c, "failed")
      BY <1>2, <2>3, Going DEF Dial
    <2> QED
      BY <1>2, <2>1, <2>2, <2>3 DEF Dial
  <1>3. CASE Refuse502(c)
    BY <1>3, Answering, Going DEF Refuse502
  <1>4. CASE Tunnel(c)
    BY <1>4, Stopping, Going DEF Tunnel
  <1> QED
    BY <1>1, <1>2, <1>3, <1>4

\* An interception.
LEMMA InterceptsAlong ==
  ASSUME AnswersInv, NEW c \in Conn,
         \/ Capture(c) \/ Leaf(c) \/ WriteKey(c) \/ WriteRequest(c)
         \/ ReadRequest(c) \/ WriteCertificate(c) \/ Tidy(c) \/ Load(c)
         \/ Upstream(c) \/ Exchange(c) \/ Response(c) \/ Upgraded(c)
         \/ Ingest(c) \/ Respond(c) \/ Closing(c)
  PROVE  Along(conn'[c])
  <1> USE DEF AnswersInv, Along, Untold, Logged, Told, At
  <1>1. CASE Capture(c)
    BY <1>1, Beginning, Going DEF Capture
  <1>2. CASE Leaf(c) \/ WriteKey(c) \/ WriteRequest(c) \/ Tidy(c) \/ Load(c)
    BY <1>2, Stopping, Going DEF Leaf, WriteKey, WriteRequest, Tidy, Load
  <1>3. CASE ReadRequest(c) \/ WriteCertificate(c)
    <2>1. /\ conn'[c].at \in {"cert", "unsigned", "signed"}
          /\ conn'[c].heads = conn[c].heads
          /\ conn'[c].ends = conn[c].ends
      BY <1>3, Becoming DEF ReadRequest, WriteCertificate, Goes, Field
    <2>2. conn[c].at \in Told
      BY <1>3 DEF ReadRequest, WriteCertificate
    <2> QED
      BY <2>1, <2>2
  <1>4. CASE Upstream(c) \/ Exchange(c) \/ Closing(c)
    BY <1>4, Stopping, Going DEF Upstream, Exchange, Closing
  <1>5. CASE Response(c) \/ Upgraded(c) \/ Ingest(c) \/ Respond(c)
    <2>1. /\ conn[c].at \in Told
          /\ \E place \in Told \cup {"failed"} : Goes(c, place)
      BY <1>5 DEF Response, Upgraded, Ingest, Respond
    <2> QED
      BY <2>1, Going
  <1> QED
    BY <1>1, <1>2, <1>3, <1>4, <1>5

\* What a connection turns out to be.
LEMMA AcceptsAlong ==
  ASSUME AnswersInv, NEW c \in Conn, NEW kind \in use[c], NEW h \in Host,
         Accept(c, kind, h)
  PROVE  Along(conn'[c])
  <1> USE DEF AnswersInv, Along, Untold, Logged, Told, At
  <1>1. /\ conn'[c].at = Routes[kind]
        /\ conn'[c].heads = 0 /\ conn'[c].ends = 0
        /\ conn'[c].opened = (kind \in {"plain"})
    BY Becoming DEF Accept, Field
  <1>2. kind \in DOMAIN Routes
    BY ProxyAssumption DEF Routes
  <1>3. \/ /\ Routes[kind] \in {"done", "failed", "page", "clear", "saved",
                               "admit", "shadow"}
           /\ kind # "plain"
        \/ Routes[kind] = "dial"
    BY <1>2 DEF Routes
  <1> QED
    BY <1>1, <1>3

\* A connection's step is its own.
LEMMA OwnStep ==
  ASSUME Shape, NEW c \in Conn,
         \/ Serve(c) \/ \E kind \in use[c], h \in Host : Accept(c, kind, h)
  PROVE  Shape' /\ \A d \in Conn \ {c} : conn'[d] = conn[d]
  <1>1. CASE Close(c)
    BY <1>1 DEF Close, Shape, Fresh, Field
  <1>2. CASE \E fields : Becomes(c, fields)
    BY <1>2, Becoming
  <1>3. (\E kind \in use[c], h \in Host : Accept(c, kind, h))
          => \E fields : Becomes(c, fields)
    BY DEF Accept
  <1>4. Show(c) \/ ClearEvents(c) => Close(c) \/ \E fields : Becomes(c, fields)
    BY DEF Show, ReadSaved, Checked, Refresh, Page, Fail, ClearEvents, Goes,
       Ends, Answers
  <1>5. Admit(c) \/ Send(c) \/ Relay(c) => \E fields : Becomes(c, fields)
    BY DEF Admit, Send, Relay, Goes
  <1>6. ASSUME \/ Shadow(c) \/ Trust(c) \/ Authority(c) \/ Verify(c) \/ Settle(c)
               \/ Dial(c) \/ Refuse502(c) \/ Tunnel(c)
        PROVE  \E fields : Becomes(c, fields)
    BY <1>6 DEF Shadow, Trust, Authority, Verify, Settle, Decides, Dial, Refuse502, Tunnel, Goes,
       Ends, Answers
  <1>7. ASSUME \/ Capture(c) \/ Leaf(c) \/ WriteKey(c) \/ WriteRequest(c)
               \/ ReadRequest(c) \/ WriteCertificate(c) \/ Tidy(c) \/ Load(c)
               \/ Upstream(c) \/ Exchange(c) \/ Response(c) \/ Upgraded(c)
               \/ Ingest(c) \/ Respond(c) \/ Closing(c)
        PROVE  \E fields : Becomes(c, fields)
    BY <1>7 DEF Capture, Leaf, WriteKey, WriteRequest, ReadRequest, WriteCertificate,
       Tidy, Load, Upstream, Exchange, Response, Upgraded, Ingest, Respond,
       Closing, Goes, Ends
  <1> QED
    BY <1>1, <1>2, <1>3, <1>4, <1>5, <1>6, <1>7 DEF Serve

\* Probes, entries, the user and the clock say nothing to a client.
LEMMA OthersAlong ==
  ASSUME AnswersInv,
         (\E p \in Probes : StoreBackground(p)) \/ Age \/ Others \/ UNCHANGED vars
  PROVE  AnswersInv'
  <1> USE DEF AnswersInv
  <1>1. CASE Tick
    <2>1. \A c \in Conn : conn'[c] = [conn[c] EXCEPT !.decided = None]
      BY <1>1 DEF Tick, Shape
    <2>2. \A c \in Conn : DOMAIN conn'[c] = DOMAIN conn[c]
      BY <2>1
    <2>3. \A c \in Conn : /\ conn'[c].at = conn[c].at
                         /\ conn'[c].heads = conn[c].heads
                         /\ conn'[c].ends = conn[c].ends
                         /\ conn'[c].opened = conn[c].opened
      BY <2>1 DEF Shape, Field
    <2>4. Shape' /\ use' = use
      BY <1>1, <2>2 DEF Tick, Shape
    <2>5. \A c \in Conn : Along(conn'[c])
      BY <2>3 DEF Along
    <2> QED
      BY <2>4, <2>5
  <1>2. CASE conn' = conn /\ use' = use
    BY <1>2 DEF Shape
  <1> QED
    BY <1>1, <1>2 DEF StoreBackground, Age, Others, Flip, Save, vars

\* use never changes.
LEMMA SameUse ==
  ASSUME NEW c \in Conn,
         \/ Serve(c) \/ \E kind \in use[c], h \in Host : Accept(c, kind, h)
  PROVE  use' = use
  <1> USE DEF Outside, OnDisk
  <1>1. Show(c) \/ ClearEvents(c) => use' = use
    BY DEF Show, ReadSaved, Checked, Refresh, Page, Fail, Close, ClearEvents
  <1>2. Admit(c) \/ Send(c) \/ Relay(c) => use' = use
    BY DEF Admit, Send, Relay
  <1>3. ASSUME \/ Shadow(c) \/ Trust(c) \/ Authority(c) \/ Verify(c) \/ Settle(c)
               \/ Dial(c) \/ Refuse502(c) \/ Tunnel(c)
        PROVE  use' = use
    BY <1>3 DEF Shadow, Trust, Authority, Verify, Settle, Dial, Refuse502, Tunnel
  <1>4. ASSUME \/ Capture(c) \/ Leaf(c) \/ WriteKey(c) \/ WriteRequest(c)
               \/ ReadRequest(c) \/ WriteCertificate(c) \/ Tidy(c) \/ Load(c)
               \/ Upstream(c) \/ Exchange(c) \/ Response(c) \/ Upgraded(c)
               \/ Ingest(c) \/ Respond(c) \/ Closing(c)
        PROVE  use' = use
    BY <1>4 DEF Capture, Leaf, WriteKey, WriteRequest, ReadRequest, WriteCertificate,
       Tidy, Load, Upstream, Exchange, Response, Upgraded, Ingest, Respond,
       Closing
  <1>5. (\E kind \in use[c], h \in Host : Accept(c, kind, h)) => use' = use
    BY DEF Accept
  <1> QED
    BY <1>1, <1>2, <1>3, <1>4, <1>5 DEF Serve

\* What was said and logged is as Along says, wherever each connection is.
THEOREM AnswersInvariance == Spec => []AnswersInv
  <1>1. ASSUME AnswersInv, NEW c \in Conn,
               \/ Serve(c) \/ \E kind \in use[c], h \in Host : Accept(c, kind, h)
        PROVE  AnswersInv'
    <2>1. Along(conn'[c])
      BY <1>1, ShowsAlong, ForwardsAlong, ConnectsAlong, InterceptsAlong,
         AcceptsAlong DEF Serve
    <2>2. Shape' /\ use' = use /\ \A d \in Conn \ {c} : conn'[d] = conn[d]
      BY <1>1, OwnStep, SameUse DEF AnswersInv
    <2> QED
      BY <1>1, <2>1, <2>2 DEF AnswersInv
  <1>2. AnswersInv /\ [Next]_vars => AnswersInv'
    BY <1>1, OthersAlong DEF Next
  <1> QED
    BY <1>2, FirstAnswers, PTL DEF Spec

\* Whatever fails on the way, no client is answered twice, and what was logged as
\* opened is logged as ended.
THEOREM EveryAnswerIsOne == Spec => []OneAnswerOneEnd
  <1>1. ASSUME AnswersInv PROVE OneAnswerOneEnd
    BY <1>1 DEF AnswersInv, OneAnswerOneEnd, Along, Untold, Logged, Told, At
  <1> QED
    BY <1>1, AnswersInvariance, PTL

-----------------------------------------------------------------------------
(* Verdicts *)

\* When there last were grounds for each of the two.
Clock ==
  /\ now \in Nat /\ trusted \in BOOLEAN
  /\ grounds \in [BOOLEAN -> Nat]
  /\ grounds[trusted] = now
  /\ \A b \in BOOLEAN : grounds[b] <= now

\* A verdict is as old as a verification may take, when it is found.
VerdictSound ==
  verdict # None =>
    /\ verdict.trusted \in BOOLEAN
    /\ verdict.at \in Nat /\ verdict.at <= now
    /\ verdict.at <= grounds[verdict.trusted] + CheckTime

\* What a task that verifies has seen it saw since it began, and it is not late;
\* what was decided has not had the time to get older than it may.
Looking(r) ==
  /\ r.at \in {"verify", "settle"} =>
       r.since \in Nat /\ r.since <= now /\ now <= r.since + CheckTime
  /\ r.at = "settle" => r.seen \in BOOLEAN /\ r.since <= grounds[r.seen]
  /\ r.decided # None =>
       r.decided \in BOOLEAN /\ now < grounds[r.decided] + Recheck + CheckTime

VerdictInv ==
  Shape /\ Clock /\ VerdictSound /\ \A c \in Conn : Looking(conn[c])

LEMMA FirstVerdict == Init => VerdictInv
  <1> SUFFICES ASSUME Init PROVE VerdictInv
    OBVIOUS
  <1>1. Shape
    BY DEF Init, Shape, Field, Fresh
  <1>2. \A c \in Conn : Looking(conn[c])
    BY DEF Init, Fresh, Looking
  <1> QED
    BY <1>1, <1>2 DEF Init, VerdictInv, Clock, VerdictSound

\* Nothing but a verification touches the keychain's side of a connection.
Unlooking(c) ==
  /\ conn'[c].at \notin {"verify", "settle"}
  /\ conn'[c].decided \in {conn[c].decided, None}

LEMMA MostDoNotLook ==
  ASSUME Shape, NEW c \in Conn,
         \/ Show(c) \/ ClearEvents(c) \/ Admit(c) \/ Send(c) \/ Relay(c)
         \/ Shadow(c) \/ Dial(c) \/ Refuse502(c) \/ Tunnel(c)
  PROVE  Unlooking(c) /\ UNCHANGED <<now, trusted, grounds, verdict>>
  <1> USE DEF Unlooking, Outside, network
  <1>1. CASE Page(c) \/ ClearEvents(c) \/ Fail(c)
    BY <1>1, Answering, Stopping, Going DEF Page, ClearEvents, Fail
  <1>2. CASE ReadSaved(c) \/ Checked(c) \/ Refresh(c)
    BY <1>2, Becoming DEF ReadSaved, Checked, Refresh, Goes, Field
  <1>3. CASE Close(c)
    BY <1>3 DEF Close, Fresh, Shape
  <1>4. CASE Admit(c)
    BY <1>4, Going DEF Admit
  <1>5. CASE Send(c) \/ Relay(c)
    BY <1>5, Going, Beginning DEF Send, Relay
  <1>6. CASE Shadow(c) \/ Dial(c)
    BY <1>6, Becoming DEF Shadow, Dial, Goes, Field
  <1>7. CASE Refuse502(c) \/ Tunnel(c)
    BY <1>7, Answering, Stopping, Going DEF Refuse502, Tunnel
  <1> QED
    BY <1>1, <1>2, <1>3, <1>4, <1>5, <1>6, <1>7 DEF Show

LEMMA InterceptionDoesNotLook ==
  ASSUME Shape, NEW c \in Conn,
         \/ Capture(c) \/ Leaf(c) \/ WriteKey(c) \/ WriteRequest(c)
         \/ ReadRequest(c) \/ WriteCertificate(c) \/ Tidy(c) \/ Load(c)
         \/ Upstream(c) \/ Exchange(c) \/ Response(c) \/ Upgraded(c)
         \/ Ingest(c) \/ Respond(c) \/ Closing(c)
  PROVE  Unlooking(c) /\ UNCHANGED <<now, trusted, grounds, verdict>>
  <1> USE DEF Unlooking, Outside, OnDisk, network
  <1>1. CASE Capture(c)
    BY <1>1, Beginning, Going DEF Capture
  <1>2. CASE Leaf(c) \/ WriteKey(c) \/ WriteRequest(c) \/ Tidy(c) \/ Load(c)
    BY <1>2, Stopping, Going DEF Leaf, WriteKey, WriteRequest, Tidy, Load
  <1>3. CASE ReadRequest(c) \/ WriteCertificate(c)
    BY <1>3, Becoming DEF ReadRequest, WriteCertificate, Goes, Field
  <1>4. CASE Upstream(c) \/ Exchange(c) \/ Closing(c)
    BY <1>4, Stopping, Going DEF Upstream, Exchange, Closing
  <1>5. CASE Response(c) \/ Upgraded(c) \/ Ingest(c) \/ Respond(c)
    <2>1. \E place \in {"closing", "failed", "upgraded", "ingest", "respond",
                        "request"} : Goes(c, place)
      BY <1>5 DEF Response, Upgraded, Ingest, Respond
    <2> QED
      BY <1>5, <2>1, Going DEF Response, Upgraded, Ingest, Respond
  <1> QED
    BY <1>1, <1>2, <1>3, <1>4, <1>5

LEMMA AcceptDoesNotLook ==
  ASSUME Shape, use \in Uses, NEW c \in Conn, NEW kind \in use[c], NEW h \in Host,
         Accept(c, kind, h)
  PROVE  Unlooking(c) /\ UNCHANGED <<now, trusted, grounds, verdict>>
  <1>1. /\ conn'[c].at = Routes[kind]
        /\ conn'[c].decided = conn[c].decided
    BY Becoming DEF Accept, Field
  <1>2. kind \in DOMAIN Routes
    BY ProxyAssumption DEF Routes
  <1> QED
    BY <1>1, <1>2 DEF Routes, Unlooking, Accept, Outside, network

\* A verdict is taken as it is, or a verification begun.
LEMMA TrustLooks ==
  ASSUME VerdictInv, NEW c \in Conn, Trust(c)
  PROVE  Looking(conn[c])' /\ UNCHANGED <<now, trusted, grounds, verdict>>
  <1> USE ProxyAssumption DEF VerdictInv, Clock, VerdictSound
  <1>1. CASE StillFresh
    <2>1. /\ conn'[c].at \in {"capture", "dial"}
          /\ conn'[c].decided = verdict.trusted
      BY <1>1, Becoming DEF Trust, Decides, Field
    <2>2. now < grounds[verdict.trusted] + Recheck + CheckTime
      BY <1>1 DEF StillFresh
    <2> QED
      BY <1>1, <2>1, <2>2 DEF Looking, Trust, StillFresh
  <1>2. CASE ~StillFresh
    <2>1. /\ conn'[c].at = "ca"
          /\ conn'[c].decided = conn[c].decided
      BY <1>2, Going DEF Trust
    <2> QED
      BY <1>2, <2>1 DEF Looking, Trust
  <1> QED
    BY <1>1, <1>2

\* Grounds are only renewed.
Renewed == Clock' /\ \A b \in BOOLEAN : grounds[b] <= grounds'[b]

\* The keychain is read, or cannot be,
LEMMA VerifyLooks ==
  ASSUME VerdictInv, NEW c \in Conn, Authority(c) \/ Verify(c)
  PROVE  Looking(conn[c])' /\ Renewed /\ UNCHANGED <<now, trusted, verdict>>
  <1> USE ProxyAssumption DEF VerdictInv, Clock
  <1>1. UNCHANGED <<now, trusted, verdict>>
    BY DEF Authority, Verify
  <1>2. UNCHANGED grounds \/ grounds' = [grounds EXCEPT ![FALSE] = now]
    BY DEF Authority, Verify, Unasked
  <1>0. /\ grounds \in [BOOLEAN -> Nat] /\ now \in Nat
        /\ grounds[trusted] = now /\ trusted \in BOOLEAN
        /\ grounds[TRUE] <= now /\ grounds[FALSE] <= now
        /\ grounds[TRUE] \in Nat /\ grounds[FALSE] \in Nat
    OBVIOUS
  <1>a. /\ grounds' \in [BOOLEAN -> Nat]
        /\ grounds'[TRUE] = grounds[TRUE]
        /\ grounds'[FALSE] \in {grounds[FALSE], now}
    BY <1>0, <1>2
  <1>b. /\ grounds[TRUE] <= grounds'[TRUE] /\ grounds[FALSE] <= grounds'[FALSE]
        /\ grounds'[TRUE] <= now /\ grounds'[FALSE] <= now
    <2> HIDE DEF Clock, VerdictInv
    <2>0. \A m \in Nat : m <= m
      OBVIOUS
    <2>1. grounds[TRUE] <= grounds'[TRUE]
      BY <1>0, <1>a, <2>0, Zenon
    <2>2. grounds'[TRUE] <= now
      BY <1>0, <1>a
    <2>3. grounds[FALSE] <= grounds'[FALSE]
      <3>1. CASE grounds'[FALSE] = grounds[FALSE]
        BY <1>0, <2>0, <3>1, Zenon
      <3>2. CASE grounds'[FALSE] = now
        BY <1>0, <3>2
      <3> QED
        BY <1>a, <3>1, <3>2
    <2>4. grounds'[FALSE] <= now
      BY <1>0, <1>a
    <2> QED
      BY <2>1, <2>2, <2>3, <2>4
  <1>c. \A b \in BOOLEAN : grounds[b] <= grounds'[b] /\ grounds'[b] <= now
    BY <1>b
  <1>d. grounds'[trusted] = now
    <2>1. CASE trusted = TRUE
      BY <1>0, <1>a, <2>1
    <2>2. CASE trusted = FALSE
      BY <1>0, <1>a, <2>2
    <2> QED
      BY <1>0, <2>1, <2>2
  <1>3. Renewed
    BY <1>0, <1>1, <1>a, <1>c, <1>d DEF Renewed
  <1>r. conn[c].decided # None =>
          /\ conn[c].decided \in BOOLEAN
          /\ now < grounds'[conn[c].decided] + Recheck + CheckTime
    <2> SUFFICES ASSUME conn[c].decided # None
                 PROVE  /\ conn[c].decided \in BOOLEAN
                        /\ now < grounds'[conn[c].decided] + Recheck + CheckTime
      OBVIOUS
    <2>1. /\ conn[c].decided \in BOOLEAN
          /\ now < grounds[conn[c].decided] + Recheck + CheckTime
      BY DEF Looking
    <2>2. /\ grounds[conn[c].decided] \in Nat /\ grounds'[conn[c].decided] \in Nat
          /\ grounds[conn[c].decided] <= grounds'[conn[c].decided]
      BY <1>0, <1>a, <1>c, <2>1
    <2> QED
      BY <1>0, <2>1, <2>2
  <1>u. Unasked => grounds'[FALSE] = now
    BY <1>0 DEF Unasked
  <1>4. CASE Authority(c)
    <2>1. /\ conn'[c].since = now
          /\ conn'[c].decided = conn[c].decided
          /\ \/ conn'[c].at = "verify"
             \/ conn'[c].at = "settle" /\ conn'[c].seen = FALSE /\ Unasked
      BY <1>4, Becoming DEF Authority, Field
    <2>2. conn'[c].at = "settle" =>
            conn'[c].seen \in BOOLEAN /\ conn'[c].since <= grounds'[conn'[c].seen]
      BY <1>0, <1>u, <2>1
    <2> QED
      BY <1>0, <1>1, <1>3, <1>r, <2>1, <2>2 DEF Looking
  <1>5. CASE Verify(c)
    <2>1. /\ conn'[c].at = "settle"
          /\ conn'[c].since = conn[c].since
          /\ conn'[c].decided = conn[c].decided
          /\ \/ conn'[c].seen = trusted
             \/ conn'[c].seen = FALSE /\ Unasked
      BY <1>5, Becoming DEF Verify, Field
    <2>2. /\ conn[c].since \in Nat /\ conn[c].since <= now
          /\ now <= conn[c].since + CheckTime
      BY <1>5 DEF Verify, At, Looking
    <2>3. conn'[c].seen \in BOOLEAN /\ grounds'[conn'[c].seen] = now
      BY <1>0, <1>d, <1>u, <2>1
    <2> QED
      BY <1>0, <1>1, <1>3, <1>r, <2>1, <2>2, <2>3 DEF Looking
  <1> QED
    BY <1>1, <1>3, <1>4, <1>5

\* and what it said is the verdict.
LEMMA SettleLooks ==
  ASSUME VerdictInv, NEW c \in Conn, Settle(c)
  PROVE  /\ Looking(conn[c])' /\ VerdictSound'
         /\ UNCHANGED <<now, trusted, grounds>>
  <1> USE ProxyAssumption DEF VerdictInv, Clock
  <1>1. /\ conn'[c].at \in {"capture", "dial"}
        /\ conn'[c].decided = conn[c].seen
    BY Becoming DEF Settle, Decides, Field
  <1>2. /\ conn[c].seen \in BOOLEAN
        /\ now <= grounds[conn[c].seen] + CheckTime
    BY DEF Settle, At, Looking
  <1>3. verdict' = [trusted |-> conn[c].seen, at |-> now]
    BY DEF Settle
  <1>4. UNCHANGED <<now, trusted, grounds>>
    BY DEF Settle
  <1>5. Looking(conn[c])'
    BY <1>1, <1>2, <1>4 DEF Looking
  <1> QED
    BY <1>2, <1>3, <1>4, <1>5 DEF VerdictSound

\* What a task found stays true, or is told again, while it works and others do.
LEMMA TimeLooks ==
  ASSUME VerdictInv, Flip \/ Tick
  PROVE  VerdictInv'
  <1> USE ProxyAssumption DEF VerdictInv, Clock
  <1>1. CASE Flip
    <2>1. /\ conn' = conn /\ now' = now /\ verdict' = verdict
          /\ trusted' = ~trusted
          /\ grounds' = [grounds EXCEPT ![~trusted] = now]
      BY <1>1 DEF Flip
    <2>2. Clock' /\ \A b \in BOOLEAN : grounds[b] <= grounds'[b]
      BY <2>1
    <2>3. VerdictSound'
      BY <2>1, <2>2 DEF VerdictSound
    <2>4. \A c \in Conn : Looking(conn[c])'
      BY <2>1, <2>2 DEF Looking
    <2> QED
      BY <2>1, <2>2, <2>3, <2>4 DEF Shape
  <1>2. CASE Tick
    <2>1. /\ now' = now + 1 /\ trusted' = trusted /\ verdict' = verdict
          /\ grounds' = [grounds EXCEPT ![trusted] = now + 1]
          /\ conn' = [c \in Conn |-> [conn[c] EXCEPT !.decided = None]]
      BY <1>2 DEF Tick
    <2>2. Clock' /\ \A b \in BOOLEAN : grounds[b] <= grounds'[b]
      BY <2>1
    <2>3. VerdictSound'
      BY <2>1, <2>2 DEF VerdictSound
    <2>4. Shape'
      BY <2>1 DEF Shape
    <2>5. ASSUME NEW c \in Conn PROVE Looking(conn[c])'
      <3>1. /\ conn'[c].at = conn[c].at /\ conn'[c].since = conn[c].since
            /\ conn'[c].seen = conn[c].seen /\ conn'[c].decided = None
        BY <2>1 DEF Shape, Field
      <3>2. conn[c].at \in {"verify", "settle"} => now - conn[c].since < CheckTime
        BY <1>2 DEF Tick
      <3> QED
        BY <2>1, <2>2, <3>1, <3>2 DEF Looking
    <2> QED
      BY <2>2, <2>3, <2>4, <2>5
  <1> QED
    BY <1>1, <1>2

LEMMA StepLooks ==
  ASSUME VerdictInv, AnswersInv, NEW c \in Conn,
         \/ Serve(c) \/ \E kind \in use[c], h \in Host : Accept(c, kind, h)
  PROVE  VerdictInv'
  <1>1. /\ Looking(conn[c])' /\ VerdictSound' /\ Renewed
        /\ UNCHANGED <<now, trusted>>
    <2>1. CASE Unlooking(c) /\ UNCHANGED <<now, trusted, grounds, verdict>>
      BY <2>1 DEF Unlooking, Looking, VerdictInv, VerdictSound, Renewed, Clock
    <2>2. CASE Looking(conn[c])' /\ UNCHANGED <<now, trusted, grounds, verdict>>
      BY <2>2 DEF VerdictInv, VerdictSound, Renewed, Clock
    <2>3. CASE Looking(conn[c])' /\ Renewed /\ UNCHANGED <<now, trusted, verdict>>
      BY <2>3, ProxyAssumption DEF VerdictInv, VerdictSound, Renewed, Clock
    <2>4. CASE Looking(conn[c])' /\ VerdictSound' /\ UNCHANGED <<now, trusted, grounds>>
      BY <2>4 DEF VerdictInv, Renewed, Clock
    <2> QED
      BY <2>1, <2>2, <2>3, <2>4, MostDoNotLook, InterceptionDoesNotLook, AcceptDoesNotLook,
         TrustLooks, VerifyLooks, SettleLooks
         DEF Serve, VerdictInv, AnswersInv
  <1>2. Shape' /\ \A d \in Conn \ {c} : conn'[d] = conn[d]
    BY OwnStep DEF VerdictInv
  <1>3. \A d \in Conn \ {c} : Looking(conn[d])'
    BY <1>1, <1>2, ProxyAssumption DEF VerdictInv, Looking, Renewed, Clock
  <1> QED
    BY <1>1, <1>2, <1>3 DEF VerdictInv, Renewed

\* The clock, the verdict and what each connection knows of it fit together.
THEOREM VerdictInvariance == Spec => []VerdictInv
  <1>1. ASSUME VerdictInv,
               \/ \E p \in Probes : StoreBackground(p)
               \/ Age \/ (\E k \in Key : Save(k)) \/ UNCHANGED vars
        PROVE  VerdictInv'
    <2>1. conn' = conn /\ UNCHANGED <<now, trusted, grounds, verdict>>
      BY <1>1 DEF StoreBackground, Age, Save, network, vars
    <2> QED
      BY <1>1, <2>1 DEF VerdictInv, Shape, Clock, VerdictSound, Looking
  <1>2. AnswersInv /\ VerdictInv /\ [Next]_vars => VerdictInv'
    BY <1>1, StepLooks, TimeLooks DEF Next, Others
  <1> QED
    BY <1>2, FirstVerdict, AnswersInvariance, PTL DEF Spec

\* A host is intercepted by what the keychain said within the last minute and the
\* time of one verification, and spared by that, or because it could not be asked
\* within that time, however many tasks share a verdict.
THEOREM VerdictsAreRecent == Spec => []VerdictIsRecent
  <1>1. ASSUME VerdictInv PROVE VerdictIsRecent
    BY <1>1, ProxyAssumption
       DEF VerdictInv, Clock, Looking, VerdictIsRecent
  <1> QED
    BY <1>1, VerdictInvariance, PTL
=============================================================================
