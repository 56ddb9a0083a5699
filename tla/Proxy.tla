------------------------------- MODULE Proxy -------------------------------
(***************************************************************************)
(* The proxy of the daemon (src/proxy.rs): one task per connection, which  *)
(* is a page or a call of the dashboard, an inference request that goes to *)
(* the Gateway (src/inference.rs), or a CONNECT that is tunnelled, or that *)
(* is intercepted when payloads are captured and the user trusts the CA of *)
(* Relay (src/cert.rs).  Beside them, the check of the saved credential    *)
(* that /api/status shows (src/gateway.rs).                                *)
(*                                                                         *)
(* A client is done with a connection when it is closed, and may open      *)
(* another.  What is read and relayed is left out; where the task waits,   *)
(* and what it does when something fails, is kept.                         *)
(***************************************************************************)
EXTENDS Naturals, FiniteSets

CONSTANTS
  Conn,        \* connections under way at once
  Host,        \* the AI hosts that are connected to
  Key,         \* Gateway credentials the settings may hold
  Uses,        \* uses of the proxy: what each connection may turn out to be
  Headers,     \* the tokens inference requests carry, in either header
  Traffic,     \* what exchanges with a host are marked by
  Recheck,     \* CA_TRUST_RECHECK, in ticks
  CheckTime,   \* VERIFY_CERT_TIMEOUT, in ticks
  Probes,      \* bound: background probes in flight
  MaxMoves,    \* bound: ticks, and changes of the keychain and the settings
  None

ASSUME ProxyAssumption ==
  /\ {Recheck, CheckTime, MaxMoves} \subseteq Nat /\ Recheck > 0
  /\ Uses \subseteq [Conn -> SUBSET {"eof", "garbled", "page", "foreign", "clear",
                                    "other", "status", "inference", "plain",
                                    "connect"}]

VARIABLES
  now,         \* the clock
  trusted,     \* the user trusts the CA in the keychain
  grounds,     \* when there last were grounds for each verdict: the keychain
               \* trusts; it does not, or it could not be asked
  verdict,     \* ca_verdict, behind its lock
  verifying,   \* who holds that lock
  leaf,        \* the files of each host: certificate, key, request, extensions
  use,         \* which of the uses this is; it never changes
  conn,        \* what each connection is at
  saved,       \* the credential in the settings
  cache,       \* CredentialCache: entry, and the pair a probe was asked for
  probes,      \* the background probes
  moves

network == <<trusted, grounds, verdict, verifying, leaf>>
checks == <<saved, cache, probes>>
vars == <<now, network, use, conn, checks, moves>>

\* heads: responses begun on the connection. ends: events that close it.
Fresh == [at |-> "idle", host |-> None, heads |-> 0, opened |-> FALSE, ends |-> 0,
          seen |-> None, since |-> 0, csr |-> None, pair |-> None,
          decided |-> None]

NoLeaf == [cert |-> None, key |-> None, csr |-> None, ext |-> FALSE]

Init ==
  /\ now = 0
  /\ trusted \in BOOLEAN /\ grounds = [b \in BOOLEAN |-> 0]
  /\ verdict = None /\ verifying = None
  /\ leaf = [h \in Host |-> NoLeaf]
  /\ use \in Uses
  /\ conn = [c \in Conn |-> Fresh]
  /\ saved = CHOOSE k \in Key : TRUE
  /\ cache = [entry |-> None, refreshing |-> None]
  /\ probes = [p \in Probes |-> None]
  /\ moves = 0

At(c, place) == conn[c].at = place
Becomes(c, fields) == conn' = [conn EXCEPT ![c] =
  [f \in DOMAIN @ |-> IF f \in DOMAIN fields THEN fields[f] ELSE @[f]]]
Goes(c, place) == Becomes(c, [at |-> place])

\* A response is begun, and nothing but its body follows.
Answers(c) == Becomes(c, [at |-> "done", heads |-> conn[c].heads + 1])

\* An event closes the connection in the log: connect_closed, connect_failed,
\* payload_capture_failed, or the client_error an error of the task becomes.
Ends(c) == Becomes(c, [at |-> "done", ends |-> conn[c].ends + 1])

Outside == <<now, network, use, checks, moves>>

-----------------------------------------------------------------------------
(* Connections *)

\* handle_client: what a connection is. Every route but the ones that follow is
\* answered or dropped at once.
Routes == [eof |-> "done", garbled |-> "failed", page |-> "page",
           foreign |-> "page", other |-> "page", clear |-> "clear",
           status |-> "saved", inference |-> "admit",
           plain |-> "dial", connect |-> "shadow"]

Accept(c, kind, h) ==
  /\ At(c, "idle") /\ kind \in use[c]
  /\ Becomes(c, [at |-> Routes[kind], host |-> h,
                 opened |-> kind \in {"plain"}])
  /\ UNCHANGED Outside

\* serve_forever logs the error of a task.
Fail(c) == At(c, "failed") /\ Ends(c) /\ UNCHANGED Outside

\* A page, a file, the PAC file, a refusal: written, unless the client is gone.
Page(c) ==
  /\ At(c, "page")
  /\ Answers(c) \/ Goes(c, "failed")
  /\ UNCHANGED Outside

\* The log is emptied, which is logged, and then answered.
ClearEvents(c) ==
  /\ At(c, "clear")
  /\ Goes(c, "page") \/ Goes(c, "failed")
  /\ UNCHANGED Outside

Close(c) ==
  /\ At(c, "done")
  /\ conn' = [conn EXCEPT ![c] = Fresh]
  /\ UNCHANGED Outside

-----------------------------------------------------------------------------
(* Inference requests *)

\* presented_token: authorization and x-api-key carry one and the same token.
Presented(values) ==
  CASE values = {} -> "nothing"
    [] \E token \in values \ {"no_bearer"} : values = {token} -> "token"
    [] OTHER -> "conflicting"

\* bearer: the broker, which may refuse the token, or have no bearer.
Bearer(token) == {"refused"} \cup (IF token THEN {"issued"} ELSE {})

\* forward: only this device is answered; a request without one token, or that
\* the broker or the header rules refuse, is.
Admit(c) ==
  /\ At(c, "admit")
  /\ \E local, valid \in BOOLEAN, values \in Headers :
     \E bearer \in Bearer(Presented(values) = "token") :
       IF local /\ bearer = "issued" /\ valid THEN Goes(c, "send")
       ELSE Goes(c, "page")
  /\ UNCHANGED Outside

\* The body is read, and the request sent: its response is begun, or a refusal
\* is when the Gateway is out of reach.
Send(c) ==
  /\ At(c, "send")
  /\ \/ Goes(c, "failed") \/ Goes(c, "page")
     \/ Becomes(c, [at |-> "relay", heads |-> conn[c].heads + 1])
  /\ UNCHANGED Outside

\* relay_response: chunk by chunk, to the end or until either side fails.
Relay(c) ==
  /\ At(c, "relay")
  /\ Goes(c, "done") \/ Goes(c, "failed")
  /\ UNCHANGED Outside

-----------------------------------------------------------------------------
(* CONNECT *)

\* maybe_shadow is waited for before the connection is logged.
Shadow(c) ==
  /\ At(c, "shadow")
  /\ Becomes(c, [at |-> "trust", opened |-> TRUE])
  /\ UNCHANGED Outside

Decides(c, trusts) ==
  Becomes(c, [at |-> IF trusts THEN "capture" ELSE "dial",
              decided |-> trusts, seen |-> None, since |-> 0])

\* Variant: a CA that is trusted stays so.
StillFreshOnceTrusted == verdict # None
                         /\ (verdict.trusted \/ now - verdict.at < Recheck)

StillFresh == verdict # None /\ now - verdict.at < Recheck

\* capture_ca_trusted: one task at a time; a verdict of the last minute is
\* taken as it is, another is found anew.
Trust(c) ==
  /\ At(c, "trust") /\ verifying = None
  /\ IF StillFresh THEN Decides(c, verdict.trusted) /\ UNCHANGED verifying
     ELSE Goes(c, "ca") /\ verifying' = c
  /\ UNCHANGED <<now, trusted, grounds, verdict, leaf, use, checks, moves>>

Unasked == grounds' = [grounds EXCEPT ![FALSE] = now]

\* ensure_ca: the files of the CA are there, or openssl writes them, in its own
\* time; a CA that cannot be had is not trusted.
Authority(c) ==
  /\ At(c, "ca")
  /\ \/ /\ Becomes(c, [at |-> "verify", since |-> now])
        /\ UNCHANGED grounds
     \/ /\ Becomes(c, [at |-> "settle", since |-> now, seen |-> FALSE])
        /\ Unasked
  /\ UNCHANGED <<now, trusted, verdict, verifying, leaf, use, checks, moves>>

\* security verify-cert reads the keychain; when it cannot be started, or gives
\* no answer in time, the CA counts as untrusted.
Verify(c) ==
  /\ At(c, "verify")
  /\ \/ /\ Becomes(c, [at |-> "settle", seen |-> trusted])
        /\ UNCHANGED grounds
     \/ /\ Becomes(c, [at |-> "settle", seen |-> FALSE])
        /\ Unasked
  /\ UNCHANGED <<now, trusted, verdict, verifying, leaf, use, checks, moves>>

Settle(c) ==
  /\ At(c, "settle")
  /\ verdict' = [trusted |-> conn[c].seen, at |-> now]
  /\ verifying' = None
  /\ Decides(c, conn[c].seen)
  /\ UNCHANGED <<now, trusted, grounds, leaf, use, checks, moves>>

\* Variant: the client is told before the host is reached.
DialAfterwards(c) ==
  /\ At(c, "dial")
  /\ \/ Becomes(c, [at |-> "page", heads |-> conn[c].heads + 1,
                    ends |-> conn[c].ends + 1])
     \/ Becomes(c, [at |-> "tunnel", heads |-> conn[c].heads + 1])
  /\ UNCHANGED Outside

\* A tunnel: a host that cannot be reached is logged, then answered 502; a
\* client that is gone by then makes a second event of it.
Dial(c) ==
  /\ At(c, "dial")
  /\ \/ Becomes(c, [at |-> "refused", ends |-> conn[c].ends + 1])
     \/ Becomes(c, [at |-> "tunnel", heads |-> conn[c].heads + 1])
     \/ Goes(c, "failed")
  /\ UNCHANGED Outside

Refuse502(c) ==
  /\ At(c, "refused")
  /\ Answers(c) \/ Goes(c, "failed")
  /\ UNCHANGED Outside

\* copy_bidirectional, to the end of both sides or an error.
Tunnel(c) ==
  /\ At(c, "tunnel")
  /\ Ends(c) \/ Goes(c, "failed")
  /\ UNCHANGED Outside

-----------------------------------------------------------------------------
(* Interception *)

\* handle_mitm_connect: the client is told the tunnel is there.
Capture(c) ==
  /\ At(c, "capture")
  /\ \/ Becomes(c, [at |-> "leaf", heads |-> conn[c].heads + 1])
     \/ Goes(c, "failed")
  /\ UNCHANGED Outside

Files(c) == leaf[conn[c].host]
Writes(c, fields) == leaf' = [leaf EXCEPT ![conn[c].host] =
  [f \in DOMAIN @ |-> IF f \in DOMAIN fields THEN fields[f] ELSE @[f]]]
OnDisk == <<now, trusted, grounds, verdict, verifying, use, checks, moves>>

\* ensure_leaf_cert: the files that are there are used; otherwise the
\* extensions are written first.
Leaf(c) ==
  /\ At(c, "leaf")
  /\ IF Files(c).cert # None /\ Files(c).key # None
     THEN Goes(c, "load") /\ UNCHANGED leaf
     ELSE Goes(c, "key") /\ Writes(c, [ext |-> TRUE])
  /\ UNCHANGED OnDisk

\* openssl req: the key, then the request for it; when it fails, what was
\* written for the certificate is removed.
WriteKey(c) ==
  /\ At(c, "key")
  /\ \/ Goes(c, "csr") /\ Writes(c, [key |-> c])
     \/ Ends(c) /\ Writes(c, [csr |-> None, ext |-> FALSE])
  /\ UNCHANGED OnDisk

WriteRequest(c) ==
  /\ At(c, "csr")
  /\ Goes(c, "sign") /\ Writes(c, [csr |-> c])
  /\ UNCHANGED OnDisk

\* openssl x509 reads the request and the extensions, or fails, as it does when
\* they are not there.
ReadRequest(c) ==
  /\ At(c, "sign")
  /\ \/ /\ Files(c).csr # None /\ Files(c).ext
        /\ Becomes(c, [at |-> "cert", csr |-> Files(c).csr])
     \/ Goes(c, "unsigned")
  /\ UNCHANGED Outside

\* The certificate is for the key of the request that was read.
WriteCertificate(c) ==
  /\ At(c, "cert")
  /\ Becomes(c, [at |-> "signed", csr |-> None])
  /\ Writes(c, [cert |-> conn[c].csr])
  /\ UNCHANGED OnDisk

\* The request and the extensions are removed, whoever's they are.
Tidy(c) ==
  /\ \/ At(c, "signed") /\ Goes(c, "load")
     \/ At(c, "unsigned") /\ Ends(c)
  /\ Writes(c, [csr |-> None, ext |-> FALSE])
  /\ UNCHANGED OnDisk

\* server_tls_config: a key that is not the certificate's is refused, and so may
\* the client refuse the certificate.
Load(c) ==
  /\ At(c, "load")
  /\ \/ Files(c).key = Files(c).cert /\ Goes(c, "upstream")
     \/ Ends(c)
  /\ UNCHANGED Outside

Upstream(c) ==
  /\ At(c, "upstream")
  /\ Goes(c, "request") \/ Ends(c) \/ Goes(c, "failed")
  /\ UNCHANGED Outside

\* A request is read and sent on, until there is none; an error of reading it is
\* logged and closes the connection all the same.
Exchange(c) ==
  /\ At(c, "request")
  /\ Goes(c, "closing") \/ Goes(c, "failed") \/ Goes(c, "response")
  /\ UNCHANGED Outside

\* request_protocol_decision, response_protocol_decision: what is upgraded, or
\* is a stream of events, is not buffered.
MetadataOnly(marks) == marks \cap {"upgrade", "switching", "events"} # {}

\* read_http_body: chunks, a length, or nothing at all; only a body can end too
\* early.
MayFail(marks) == marks \cap {"chunked", "length"} # {}

\* classify_captured_traffic: the noise of a page first, then what makes a
\* request one of an AI.
IsAiRequest(marks) ==
  /\ marks \cap {"upgrade", "switching", "static", "telemetry", "realtime"} = {}
  /\ marks \cap {"notion_ai", "openai_path", "codex_path", "json_marker"} # {}

\* The head of the response is read, or the host is gone. What must not be
\* buffered is logged by its head and tunnelled; the rest is logged, and offered
\* to the collector when it is of an AI.
Response(c) ==
  /\ At(c, "response")
  /\ \/ Goes(c, "closing") \/ Goes(c, "failed")
     \/ \E marks \in Traffic :
          IF MetadataOnly(marks) THEN Goes(c, "upgraded")
          ELSE \/ MayFail(marks) /\ Goes(c, "failed")
               \/ Goes(c, IF IsAiRequest(marks) THEN "ingest" ELSE "respond")
  /\ UNCHANGED Outside

Upgraded(c) ==
  /\ At(c, "upgraded")
  /\ Goes(c, "closing") \/ Goes(c, "failed")
  /\ UNCHANGED Outside

\* ingest_capture: its answer is logged before the client gets its own.
Ingest(c) == At(c, "ingest") /\ Goes(c, "respond") /\ UNCHANGED Outside

Respond(c) ==
  /\ At(c, "respond")
  /\ Goes(c, "request") \/ Goes(c, "closing") \/ Goes(c, "failed")
  /\ UNCHANGED Outside

Closing(c) == At(c, "closing") /\ Ends(c) /\ UNCHANGED Outside

-----------------------------------------------------------------------------
(* The check of the saved credential *)

\* credential_status reads the settings first.
ReadSaved(c) ==
  /\ At(c, "saved")
  /\ Becomes(c, [at |-> "check", pair |-> saved])
  /\ UNCHANGED Outside

\* checked: an entry of another credential says nothing; one that is missing or
\* old is probed for.
Checked(c) ==
  LET e == cache.entry IN
  /\ At(c, "check")
  /\ Goes(c, IF e # None /\ e.pair = conn[c].pair /\ ~e.old
             THEN "page" ELSE "refresh")
  /\ UNCHANGED Outside

\* refresh_in_background: one probe of the pair that was last asked for.
Refresh(c) ==
  LET pair == conn[c].pair IN
  /\ At(c, "refresh")
  /\ IF cache.refreshing = pair THEN UNCHANGED <<cache, probes>>
     ELSE /\ cache' = [cache EXCEPT !.refreshing = pair]
          /\ \E p \in Probes : probes[p] = None
          /\ probes' = [probes EXCEPT ![CHOOSE p \in Probes : probes[p] = None] =
                          pair]
  /\ Becomes(c, [at |-> "page", pair |-> None])
  /\ UNCHANGED <<now, network, use, saved, moves>>

\* Variant: a probe that was not asked for last leaves the mark, and the one
\* that was leaves it too.
StoredStillAsked(fresh) == [cache EXCEPT !.entry = fresh]

\* store_background: a probe that was overtaken does not evict the entry of
\* another credential. (What the Gateway said of the key is left out.)
Stored(fresh) ==
  LET same == cache.entry = None \/ cache.entry.pair = fresh.pair
      asked == cache.refreshing = fresh.pair
  IN  [entry |-> IF same \/ asked THEN fresh ELSE cache.entry,
       refreshing |-> IF asked THEN None ELSE cache.refreshing]

StoreBackground(p) ==
  /\ probes[p] # None
  /\ cache' = Stored([pair |-> probes[p], old |-> FALSE])
  /\ probes' = [probes EXCEPT ![p] = None]
  /\ UNCHANGED <<now, network, use, conn, saved, moves>>

\* An entry is good for a minute.
Age ==
  /\ cache.entry # None /\ ~cache.entry.old
  /\ cache' = [cache EXCEPT !.entry.old = TRUE]
  /\ UNCHANGED <<now, network, use, conn, saved, probes, moves>>

-----------------------------------------------------------------------------
(* Others *)

Move == moves < MaxMoves /\ moves' = moves + 1

\* The user, or a profile, trusts the CA or no longer does.
Flip ==
  /\ Move /\ trusted' = ~trusted
  /\ grounds' = [grounds EXCEPT ![~trusted] = now]
  /\ UNCHANGED <<now, verdict, verifying, leaf, use, conn, checks>>

\* Another key is enrolled.
Save(k) ==
  /\ Move /\ k # saved /\ saved' = k
  /\ UNCHANGED <<now, network, use, conn, cache, probes>>

\* Time goes by, but not beside a verification that would be given up.
Tick ==
  /\ Move
  /\ \A c \in Conn : conn[c].at \in {"verify", "settle"}
       => now - conn[c].since < CheckTime
  /\ now' = now + 1
  /\ grounds' = [grounds EXCEPT ![trusted] = now + 1]
  /\ conn' = [c \in Conn |-> [conn[c] EXCEPT !.decided = None]]
  /\ UNCHANGED <<trusted, verdict, verifying, leaf, use, checks>>

-----------------------------------------------------------------------------
(* Specification *)

Show(c) ==
  \/ ReadSaved(c) \/ Checked(c) \/ Refresh(c) \/ Page(c) \/ Fail(c) \/ Close(c)

Serve(c) ==
  \/ Show(c) \/ ClearEvents(c)
  \/ Admit(c) \/ Send(c) \/ Relay(c)
  \/ Shadow(c) \/ Trust(c) \/ Authority(c) \/ Verify(c) \/ Settle(c)
  \/ Dial(c) \/ Refuse502(c) \/ Tunnel(c)
  \/ Capture(c) \/ Leaf(c) \/ WriteKey(c) \/ WriteRequest(c) \/ ReadRequest(c)
  \/ WriteCertificate(c) \/ Tidy(c) \/ Load(c) \/ Upstream(c)
  \/ Exchange(c) \/ Response(c) \/ Upgraded(c) \/ Ingest(c) \/ Respond(c)
  \/ Closing(c)

Others ==
  Flip \/ (\E k \in Key : Save(k)) \/ Tick

Next ==
  \/ \E c \in Conn : Serve(c) \/ \E kind \in use[c], h \in Host : Accept(c, kind, h)
  \/ \E p \in Probes : StoreBackground(p)
  \/ Age \/ Others

Spec == Init /\ [][Next]_vars

Dashboard(c) == use[c] = {"status"}

\* The tasks run, the probes end (they have a timeout), entries age; a dashboard
\* that is open asks again and again.
LiveSpec ==
  /\ Spec /\ WF_vars(Age)
  /\ \A p \in Probes : WF_vars(StoreBackground(p))
  /\ \A c \in Conn :
       WF_vars(Dashboard(c) /\ (Show(c) \/ \E h \in Host : Accept(c, "status", h)))

-----------------------------------------------------------------------------
(* Properties *)

\* A host is intercepted only if the keychain did trust the CA within the last
\* minute and the time a verification takes, and spared only if within that time
\* it did not, or could not be asked, whoever found the verdict and however many
\* waited for it (CA_TRUST_RECHECK, capture_ca_trusted).
VerdictIsRecent ==
  \A c \in Conn : conn[c].decided # None
    => now - grounds[conn[c].decided] < Recheck + CheckTime

\* Whatever fails, a client is answered once at most, and a connection that was
\* logged is logged to end, and that once (the early returns of handle_connect
\* and handle_mitm_connect, the errors serve_forever logs) -- twice only when the
\* client is gone that was to be told of a host out of reach.
OneAnswerOneEnd ==
  \A c \in Conn :
    /\ conn[c].heads <= 1
    /\ conn[c].ends <= 1 \/ (conn[c].ends = 2 /\ conn[c].heads = 0)
    /\ At(c, "done") /\ conn[c].opened => conn[c].ends >= 1

\* Once the settings stay as they are, the dashboard gets to show the check of
\* the credential that is saved, whatever probes were overtaken
\* (store_background, refresh_in_background).
CheckSettles ==
  <>[]((\E c \in Conn : Dashboard(c))
       => cache.entry # None /\ cache.entry.pair = saved)

\* A host can be intercepted once its files are there: they belong together
\* whenever nobody is writing them (ensure_leaf_cert).
LeavesArePairs ==
  (\A c \in Conn : conn[c].at \notin {"key", "csr", "sign", "cert", "signed",
                                      "unsigned"})
  => \A h \in Host : leaf[h].cert # None /\ leaf[h].key # None
       => leaf[h].cert = leaf[h].key
=============================================================================
