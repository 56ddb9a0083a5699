---------------------------- MODULE BrokerProofs ----------------------------
(***************************************************************************)
(* Theorems about the credential broker, for every number of requests,     *)
(* Gateways, teams, settings and faults.                                   *)
(*                                                                         *)
(* The first part is what every step does to the keys and to the ids: the  *)
(* two invariants KeyInv and IdInv, beside Inv.  A step either leaves the  *)
(* keys where they are (Untied), or moves them between the state and the   *)
(* thread that steps (KeyStep), or mints one.  What other threads hold is  *)
(* theirs by the lock `renewal` (OtherKeys).  Of the ids, a step gives out *)
(* none but the next, and a thread remembers none that was not given out.  *)
(*                                                                         *)
(* The second part is the theorems: the inductive invariant Inv; IdInv;    *)
(* for a Gateway that does what it is asked, KeyInv and the step           *)
(* simulation by which the broker keeps the custody of its keys; and, for  *)
(* settings that nobody else edits, the invariant SwitchInv of what a      *)
(* switch has read and written, with what follows from it.                 *)
(***************************************************************************)
EXTENDS BrokerSteps

USE BrokerAssumption DEF Goto, Become, quiet, external

-----------------------------------------------------------------------------
(* What the other threads, and the keys no step touches, keep *)

\* What most steps leave alone of what a thread remembers.
Alike(m, n) ==
  /\ n.req = m.req /\ n.ret = m.ret /\ n.moving = m.moving /\ n.held = m.held
  /\ n.doomed = m.doomed /\ n.from = m.from /\ n.then = m.then

\* The others, and the keys no thread's step touched.
LEMMA OtherKeys ==
  ASSUME Inv, NEW t \in Thread, NEW u \in Thread, u # t, KeyThread(u),
         pc'[u] = pc[u], mem'[u] = mem[u],
         \/ renewal \in {t, None}
         \/ /\ state'.key = state.key /\ live' \subseteq live
            /\ renewal' = renewal \/ renewal = None
  PROVE  KeyThread(u)'
  <1>1. ThreadInv(u)
    BY DEF Inv
  <1>2. CASE renewal # u
    <2>1. pc[u] \notin Locked
      BY <1>1, <1>2 DEF ThreadInv
    <2>2. MovesOn(u)' /\ HoldsKeys(u)'
      BY <2>1 DEF KeyThread, MovesOn, HoldsKeys, Bare, Locked, Issues
    <2>3. MintsOverNone(u)' /\ SignsOutAlone(u)'
      BY <1>2, <2>1 DEF KeyThread, MintsOverNone, SignsOutAlone, Locked, Issues
    <2> QED
      BY <2>2, <2>3 DEF KeyThread
  <1>3. CASE renewal = u
    <2>1. state'.key = state.key /\ live' \subseteq live /\ renewal' = u
      BY <1>3
    <2> QED
      BY <1>3, <2>1 DEF KeyThread, MovesOn, HoldsKeys, Bare, MintsOverNone,
                        SignsOutAlone
  <1> QED
    BY <1>2, <1>3

\* A step that leaves the keys where they are keeps KeyInv.
LEMMA Untouched ==
  ASSUME Inv, KeyInv, NEW t \in Thread, TypeOK', KeyThread(t)',
         \A u \in Thread \ {t} : pc'[u] = pc[u] /\ mem'[u] = mem[u],
         mem'[t].held.key = mem[t].held.key,
         mem'[t].doomed.key = mem[t].doomed.key,
         state'.key = state.key, live' = live, serial' >= serial,
         clock'.over = clock.over,
         renewal' = renewal \/ renewal \in {t, None}
  PROVE  KeyInv'
  <1>1. \A u \in Thread : KeyThread(u)'
    BY OtherKeys DEF KeyInv
  <1>2. /\ {mem'[u].held.key : u \in Thread} = {mem[u].held.key : u \in Thread}
        /\ {mem'[u].doomed.key : u \in Thread}
             = {mem[u].doomed.key : u \in Thread}
    OBVIOUS
  <1>3. Known' = Known /\ EveryLiveKeyIsHeld'
    BY <1>2 DEF Known, KeyInv, EveryLiveKeyIsHeld
  <1>4. \A k \in Known : k.id \in Nat
    BY DEF Inv, TypeOK, State, Key, Known, Local, Hold
  <1>5. \A k \in Known : k.id <= serial'
    BY <1>4 DEF KeyInv, Inv, TypeOK
  <1> QED
    BY <1>1, <1>3, <1>5 DEF KeyInv

\* What every step of a thread leaves alone.
Frame(t) ==
  /\ \A u \in Thread \ {t} : pc'[u] = pc[u] /\ mem'[u] = mem[u]
  /\ serial' >= serial /\ clock'.over = clock.over

\* A thread's step has the frame.
LEMMA FrameOf ==
  ASSUME TypeOK, NEW t \in Thread, Arrive(t) \/ Run(t) \/ Browser(t)
  PROVE  Frame(t)
  <1> SUFFICES /\ \A u \in Thread \ {t} : pc'[u] = pc[u] /\ mem'[u] = mem[u]
               /\ serial' \in {serial, serial + 1}
               /\ \/ clock' = clock
                  \/ clock' = [clock EXCEPT !.half = @ \ {state.key.id}]
    BY DEF Frame, TypeOK, Time
  <1> USE DEF TypeOK
  <1>1. CASE Refreshing(t)
    BY <1>1 DEF Refreshing, Refresh, LockRefresh, SkipRefresh, ApplyNothing,
       Apply, DropToken, Retarget, Retire, RetireFails, Return
  <1>2. CASE Serving(t)
    BY <1>2 DEF Serving, Admit, Account, Issue, LockIssue, SkipIssue, Present,
       ProxyKey, ProxyToken, Pair, Status, Finish, Ends
  <1>3. CASE Renewing(t)
    BY <1>3 DEF Renewing, Begin, ResolveFresh, ResolveFails, ResolveRefreshed,
       ResolveIdentity, IdentityReused, IdentityRenewed, IdentityMissing,
       OpenPage, Exchange, ExchangeFails, Keep, KeepNone, Dead, AnswerIssued,
       AnswerForward, AnswerSignIn, AnswerTick, Identified, Unidentified, Ends
  <1>4. CASE Minting(t)
    BY <1>4 DEF Minting, MintSkipped, Mint, MintRefused, MintFails, MintLost,
       MintUnauthorized, Tick, ExtendNotDue, Extend, ExtendFails,
       ExtendUnauthorized, ServeCredential
  <1>5. CASE Signing(t)
    BY <1>5 DEF Signing, Snapshot, JoinSignIn, OwnSignIn, Explicit, SignOut,
       Shutdown, Ends
  <1>6. CASE Switching(t)
    BY ZenonT(40), <1>6
       DEF Switching, LockSwitching, Plan, LockSwitch, Store, StoreFails,
       Reissue, AnswerInPlace, SwitchDone, Switched, Report, SwitchUndone,
       Restore, Settle, Ends
  <1>7. CASE Browser(t) \/ Arrive(t)
    BY <1>7 DEF Browser, BrowserSignsIn, BrowserFails, Identified, Unidentified,
       Arrive
  <1> QED
    BY <1>1, <1>2, <1>3, <1>4, <1>5, <1>6, <1>7 DEF Run

-----------------------------------------------------------------------------
(* What is kept of a memory; the steps that hold no key *)

Works(m, n) == Alike(m, n) /\ n.phase = m.phase

\* The kinds of the answers the helpers build.
LEMMA Kinds ==
  /\ \A token : Issued(token).kind = "credential"
  /\ \A reason : Refused(reason).kind = "refused"
  /\ \A at : DirectAnswer(at).kind \in {"credential", "refused"}
  /\ \A out \in Answer : \A at : Named(out, at).kind = out.kind
  /\ \A out : SwitchRefusal(out).kind \in {out.kind, "refused"}
  /\ NoAnswer.kind = "none"
  <1>1. \A reason : Refused(reason).kind = "refused"
    BY DEF Refused, NoAnswer
  <1> QED
    BY <1>1 DEF Issued, DirectAnswer, Named, SwitchRefusal, NoAnswer, Answer

\* A thread's memory, as far as its fields go.
Memory(m) == DOMAIN m = DOMAIN Blank

\* What is typed has the fields of a memory.
LEMMA Memories == \A m \in Local : Memory(m)
  BY DEF Memory, Local, Blank

\* Writing one field leaves the others alone.
LEMMA SeenField ==
  ASSUME NEW m, Memory(m), NEW x
  PROVE  LET n == [m EXCEPT !.seen = x] IN
         Memory(n) /\ Works(m, n) /\ n.out = m.out
  BY DEF Memory, Blank, Alike, Works

\* The answer.
LEMMA OutField ==
  ASSUME NEW m, Memory(m), NEW x
  PROVE  LET n == [m EXCEPT !.out = x] IN
         Memory(n) /\ Works(m, n) /\ n.out = x
  BY DEF Memory, Blank, Alike, Works

\* The settings to apply next.
LEMMA NextField ==
  ASSUME NEW m, Memory(m), NEW x
  PROVE  LET n == [m EXCEPT !.next = x] IN
         /\ Memory(n) /\ Alike(m, n) /\ n.out = m.out /\ n.phase = m.phase
  BY DEF Memory, Blank, Alike, Works

\* A thread about to delete a key, as Doomed sets it up.
LEMMA DoomedFields ==
  ASSUME NEW m, Memory(m), NEW hold, NEW url, NEW after
  PROVE  LET n == Doomed(m, hold, url, after) IN
         /\ n.doomed = hold /\ n.from = url /\ n.then = after
         /\ n.req = m.req /\ n.ret = m.ret /\ n.moving = m.moving
         /\ n.held = m.held /\ n.phase = m.phase /\ n.out = m.out
  BY DEF Memory, Doomed, Blank

\* Labels at which a thread holds no key, and is not in the middle of a switch.
Unengaged ==
  {"snapshot", "lockSwitching", "admit", "account", "issue", "pair",
   "proxyToken", "status", "lockSignIn", "lockSignOut", "lockTick",
   "lockShutdown", "plan", "lockSwitch", "store", "lockIssue", "present",
   "proxyKey", "explicit", "idle"}

Untied(t) ==
  /\ Alike(mem[t], mem'[t])
  /\ state'.key = state.key /\ live' = live

\* From one such label to another, nothing of KeyThread is at stake.
LEMMA UnengagedStep ==
  ASSUME NEW t \in Thread, KeyThread(t), pc[t] \in Unengaged \ {"idle"},
         Works(mem[t], mem'[t]), mem'[t].out.kind # "signed_out",
         pc'[t] \in (Unengaged \ {"idle", "lockTick"})
                     \cup {"refresh", "lockRefresh", "begin", "switched", "finish"},
         pc'[t] \in {"lockSwitch", "store"} => mem[t].req.op \in Switches
  PROVE  KeyThread(t)'
  BY DEF KeyThread, MovesOn, HoldsKeys, Bare, MintsOverNone, SignsOutAlone,
         Unengaged, Issues, Alike, Works

\* Serving moves no key.
LEMMA ServingKeys ==
  ASSUME TypeOK, NEW t \in Thread, KeyThread(t), Serving(t), ~Finish(t)
  PROVE  KeyThread(t)' /\ Untied(t)
  <1>1. /\ pc[t] \in Unengaged \ {"idle"}
        /\ pc'[t] \in {"issue", "finish", "lockIssue", "begin", "proxyKey",
                       "proxyToken", "pair", "switched"}
    BY ServedWell DEF Serving, Admit, Account, Issue, LockIssue, SkipIssue,
       Present, ProxyKey, ProxyToken, Pair, Status, Ends, Unengaged, TypeOK
  <1>0. mem[t].out.kind # "signed_out"
    BY <1>1 DEF KeyThread, SignsOutAlone, Unengaged
  <1>2. Works(mem[t], mem'[t]) /\ mem'[t].out.kind # "signed_out"
    <2>1. mem[t] \in Local /\ mem[t].out \in Answer /\ mem \in [Thread -> Local]
      BY DEF TypeOK, Local
    <2>2. CASE Admit(t) \/ Account(t)
      <3> DEFINE m == [mem[t] EXCEPT !.seen = target]
      <3>1. Memory(m) /\ Works(mem[t], m) /\ m.out = mem[t].out
        BY <2>1, Memories, SeenField
      <3>2. \/ mem'[t] = m
            \/ mem'[t] = [m EXCEPT !.out = Refused("caller_refused")]
            \/ mem'[t] = [m EXCEPT !.out = Refused("signed_out")]
        BY <2>1, <2>2 DEF Admit, Account, Ends
      <3> HIDE DEF m
      <3> QED
        <4>1. CASE mem'[t] = m
          BY <1>0, <3>1, <4>1
        <4>2. ASSUME NEW reason, mem'[t] = [m EXCEPT !.out = Refused(reason)]
              PROVE  Works(mem[t], mem'[t]) /\ mem'[t].out.kind # "signed_out"
          <5>1. Works(m, mem'[t]) /\ mem'[t].out = Refused(reason)
            BY <3>1, <4>2, OutField
          <5> QED
            BY <3>1, <5>1, Kinds DEF Alike, Works
        <4> QED
          BY <3>2, <4>1, <4>2
    <2>4. CASE Issue(t)
      BY <1>0, <2>1, <2>4, Kinds DEF Issue, Local, Alike, Works
    <2>5. CASE LockIssue(t) \/ SkipIssue(t) \/ Present(t) \/ ProxyKey(t)
      BY <1>0, <2>1, <2>5, Kinds DEF LockIssue, SkipIssue, Present, ProxyKey,
         Local, Alike, Works, Ends
    <2>6. CASE ProxyToken(t) \/ Pair(t)
      BY <1>0, <2>1, <2>6, Kinds DEF ProxyToken, Pair, Local, Alike, Works, Ends
    <2>7. CASE Status(t)
      BY <1>0, <2>1, <2>7, Kinds DEF Status, Local, Alike, Works, Ends, NoAnswer
    <2> QED
      BY <2>2, <2>4, <2>5, <2>6, <2>7 DEF Serving
  <1>3. state'.key = state.key /\ live' = live
    BY DEF Serving, Admit, Account, Issue, LockIssue, SkipIssue, Present,
       ProxyKey, ProxyToken, Pair, Status, TypeOK, State
  <1> QED
    BY <1>1, <1>2, <1>3, UnengagedStep DEF Untied, Unengaged, Works

\* Nor does applying settings, short of taking the key out.
LEMMA RefreshingKeys ==
  ASSUME TypeOK, NEW t \in Thread, KeyThread(t), ThreadInv(t),
         \/ Refresh(t) \/ LockRefresh(t) \/ SkipRefresh(t) \/ ApplyNothing(t)
         \/ DropToken(t) \/ Retarget(t)
  PROVE  KeyThread(t)' /\ Untied(t)
  <1>1. /\ mem'[t] = mem[t]
        /\ \/ pc[t] = "refresh" /\ pc'[t] \in {mem[t].ret, "lockRefresh"}
           \/ pc[t] = "lockRefresh" /\ pc'[t] \in {"apply"}
           \/ pc[t] = "lockRefresh" /\ pc'[t] = mem[t].ret
           \/ pc[t] = "apply" /\ pc'[t] = mem[t].ret
           \/ pc[t] = "dropToken" /\ pc'[t] = "retarget"
           \/ pc[t] = "retarget" /\ pc'[t] = mem[t].ret
    BY DEF Refresh, LockRefresh, SkipRefresh, ApplyNothing, DropToken, Retarget,
       Return, TypeOK
  <1>2. Untied(t)
    BY <1>1 DEF Refresh, LockRefresh, SkipRefresh, ApplyNothing, DropToken,
       Retarget, TypeOK, State, Untied, Alike
  <1>3. KeyThread(t)'
    BY <1>1, <1>2 DEF KeyThread, MovesOn, HoldsKeys, Bare, MintsOverNone,
       SignsOutAlone, Issues, Untied, ThreadInv, ReturnsWell, Returns
  <1> QED
    BY <1>2, <1>3

\* Applying settings takes the key out of the state into the hands of the
\* thread, for it to delete.
LEMMA ApplyKeys ==
  ASSUME TypeOK, StateForTarget, NEW t \in Thread, KeyThread(t), ThreadInv(t),
         Apply(t)
  PROVE  /\ KeyThread(t)' /\ live' = live /\ mem'[t].held = mem[t].held
         /\ \/ Untied(t)
            \/ state'.key = None /\ mem'[t].doomed.key = state.key
  <1> DEFINE next == TargetOf(file.settings, file.version)
             m == [mem[t] EXCEPT !.next = next]
             n == Doomed(m, HoldNow, target.url, "dropToken")
  <1>1. /\ mem[t] \in Local /\ mem \in [Thread -> Local] /\ pc[t] = "apply"
        /\ pc \in [Thread -> Label] /\ state \in State /\ live' = live
    BY DEF TypeOK, Apply
  <1>2. /\ Memory(m) /\ Alike(mem[t], m) /\ m.out = mem[t].out
        /\ m.phase = mem[t].phase
    BY <1>1, Memories, NextField
  <1>3. CASE mem'[t] = m /\ pc'[t] = "dropToken" /\ state' = state
    BY <1>1, <1>2, <1>3 DEF Untied, KeyThread, MovesOn, HoldsKeys, Bare,
       MintsOverNone, SignsOutAlone, Issues, Alike
  <1>4. CASE /\ mem'[t] = n /\ pc'[t] = Retiring(HoldNow, "dropToken")
             /\ \E b \in BOOLEAN : state' = Forgotten(b)
    <2>1. state'.key = None
      BY <1>1, <1>4, ForgottenType
    <2> HIDE DEF m
    <2>2. /\ n.doomed = HoldNow /\ n.from = target.url /\ n.then = "dropToken"
          /\ n.req = mem[t].req /\ n.ret = mem[t].ret
          /\ n.moving = mem[t].moving
          /\ n.held = mem[t].held /\ n.phase = mem[t].phase
          /\ n.out = mem[t].out
      BY <1>2, DoomedFields DEF Alike
    <2>3. HoldNow.key = state.key /\ HoldNow.credential = state.credential
      BY DEF HoldNow
    <2>4. /\ state.key = None => pc'[t] = "dropToken"
          /\ state.key # None => pc'[t] = "retire" /\ state.key.url = target.url
          /\ pc'[t] \in {"retire", "dropToken"}
      BY <1>4, <2>3 DEF Retiring, StateForTarget, For, Backed
    <2> HIDE DEF n
    <2>5. KeyThread(t)'
      BY <1>1, <1>4, <2>1, <2>2, <2>3, <2>4 DEF KeyThread, MovesOn, HoldsKeys,
         Bare, MintsOverNone, SignsOutAlone, Issues
    <2> QED
      BY <1>1, <1>4, <2>1, <2>2, <2>3, <2>5
  <1> QED
    <2>1. SignsOut(file.settings, next) \in BOOLEAN
      BY DEF SignsOut
    <2> QED
      BY <1>1, <1>3, <1>4, <2>1 DEF Apply

\* From one step of getting a credential to the next.
LEMMA IssueStep ==
  ASSUME NEW t \in Thread, KeyThread(t), Works(mem[t], mem'[t]),
         pc[t] \in Issues, pc'[t] \in Issues \cup {"answer", "extend"},
         state'.key = state.key, live' = live, mem'[t].out.kind # "signed_out",
         pc'[t] = "mint" => mem[t].phase # "tick",
         pc'[t] = "extend" => mem[t].phase = "tick"
  PROVE  KeyThread(t)'
  BY DEF KeyThread, MovesOn, HoldsKeys, Bare, MintsOverNone, SignsOutAlone,
         Issues, Alike, Works, Switches

GetsCredential(t) ==
  \/ ResolveFresh(t) \/ ResolveFails(t) \/ ResolveRefreshed(t)
  \/ ResolveIdentity(t)
  \/ IdentityReused(t) \/ IdentityRenewed(t) \/ IdentityMissing(t)
  \/ OpenPage(t)
  \/ Exchange(t) \/ ExchangeFails(t) \/ BrowserSignsIn(t) \/ BrowserFails(t)

\* The session that was found.
LEMMA SessionField ==
  ASSUME NEW m, Memory(m), NEW x
  PROVE  LET n == [m EXCEPT !.session = x] IN
         Memory(n) /\ Works(m, n) /\ n.out = m.out
  BY DEF Memory, Blank, Works, Alike

\* The credential.
LEMMA BearerField ==
  ASSUME NEW m, Memory(m), NEW x
  PROVE  LET n == [m EXCEPT !.bearer = x] IN
         Memory(n) /\ Works(m, n) /\ n.out = m.out
  BY DEF Memory, Blank, Works, Alike

\* Whether the session is to be exchanged.
LEMMA ExchangesField ==
  ASSUME NEW m, Memory(m), NEW x
  PROVE  LET n == [m EXCEPT !.exchanges = x] IN
         Memory(n) /\ Works(m, n) /\ n.out = m.out
  BY DEF Memory, Blank, Works, Alike

\* Two fields at once.
LEMMA BearerAndOut ==
  ASSUME NEW m, Memory(m), NEW x, NEW y
  PROVE  LET n == [m EXCEPT !.bearer = x, !.out = y] IN
         Memory(n) /\ Works(m, n) /\ n.out = y /\ n.bearer = x
  BY DEF Memory, Blank, Works, Alike

\* A resolution that failed is refused, and goes on with what is cached.
LEMMA FallBackWell ==
  ASSUME NEW m, Memory(m), NEW reason
  PROVE  Works(m, FallBack(m, reason)) /\ FallBack(m, reason).out.kind = "refused"
  BY Kinds DEF FallBack, Works, Alike, Memory, Blank

\* The work of an identified, or of an unidentified, request.
LEMMA IdentifiedWorks ==
  ASSUME NEW t \in Thread, mem \in [Thread -> Local], NEW m, Memory(m),
         Identified(t, m) \/ \E reason : Unidentified(t, m, reason)
  PROVE  /\ Works(m, mem'[t])
         /\ mem'[t].out.kind \in {m.out.kind, "credential", "refused"}
         /\ \E label \in {"exchange", "keep"} : pc' = [pc EXCEPT ![t] = label]
  <1>1. CASE Identified(t, m) /\ m.exchanges
    BY <1>1 DEF Identified, Works, Alike
  <1>2. CASE Identified(t, m) /\ ~m.exchanges
    <2> DEFINE out == Issued(TargetToken("identity_token", m.at, m.session))
    <2>1. mem'[t] = [m EXCEPT !.bearer = None, !.out = out] /\ pc' = [pc EXCEPT ![t] = "keep"]
      BY <1>2 DEF Identified
    <2>2. out.kind = "credential"
      BY Kinds
    <2> HIDE DEF out
    <2> QED
      BY <2>1, <2>2 DEF Works, Alike, Memory, Blank
  <1>3. ASSUME NEW reason, Unidentified(t, m, reason), m.exchanges
        PROVE  Works(m, mem'[t]) /\ mem'[t].out.kind = "refused"
                                 /\ pc' = [pc EXCEPT ![t] = "keep"]
    BY <1>3, FallBackWell DEF Unidentified
  <1>4. ASSUME NEW reason, Unidentified(t, m, reason), ~m.exchanges
        PROVE  Works(m, mem'[t]) /\ mem'[t].out.kind = "refused"
                                 /\ pc' = [pc EXCEPT ![t] = "keep"]
    BY <1>4, Kinds DEF Unidentified, Works, Alike, Memory, Blank
  <1> QED
    BY <1>1, <1>2, <1>3, <1>4

\* Getting a credential moves no key.
LEMMA ResolvesKeys ==
  ASSUME TypeOK, NEW t \in Thread, KeyThread(t), GetsCredential(t)
  PROVE  KeyThread(t)' /\ Untied(t)
  <1>1. /\ mem[t] \in Local /\ mem \in [Thread -> Local] /\ Memory(mem[t])
        /\ pc \in [Thread -> Label] /\ state \in State
    BY Memories DEF TypeOK
  <1>2. /\ pc[t] \in {"resolve", "identity", "browser", "exchange"}
        /\ state'.key = state.key /\ live' = live
    BY <1>1 DEF GetsCredential, ResolveFresh, ResolveFails, ResolveRefreshed,
       ResolveIdentity, IdentityReused, IdentityRenewed, IdentityMissing,
       OpenPage, Exchange, ExchangeFails, BrowserSignsIn, BrowserFails, State
  <1>3. mem[t].out.kind # "signed_out"
    BY <1>2 DEF KeyThread, SignsOutAlone
  <1>4. /\ Works(mem[t], mem'[t]) /\ mem'[t].out.kind # "signed_out"
        /\ pc'[t] \in {"keep", "identity", "browser", "exchange"}
    <2>1. CASE ResolveFresh(t) \/ ResolveRefreshed(t) \/ ResolveIdentity(t)
      <3> DEFINE m == [mem[t] EXCEPT !.session = state.session]
      <3>1. Memory(m) /\ Works(mem[t], m) /\ m.out = mem[t].out
        BY <1>1, SessionField
      <3>2. /\ \/ \E x : mem'[t] = [m EXCEPT !.bearer = x]
               \/ \E x : mem'[t] = [m EXCEPT !.exchanges = x]
            /\ pc'[t] \in {"keep", "identity"}
        BY <1>1, <2>1 DEF ResolveFresh, ResolveRefreshed, ResolveIdentity,
           Resolving
      <3> HIDE DEF m
      <3>3. Works(m, mem'[t]) /\ mem'[t].out = m.out
        <4>1. ASSUME NEW x, mem'[t] = [m EXCEPT !.bearer = x]
              PROVE  Works(m, mem'[t]) /\ mem'[t].out = m.out
          BY <3>1, <4>1, BearerField
        <4>2. ASSUME NEW x, mem'[t] = [m EXCEPT !.exchanges = x]
              PROVE  Works(m, mem'[t]) /\ mem'[t].out = m.out
          BY <3>1, <4>2, ExchangesField
        <4> QED
          BY <3>2, <4>1, <4>2
      <3> QED
        BY <1>3, <3>1, <3>2, <3>3 DEF Works, Alike
    <2>2. CASE ResolveFails(t) \/ ExchangeFails(t)
      <3>1. PICK m \in {mem[t], Resolving(t)} : mem'[t] = FallBack(m, "gateway_error")
        BY <1>1, <2>2 DEF ResolveFails, ExchangeFails
      <3>2. Memory(m) /\ Works(mem[t], m)
        BY <1>1 DEF Resolving, Works, Alike, Memory, Blank
      <3>3. pc'[t] = "keep"
        BY <1>1, <2>2 DEF ResolveFails, ExchangeFails
      <3> QED
        BY <3>1, <3>2, <3>3, FallBackWell DEF Works, Alike
    <2>3. CASE IdentityReused(t) \/ IdentityMissing(t) \/ BrowserFails(t)
      BY <1>1, <1>3, <2>3, IdentifiedWorks DEF IdentityReused, IdentityMissing,
         BrowserFails
    <2>4. CASE IdentityRenewed(t) \/ BrowserSignsIn(t)
      <3> DEFINE m == [mem[t] EXCEPT !.session = serial + 1]
      <3>1. Memory(m) /\ Works(mem[t], m) /\ m.out = mem[t].out
        BY <1>1, SessionField
      <3>2. Identified(t, m)
        BY <2>4 DEF IdentityRenewed, BrowserSignsIn
      <3> HIDE DEF m
      <3> QED
        BY <1>1, <1>3, <3>1, <3>2, IdentifiedWorks DEF Works, Alike
    <2>5. CASE OpenPage(t) \/ Exchange(t)
      BY <1>1, <1>3, <2>5 DEF OpenPage, Exchange, Works, Alike, Memory, Blank
    <2> QED
      BY <2>1, <2>2, <2>3, <2>4, <2>5 DEF GetsCredential
  <1> QED
    BY <1>2, <1>4, IssueStep DEF Untied, Works, Issues

-----------------------------------------------------------------------------
(* Credentials, answers and ticks *)

USE DEF Works, Alike

\* None is not a key.
LEMMA NoneIsNoKey == ASSUME TypeOK PROVE None \notin live
  BY DEF TypeOK

\* A thread that begins to issue finds a key a Gateway accepts, or none.
LEMMA BeginKeys ==
  ASSUME Inv, KeyInv, NEW t \in Thread, Begin(t)
  PROVE  KeyThread(t)' /\ Untied(t)
  <1>1. /\ mem[t] \in Local /\ mem \in [Thread -> Local] /\ Memory(mem[t])
        /\ pc \in [Thread -> Label] /\ state' = state /\ live' = live
        /\ pc[t] = "begin" /\ KeyThread(t)
    BY Memories DEF Begin, Inv, TypeOK, KeyInv
  <1>2. mem[t].out.kind # "signed_out"
    BY <1>1 DEF KeyThread, SignsOutAlone
  <1>3. CASE /\ pc'[t] = "answer"
             /\ \E out \in {DirectAnswer(mem[t].at), Issued(KeyToken(state.key))} :
                  mem'[t] = [mem[t] EXCEPT !.out = out]
    <2>1. Works(mem[t], mem'[t]) /\ mem'[t].out.kind # "signed_out"
      BY <1>1, <1>3, Kinds DEF Memory, Blank
    <2> QED
      BY <1>1, <1>3, <2>1 DEF KeyThread, MovesOn, HoldsKeys, Bare,
         MintsOverNone, SignsOutAlone, Issues, Untied
  <1>4. CASE /\ pc'[t] = "resolve" /\ ~KeyIsFresh(clock)
             /\ mem'[t] = [mem[t] EXCEPT !.now = clock, !.phase = "first", !.out = NoAnswer]
    <2>1. Alike(mem[t], mem'[t]) /\ mem'[t].out.kind = "none"
                                 /\ mem'[t].phase = "first"
      BY <1>1, <1>4, Kinds DEF Memory, Blank
    <2>2. state.key \notin live
      BY <1>4, NoneIsNoKey DEF KeyIsFresh, KeyInv, Inv
    <2> QED
      BY <1>1, <1>4, <2>1, <2>2 DEF KeyThread, MovesOn, HoldsKeys, Bare,
         MintsOverNone, SignsOutAlone, Issues, Untied
  <1> QED
    BY <1>1, <1>3, <1>4 DEF Begin

\* The credential that is kept is not a key.
LEMMA KeepKeys ==
  ASSUME TypeOK, NEW t \in Thread, KeyThread(t), Keep(t) \/ KeepNone(t)
  PROVE  KeyThread(t)' /\ Untied(t)
  <1>1. /\ mem[t] \in Local /\ mem \in [Thread -> Local] /\ Memory(mem[t])
        /\ pc \in [Thread -> Label] /\ state \in State
        /\ pc[t] = "keep"
    BY Memories DEF Keep, KeepNone, TypeOK
  <1>2. mem[t].out.kind # "signed_out"
    BY <1>1 DEF KeyThread, SignsOutAlone
  <1>3. /\ \/ mem'[t] = mem[t]
           \/ mem'[t] = [mem[t] EXCEPT !.bearer = state.credential]
           \/ mem'[t] = [mem[t] EXCEPT !.out = Refused("gateway_error")]
        /\ \/ pc'[t] = "extend" /\ mem[t].phase = "tick"
           \/ pc'[t] = "mint" /\ mem[t].phase # "tick"
           \/ pc'[t] = "answer"
        /\ state'.key = state.key /\ live' = live
    <2>1. state'.key = state.key /\ live' = live
      BY ZenonT(40), <1>1 DEF Keep, KeepNone, State
    <2>2. CASE Keep(t)
      BY <1>1, <2>1, <2>2 DEF Keep
    <2>3. CASE KeepNone(t)
      BY <1>1, <2>1, <2>3 DEF KeepNone
    <2> QED
      BY <2>2, <2>3
  <1>4. Works(mem[t], mem'[t]) /\ mem'[t].out.kind # "signed_out"
    BY <1>1, <1>2, <1>3, Kinds DEF Memory, Blank
  <1> QED
    BY <1>1, <1>3, <1>4, IssueStep DEF Untied, Issues

\* Where no key is minted, none moves.
LEMMA ServedKeys ==
  ASSUME TypeOK, NEW t \in Thread, KeyThread(t),
         MintSkipped(t) \/ MintRefused(t) \/ MintFails(t)
  PROVE  KeyThread(t)' /\ Untied(t)
  <1>1. /\ mem[t] \in Local /\ mem \in [Thread -> Local] /\ Memory(mem[t])
        /\ pc \in [Thread -> Label] /\ state \in State
        /\ pc[t] = "mint"
    BY Memories DEF MintSkipped, MintRefused, MintFails, Mints, TypeOK
  <1>2. /\ mem'[t] = [mem[t] EXCEPT !.out = Issued(CredentialToken(mem[t].bearer))]
        /\ pc'[t] = "answer" /\ state'.key = state.key /\ live' = live
    BY <1>1 DEF MintSkipped, MintRefused, MintFails, ServeCredential, State
  <1>3. Works(mem[t], mem'[t]) /\ mem'[t].out.kind # "signed_out"
    BY <1>1, <1>2, Kinds DEF Memory, Blank
  <1> QED
    BY <1>1, <1>2, <1>3, IssueStep DEF Untied, Issues

\* Nor when a thread answers with what it has.
LEMMA AnswerKeys ==
  ASSUME TypeOK, NEW t \in Thread, ThreadInv(t), KeyThread(t),
         \/ AnswerIssued(t) \/ AnswerForward(t) \/ AnswerSignIn(t)
         \/ AnswerTick(t) \/ AnswerInPlace(t)
  PROVE  KeyThread(t)' /\ Untied(t)
  <1>1. /\ mem[t] \in Local /\ mem \in [Thread -> Local] /\ Memory(mem[t])
        /\ mem[t].out \in Answer
        /\ pc \in [Thread -> Label] /\ state \in State /\ pc[t] = "answer"
    BY Memories DEF AnswerIssued, AnswerForward, AnswerSignIn, AnswerTick,
       AnswerInPlace, TypeOK, Local
  <1>2. mem[t].out.kind # "signed_out" /\ ~mem[t].moving
    BY <1>1 DEF KeyThread, SignsOutAlone, MovesOn, Switches, AnswerIssued,
       AnswerForward, AnswerSignIn, AnswerTick, AnswerInPlace
  <1>3. state'.key = state.key /\ live' = live
        /\ pc'[t] \in {"finish", "proxyToken", "pair", "switched"}
    <2>1. state'.key = state.key /\ live' = live
      BY <1>1 DEF AnswerIssued, AnswerForward, AnswerSignIn, AnswerTick,
         AnswerInPlace, State
    <2>2. \/ pc' = [pc EXCEPT ![t] = Served(mem[t].req.op, mem[t].out)]
          \/ pc' = [pc EXCEPT ![t] = "finish"]
          \/ pc' = [pc EXCEPT ![t] = "switched"]
      BY DEF AnswerIssued, AnswerForward, AnswerSignIn, AnswerTick,
         AnswerInPlace, Ends
    <2> QED
      BY <1>1, <2>1, <2>2, ServedWell
  <1>4. Works(mem[t], mem'[t]) /\ mem'[t].out.kind # "signed_out"
    <2>1. PICK out : /\ mem'[t] = mem[t] \/ mem'[t] = [mem[t] EXCEPT !.out = out]
                     /\ out.kind # "signed_out"
      <3>1. CASE AnswerSignIn(t)
        <4> DEFINE out == [mem[t].out EXCEPT !.kind =
                             IF @ = "credential" THEN "signed_in" ELSE @]
        <4>1. out.kind # "signed_out"
          BY <1>1, <1>2 DEF Answer
        <4>2. mem'[t] = [mem[t] EXCEPT !.out = out]
          BY <1>1, <3>1 DEF AnswerSignIn, Ends, Memory, Blank
        <4> HIDE DEF out
        <4> QED
          BY <4>1, <4>2
      <3>2. CASE AnswerForward(t)
        <4> DEFINE out == Named(mem[t].out, mem[t].at)
        <4>1. out.kind # "signed_out"
          BY <1>1, <1>2, Kinds
        <4>2. mem'[t] = [mem[t] EXCEPT !.out = out]
          BY <1>1, <3>2 DEF AnswerForward, Ends, Memory, Blank
        <4> HIDE DEF out
        <4> QED
          BY <4>1, <4>2
      <3>3. CASE AnswerTick(t)
        BY <1>1, <3>3, Kinds DEF AnswerTick, Ends
      <3>4. CASE AnswerInPlace(t)
        <4> DEFINE out == SwitchRefusal(mem[t].out)
        <4>1. out.kind # "signed_out"
          BY <1>1, <1>2, Kinds
        <4>2. mem'[t] = mem[t] \/ mem'[t] = [mem[t] EXCEPT !.out = out]
          BY <1>1, <3>4 DEF AnswerInPlace, Ends, Memory, Blank
        <4> HIDE DEF out
        <4> QED
          BY <4>1, <4>2
      <3>5. CASE AnswerIssued(t)
        BY <1>1, <1>2, <3>5 DEF AnswerIssued
      <3> QED
        BY <3>1, <3>2, <3>3, <3>4, <3>5
    <2> QED
      BY <1>1, <1>2, <2>1 DEF Memory, Blank
  <1> QED
    BY <1>1, <1>2, <1>3, <1>4 DEF KeyThread, MovesOn, HoldsKeys, Bare,
       MintsOverNone, SignsOutAlone, Issues, Untied

\* A tick looks at the key, and leaves it.
LEMMA TickKeys ==
  ASSUME TypeOK, NEW t \in Thread, KeyThread(t), Tick(t)
  PROVE  KeyThread(t)' /\ Untied(t)
  <1>1. /\ mem[t] \in Local /\ mem \in [Thread -> Local] /\ Memory(mem[t])
        /\ pc \in [Thread -> Label] /\ state' = state /\ live' = live
        /\ pc[t] = "lockTick"
    BY Memories DEF Tick, TypeOK
  <1> DEFINE m == [mem[t] EXCEPT !.at = target, !.now = clock, !.out = NoAnswer]
  <1>2. Memory(m) /\ Works(mem[t], m) /\ m.out.kind = "none"
    BY <1>1, Kinds DEF Memory, Blank
  <1>3. \/ mem'[t] = mem[t] /\ pc'[t] = "finish"
        \/ mem'[t] = [m EXCEPT !.bearer = state.credential] /\ pc'[t] = "extend"
        \/ mem'[t] = [m EXCEPT !.phase = "tick"] /\ pc'[t] = "resolve"
    BY <1>1 DEF Tick
  <1> HIDE DEF m
  <1>4. /\ Alike(mem[t], mem'[t])
        /\ \/ mem'[t].out = mem[t].out /\ mem'[t].phase = mem[t].phase /\ pc'[t] = "finish"
           \/ mem'[t].out.kind = "none" /\ mem'[t].phase = mem[t].phase /\ pc'[t] = "extend"
           \/ mem'[t].out.kind = "none" /\ mem'[t].phase = "tick" /\ pc'[t] = "resolve"
    BY <1>2, <1>3 DEF Memory, Blank
  <1> QED
    BY <1>1, <1>4 DEF KeyThread, MovesOn, HoldsKeys, Bare, MintsOverNone,
       SignsOutAlone, Issues, Untied, Switches

\* Extending a key, or failing to, leaves it where it is.
LEMMA ExtendKeys ==
  ASSUME TypeOK, NEW t \in Thread, KeyThread(t),
         ExtendNotDue(t) \/ Extend(t) \/ ExtendFails(t) \/ Report(t)
  PROVE  KeyThread(t)' /\ Untied(t)
  <1>1. /\ mem[t] \in Local /\ mem \in [Thread -> Local] /\ Memory(mem[t])
        /\ pc \in [Thread -> Label] /\ state' = state /\ live' = live
        /\ pc[t] \in {"extend", "report"} /\ pc'[t] = "finish"
    BY Memories DEF ExtendNotDue, Extend, ExtendFails, Report, TypeOK, Ends
  <1>2. PICK out : /\ mem'[t] = mem[t] \/ mem'[t] = [mem[t] EXCEPT !.out = out]
                   /\ out.kind = "switched"
    <2> DEFINE out == [NoAnswer EXCEPT !.kind = "switched",
                                     !.url = target.url, !.team = target.team]
    <2>1. out.kind = "switched"
      BY DEF NoAnswer
    <2>2. mem'[t] = mem[t] \/ mem'[t] = [mem[t] EXCEPT !.out = out]
      BY <1>1 DEF ExtendNotDue, Extend, ExtendFails, Report, Ends
    <2> HIDE DEF out
    <2> QED
      BY <2>1, <2>2
  <1>3. Works(mem[t], mem'[t]) /\ mem'[t].out.kind # "signed_out"
    BY <1>1, <1>2 DEF Memory, Blank, KeyThread, SignsOutAlone
  <1> QED
    BY <1>1, <1>3 DEF KeyThread, MovesOn, HoldsKeys, Bare, MintsOverNone,
       SignsOutAlone, Issues, Untied

-----------------------------------------------------------------------------
(* Sign-ins, sign-outs and the beginning of a switch *)

\* Neither a sign-in that joins another nor a switch that has stored nothing
\* moves a key.
LEMMA EngageKeys ==
  ASSUME TypeOK, NEW t \in Thread, KeyThread(t), ThreadInv(t),
         \/ Snapshot(t) \/ JoinSignIn(t) \/ Explicit(t)
         \/ LockSwitching(t) \/ Plan(t) \/ LockSwitch(t) \/ StoreFails(t)
  PROVE  KeyThread(t)' /\ Untied(t)
  <1>1. /\ mem[t] \in Local /\ mem \in [Thread -> Local] /\ Memory(mem[t])
        /\ pc \in [Thread -> Label] /\ state \in State
        /\ pc[t] \in Unengaged \ {"idle"}
    BY Memories DEF Snapshot, JoinSignIn, Explicit, LockSwitching, Plan,
       LockSwitch, StoreFails, TypeOK, Unengaged
  <1>2. mem[t].out.kind # "signed_out"
    BY <1>1 DEF KeyThread, SignsOutAlone, Unengaged
  <1>3. /\ state'.key = state.key /\ live' = live
        /\ pc'[t] \in {"refresh", "finish", "begin", "issue", "lockSwitch", "store"}
        /\ pc'[t] \in {"lockSwitch", "store"} => mem[t].req.op \in Switches
    <2>1. state'.key = state.key /\ live' = live
      BY <1>1 DEF Snapshot, JoinSignIn, Explicit, LockSwitching, Plan,
         LockSwitch, StoreFails, State
    <2>2. CASE Snapshot(t) \/ JoinSignIn(t) \/ Explicit(t)
                           \/ LockSwitching(t) \/ StoreFails(t)
      BY <1>1, <2>1, <2>2 DEF Snapshot, JoinSignIn, Explicit, LockSwitching,
         StoreFails, Ends
    <2>3. CASE LockSwitch(t)
      BY <1>1, <2>1, <2>3 DEF LockSwitch, KeyThread, MovesOn
    <2>4. CASE Plan(t)
      <3>1. mem[t].req.op \in Switches
        BY <2>4 DEF Plan, ThreadInv, ReturnsWell
      <3>2. \E label \in {"finish", "issue", "lockSwitch"} : pc' = [pc EXCEPT ![t] = label]
        BY <2>4 DEF Plan, Ends
      <3> QED
        BY <1>1, <2>1, <3>1, <3>2
    <2> QED
      BY <2>2, <2>3, <2>4
  <1>4. Works(mem[t], mem'[t]) /\ mem'[t].out.kind # "signed_out"
    <2>1. CASE Explicit(t) \/ LockSwitching(t) \/ LockSwitch(t)
      BY <1>1, <1>2, <2>1 DEF Explicit, LockSwitching, LockSwitch
    <2>2. CASE Snapshot(t)
      BY <1>1, <1>2, <2>2 DEF Snapshot, Memory, Blank
    <2>3. CASE StoreFails(t)
      BY <1>1, <2>3, Kinds DEF StoreFails, Ends, Memory, Blank
    <2>4. CASE JoinSignIn(t)
      <3> DEFINE out == IF target.mode \notin Idp THEN Refused("gateway_error")
              ELSE IF SignedInSince(mem[t]) THEN [NoAnswer EXCEPT !.kind = "signed_in"]
              ELSE Refused("sign_in_failed")
      <3>1. out.kind \in {"refused", "signed_in"}
        BY Kinds DEF NoAnswer
      <3>2. mem'[t] = [mem[t] EXCEPT !.out = out]
        BY <1>1, <2>4 DEF JoinSignIn, Ends
      <3> HIDE DEF out
      <3> QED
        BY <1>1, <3>1, <3>2 DEF Memory, Blank
    <2>5. CASE Plan(t)
      <3>1. \/ \E reason : mem' = [mem EXCEPT ![t] = [mem[t] EXCEPT !.out = Refused(reason)]]
            \/ \E x : mem' = [mem EXCEPT ![t] = [mem[t] EXCEPT !.seen = x]]
            \/ \E x, y, z : mem' = [mem EXCEPT ![t] =
                               [mem[t] EXCEPT !.loaded = x, !.patch = y, !.undo = z]]
        BY <2>5, Zenon DEF Plan, Ends
      <3>2. ASSUME NEW reason,
                   mem' = [mem EXCEPT ![t] = [mem[t] EXCEPT !.out = Refused(reason)]]
            PROVE  Works(mem[t], mem'[t]) /\ mem'[t].out.kind # "signed_out"
        BY <1>1, <3>2, Kinds DEF Memory, Blank
      <3>3. ASSUME NEW x, mem' = [mem EXCEPT ![t] = [mem[t] EXCEPT !.seen = x]]
            PROVE  Works(mem[t], mem'[t]) /\ mem'[t].out.kind # "signed_out"
        BY <1>1, <1>2, <3>3 DEF Memory, Blank
      <3>4. ASSUME NEW x, NEW y, NEW z,
                   mem' = [mem EXCEPT ![t] =
                             [mem[t] EXCEPT !.loaded = x, !.patch = y, !.undo = z]]
            PROVE  Works(mem[t], mem'[t]) /\ mem'[t].out.kind # "signed_out"
        BY <1>1, <1>2, <3>4 DEF Memory, Blank
      <3> QED
        BY <3>1, <3>2, <3>3, <3>4
    <2> QED
      BY <2>1, <2>2, <2>3, <2>4, <2>5
  <1> QED
    BY <1>1, <1>3, <1>4, UnengagedStep DEF Untied, Unengaged

\* A thread takes the key out of the state, and deletes it if there is one.
LEMMA DoomsKeys ==
  ASSUME TypeOK, StateForTarget, NEW t \in Thread, KeyThread(t), NEW m, Memory(m),
         NEW after \in {"dropToken", "explicit", "finish"},
         mem[t].held.key = None, mem[t].moving = FALSE,
         m.req = mem[t].req, m.ret = mem[t].ret, m.held = mem[t].held,
         m.moving = FALSE, m.phase = mem[t].phase,
         mem'[t] = Doomed(m, HoldNow, target.url, after),
         pc'[t] = Retiring(HoldNow, after), state'.key = None, renewal' = t,
         m.out.kind = "signed_out" => after = "finish",
         after = "dropToken" => mem[t].ret \notin {"reissue", "settle"}
  PROVE  KeyThread(t)' /\ mem'[t].doomed.key = state.key
         /\ mem'[t].held.key = mem[t].held.key
  <1> DEFINE n == Doomed(m, HoldNow, target.url, after)
  <1>1. /\ n.doomed = HoldNow /\ n.from = target.url /\ n.then = after
        /\ n.req = m.req /\ n.ret = m.ret /\ n.moving = m.moving
        /\ n.held = m.held /\ n.phase = m.phase /\ n.out = m.out
    BY DoomedFields
  <1>2. HoldNow.key = state.key /\ HoldNow.credential = state.credential
    BY DEF HoldNow
  <1>3. /\ state.key = None => pc'[t] = after
        /\ state.key # None => pc'[t] = "retire" /\ state.key.url = target.url
    BY <1>2 DEF Retiring, StateForTarget, For, Backed
  <1> HIDE DEF n
  <1>4. mem'[t] = n
    BY DEF n
  <1> QED
    BY <1>1, <1>2, <1>3, <1>4 DEF KeyThread, MovesOn, HoldsKeys, Bare,
       MintsOverNone, SignsOutAlone, Issues

\* A sign-in of its own, a sign-out and a shutdown take the key to delete it.
LEMMA EndsSession ==
  ASSUME TypeOK, StateForTarget, NEW t \in Thread, KeyThread(t),
         OwnSignIn(t) \/ SignOut(t) \/ Shutdown(t)
  PROVE  /\ KeyThread(t)' /\ live' = live /\ mem'[t].held.key = mem[t].held.key
         /\ \/ Untied(t)
            \/ state'.key = None /\ mem'[t].doomed.key = state.key
  <1>1. /\ mem[t] \in Local /\ mem \in [Thread -> Local] /\ Memory(mem[t])
        /\ pc \in [Thread -> Label] /\ state \in State /\ live' = live
        /\ pc[t] \in {"lockSignIn", "lockSignOut", "lockShutdown"}
        /\ renewal' = t
    BY Memories DEF OwnSignIn, SignOut, Shutdown, TypeOK
  <1>2. /\ mem[t].held.key = None /\ ~mem[t].moving /\ mem[t].moving \in BOOLEAN
        /\ mem[t].out.kind # "signed_out"
    BY <1>1 DEF KeyThread, HoldsKeys, MovesOn, SignsOutAlone, Local, Issues
  <1>3. CASE OwnSignIn(t)
    <2> DEFINE m == [mem[t] EXCEPT !.at = target]
    <2>1. Memory(m) /\ Works(mem[t], m) /\ m.out = mem[t].out
      BY <1>1 DEF Memory, Blank
    <2>2. /\ mem'[t] = Doomed(m, HoldNow, target.url, "explicit")
          /\ pc'[t] = Retiring(HoldNow, "explicit") /\ state' = Forgotten(TRUE)
      BY <1>1, <1>3 DEF OwnSignIn
    <2> HIDE DEF m
    <2>3. state'.key = None
      BY <1>1, <2>2, ForgottenType
    <2>4. /\ m.req = mem[t].req /\ m.ret = mem[t].ret /\ m.held = mem[t].held
          /\ m.moving = FALSE /\ m.phase = mem[t].phase
          /\ m.out.kind # "signed_out"
      BY <1>2, <2>1
    <2>5. KeyThread(t)' /\ mem'[t].doomed.key = state.key
          /\ mem'[t].held.key = mem[t].held.key
      BY <1>1, <1>2, <2>1, <2>2, <2>3, <2>4, DoomsKeys
    <2> QED
      BY <1>1, <2>3, <2>5
  <1>4. CASE Shutdown(t)
    <2>1. /\ mem'[t] = Doomed(mem[t], HoldNow, target.url, "finish")
          /\ pc'[t] = Retiring(HoldNow, "finish") /\ state' = Forgotten(FALSE)
      BY <1>1, <1>4 DEF Shutdown
    <2> QED
      BY <1>1, <1>2, <2>1, DoomsKeys, ForgottenType
  <1>5. CASE SignOut(t) /\ target.mode \notin StaticKey
    <2> DEFINE out == [NoAnswer EXCEPT !.kind = "signed_out"]
               m == [mem[t] EXCEPT !.out = out]
    <2>1. Memory(m) /\ Works(mem[t], m)
      BY <1>1 DEF Memory, Blank
    <2>2. /\ mem'[t] = Doomed(m, HoldNow, target.url, "finish")
          /\ pc'[t] = Retiring(HoldNow, "finish") /\ state' = Forgotten(TRUE)
      BY <1>1, <1>5 DEF SignOut
    <2> HIDE DEF m
    <2>3. state'.key = None
      BY <1>1, <2>2, ForgottenType
    <2>4. /\ m.req = mem[t].req /\ m.ret = mem[t].ret /\ m.held = mem[t].held
          /\ m.moving = FALSE /\ m.phase = mem[t].phase
      BY <1>2, <2>1
    <2>5. KeyThread(t)' /\ mem'[t].doomed.key = state.key
          /\ mem'[t].held.key = mem[t].held.key
      BY <1>1, <1>2, <2>1, <2>2, <2>3, <2>4, DoomsKeys
    <2> QED
      BY <1>1, <2>3, <2>5
  <1>6. CASE SignOut(t) /\ target.mode \in StaticKey
    <2>1. /\ mem'[t] = [mem[t] EXCEPT !.out = Refused("static_key")]
          /\ pc'[t] = "finish" /\ state' = state
      BY <1>1, <1>6 DEF SignOut, Ends
    <2>2. Works(mem[t], mem'[t]) /\ mem'[t].out.kind # "signed_out"
      BY <1>1, <2>1, Kinds DEF Memory, Blank
    <2> QED
      BY <1>1, <2>1, <2>2, UnengagedStep DEF Untied, Unengaged
  <1> QED
    BY <1>3, <1>4, <1>5, <1>6

-----------------------------------------------------------------------------
(* Steps that move a key, or delete it *)

\* The keys that are the broker's, and a thread's.
Mine(t) == {state.key, mem[t].held.key, mem[t].doomed.key}

KeyStep(t) ==
  /\ KeyThread(t)'
  /\ live' \subseteq live
  /\ Mine(t)' \subseteq Mine(t) \cup {None}
  /\ live' \cap Mine(t) \subseteq Mine(t)'

\* A step that is Untied is a KeyStep.
LEMMA UntiedStep ==
  ASSUME NEW t \in Thread, KeyThread(t)', Untied(t)
  PROVE  KeyStep(t)
  BY DEF Untied, KeyStep, Mine

\* A KeyStep under the lock, or one that leaves the key in the state, keeps
\* KeyInv.
LEMMA Moved ==
  ASSUME Inv, KeyInv, NEW t \in Thread, TypeOK', Frame(t), KeyStep(t),
         renewal' = renewal \/ renewal \in {t, None},
         renewal \in {t, None} \/ state'.key = state.key
  PROVE  KeyInv'
  <1>1. ASSUME NEW u \in Thread PROVE KeyThread(u)'
    BY OtherKeys DEF KeyInv, Frame, KeyStep
  <1>2. Known' \subseteq Known
    <2>1. \A u \in Thread \ {t} : mem'[u] = mem[u]
      BY DEF Frame
    <2> QED
      BY <2>1 DEF Known, KeyStep, Mine
  <1>3. EveryLiveKeyIsHeld'
    <2> SUFFICES ASSUME NEW k \in live'
                 PROVE  \/ k \in Mine(t)'
                        \/ \E u \in Thread : \/ k = mem'[u].held.key
                                             \/ k = mem'[u].doomed.key
      BY DEF EveryLiveKeyIsHeld, Mine
    <2>1. k \in live
      BY DEF KeyStep
    <2>2. CASE k \in Mine(t)
      BY <2>2 DEF KeyStep
    <2>3. CASE k \notin Mine(t)
      <3>1. PICK u \in Thread : k = mem[u].held.key \/ k = mem[u].doomed.key
        BY <2>1, <2>3 DEF KeyInv, EveryLiveKeyIsHeld, Mine
      <3>2. u # t
        BY <2>3, <3>1 DEF Mine
      <3>3. mem'[u] = mem[u]
        BY <3>2 DEF Frame
      <3> QED
        BY <3>1, <3>3
    <2> QED
      BY <2>2, <2>3
  <1>4. \A k \in Known : k.id \in Nat
    BY DEF Inv, TypeOK, State, Key, Known, Local, Hold
  <1>5. \A k \in Known' : k.id <= serial'
    BY <1>2, <1>4 DEF KeyInv, Inv, TypeOK, Frame
  <1>6. \A k \in live' : k.id \notin clock'.over
    BY DEF KeyInv, KeyStep, Frame
  <1> QED
    BY <1>1, <1>2, <1>3, <1>5, <1>6 DEF KeyInv

\* The key that was to be deleted is gone.
LEMMA RetireKeys ==
  ASSUME TypeOK, NEW t \in Thread, KeyThread(t), ThreadInv(t), Retire(t)
  PROVE  KeyStep(t) /\ state'.key = state.key
  <1>1. /\ mem[t] \in Local /\ mem \in [Thread -> Local] /\ Memory(mem[t])
        /\ pc \in [Thread -> Label] /\ state' = state
        /\ pc[t] = "retire" /\ pc'[t] = mem[t].then
        /\ mem[t].doomed.key \in Key \cup {None}
    BY Memories DEF Retire, TypeOK, Local, Hold
  <1>2. /\ mem'[t].doomed = NoHold /\ mem'[t].req = mem[t].req
        /\ mem'[t].ret = mem[t].ret
        /\ mem'[t].moving = mem[t].moving /\ mem'[t].held = mem[t].held
        /\ mem'[t].phase = mem[t].phase /\ mem'[t].out = mem[t].out
    BY <1>1 DEF Retire, Memory, Blank
  <1>3. /\ live' \subseteq live
        /\ \A k \in live' : k.id # mem[t].doomed.key.id \/ k.url # mem[t].from
    BY DEF Retire
  <1>4. mem[t].doomed.key # None => mem[t].doomed.key \notin live'
    BY <1>1, <1>3 DEF KeyThread, HoldsKeys
  <1>5. None \notin live'
    BY <1>3 DEF TypeOK
  <1>6. mem'[t].doomed.key = None
    BY <1>2 DEF NoHold
  <1>7. mem[t].then \in {"dropToken", "explicit", "finish", "switched"}
    BY <1>1 DEF ThreadInv, ReturnsWell
  <1>8. KeyThread(t)'
    BY <1>1, <1>2, <1>6, <1>7 DEF KeyThread, MovesOn, HoldsKeys, Bare,
       MintsOverNone, SignsOutAlone, Issues, ThreadInv, Locked, Retire
  <1> QED
    BY <1>1, <1>2, <1>3, <1>4, <1>5, <1>6, <1>8 DEF KeyStep, Mine

\* A thread that finishes holds no key.
LEMMA FinishKeys ==
  ASSUME TypeOK, NEW t \in Thread, KeyThread(t), Finish(t)
  PROVE  KeyStep(t) /\ state'.key = state.key
  <1>1. /\ mem'[t] = [Blank EXCEPT !.req = mem[t].req, !.out = mem[t].out]
        /\ pc'[t] = "idle" /\ pc[t] = "finish" /\ state' = state /\ live' = live
    BY DEF Finish, TypeOK
  <1>2. /\ mem'[t].held = NoHold /\ mem'[t].doomed = NoHold /\ ~mem'[t].moving
        /\ mem'[t].phase = "first" /\ mem'[t].ret = "idle"
    BY <1>1 DEF Blank
  <1>3. mem[t].held.key = None /\ mem[t].doomed.key = None
    BY <1>1 DEF KeyThread, HoldsKeys, Bare, Issues
  <1>4. NoHold.key = None
    BY DEF NoHold
  <1>5. KeyThread(t)'
    BY <1>1, <1>2, <1>4 DEF KeyThread, MovesOn, HoldsKeys, Bare, MintsOverNone,
       SignsOutAlone, Issues
  <1> QED
    BY <1>1, <1>2, <1>3, <1>4, <1>5 DEF KeyStep, Mine

\* A thread that begins has none.
LEMMA ArriveKeys ==
  ASSUME TypeOK, NEW t \in Thread, KeyThread(t), Arrive(t)
  PROVE  KeyStep(t) /\ state'.key = state.key
  <1>1. PICK r \in Request : \E x :
          /\ mem' = [mem EXCEPT ![t] = [Blank EXCEPT !.req = r, !.presented = x,
                                                    !.ret = AfterRefresh(r.op)]]
          /\ pc' = [pc EXCEPT ![t] =
                      CASE r.op = "sign_in"   -> "snapshot"
                        [] r.op \in Switches  -> "lockSwitching"
                        [] r.op = "shutdown"  -> "lockShutdown"
                        [] OTHER              -> "refresh"]
    BY DEF Arrive
  <1>2. /\ mem'[t].held = NoHold /\ mem'[t].doomed = NoHold /\ ~mem'[t].moving
        /\ mem'[t].phase = "first" /\ mem'[t].ret = AfterRefresh(r.op)
        /\ mem'[t].req = r /\ mem'[t].out = NoAnswer
    BY <1>1 DEF Blank, TypeOK
  <1>3. mem[t].held.key = None /\ mem[t].doomed.key = None
    BY DEF KeyThread, HoldsKeys, Bare, Issues, Arrive
  <1>4. NoHold.key = None /\ NoAnswer.kind = "none"
    BY DEF NoHold, NoAnswer
  <1>5. AfterRefresh(r.op) = "lockTick" => r.op = "tick"
    BY DEF AfterRefresh, Switches
  <1>6. pc'[t] \in {"snapshot", "lockSwitching", "lockShutdown", "refresh"}
    BY <1>1 DEF TypeOK, Switches
  <1>7. KeyThread(t)'
    BY <1>2, <1>4, <1>5, <1>6 DEF KeyThread, MovesOn, HoldsKeys, Bare,
       MintsOverNone, SignsOutAlone, Issues
  <1>8. state' = state /\ live' = live
    BY DEF Arrive
  <1> QED
    BY <1>2, <1>3, <1>4, <1>7, <1>8 DEF KeyStep, Mine

\* A switch that stores its settings takes the key out of the state.
LEMMA StoreKeys ==
  ASSUME TypeOK, NEW t \in Thread, KeyThread(t), Store(t)
  PROVE  KeyStep(t)
  <1>1. /\ mem[t] \in Local /\ mem \in [Thread -> Local] /\ Memory(mem[t])
        /\ pc \in [Thread -> Label] /\ state \in State /\ live' = live
        /\ pc[t] = "store" /\ pc'[t] = "apply" /\ state' = Forgotten(FALSE)
        /\ mem'[t] = [mem[t] EXCEPT !.before = target, !.held = HoldNow,
                                    !.moving = TRUE, !.ret = "reissue"]
    BY Memories DEF Store, TypeOK
  <1>2. /\ mem'[t].held = HoldNow /\ mem'[t].doomed = mem[t].doomed
        /\ mem'[t].moving = TRUE /\ mem'[t].ret = "reissue"
        /\ mem'[t].req = mem[t].req /\ mem'[t].phase = mem[t].phase
        /\ mem'[t].out = mem[t].out
    BY <1>1 DEF Memory, Blank
  <1>3. state'.key = None
    BY <1>1, ForgottenType
  <1>4. HoldNow.key = state.key
    BY DEF HoldNow
  <1>5. mem[t].held.key = None /\ mem[t].doomed.key = None
    BY <1>1 DEF KeyThread, HoldsKeys, Bare, Issues, MovesOn
  <1>6. KeyThread(t)'
    BY <1>1, <1>2, <1>3, <1>4, <1>5 DEF KeyThread, MovesOn, HoldsKeys, Bare,
       MintsOverNone, SignsOutAlone, Issues
  <1> QED
    BY ZenonT(40), <1>1, <1>2, <1>3, <1>4, <1>5, <1>6 DEF KeyStep, Mine

-----------------------------------------------------------------------------
(* Switches, and a minted key *)

\* A switch that got its credential deletes the key it held.
LEMMA SwitchDoneKeys ==
  ASSUME TypeOK, NEW t \in Thread, KeyThread(t), ThreadInv(t), SwitchDone(t)
  PROVE  KeyStep(t) /\ state'.key = state.key
  <1> DEFINE m == [mem[t] EXCEPT !.held = NoHold]
  <1>1. /\ mem[t] \in Local /\ mem \in [Thread -> Local] /\ Memory(mem[t])
        /\ pc \in [Thread -> Label] /\ state' = state /\ live' = live
        /\ pc[t] = "answer" /\ pc'[t] = Retiring(mem[t].held, "switched")
        /\ mem'[t] = Doomed(m, mem[t].held, mem[t].before.url, "switched")
        /\ mem[t].moving /\ mem[t].out.kind = "credential"
    BY Memories DEF SwitchDone, TypeOK
  <1>2. /\ Memory(m) /\ m.held = NoHold /\ m.req = mem[t].req
        /\ m.ret = mem[t].ret /\ m.moving = mem[t].moving
        /\ m.phase = mem[t].phase /\ m.out = mem[t].out
    BY <1>1 DEF Memory, Blank
  <1> HIDE DEF m
  <1>3. /\ mem'[t].doomed = mem[t].held /\ mem'[t].from = mem[t].before.url
        /\ mem'[t].then = "switched" /\ mem'[t].held = NoHold
        /\ mem'[t].req = mem[t].req
        /\ mem'[t].ret = mem[t].ret /\ mem'[t].moving = mem[t].moving
        /\ mem'[t].phase = mem[t].phase /\ mem'[t].out = mem[t].out
    <2> DEFINE hold == mem[t].held
               url == mem[t].before.url
    <2>1. mem'[t] = Doomed(m, hold, url, "switched")
      BY <1>1
    <2> HIDE DEF hold, url
    <2>2. /\ mem'[t].doomed = hold /\ mem'[t].from = url
          /\ mem'[t].then = "switched" /\ mem'[t].held = m.held
          /\ mem'[t].req = m.req /\ mem'[t].ret = m.ret
          /\ mem'[t].moving = m.moving
          /\ mem'[t].phase = m.phase /\ mem'[t].out = m.out
      BY <1>2, <2>1, DoomedFields
    <2> QED
      BY <1>2, <2>2 DEF hold, url
  <1>4. /\ mem[t].held.key = None => pc'[t] = "switched"
        /\ mem[t].held.key # None =>
             pc'[t] = "retire" /\ mem[t].held.key.url = mem[t].before.url
    BY <1>1 DEF Retiring, ThreadInv, HoldsWhatWasIssued, For, Backed
  <1>5. mem[t].doomed.key = None /\ NoHold.key = None
    BY <1>1 DEF KeyThread, HoldsKeys, NoHold
  <1>6. KeyThread(t)'
    BY <1>1, <1>3, <1>4, <1>5 DEF KeyThread, MovesOn, HoldsKeys, Bare,
       MintsOverNone, SignsOutAlone, Issues
  <1> QED
    BY <1>1, <1>3, <1>5, <1>6 DEF KeyStep, Mine

\* A switch that goes on holds what it held.
LEMMA SwitchingOnKeys ==
  ASSUME TypeOK, NEW t \in Thread, KeyThread(t), ThreadInv(t),
         Reissue(t) \/ SwitchUndone(t) \/ Restore(t)
  PROVE  KeyStep(t) /\ state'.key = state.key
  <1>1. /\ mem[t] \in Local /\ mem \in [Thread -> Local] /\ Memory(mem[t])
        /\ mem[t].out \in Answer
        /\ pc \in [Thread -> Label] /\ state' = state /\ live' = live
        /\ pc[t] \in {"reissue", "answer", "restore"}
    BY Memories DEF Reissue, SwitchUndone, Restore, TypeOK, Local
  <1>2. mem[t].out.kind # "signed_out"
    BY <1>1 DEF KeyThread, SignsOutAlone
  <1>3. CASE Reissue(t)
    <2>1. Works(mem[t], mem'[t]) /\ mem'[t].out = mem[t].out /\ pc'[t] = "begin"
      BY <1>1, <1>3 DEF Reissue, Memory, Blank
    <2>2. pc[t] = "reissue"
      BY <1>3 DEF Reissue
    <2>3. KeyThread(t)'
      BY <1>1, <1>2, <2>1, <2>2 DEF KeyThread, MovesOn, HoldsKeys, Bare,
         MintsOverNone, SignsOutAlone, Issues
    <2> QED
      BY <1>1, <2>1, <2>3, UntiedStep DEF Untied
  <1>4. CASE SwitchUndone(t)
    <2> DEFINE out == SwitchRefusal(mem[t].out)
    <2>0. out.kind # "signed_out"
      BY <1>1, <1>2, Kinds
    <2>1. mem'[t] = [mem[t] EXCEPT !.out = out]
      BY <1>1, <1>4 DEF SwitchUndone, Memory, Blank
    <2> HIDE DEF out
    <2>2. /\ Works(mem[t], mem'[t]) /\ mem'[t].out.kind # "signed_out"
          /\ pc'[t] = "restore" /\ pc[t] = "answer" /\ mem[t].moving
          /\ mem[t].out.kind = "refused"
      BY <1>1, <1>4, <2>0, <2>1 DEF SwitchUndone, Memory, Blank
    <2>3. KeyThread(t)'
      BY <1>1, <2>2 DEF KeyThread, MovesOn, HoldsKeys, Bare,
         MintsOverNone, SignsOutAlone, Issues
    <2> QED
      BY <1>1, <2>2, <2>3, UntiedStep DEF Untied
  <1>5. CASE Restore(t)
    <2>1. /\ mem'[t].ret = "settle" /\ mem'[t].req = mem[t].req
          /\ mem'[t].moving = mem[t].moving /\ mem'[t].held = mem[t].held
          /\ mem'[t].doomed = mem[t].doomed /\ mem'[t].phase = mem[t].phase
          /\ mem'[t].out = mem[t].out
      BY <1>1, <1>5 DEF Restore, Memory, Blank
    <2>2. pc[t] = "restore" /\ pc'[t] = "apply"
      BY <1>1, <1>5 DEF Restore
    <2>3. KeyThread(t)'
      BY <1>1, <1>2, <2>1, <2>2 DEF KeyThread, MovesOn, HoldsKeys, Bare,
         MintsOverNone, SignsOutAlone, Issues
    <2> QED
      BY <1>1, <2>1, <2>3 DEF KeyStep, Mine
  <1> QED
    BY <1>3, <1>4, <1>5

\* A switch that is done holds nothing.
LEMMA SwitchedKeys ==
  ASSUME TypeOK, NEW t \in Thread, KeyThread(t), Switched(t)
  PROVE  KeyStep(t) /\ state'.key = state.key
  <1>1. /\ mem[t] \in Local /\ mem \in [Thread -> Local] /\ Memory(mem[t])
        /\ pc \in [Thread -> Label] /\ state' = state /\ live' = live
        /\ pc[t] = "switched" /\ pc'[t] = "refresh"
    BY Memories DEF Switched, TypeOK
  <1>2. /\ mem'[t].ret = "report" /\ mem'[t].req = mem[t].req
        /\ mem'[t].moving = mem[t].moving /\ mem'[t].held = mem[t].held
        /\ mem'[t].doomed = mem[t].doomed /\ mem'[t].phase = mem[t].phase
        /\ mem'[t].out = mem[t].out
    BY <1>1 DEF Switched, Memory, Blank
  <1>3. KeyThread(t)'
    BY <1>1, <1>2 DEF KeyThread, MovesOn, HoldsKeys, Bare,
       MintsOverNone, SignsOutAlone, Issues
  <1> QED
    BY <1>1, <1>2, <1>3 DEF KeyStep, Mine

\* A switch that is undone puts its key back, or deletes it.
LEMMA SettleKeys ==
  ASSUME TypeOK, NEW t \in Thread, KeyThread(t), ThreadInv(t), Settle(t)
  PROVE  KeyStep(t)
  <1> DEFINE m == [mem[t] EXCEPT !.held = NoHold]
             held == mem[t].held
  <1>1. /\ mem[t] \in Local /\ mem \in [Thread -> Local] /\ Memory(mem[t])
        /\ pc \in [Thread -> Label] /\ live' = live /\ pc[t] = "settle"
        /\ state \in State
    BY Memories DEF Settle, TypeOK
  <1>2. /\ Memory(m) /\ m.held = NoHold /\ m.req = mem[t].req
        /\ m.ret = mem[t].ret /\ m.moving = mem[t].moving
        /\ m.phase = mem[t].phase /\ m.out = mem[t].out
        /\ m.doomed = mem[t].doomed /\ m.before = mem[t].before
    BY <1>1 DEF Memory, Blank
  <1>3. mem[t].out.kind # "signed_out" /\ state.key = None
        /\ mem[t].doomed.key = None /\ NoHold.key = None
    BY <1>1 DEF KeyThread, SignsOutAlone, HoldsKeys, Bare, NoHold
  <1>4. CASE SameGateway(target, m.before)
    <2>1. mem'[t] = m /\ pc'[t] = "finish" /\ state'.key = held.key
      BY <1>1, <1>4 DEF Settle, Ends, State
    <2> HIDE DEF m
    <2>2. KeyThread(t)'
      BY <1>1, <1>2, <1>3, <2>1 DEF KeyThread, MovesOn, HoldsKeys, Bare,
         MintsOverNone, SignsOutAlone, Issues
    <2> QED
      BY <1>1, <1>2, <1>3, <2>1, <2>2 DEF KeyStep, Mine
  <1>5. CASE ~SameGateway(target, m.before)
    <2>1. /\ mem'[t] = Doomed(m, held, m.before.url, "finish")
          /\ pc'[t] = Retiring(held, "finish") /\ state' = state
      BY <1>1, <1>5 DEF Settle
    <2> HIDE DEF m
    <2>2. /\ mem'[t].doomed = held /\ mem'[t].from = mem[t].before.url
          /\ mem'[t].then = "finish" /\ mem'[t].held = NoHold
          /\ mem'[t].req = mem[t].req
          /\ mem'[t].ret = mem[t].ret /\ mem'[t].moving = mem[t].moving
          /\ mem'[t].phase = mem[t].phase /\ mem'[t].out = mem[t].out
      BY <1>2, <2>1, DoomedFields
    <2>3. /\ held.key = None => pc'[t] = "finish"
          /\ held.key # None =>
               pc'[t] = "retire" /\ held.key.url = mem[t].before.url
      BY <1>1, <2>1 DEF Retiring, ThreadInv, HoldsWhatWasIssued, For, Backed
    <2>4. KeyThread(t)'
      BY <1>1, <1>3, <2>1, <2>2, <2>3 DEF KeyThread, MovesOn, HoldsKeys, Bare,
         MintsOverNone, SignsOutAlone, Issues
    <2> QED
      BY <1>1, <1>3, <2>1, <2>2, <2>4 DEF KeyStep, Mine
  <1> QED
    BY <1>4, <1>5

\* A minted key is new, and comes where there was none that a Gateway accepts.
LEMMA MintKeys ==
  ASSUME Inv, KeyInv, NEW t \in Thread, Frame(t), TypeOK', Mint(t),
         \A id \in clock.over : id <= serial
  PROVE  KeyInv'
  <1> DEFINE key == NewKey(mem[t].at)
  <1>1. /\ mem[t] \in Local /\ mem \in [Thread -> Local] /\ Memory(mem[t])
        /\ pc \in [Thread -> Label] /\ state \in State /\ serial \in Nat
        /\ KeyThread(t) /\ ThreadInv(t) /\ mem[t].at \in TargetType
    BY Memories DEF Inv, TypeOK, KeyInv, Local
  <1>2. key.id = serial + 1 /\ key \in Key
    BY <1>1, NewTypes DEF NewKey
  <1>3. /\ live' = live \cup {key} /\ state'.key = key /\ serial' = serial + 1
        /\ pc[t] = "mint" /\ pc'[t] = "answer" /\ clock' = clock
        /\ renewal' = renewal
        /\ mem'[t] = [mem[t] EXCEPT !.out = Issued(KeyToken(key))]
    BY <1>1 DEF Mint, Mints, State
  <1> HIDE DEF key
  <1>4. Works(mem[t], mem'[t]) /\ mem'[t].out.kind = "credential"
    BY <1>1, <1>3, Kinds DEF Memory, Blank
  <1>5. renewal = t /\ state.key \notin live
    BY <1>1, <1>3 DEF ThreadInv, Locked, KeyThread, MintsOverNone, Issues
  <1>6. KeyThread(t)'
    BY <1>1, <1>3, <1>4 DEF KeyThread, MovesOn, HoldsKeys, Bare,
       MintsOverNone, SignsOutAlone, Issues
  <1>7. ASSUME NEW u \in Thread PROVE KeyThread(u)'
    BY <1>5, <1>6, OtherKeys DEF KeyInv, Frame
  <1>8. /\ {mem'[u].held.key : u \in Thread} = {mem[u].held.key : u \in Thread}
        /\ {mem'[u].doomed.key : u \in Thread}
             = {mem[u].doomed.key : u \in Thread}
    <2>1. \A u \in Thread : /\ mem'[u].held = mem[u].held
                            /\ mem'[u].doomed = mem[u].doomed
      BY <1>4 DEF Frame
    <2> QED
      BY <2>1
  <1>9. Known' \subseteq Known \cup {key} /\ EveryLiveKeyIsHeld'
    <2>1. Known' \subseteq Known \cup {key}
      BY <1>3, <1>8 DEF Known
    <2>2. EveryLiveKeyIsHeld'
      BY <1>3, <1>5, <1>8 DEF EveryLiveKeyIsHeld, KeyInv
    <2> QED
      BY <2>1, <2>2
  <1>10. \A k \in Known : k.id \in Nat /\ k.id <= serial
    BY DEF Inv, TypeOK, State, Key, Known, Local, Hold, KeyInv
  <1>11. /\ \A j, k \in Known' : j.id = k.id => j = k
         /\ \A k \in Known' : k.id <= serial'
    BY <1>1, <1>2, <1>3, <1>9, <1>10 DEF KeyInv
  <1>12. \A k \in live' : k.id \notin clock'.over
    <2>1. serial + 1 \notin clock.over
      BY <1>1
    <2> QED
      BY <1>2, <1>3, <2>1 DEF KeyInv
  <1> QED
    BY <1>7, <1>9, <1>11, <1>12 DEF KeyInv

HIDE DEF Works, Alike

-----------------------------------------------------------------------------
(* Every step keeps KeyInv *)

\* Whose lock a step takes or gives up.
LEMMA RenewalOf ==
  ASSUME Inv, NEW t \in Thread, Arrive(t) \/ Run(t) \/ Browser(t)
  PROVE  renewal' = renewal \/ renewal \in {t, None}
  <1>1. pc[t] \in Locked => renewal = t
    BY DEF Inv, ThreadInv
  <1> USE <1>1 DEF Locked
  <1>2. CASE Refreshing(t)
    BY <1>2 DEF Refreshing, Refresh, LockRefresh, SkipRefresh, ApplyNothing,
       Apply, DropToken, Retarget, Retire, RetireFails, Return
  <1>3. CASE Serving(t)
    BY <1>3 DEF Serving, Admit, Account, Issue, LockIssue, SkipIssue, Present,
       ProxyKey, ProxyToken, Pair, Status, Finish
  <1>4. CASE Renewing(t)
    BY <1>4 DEF Renewing, Begin, ResolveFresh, ResolveFails, ResolveRefreshed,
       ResolveIdentity, IdentityReused, IdentityRenewed, IdentityMissing,
       OpenPage, Exchange, ExchangeFails, Keep, KeepNone, Dead, AnswerIssued,
       AnswerForward, AnswerSignIn, AnswerTick, Identified, Unidentified
  <1>5. CASE Minting(t)
    BY <1>5 DEF Minting, MintSkipped, Mint, MintRefused, MintFails, MintLost,
       MintUnauthorized, Tick, ExtendNotDue, Extend, ExtendFails,
       ExtendUnauthorized
  <1>6. CASE Signing(t)
    BY <1>6 DEF Signing, Snapshot, JoinSignIn, OwnSignIn, Explicit, SignOut,
       Shutdown
  <1>7. CASE Switching(t)
    BY <1>7 DEF Switching, LockSwitching, Plan, LockSwitch, Store, StoreFails,
       Reissue, AnswerInPlace, SwitchDone, Switched, Report, SwitchUndone,
       Restore, Settle
  <1>8. CASE Browser(t) \/ Arrive(t)
    BY <1>8 DEF Browser, BrowserSignsIn, BrowserFails, Identified, Unidentified,
       Arrive
  <1> QED
    BY <1>2, <1>3, <1>4, <1>5, <1>6, <1>7, <1>8 DEF Run

\* Steps an honest Gateway does not allow for.
LEMMA Honest ==
  ASSUME HonestGateway, NEW t \in Thread, KeyThread(t)
  PROVE  /\ ~RetireFails(t) /\ ~MintLost(t) /\ ~MintUnauthorized(t)
         /\ ~ExtendUnauthorized(t) /\ ~Dead(t)
  BY DEF HonestGateway, RetireFails, MintLost, MintUnauthorized,
         ExtendUnauthorized, Dead, KeyThread, MintsOverNone

\* Every step of a thread but the minting of a key.
LEMMA ThreadKeys ==
  ASSUME HonestGateway, Inv, KeyInv, NEW t \in Thread,
         Arrive(t) \/ Run(t) \/ Browser(t), ~Mint(t)
  PROVE  /\ KeyStep(t)
         /\ renewal \in {t, None} \/ state'.key = state.key
  <1>1. /\ TypeOK /\ ThreadInv(t) /\ KeyThread(t) /\ StateForTarget
        /\ pc[t] \in Locked => renewal = t
    BY DEF Inv, KeyInv, ThreadInv
  <1>2. ASSUME KeyThread(t)', Untied(t)
        PROVE  KeyStep(t) /\ state'.key = state.key
    BY <1>2, UntiedStep DEF Untied
  <1>4. CASE Refreshing(t)
    <2>1. CASE Apply(t)
      <3>1. mem[t].doomed.key = None /\ renewal = t
        BY <1>1, <2>1 DEF KeyThread, HoldsKeys, Apply, Locked
      <3>2. /\ KeyThread(t)' /\ live' = live
            /\ mem'[t].held.key = mem[t].held.key
            /\ \/ Untied(t)
               \/ state'.key = None /\ mem'[t].doomed.key = state.key
        BY <1>1, <2>1, ApplyKeys
      <3>3. mem[t].doomed.key = None
        BY <3>1
      <3>4. KeyStep(t)
        <4>1. CASE Untied(t)
          BY <3>2, <4>1, UntiedStep
        <4>2. CASE state'.key = None /\ mem'[t].doomed.key = state.key
          BY <3>2, <3>3, <4>2 DEF KeyStep, Mine
        <4> QED
          BY <3>2, <4>1, <4>2
      <3>5. renewal \in {t, None}
        BY <3>1
      <3> QED
        BY <3>4, <3>5
    <2>2. CASE Retire(t)
      BY <1>1, <2>2, RetireKeys
    <2> QED
      BY <1>1, <1>2, <1>4, <2>1, <2>2, RefreshingKeys, Honest DEF Refreshing
  <1>5. CASE Serving(t)
    BY <1>1, <1>2, <1>5, ServingKeys, FinishKeys
  <1>6. CASE Renewing(t)
    BY <1>1, <1>2, <1>6, BeginKeys, ResolvesKeys, KeepKeys, AnswerKeys, Honest
       DEF Renewing, GetsCredential
  <1>7. CASE Minting(t)
    BY <1>1, <1>2, <1>7, ServedKeys, TickKeys, ExtendKeys, Honest DEF Minting
  <1>8. CASE Signing(t)
    <2>1. CASE OwnSignIn(t) \/ SignOut(t) \/ Shutdown(t)
      <3>1. mem[t].doomed.key = None /\ renewal = None
        BY <1>1, <2>1 DEF KeyThread, HoldsKeys, OwnSignIn, SignOut, Shutdown
      <3>2. /\ KeyThread(t)' /\ live' = live
            /\ mem'[t].held.key = mem[t].held.key
            /\ \/ Untied(t)
               \/ state'.key = None /\ mem'[t].doomed.key = state.key
        BY <1>1, <2>1, EndsSession
      <3>3. mem[t].doomed.key = None
        BY <3>1
      <3>4. KeyStep(t)
        <4>1. CASE Untied(t)
          BY <3>2, <4>1, UntiedStep
        <4>2. CASE state'.key = None /\ mem'[t].doomed.key = state.key
          BY <3>2, <3>3, <4>2 DEF KeyStep, Mine
        <4> QED
          BY <3>2, <4>1, <4>2
      <3>5. renewal \in {t, None}
        BY <3>1
      <3> QED
        BY <3>4, <3>5
    <2> QED
      BY <1>1, <1>2, <1>8, <2>1, EngageKeys DEF Signing
  <1>9. CASE Switching(t)
    <2>1. CASE Store(t) \/ Settle(t)
      BY <1>1, <2>1, StoreKeys, SettleKeys DEF Store, Settle, Locked
    <2> QED
      BY <1>1, <1>2, <1>9, <2>1, EngageKeys, AnswerKeys, ExtendKeys,
         SwitchDoneKeys, SwitchingOnKeys, SwitchedKeys DEF Switching
  <1>10. CASE Browser(t)
    BY <1>1, <1>2, <1>10, ResolvesKeys DEF Browser, GetsCredential
  <1>11. CASE Arrive(t)
    BY <1>1, <1>11, ArriveKeys
  <1> QED
    BY <1>4, <1>5, <1>6, <1>7, <1>8, <1>9, <1>10, <1>11 DEF Run

\* At first there are no keys.
LEMMA InitKeyInv == Init => KeyInv
  <1> SUFFICES ASSUME Init PROVE KeyInv
    OBVIOUS
  <1>1. /\ \A t \in Thread : mem[t] = Blank /\ pc[t] = "idle"
        /\ live = {} /\ state.key = None
    BY DEF Init
  <1>2. /\ Blank.held.key = None /\ Blank.doomed.key = None /\ ~Blank.moving
        /\ Blank.phase = "first" /\ Blank.ret = "idle"
        /\ Blank.out.kind = "none"
    BY DEF Blank, NoHold, NoAnswer
  <1>3. Known = {}
    BY <1>1, <1>2 DEF Known
  <1>4. ASSUME NEW t \in Thread PROVE KeyThread(t)
    BY <1>1, <1>2 DEF KeyThread, MovesOn, HoldsKeys, Bare, MintsOverNone,
       SignsOutAlone, Issues
  <1> QED
    BY <1>1, <1>3, <1>4 DEF KeyInv, EveryLiveKeyIsHeld

\* The passing of time, and edits.
LEMMA AroundKeys ==
  ASSUME Inv, KeyInv, Edit \/ HalfLife \/ Expire \/ UNCHANGED vars
  PROVE  KeyInv'
  <1>1. /\ pc' = pc /\ mem' = mem /\ state' = state /\ renewal' = renewal
        /\ serial' = serial /\ live' \subseteq live
    BY DEF Edit, HalfLife, Expire, vars, external
  <1>2. \A t \in Thread : KeyThread(t)'
    BY <1>1 DEF KeyInv, KeyThread, MovesOn, HoldsKeys, Bare, MintsOverNone,
       SignsOutAlone, Issues
  <1>3. Known' \subseteq Known /\ EveryLiveKeyIsHeld'
    BY <1>1 DEF Known, EveryLiveKeyIsHeld, KeyInv
  <1>4. \A k \in live' : k.id \notin clock'.over
    <2>1. CASE clock'.over = clock.over
      BY <1>1, <2>1 DEF KeyInv
    <2>2. CASE Expire
      BY <1>1, <2>2 DEF KeyInv, Expire, Inv, TypeOK, Time
    <2> QED
      BY <2>1, <2>2 DEF Edit, HalfLife, vars, external, Inv, TypeOK, Time
  <1> QED
    BY <1>1, <1>2, <1>3, <1>4 DEF KeyInv

\* The next-state relation keeps KeyInv, if the Gateway is honest.
LEMMA NextKeyInv ==
  ASSUME HonestGateway, Inv, Inv', KeyInv, \A id \in clock.over : id <= serial,
         [Next]_vars
  PROVE  KeyInv'
  <1>1. CASE Edit \/ HalfLife \/ Expire \/ Terminated \/ UNCHANGED vars
    BY <1>1, AroundKeys DEF Terminated
  <1>2. ASSUME NEW t \in Thread, Arrive(t) \/ Run(t) \/ Browser(t)
        PROVE  KeyInv'
    <2>1. Frame(t) /\ TypeOK'
      BY <1>2, FrameOf DEF Inv
    <2>2. CASE Mint(t)
      BY <2>1, <2>2, MintKeys
    <2>3. CASE ~Mint(t)
      <3>1. /\ KeyStep(t)
            /\ renewal \in {t, None} \/ state'.key = state.key
        BY <1>2, <2>3, ThreadKeys
      <3>2. renewal' = renewal \/ renewal \in {t, None}
        BY <1>2, RenewalOf
      <3> QED
        BY <2>1, <3>1, <3>2, Moved
    <2> QED
      BY <2>2, <2>3
  <1> QED
    BY <1>1, <1>2 DEF Next

-----------------------------------------------------------------------------
(* The ids a thread remembers: steps that get it none *)

\* The steps from which a thread has a clock and a bearer to compare.
Critical == Issues \cup {"dead", "extend", "answer"}

IdThread(t) == RemembersIds(t) /\ BearerLasts(t)

SameIds(m, n) ==
  n.session = m.session /\ n.bearer = m.bearer /\ n.held = m.held
                        /\ n.now = m.now

Eased(t) ==
  /\ pc'[t] \notin Critical
  /\ \/ SameIds(mem[t], mem'[t])
     \/ /\ mem'[t].session \in {mem[t].session, None}
        /\ mem'[t].bearer \in {mem[t].bearer, None}
        /\ mem'[t].held \in {NoHold, HoldNow}
        /\ mem'[t].now.over \in {{}, mem[t].now.over}

\* A step that is Eased keeps what it must of the ids.
LEMMA EasedIds ==
  ASSUME Inv, IdInv, TypeOK', serial' >= serial, NEW t \in Thread, Eased(t)
  PROVE  IdThread(t)'
  <1>1. RemembersIds(t) /\ serial \in Nat /\ mem[t] \in Local /\ state \in State
        /\ serial' \in Nat
    BY DEF Inv, IdInv, TypeOK
  <1>2. /\ mem[t].session \in Nat \cup {None}
        /\ mem[t].bearer \in Credential \cup {None}
        /\ mem[t].held.credential \in Credential \cup {None}
        /\ mem[t].now.over \in SUBSET Nat
        /\ state.credential \in Credential \cup {None}
    BY <1>1 DEF Local, Hold, State, Time
  <1>3. /\ NoHold.credential = None /\ HoldNow.credential = state.credential
        /\ state.credential # None => state.credential.id <= serial
    BY DEF NoHold, HoldNow, IdInv
  <1>4. BearerLasts(t)'
    BY DEF Eased, Critical, BearerLasts, Issues
  <1>5. RemembersIds(t)'
    BY <1>1, <1>2, <1>3 DEF RemembersIds, Eased, SameIds, Credential
  <1> QED
    BY <1>4, <1>5 DEF IdThread

\* Applying settings, and deleting keys.
LEMMA RefreshingEased ==
  ASSUME TypeOK, NEW t \in Thread, ThreadInv(t), Refreshing(t)
  PROVE  Eased(t)
  <1>1. /\ mem[t] \in Local /\ mem \in [Thread -> Local] /\ Memory(mem[t])
        /\ pc \in [Thread -> Label]
    BY Memories DEF TypeOK
  <1>2. pc'[t] \notin Critical
    BY <1>1 DEF Refreshing, Refresh, LockRefresh, SkipRefresh, ApplyNothing,
       Apply, DropToken, Retarget, Retire, RetireFails, Return, Retiring,
       ThreadInv, ReturnsWell, Returns, Critical, Issues
  <1>3. SameIds(mem[t], mem'[t])
    <2>1. CASE Retire(t) \/ RetireFails(t)
      BY <1>1, <2>1 DEF Retire, RetireFails, SameIds, Memory, Blank
    <2>2. CASE Apply(t)
      <3> DEFINE m == [mem[t] EXCEPT !.next = TargetOf(file.settings, file.version)]
      <3>1. Memory(m) /\ SameIds(mem[t], m)
        BY <1>1 DEF SameIds, Memory, Blank
      <3>2. mem'[t] = m \/ mem'[t] = Doomed(m, HoldNow, target.url, "dropToken")
        BY <1>1, <2>2 DEF Apply
      <3> HIDE DEF m
      <3> QED
        BY <3>1, <3>2 DEF SameIds, Doomed, Memory, Blank
    <2> QED
      BY <1>1, <2>1, <2>2 DEF Refreshing, Refresh, LockRefresh, SkipRefresh,
         ApplyNothing, DropToken, Retarget, SameIds
  <1> QED
    BY <1>2, <1>3 DEF Eased

\* Serving.
LEMMA ServingEased ==
  ASSUME TypeOK, NEW t \in Thread, Serving(t)
  PROVE  Eased(t)
  <1>1. /\ mem[t] \in Local /\ mem \in [Thread -> Local] /\ Memory(mem[t])
        /\ pc \in [Thread -> Label]
    BY Memories DEF TypeOK
  <1>2. pc'[t] \notin Critical
    BY <1>1, ServedWell DEF Serving, Admit, Account, Issue, LockIssue,
       SkipIssue, Present, ProxyKey, ProxyToken, Pair, Status, Finish, Ends,
       Critical, Issues
  <1>3. CASE Finish(t)
    BY <1>1, <1>2, <1>3 DEF Finish, Eased, Blank
  <1>4. CASE ~Finish(t)
    <2>1. CASE Admit(t) \/ Account(t)
      <3> DEFINE m == [mem[t] EXCEPT !.seen = target]
      <3>1. Memory(m) /\ SameIds(mem[t], m)
        BY <1>1 DEF SameIds, Memory, Blank
      <3>2. mem'[t] = m \/ \E x : mem'[t] = [m EXCEPT !.out = x]
        <4>1. CASE Admit(t)
          BY <1>1, <4>1 DEF Admit, Ends
        <4>2. CASE Account(t)
          BY ZenonT(40), <1>1, <4>2 DEF Account, Ends
        <4> QED
          BY <2>1, <4>1, <4>2
      <3> HIDE DEF m
      <3>3. SameIds(mem[t], mem'[t])
        BY <3>1, <3>2 DEF SameIds, Memory, Blank
      <3> QED
        BY <1>2, <3>3 DEF Eased
    <2>2. CASE Issue(t) \/ Present(t) \/ ProxyKey(t) \/ ProxyToken(t) \/ Pair(t)
               \/ Status(t) \/ LockIssue(t) \/ SkipIssue(t)
      <3>1. mem'[t] = mem[t] \/ (\E x : mem'[t] = [mem[t] EXCEPT !.out = x])
            \/ (\E x : mem'[t] = [mem[t] EXCEPT !.at = x])
        BY ZenonT(40), <1>1, <2>2
           DEF Issue, Present, ProxyKey, ProxyToken, Pair, Status,
           LockIssue, SkipIssue, Ends
      <3>2. SameIds(mem[t], mem'[t])
        BY ZenonT(40), <1>1, <3>1 DEF SameIds, Memory, Blank
      <3> QED
        BY <1>2, <3>2 DEF Eased
    <2> QED
      BY <1>4, <2>1, <2>2 DEF Serving
  <1> QED
    BY <1>3, <1>4

\* Answers, and the extension of a key.
LEMMA AnswersEased ==
  ASSUME TypeOK, NEW t \in Thread,
         \/ AnswerIssued(t) \/ AnswerForward(t) \/ AnswerSignIn(t)
         \/ AnswerTick(t)
         \/ ExtendNotDue(t) \/ Extend(t) \/ ExtendFails(t)
  PROVE  Eased(t)
  <1>1. /\ mem[t] \in Local /\ mem \in [Thread -> Local] /\ Memory(mem[t])
        /\ pc \in [Thread -> Label]
    BY Memories DEF TypeOK
  <1>2. pc'[t] \notin Critical
    BY <1>1, ServedWell DEF AnswerIssued, AnswerForward, AnswerSignIn,
       AnswerTick, ExtendNotDue, Extend, ExtendFails, Ends, Critical, Issues
  <1>3. mem'[t] = mem[t] \/ \E x : mem'[t] = [mem[t] EXCEPT !.out = x]
    <2>1. CASE AnswerSignIn(t)
      <3> DEFINE out == [mem[t].out EXCEPT !.kind =
                           IF @ = "credential" THEN "signed_in" ELSE @]
      <3>1. mem'[t] = [mem[t] EXCEPT !.out = out]
        BY <1>1, <2>1 DEF AnswerSignIn, Ends, Memory, Blank
      <3> HIDE DEF out
      <3> QED
        BY <3>1
    <2> QED
      BY <1>1, <2>1 DEF AnswerIssued, AnswerForward, AnswerTick,
         ExtendNotDue, Extend, ExtendFails, Ends
  <1>4. SameIds(mem[t], mem'[t])
    BY <1>1, <1>3 DEF SameIds, Memory, Blank
  <1> QED
    BY <1>2, <1>4 DEF Eased

\* Sign-ins and sign-outs.
LEMMA SigningEased ==
  ASSUME TypeOK, NEW t \in Thread, Signing(t)
  PROVE  Eased(t)
  <1>1. /\ mem[t] \in Local /\ mem \in [Thread -> Local] /\ Memory(mem[t])
        /\ pc \in [Thread -> Label]
    BY Memories DEF TypeOK
  <1>2. pc'[t] \notin Critical
    BY <1>1 DEF Signing, Snapshot, JoinSignIn, OwnSignIn, Explicit, SignOut,
       Shutdown, Ends, Retiring, Critical, Issues
  <1>3. SameIds(mem[t], mem'[t])
    <2>1. CASE Snapshot(t)
      <3>1. \E x, y, z : mem'[t] = [mem[t] EXCEPT !.signIns = x, !.page = y,
                                                 !.joined = z]
        BY <1>1, <2>1 DEF Snapshot
      <3> QED
        BY <1>1, <3>1 DEF SameIds, Memory, Blank
    <2>4. CASE Explicit(t)
      BY <1>1, <2>4 DEF Explicit, SameIds
    <2>2. CASE JoinSignIn(t)
      <3>1. \E x : mem'[t] = [mem[t] EXCEPT !.out = x]
        BY <1>1, <2>2 DEF JoinSignIn, Ends
      <3> QED
        BY <1>1, <3>1 DEF SameIds, Memory, Blank
    <2>3. CASE OwnSignIn(t) \/ SignOut(t) \/ Shutdown(t)
      <3>1. PICK m : /\ m = mem[t] \/ (\E x : m = [mem[t] EXCEPT !.at = x])
                          \/ (\E x : m = [mem[t] EXCEPT !.out = x])
                     /\ mem'[t] = m \/ \E x, y, z : mem'[t] = Doomed(m, x, y, z)
        <4>1. CASE OwnSignIn(t)
          <5> DEFINE m == [mem[t] EXCEPT !.at = target]
          <5>1. mem'[t] = Doomed(m, HoldNow, target.url, "explicit")
            BY <1>1, <4>1 DEF OwnSignIn
          <5> QED
            BY <5>1
        <4>2. CASE Shutdown(t)
          BY <1>1, <4>2 DEF Shutdown
        <4>3. CASE SignOut(t) /\ target.mode \in StaticKey
          BY <1>1, <4>3 DEF SignOut, Ends
        <4>4. CASE SignOut(t) /\ target.mode \notin StaticKey
          <5> DEFINE m == [mem[t] EXCEPT !.out = [NoAnswer EXCEPT !.kind = "signed_out"]]
          <5>1. mem'[t] = Doomed(m, HoldNow, target.url, "finish")
            BY <1>1, <4>4 DEF SignOut
          <5> QED
            BY <5>1
        <4> QED
          BY <2>3, <4>1, <4>2, <4>3, <4>4
      <3>2. Memory(m) /\ SameIds(mem[t], m)
        BY SMTT(30), <1>1, <3>1 DEF SameIds, Memory, Blank
      <3> QED
        BY ZenonT(40), <3>1, <3>2 DEF SameIds, Memory, Blank, Doomed
    <2> QED
      BY <2>1, <2>2, <2>3, <2>4 DEF Signing
  <1> QED
    BY <1>2, <1>3 DEF Eased

\* Switches, which hold what was in the state.
LEMMA SwitchingEased ==
  ASSUME TypeOK, NEW t \in Thread, Switching(t)
  PROVE  Eased(t)
  <1>1. /\ mem[t] \in Local /\ mem \in [Thread -> Local] /\ Memory(mem[t])
        /\ pc \in [Thread -> Label]
    BY Memories DEF TypeOK
  <1>2. pc'[t] \notin Critical
    BY ZenonT(40), <1>1
       DEF Switching, LockSwitching, Plan, LockSwitch, Store, StoreFails,
       Reissue, AnswerInPlace, SwitchDone, Switched, Report, SwitchUndone,
       Restore, Settle, Ends, Retiring, Critical, Issues
  <1>3. CASE LockSwitching(t) \/ LockSwitch(t) \/ StoreFails(t) \/ Reissue(t)
             \/ AnswerInPlace(t) \/ Switched(t) \/ Report(t) \/ Restore(t)
    <2>1. \/ mem'[t] = mem[t] \/ (\E x : mem'[t] = [mem[t] EXCEPT !.out = x])
          \/ (\E x : mem'[t] = [mem[t] EXCEPT !.at = x])
          \/ (\E x : mem'[t] = [mem[t] EXCEPT !.ret = x])
      BY ZenonT(40), <1>1, <1>3
         DEF LockSwitching, LockSwitch, StoreFails, Reissue,
         AnswerInPlace, Switched, Report, Restore, Ends
    <2>2. SameIds(mem[t], mem'[t])
      BY <1>1, <2>1 DEF SameIds, Memory, Blank
    <2> QED
      BY <1>2, <2>2 DEF Eased
  <1>4. CASE SwitchUndone(t)
    <2>1. \E x : mem'[t] = [mem[t] EXCEPT !.out = x]
      BY <1>1, <1>4 DEF SwitchUndone
    <2>2. SameIds(mem[t], mem'[t])
      BY <1>1, <2>1 DEF SameIds, Memory, Blank
    <2> QED
      BY <1>2, <2>2 DEF Eased
  <1>5. CASE Plan(t)
    <2>1. \/ \E x : mem' = [mem EXCEPT ![t] = [mem[t] EXCEPT !.out = x]]
          \/ \E x : mem' = [mem EXCEPT ![t] = [mem[t] EXCEPT !.seen = x]]
          \/ \E x, y, z : mem' = [mem EXCEPT ![t] =
                             [mem[t] EXCEPT !.loaded = x, !.patch = y, !.undo = z]]
      BY <1>5, Zenon DEF Plan, Ends
    <2>2. SameIds(mem[t], mem'[t])
      <3>1. ASSUME NEW x, mem' = [mem EXCEPT ![t] = [mem[t] EXCEPT !.out = x]]
            PROVE  SameIds(mem[t], mem'[t])
        BY <1>1, <3>1 DEF SameIds, Memory, Blank
      <3>2. ASSUME NEW x, mem' = [mem EXCEPT ![t] = [mem[t] EXCEPT !.seen = x]]
            PROVE  SameIds(mem[t], mem'[t])
        BY <1>1, <3>2 DEF SameIds, Memory, Blank
      <3>3. ASSUME NEW x, NEW y, NEW z,
                   mem' = [mem EXCEPT ![t] =
                             [mem[t] EXCEPT !.loaded = x, !.patch = y, !.undo = z]]
            PROVE  SameIds(mem[t], mem'[t])
        BY <1>1, <3>3 DEF SameIds, Memory, Blank
      <3> QED
        BY <2>1, <3>1, <3>2, <3>3
    <2> QED
      BY <1>2, <2>2 DEF Eased
  <1>6. CASE Store(t)
    BY <1>1, <1>2, <1>6 DEF Store, Eased, Memory, Blank
  <1>7. CASE SwitchDone(t) \/ Settle(t)
    <2> DEFINE m == [mem[t] EXCEPT !.held = NoHold]
    <2>1. /\ Memory(m) /\ m.session = mem[t].session /\ m.bearer = mem[t].bearer
          /\ m.held = NoHold /\ m.now = mem[t].now
      BY <1>1 DEF Memory, Blank
    <2>2. mem'[t] = m \/ \E x, y, z : mem'[t] = Doomed(m, x, y, z)
      BY <1>1, <1>7 DEF SwitchDone, Settle, Ends
    <2> HIDE DEF m
    <2> QED
      BY <1>2, <2>1, <2>2 DEF Eased, Doomed, Memory, Blank
  <1> QED
    BY <1>3, <1>4, <1>5, <1>6, <1>7 DEF Switching

-----------------------------------------------------------------------------
(* The ids a thread remembers: steps that get it a session or a credential *)

\* Where the tokens of the answers come from.
LEMMA Sources ==
  /\ \A at, id : LET out == Issued(TargetToken("identity_token", at, id)) IN
                 out.kind = "credential" /\ out.token.source = "identity_token"
  /\ \A at : DirectAnswer(at).kind = "credential"
               => DirectAnswer(at).token.source = "static_key"
  /\ \A key : Issued(KeyToken(key)).token.source = "minted_key"
  /\ \A c : LET out == Issued(CredentialToken(c)) IN
            out.kind = "credential" /\ out.token.id = c.id
  /\ \A reason : Refused(reason).kind = "refused"
  /\ NoAnswer.kind = "none"
  <1>1. \A reason : Refused(reason).kind = "refused"
    BY DEF Refused, NoAnswer
  <1> QED
    BY <1>1 DEF Issued, TargetToken, DirectAnswer, KeyToken, CredentialToken,
       NoAnswer

\* What a step that gets a session or a credential makes a thread remember.
Remembering(t) ==
  /\ mem'[t].session \in {mem[t].session, state.session, serial', None}
  /\ \/ mem'[t].bearer \in {mem[t].bearer, None, state.credential}
     \/ mem'[t].bearer.id = serial'
  /\ mem'[t].held = mem[t].held
  /\ mem'[t].now \in {mem[t].now, clock}

\* What a step makes a thread remember was given out.
LEMMA Remembered ==
  ASSUME Inv, IdInv, TypeOK', serial' >= serial, NEW t \in Thread,
         Remembering(t)
  PROVE  RemembersIds(t)'
  <1>1. RemembersIds(t) /\ serial \in Nat /\ mem[t] \in Local /\ state \in State
        /\ serial' \in Nat /\ clock \in Time
    BY DEF Inv, IdInv, TypeOK
  <1>2. /\ mem[t].session \in Nat \cup {None}
        /\ mem[t].bearer \in Credential \cup {None}
        /\ mem[t].held.credential \in Credential \cup {None}
        /\ mem[t].now.over \in SUBSET Nat
        /\ state.credential \in Credential \cup {None}
        /\ state.session \in Nat \cup {None} /\ clock.over \in SUBSET Nat
    BY <1>1 DEF Local, Hold, State, Time
  <1>3. /\ state.credential # None => state.credential.id <= serial
        /\ state.session # None => state.session <= serial
        /\ \A id \in clock.over : id <= serial
    BY DEF IdInv
  <1> QED
    BY <1>1, <1>2, <1>3 DEF RemembersIds, Remembering, Credential

\* A thread that looks for a credential, and has one at "keep".
Looking(t) ==
  /\ pc'[t] \in {"identity", "browser", "exchange", "keep"}
  /\ mem'[t].out.kind = "credential" =>
       mem'[t].out.token.source = "identity_token"
  /\ pc'[t] = "keep" /\ mem'[t].bearer # None =>
       mem'[t].bearer.id \notin mem'[t].now.over

\* Both, for a thread that looks for a credential.
LEMMA LookingIds ==
  ASSUME Inv, IdInv, TypeOK', serial' >= serial, NEW t \in Thread,
         Remembering(t), Looking(t)
  PROVE  IdThread(t)'
  <1>1. BearerLasts(t)'
    BY DEF Looking, BearerLasts, Issues
  <1> QED
    BY <1>1, Remembered DEF IdThread

\* What is kept of an answer other than a token.
LEMMA FallBackIds ==
  ASSUME state \in State, NEW m, Memory(m), NEW reason
  PROVE  LET n == FallBack(m, reason) IN
         /\ n.session = m.session /\ n.held = m.held /\ n.now = m.now
         /\ n.bearer \in {None, state.credential}
         /\ n.bearer # None => n.bearer.id \notin n.now.over
         /\ n.out.kind = "refused"
  <1> DEFINE c == Cached(m.at)
             b == IF Valid(c, m.now) THEN c ELSE None
             out == Refused(reason)
             n == [m EXCEPT !.bearer = b, !.out = out]
  <1>1. /\ b \in {None, state.credential}
        /\ b # None => b.id \notin m.now.over
    BY DEF Valid, Cached
  <1>2. FallBack(m, reason) = n /\ out.kind = "refused"
    BY Sources DEF FallBack
  <1> HIDE DEF b, out
  <1>3. /\ n.session = m.session /\ n.held = m.held /\ n.now = m.now
        /\ n.bearer = b /\ n.out = out
    BY DEF Memory, Blank
  <1> HIDE DEF n
  <1> QED
    BY <1>1, <1>2, <1>3

\* The same of the two ends of a sign-in.
LEMMA IdentifiedIds ==
  ASSUME TypeOK, NEW t \in Thread, NEW m, Memory(m), NEW reason,
         m.out.kind = "credential" => m.out.token.source = "identity_token",
         Identified(t, m) \/ Unidentified(t, m, reason)
  PROVE  /\ pc'[t] \in {"exchange", "keep"}
         /\ mem'[t].session = m.session /\ mem'[t].held = m.held
         /\ mem'[t].now = m.now
         /\ mem'[t].bearer \in {m.bearer, None, state.credential}
         /\ mem'[t].out.kind = "credential" =>
              mem'[t].out.token.source = "identity_token"
         /\ pc'[t] = "keep" /\ mem'[t].bearer # None =>
              mem'[t].bearer.id \notin mem'[t].now.over
  <1>1. pc \in [Thread -> Label] /\ mem \in [Thread -> Local] /\ state \in State
    BY DEF TypeOK
  <1>2. CASE Identified(t, m) /\ m.exchanges
    BY <1>1, <1>2 DEF Identified
  <1>3. CASE ~m.exchanges /\ (Identified(t, m) \/ Unidentified(t, m, reason))
    <2>1. PICK out : /\ mem'[t] = [m EXCEPT !.bearer = None, !.out = out]
                     /\ out.kind = "credential" => out.token.source = "identity_token"
      <3>1. CASE Identified(t, m)
        <4> DEFINE out == Issued(TargetToken("identity_token", m.at, m.session))
        <4>1. mem'[t] = [m EXCEPT !.bearer = None, !.out = out]
          BY <1>1, <1>3, <3>1 DEF Identified
        <4>2. out.kind = "credential" /\ out.token.source = "identity_token"
          BY Sources
        <4> HIDE DEF out
        <4> QED
          BY <4>1, <4>2
      <3>2. CASE Unidentified(t, m, reason)
        <4> DEFINE out == Refused("gateway_error")
        <4>1. mem'[t] = [m EXCEPT !.bearer = None, !.out = out]
          BY <1>1, <1>3, <3>2 DEF Unidentified
        <4>2. out.kind # "credential"
          BY Sources
        <4> HIDE DEF out
        <4> QED
          BY <4>1, <4>2
      <3> QED
        BY <1>3, <3>1, <3>2
    <2>2. pc'[t] = "keep"
      BY <1>1, <1>3 DEF Identified, Unidentified
    <2> QED
      BY <2>1, <2>2 DEF Memory, Blank
  <1>4. CASE Unidentified(t, m, reason) /\ m.exchanges
    <2>1. mem'[t] = FallBack(m, reason) /\ pc'[t] = "keep"
      BY <1>1, <1>4 DEF Unidentified
    <2> QED
      BY <1>1, <2>1, FallBackIds
  <1> QED
    BY <1>2, <1>3, <1>4

\* The steps that get a credential.
LEMMA GetsCredentialIds ==
  ASSUME Inv, IdInv, TypeOK', NEW t \in Thread, GetsCredential(t)
  PROVE  IdThread(t)'
  <1>1. /\ mem[t] \in Local /\ mem \in [Thread -> Local] /\ Memory(mem[t])
        /\ pc \in [Thread -> Label] /\ state \in State /\ serial \in Nat
        /\ serial' \in {serial, serial + 1}
        /\ \A id \in mem[t].now.over : id <= serial
    BY Memories DEF Inv, TypeOK, IdInv, RemembersIds, GetsCredential,
       ResolveFresh, ResolveFails, ResolveRefreshed, ResolveIdentity,
       IdentityReused, IdentityRenewed, IdentityMissing, OpenPage, Exchange,
       ExchangeFails, BrowserSignsIn, BrowserFails
  <1>2. mem[t].out.kind = "credential" => mem[t].out.token.source = "identity_token"
    <2>1. pc[t] \in Issues
      BY DEF GetsCredential, ResolveFresh, ResolveFails, ResolveRefreshed,
         ResolveIdentity, IdentityReused, IdentityRenewed, IdentityMissing,
         OpenPage, Exchange, ExchangeFails, BrowserSignsIn, BrowserFails, Issues
    <2> QED
      BY <2>1 DEF IdInv, BearerLasts
  <1>3. Remembering(t) /\ Looking(t)
    <2>1. CASE ResolveFresh(t) \/ ResolveRefreshed(t) \/ ResolveIdentity(t)
      <3> DEFINE m == [mem[t] EXCEPT !.session = state.session]
      <3>1. /\ Memory(m) /\ m.session = state.session
            /\ m.bearer = mem[t].bearer
            /\ m.now = mem[t].now /\ m.held = mem[t].held /\ m.out = mem[t].out
        BY <1>1 DEF Memory, Blank
      <3>2. CASE ResolveFresh(t)
        <4> DEFINE c == Cached(mem[t].at)
        <4>1. mem'[t] = [m EXCEPT !.bearer = c] /\ pc'[t] = "keep"
          BY <1>1, <3>2 DEF ResolveFresh, Resolving
        <4>2. c \in {None, state.credential} /\ c.id \notin mem[t].now.over
          BY <3>2 DEF ResolveFresh, Fresh, Valid, Cached
        <4> HIDE DEF c, m
        <4>3. /\ mem'[t].bearer = c /\ mem'[t].session = m.session
              /\ mem'[t].now = m.now /\ mem'[t].held = m.held
              /\ mem'[t].out = m.out
          BY <3>1, <4>1 DEF Memory, Blank
        <4> QED
          BY <1>2, <3>1, <4>1, <4>2, <4>3 DEF Remembering, Looking
      <3>3. CASE ResolveRefreshed(t)
        <4> DEFINE c == NewCredential(mem[t].at)
        <4>1. mem'[t] = [m EXCEPT !.bearer = c] /\ pc'[t] = "keep"
                                                /\ serial' = serial + 1
          BY <1>1, <3>3 DEF ResolveRefreshed, Resolving
        <4>2. c.id = serial + 1 /\ serial + 1 \notin mem[t].now.over
          BY <1>1 DEF NewCredential
        <4> HIDE DEF c, m
        <4>3. /\ mem'[t].bearer = c /\ mem'[t].session = m.session
              /\ mem'[t].now = m.now /\ mem'[t].held = m.held
              /\ mem'[t].out = m.out
          BY <3>1, <4>1 DEF Memory, Blank
        <4> QED
          BY <1>2, <3>1, <4>1, <4>2, <4>3 DEF Remembering, Looking
      <3>4. CASE ResolveIdentity(t)
        <4>1. (\E x : mem'[t] = [m EXCEPT !.exchanges = x]) /\ pc'[t] = "identity"
          BY <1>1, <3>4 DEF ResolveIdentity, Resolving
        <4> HIDE DEF m
        <4>2. SameIds(m, mem'[t]) /\ mem'[t].out = m.out
          BY <3>1, <4>1 DEF Memory, Blank, SameIds
        <4> QED
          BY <1>2, <3>1, <4>1, <4>2 DEF Remembering, Looking, SameIds
      <3> QED
        BY <2>1, <3>2, <3>3, <3>4
    <2>2. CASE ResolveFails(t) \/ ExchangeFails(t)
      <3>1. PICK m \in {mem[t], Resolving(t)} : mem'[t] = FallBack(m, "gateway_error")
        BY <1>1, <2>2 DEF ResolveFails, ExchangeFails
      <3>2. /\ Memory(m) /\ m.session \in {mem[t].session, state.session}
            /\ m.now = mem[t].now /\ m.held = mem[t].held
        BY <1>1 DEF Resolving, Memory, Blank
      <3>3. pc'[t] = "keep"
        BY <1>1, <2>2 DEF ResolveFails, ExchangeFails
      <3> QED
        BY <1>1, <3>1, <3>2, <3>3, FallBackIds DEF Remembering, Looking
    <2>3. CASE IdentityReused(t) \/ IdentityMissing(t) \/ BrowserFails(t)
      <3>1. PICK reason : Identified(t, mem[t]) \/ Unidentified(t, mem[t], reason)
        BY <2>3 DEF IdentityReused, IdentityMissing, BrowserFails
      <3> QED
        BY <1>1, <1>2, <3>1, IdentifiedIds DEF Remembering, Looking, Inv
    <2>4. CASE IdentityRenewed(t) \/ BrowserSignsIn(t)
      <3> DEFINE m == [mem[t] EXCEPT !.session = serial + 1]
      <3>1. /\ Memory(m) /\ m.session = serial + 1 /\ m.bearer = mem[t].bearer
            /\ m.now = mem[t].now /\ m.held = mem[t].held /\ m.out = mem[t].out
        BY <1>1 DEF Memory, Blank
      <3>2. Identified(t, m) /\ serial' = serial + 1
        BY <2>4 DEF IdentityRenewed, BrowserSignsIn
      <3> HIDE DEF m
      <3> QED
        BY <1>1, <1>2, <3>1, <3>2, IdentifiedIds DEF Remembering, Looking, Inv
    <2>5. CASE OpenPage(t)
      BY <1>1, <1>2, <2>5 DEF OpenPage, Remembering, Looking
    <2>6. CASE Exchange(t)
      <3> DEFINE c == NewCredential(mem[t].at)
      <3>1. mem'[t] = [mem[t] EXCEPT !.bearer = c] /\ pc'[t] = "keep"
                                                   /\ serial' = serial + 1
        BY <1>1, <2>6 DEF Exchange
      <3>2. c.id = serial + 1 /\ serial + 1 \notin mem[t].now.over
        BY <1>1 DEF NewCredential
      <3> HIDE DEF c
      <3>3. /\ mem'[t].bearer = c /\ mem'[t].session = mem[t].session
            /\ mem'[t].now = mem[t].now /\ mem'[t].held = mem[t].held
            /\ mem'[t].out = mem[t].out
        BY <1>1, <3>1 DEF Memory, Blank
      <3> QED
        BY <1>2, <3>1, <3>2, <3>3 DEF Remembering, Looking
    <2> QED
      BY <2>1, <2>2, <2>3, <2>4, <2>5, <2>6 DEF GetsCredential
  <1> QED
    BY <1>1, <1>3, LookingIds

\* A thread that begins to issue reads the clock.
LEMMA BeginIds ==
  ASSUME Inv, IdInv, TypeOK', NEW t \in Thread, Begin(t)
  PROVE  IdThread(t)'
  <1>1. /\ mem[t] \in Local /\ mem \in [Thread -> Local] /\ Memory(mem[t])
        /\ pc \in [Thread -> Label] /\ serial \in Nat /\ serial' = serial
    BY Memories DEF Inv, TypeOK, Begin
  <1>2. CASE /\ pc'[t] = "answer"
             /\ \E out \in {DirectAnswer(mem[t].at), Issued(KeyToken(state.key))} :
                  mem'[t] = [mem[t] EXCEPT !.out = out]
    <2>1. PICK out : /\ mem'[t] = [mem[t] EXCEPT !.out = out]
                     /\ out.kind = "credential"
                          => out.token.source \in {"static_key", "minted_key"}
      <3>1. CASE mem'[t] = [mem[t] EXCEPT !.out = DirectAnswer(mem[t].at)]
        <4> DEFINE out == DirectAnswer(mem[t].at)
        <4>1. out.kind = "credential" => out.token.source = "static_key"
          BY Sources
        <4> HIDE DEF out
        <4> QED
          BY <3>1, <4>1 DEF out
      <3>2. CASE mem'[t] = [mem[t] EXCEPT !.out = Issued(KeyToken(state.key))]
        <4> DEFINE out == Issued(KeyToken(state.key))
        <4>1. out.token.source = "minted_key"
          BY Sources
        <4> QED
          BY <3>2, <4>1
      <3> QED
        BY <1>2, <3>1, <3>2
    <2>2. SameIds(mem[t], mem'[t]) /\ mem'[t].out = out
      BY <1>1, <2>1 DEF SameIds, Memory, Blank
    <2>3. BearerLasts(t)'
      BY <1>2, <2>1, <2>2 DEF BearerLasts, Issues
    <2>4. Remembering(t)
      BY <2>2 DEF Remembering, SameIds
    <2> QED
      BY <1>1, <2>3, <2>4, Remembered DEF IdThread
  <1>3. CASE /\ pc'[t] = "resolve"
             /\ mem'[t] = [mem[t] EXCEPT !.now = clock, !.phase = "first", !.out = NoAnswer]
    <2>1. /\ mem'[t].session = mem[t].session /\ mem'[t].bearer = mem[t].bearer
          /\ mem'[t].held = mem[t].held /\ mem'[t].now = clock
          /\ mem'[t].out = NoAnswer
      BY <1>1, <1>3 DEF Memory, Blank
    <2>2. BearerLasts(t)'
      BY <1>3, <2>1, Sources DEF BearerLasts
    <2>3. Remembering(t)
      BY <2>1 DEF Remembering
    <2> QED
      BY <1>1, <2>2, <2>3, Remembered DEF IdThread
  <1> QED
    BY <1>1, <1>2, <1>3 DEF Begin

\* A thread keeps the credential it got, as it got it.
LEMMA KeepIds ==
  ASSUME Inv, IdInv, TypeOK', NEW t \in Thread, Keep(t) \/ KeepNone(t)
  PROVE  IdThread(t)'
  <1>1. /\ mem[t] \in Local /\ mem \in [Thread -> Local] /\ Memory(mem[t])
        /\ pc \in [Thread -> Label] /\ serial \in Nat /\ serial' = serial
        /\ pc[t] = "keep" /\ BearerLasts(t)
    BY Memories DEF Inv, TypeOK, Keep, KeepNone, IdInv
  <1>2. CASE mem'[t] = mem[t] /\ pc'[t] \in {"extend", "mint", "answer"}
    <2>1. BearerLasts(t)'
      BY <1>1, <1>2 DEF BearerLasts, Issues
    <2>2. Remembering(t)
      BY <1>2 DEF Remembering
    <2> QED
      BY <1>1, <2>1, <2>2, Remembered DEF IdThread
  <1>3. CASE mem'[t] = [mem[t] EXCEPT !.bearer = state.credential] /\ pc'[t] = "extend"
    <2>1. /\ mem'[t].session = mem[t].session
          /\ mem'[t].bearer = state.credential
          /\ mem'[t].held = mem[t].held /\ mem'[t].now = mem[t].now
          /\ mem'[t].out = mem[t].out
      BY <1>1, <1>3 DEF Memory, Blank
    <2>2. BearerLasts(t)'
      BY <1>1, <1>3, <2>1 DEF BearerLasts, Issues
    <2>3. Remembering(t)
      BY <2>1 DEF Remembering
    <2> QED
      BY <1>1, <2>2, <2>3, Remembered DEF IdThread
  <1>4. CASE /\ mem'[t] = [mem[t] EXCEPT !.out = Refused("gateway_error")]
             /\ pc'[t] = "answer"
    <2>1. SameIds(mem[t], mem'[t]) /\ mem'[t].out = Refused("gateway_error")
      BY <1>1, <1>4 DEF Memory, Blank, SameIds
    <2>2. BearerLasts(t)'
      BY <1>4, <2>1, Sources DEF BearerLasts, Issues
    <2>3. Remembering(t)
      BY <2>1 DEF Remembering, SameIds
    <2> QED
      BY <1>1, <2>2, <2>3, Remembered DEF IdThread
  <1> QED
    BY <1>1, <1>2, <1>3, <1>4 DEF Keep, KeepNone

\* The credential is served with which a key could have been minted.
LEMMA ServedIds ==
  ASSUME Inv, IdInv, TypeOK', NEW t \in Thread,
         MintSkipped(t) \/ MintRefused(t) \/ MintFails(t) \/ MintLost(t)
  PROVE  IdThread(t)'
  <1> DEFINE out == Issued(CredentialToken(mem[t].bearer))
  <1>1. /\ mem[t] \in Local /\ mem \in [Thread -> Local] /\ Memory(mem[t])
        /\ pc \in [Thread -> Label] /\ serial \in Nat /\ state \in State
        /\ serial' \in {serial, serial + 1}
        /\ pc[t] = "mint" /\ BearerLasts(t) /\ ThreadInv(t)
        /\ state'.credential = state.credential
    BY Memories DEF Inv, TypeOK, MintSkipped, MintRefused, MintFails, MintLost,
       Mints, IdInv, State
  <1>2. mem'[t] = [mem[t] EXCEPT !.out = out] /\ pc'[t] = "answer"
    BY <1>1 DEF MintSkipped, MintRefused, MintFails, MintLost, ServeCredential
  <1>3. out.kind = "credential" /\ out.token.id = mem[t].bearer.id
    BY Sources
  <1> HIDE DEF out
  <1>4. SameIds(mem[t], mem'[t]) /\ mem'[t].out = out
    BY <1>1, <1>2 DEF Memory, Blank, SameIds
  <1>5. /\ state.credential = mem[t].bearer /\ mem[t].bearer # None
        /\ ~mem[t].bearer.dead
    BY <1>1 DEF ThreadInv, BearerIsKept
  <1>6. BearerLasts(t)'
    BY <1>1, <1>2, <1>3, <1>4, <1>5 DEF BearerLasts, Issues, SameIds
  <1>7. Remembering(t)
    BY <1>4 DEF Remembering, SameIds
  <1> QED
    BY <1>1, <1>6, <1>7, Remembered DEF IdThread

\* A minted key is answered with, and is no session credential.
LEMMA MintIds ==
  ASSUME Inv, IdInv, TypeOK', NEW t \in Thread, Mint(t) \/ MintUnauthorized(t)
  PROVE  IdThread(t)'
  <1>1. /\ mem[t] \in Local /\ mem \in [Thread -> Local] /\ Memory(mem[t])
        /\ pc \in [Thread -> Label] /\ serial \in Nat
        /\ serial' \in {serial, serial + 1} /\ pc[t] = "mint" /\ BearerLasts(t)
    BY Memories DEF Inv, TypeOK, Mint, MintUnauthorized, Mints, IdInv
  <1>2. CASE mem'[t] = mem[t] /\ pc'[t] = "dead"
    <2>1. BearerLasts(t)'
      BY <1>1, <1>2 DEF BearerLasts, Issues
    <2>2. Remembering(t)
      BY <1>2 DEF Remembering
    <2> QED
      BY <1>1, <2>1, <2>2, Remembered DEF IdThread
  <1>3. ASSUME NEW out, mem'[t] = [mem[t] EXCEPT !.out = out],
               pc'[t] = "answer",
               out.kind = "credential" => out.token.source = "minted_key"
        PROVE  IdThread(t)'
    <2>1. SameIds(mem[t], mem'[t]) /\ mem'[t].out = out
      BY <1>1, <1>3 DEF Memory, Blank, SameIds
    <2>2. BearerLasts(t)'
      BY <1>3, <2>1 DEF BearerLasts, Issues
    <2>3. Remembering(t)
      BY <2>1 DEF Remembering, SameIds
    <2> QED
      BY <1>1, <2>2, <2>3, Remembered DEF IdThread
  <1>4. CASE Mint(t)
    <2> DEFINE out == Issued(KeyToken(NewKey(mem[t].at)))
    <2>1. mem'[t] = [mem[t] EXCEPT !.out = out] /\ pc'[t] = "answer"
      BY <1>1, <1>4 DEF Mint
    <2>2. out.token.source = "minted_key"
      BY Sources
    <2> HIDE DEF out
    <2> QED
      BY <1>3, <2>1, <2>2
  <1>5. CASE MintUnauthorized(t)
    <2> DEFINE out == Refused("gateway_error")
    <2>1. \/ mem'[t] = mem[t] /\ pc'[t] = "dead"
          \/ mem'[t] = [mem[t] EXCEPT !.out = out] /\ pc'[t] = "answer"
      BY <1>1, <1>5 DEF MintUnauthorized
    <2>2. out.kind # "credential"
      BY Sources
    <2> HIDE DEF out
    <2> QED
      BY <1>2, <1>3, <2>1, <2>2
  <1> QED
    BY <1>4, <1>5

\* A credential found dead sends its thread back to look for another.
LEMMA DeadIds ==
  ASSUME Inv, IdInv, TypeOK', NEW t \in Thread, Dead(t) \/ ExtendUnauthorized(t)
  PROVE  IdThread(t)'
  <1>1. /\ mem[t] \in Local /\ mem \in [Thread -> Local] /\ Memory(mem[t])
        /\ pc \in [Thread -> Label] /\ serial \in Nat
        /\ serial' = serial /\ pc[t] \in {"dead", "extend"} /\ BearerLasts(t)
        /\ pc'[t] = "resolve"
    BY Memories DEF Inv, TypeOK, Dead, ExtendUnauthorized, IdInv
  <1>2. /\ mem'[t].session = mem[t].session /\ mem'[t].bearer = mem[t].bearer
        /\ mem'[t].held = mem[t].held /\ mem'[t].now \in {mem[t].now, clock}
        /\ mem'[t].out = mem[t].out
    <2>1. CASE Dead(t)
      BY <1>1, <2>1 DEF Dead, Memory, Blank
    <2>2. CASE ExtendUnauthorized(t)
      BY <1>1, <2>2 DEF ExtendUnauthorized, Memory, Blank
    <2> QED
      BY <2>1, <2>2
  <1>3. BearerLasts(t)'
    BY <1>1, <1>2 DEF BearerLasts, Issues
  <1>4. Remembering(t)
    BY <1>2 DEF Remembering
  <1> QED
    BY <1>1, <1>3, <1>4, Remembered DEF IdThread

\* A tick reads the clock.
LEMMA TickIds ==
  ASSUME Inv, IdInv, TypeOK', NEW t \in Thread, Tick(t)
  PROVE  IdThread(t)'
  <1> DEFINE m == [mem[t] EXCEPT !.at = target, !.now = clock, !.out = NoAnswer]
  <1>1. /\ mem[t] \in Local /\ mem \in [Thread -> Local] /\ Memory(mem[t])
        /\ pc \in [Thread -> Label] /\ serial \in Nat /\ serial' = serial
    BY Memories DEF Inv, TypeOK, Tick
  <1>2. /\ Memory(m) /\ m.session = mem[t].session /\ m.bearer = mem[t].bearer
        /\ m.held = mem[t].held /\ m.now = clock /\ m.out = NoAnswer
    BY <1>1 DEF Memory, Blank
  <1>3. \/ mem'[t] = mem[t] /\ pc'[t] = "finish"
        \/ mem'[t] = [m EXCEPT !.bearer = state.credential] /\ pc'[t] = "extend"
        \/ mem'[t] = [m EXCEPT !.phase = "tick"] /\ pc'[t] = "resolve"
    BY <1>1 DEF Tick
  <1> HIDE DEF m
  <1>4. /\ mem'[t].session = mem[t].session
        /\ mem'[t].bearer \in {mem[t].bearer, state.credential}
        /\ mem'[t].held = mem[t].held /\ mem'[t].now \in {mem[t].now, clock}
        /\ pc'[t] = "finish" \/ mem'[t].out = NoAnswer
        /\ pc'[t] \in {"finish", "extend", "resolve"}
    BY <1>2, <1>3 DEF Memory, Blank
  <1>5. BearerLasts(t)'
    BY <1>4, Sources DEF BearerLasts, Issues
  <1>6. Remembering(t)
    BY <1>4 DEF Remembering
  <1> QED
    BY <1>1, <1>5, <1>6, Remembered DEF IdThread

\* A thread that begins remembers no ids.
LEMMA ArriveIds ==
  ASSUME TypeOK, NEW t \in Thread, Arrive(t)
  PROVE  Eased(t)
  <1>1. pc'[t] \in {"snapshot", "lockSwitching", "lockShutdown", "refresh"}
    BY DEF Arrive, TypeOK, Switches
  <1>2. \E x, y, z : mem'[t] = [Blank EXCEPT !.req = x, !.presented = y, !.ret = z]
    <2>1. PICK r \in Request : \E y :
            mem' = [mem EXCEPT ![t] = [Blank EXCEPT !.req = r, !.presented = y,
                                                    !.ret = AfterRefresh(r.op)]]
      BY DEF Arrive
    <2>2. PICK y : mem' = [mem EXCEPT ![t] =
                             [Blank EXCEPT !.req = r, !.presented = y,
                                           !.ret = AfterRefresh(r.op)]]
      BY <2>1
    <2> QED
      BY <2>2 DEF TypeOK
  <1>3. /\ mem'[t].session = None /\ mem'[t].bearer = None
        /\ mem'[t].held = NoHold /\ mem'[t].now.over = {}
    BY <1>2 DEF Blank
  <1> QED
    BY <1>1, <1>3 DEF Eased, Critical, Issues

-----------------------------------------------------------------------------
(* Every step keeps IdInv *)

\* What a step stores, and of what it gives a key.
LEMMA StoredIds ==
  ASSUME Inv, IdInv, NEW t \in Thread, Arrive(t) \/ Run(t) \/ Browser(t)
  PROVE  /\ state'.session \in {state.session, mem[t].session, None}
         /\ \/ state'.credential \in {state.credential, None, mem[t].bearer,
                                      mem[t].held.credential}
            \/ /\ mem[t].bearer # None
               /\ state'.credential = [mem[t].bearer EXCEPT !.dead = TRUE]
         /\ live' \subseteq live \/ \E at : live' = live \cup {NewKey(at)} /\ serial' = serial + 1
         /\ clock'.half \subseteq clock.half
         /\ renewal \in {t, None} \/ state'.credential = state.credential
  <1>1. state \in State /\ clock \in Time /\ (pc[t] \in Locked => renewal = t)
        /\ ThreadInv(t)
    BY DEF Inv, TypeOK, ThreadInv
  <1> USE <1>1
  <1> DEFINE Kept1 == state'.session = state.session /\ state'.credential = state.credential
             Kept2 == live' \subseteq live /\ clock' = clock
  <1>a. ASSUME NEW b, state' = Forgotten(b)
        PROVE  state'.session \in {state.session, None} /\ state'.credential = None
    BY <1>a DEF Forgotten, State
  <1>2. CASE Refreshing(t)
    <2>1. Kept2
      BY <1>2 DEF Refreshing, Refresh, LockRefresh, SkipRefresh, ApplyNothing,
         Apply, DropToken, Retarget, Retire, RetireFails
    <2>2. CASE Apply(t)
      <3>1. state' = state \/ \E b : state' = Forgotten(b)
        BY <2>2 DEF Apply
      <3>2. renewal = t
        BY <2>2 DEF Apply, Locked
      <3> QED
        BY <1>a, <2>1, <3>1, <3>2
    <2>3. CASE ~Apply(t)
      <3>1. Kept1
        BY <1>2, <2>3 DEF Refreshing, Refresh, LockRefresh, SkipRefresh,
           ApplyNothing, DropToken, Retarget, Retire, RetireFails, State
      <3> QED
        BY <2>1, <3>1
    <2> QED
      BY <2>2, <2>3
  <1>3. CASE Serving(t)
    BY <1>3 DEF Serving, Admit, Account, Issue, LockIssue, SkipIssue, Present,
       ProxyKey, ProxyToken, Pair, Status, Finish, State
  <1>4. CASE Renewing(t)
    <2>1. Kept2
      BY <1>4 DEF Renewing, Begin, ResolveFresh, ResolveFails, ResolveRefreshed,
         ResolveIdentity, IdentityReused, IdentityRenewed, IdentityMissing,
         OpenPage, Exchange, ExchangeFails, Keep, KeepNone, Dead, AnswerIssued,
         AnswerForward, AnswerSignIn, AnswerTick
    <2>2. CASE Keep(t) \/ KeepNone(t)
      <3>1. renewal = t
        BY <2>2 DEF Keep, KeepNone, Locked
      <3>2. /\ state'.session = mem[t].session
            /\ state'.credential \in {state.credential, mem[t].bearer}
        BY ZenonT(40), <2>2 DEF Keep, KeepNone, State
      <3> QED
        BY <2>1, <3>1, <3>2
    <2>3. CASE Dead(t)
      <3>1. renewal = t /\ mem[t].bearer # None
        BY <2>3 DEF Dead, Locked, ThreadInv, BearerIsKept
      <3>2. /\ state'.session = state.session
            /\ state'.credential = [mem[t].bearer EXCEPT !.dead = TRUE]
        BY <2>3 DEF Dead, MarkedDead, State
      <3> QED
        BY <2>1, <3>1, <3>2
    <2>4. CASE ~Keep(t) /\ ~KeepNone(t) /\ ~Dead(t)
      <3>1. Kept1
        BY ZenonT(40), <1>4, <2>4 DEF Renewing, Begin, ResolveFresh, ResolveFails,
           ResolveRefreshed, ResolveIdentity, IdentityReused, IdentityRenewed,
           IdentityMissing, OpenPage, Exchange, ExchangeFails, AnswerIssued,
           AnswerForward, AnswerSignIn, AnswerTick, State
      <3> QED
        BY <2>1, <3>1
    <2> QED
      BY <2>2, <2>3, <2>4
  <1>5. CASE Minting(t)
    <2>1. CASE Mint(t) \/ MintLost(t)
      <3>1. /\ \E at : live' = live \cup {NewKey(at)} /\ serial' = serial + 1
            /\ clock' = clock /\ Kept1
        BY <2>1 DEF Mint, MintLost, State
      <3> QED
        BY <3>1
    <2>2. CASE ExtendUnauthorized(t)
      <3>1. renewal = t /\ mem[t].bearer # None
        BY <2>2 DEF ExtendUnauthorized, Locked, ThreadInv, BearerIsKept
      <3>2. /\ state'.session = state.session /\ live' = live /\ clock' = clock
            /\ state'.credential = [mem[t].bearer EXCEPT !.dead = TRUE]
        BY <2>2 DEF ExtendUnauthorized, MarkedDead, State
      <3> QED
        BY <3>1, <3>2
    <2>3. CASE Extend(t)
      BY <2>3 DEF Extend, Time
    <2>4. CASE MintSkipped(t) \/ MintRefused(t) \/ MintFails(t)
               \/ MintUnauthorized(t) \/ Tick(t) \/ ExtendNotDue(t)
               \/ ExtendFails(t)
      <3>1. Kept1 /\ Kept2
        BY <2>4 DEF MintSkipped, MintRefused, MintFails, MintUnauthorized, Tick,
           ExtendNotDue, ExtendFails, State
      <3> QED
        BY <3>1
    <2> QED
      BY <1>5, <2>1, <2>2, <2>3, <2>4 DEF Minting
  <1>6. CASE Signing(t)
    <2>1. Kept2
      BY <1>6 DEF Signing, Snapshot, JoinSignIn, OwnSignIn, Explicit, SignOut,
         Shutdown
    <2>2. CASE OwnSignIn(t) \/ SignOut(t) \/ Shutdown(t)
      <3>1. state' = state \/ \E b : state' = Forgotten(b)
        BY <2>2 DEF OwnSignIn, SignOut, Shutdown
      <3>2. renewal = None
        BY <2>2 DEF OwnSignIn, SignOut, Shutdown
      <3> QED
        BY <1>a, <2>1, <3>1, <3>2
    <2>3. CASE Snapshot(t) \/ JoinSignIn(t) \/ Explicit(t)
      <3>1. Kept1
        BY <2>3 DEF Snapshot, JoinSignIn, Explicit, State
      <3> QED
        BY <2>1, <3>1
    <2> QED
      BY <1>6, <2>2, <2>3 DEF Signing
  <1>7. CASE Switching(t)
    BY ZenonT(40), <1>7
       DEF Switching, LockSwitching, Plan, LockSwitch, Store, StoreFails,
       Reissue, AnswerInPlace, SwitchDone, Switched, Report, SwitchUndone,
       Restore, Settle, Forgotten, State, Locked
  <1>8. CASE Browser(t) \/ Arrive(t)
    BY <1>8 DEF Browser, BrowserSignsIn, BrowserFails, Arrive, State
  <1> QED
    BY <1>2, <1>3, <1>4, <1>5, <1>6, <1>7, <1>8 DEF Run

\* Every step, of the thread that takes it.
LEMMA ThreadIds ==
  ASSUME Inv, Inv', IdInv, NEW t \in Thread, Arrive(t) \/ Run(t) \/ Browser(t)
  PROVE  IdThread(t)'
  <1>1. TypeOK /\ ThreadInv(t) /\ TypeOK'
    BY DEF Inv
  <1>2. Frame(t) /\ serial' >= serial
    BY <1>1, FrameOf DEF Frame
  <1>3. ASSUME Eased(t) PROVE IdThread(t)'
    BY <1>1, <1>2, <1>3, EasedIds
  <1>4. CASE Refreshing(t)
    BY <1>1, <1>3, <1>4, RefreshingEased
  <1>5. CASE Serving(t)
    BY <1>1, <1>3, <1>5, ServingEased
  <1>6. CASE Renewing(t)
    BY <1>1, <1>3, <1>6, BeginIds, GetsCredentialIds, KeepIds, DeadIds,
       AnswersEased DEF Renewing, GetsCredential
  <1>7. CASE Minting(t)
    BY <1>1, <1>3, <1>7, ServedIds, MintIds, DeadIds, TickIds, AnswersEased
       DEF Minting
  <1>8. CASE Signing(t)
    BY <1>1, <1>3, <1>8, SigningEased
  <1>9. CASE Switching(t)
    BY <1>1, <1>3, <1>9, SwitchingEased
  <1>10. CASE Browser(t)
    BY <1>1, <1>10, GetsCredentialIds DEF Browser, GetsCredential
  <1>11. CASE Arrive(t)
    BY <1>1, <1>3, <1>11, ArriveIds
  <1> QED
    BY <1>4, <1>5, <1>6, <1>7, <1>8, <1>9, <1>10, <1>11 DEF Run

\* Another thread's ids were given out before, and it answers with the
\* credential the lock it holds keeps for it.
LEMMA OtherIds ==
  ASSUME Inv, IdInv, TypeOK', NEW t \in Thread, NEW u \in Thread, u # t,
         pc'[u] = pc[u], mem'[u] = mem[u], serial' >= serial,
         renewal \in {t, None} \/ state'.credential = state.credential
  PROVE  IdThread(u)'
  <1>1. RemembersIds(u) /\ BearerLasts(u) /\ serial \in Nat /\ serial' \in Nat
        /\ mem[u] \in Local /\ (pc[u] \in Locked => renewal = u)
    BY DEF Inv, IdInv, TypeOK, ThreadInv
  <1>2. /\ mem[u].session \in Nat \cup {None}
        /\ mem[u].bearer \in Credential \cup {None}
        /\ mem[u].held.credential \in Credential \cup {None}
        /\ mem[u].now.over \in SUBSET Nat
    BY <1>1 DEF Local, Hold, Time
  <1>3. RemembersIds(u)'
    BY <1>1, <1>2 DEF RemembersIds, Credential
  <1>4. pc[u] = "answer" => state'.credential = state.credential
    BY <1>1 DEF Locked
  <1>5. BearerLasts(u)'
    BY <1>1, <1>4 DEF BearerLasts
  <1> QED
    BY <1>3, <1>5 DEF IdThread

\* At first there are no ids.
LEMMA InitIdInv == Init => IdInv
  <1> SUFFICES ASSUME Init PROVE IdInv
    OBVIOUS
  <1>1. /\ Blank.session = None /\ Blank.bearer = None /\ Blank.now.over = {}
        /\ Blank.held.credential = None
    BY DEF Blank, NoHold
  <1>2. \A t \in Thread : mem[t] = Blank /\ pc[t] = "idle"
    BY DEF Init
  <1>3. ASSUME NEW t \in Thread PROVE RemembersIds(t) /\ BearerLasts(t)
    BY <1>1, <1>2 DEF RemembersIds, BearerLasts, Issues
  <1> QED
    BY <1>3 DEF Init, IdInv

\* The passing of time, and edits: what comes of age was given out.
LEMMA AroundIds ==
  ASSUME Inv, IdInv, Edit \/ HalfLife \/ Expire \/ UNCHANGED vars
  PROVE  IdInv'
  <1>1. /\ pc' = pc /\ mem' = mem /\ state' = state /\ serial' = serial
        /\ live' \subseteq live
    BY DEF Edit, HalfLife, Expire, vars, external
  <1>2. \A t \in Thread : RemembersIds(t)' /\ BearerLasts(t)'
    BY <1>1 DEF IdInv, RemembersIds, BearerLasts
  <1>3. \A id \in Aged : id <= serial
    BY DEF IdInv, Aged, IdsOf
  <1>4. \A id \in clock'.half \cup clock'.over : id <= serial
    <2>1. CASE HalfLife
      BY <1>3, <2>1 DEF HalfLife, IdInv, Inv, TypeOK, Time
    <2>2. CASE Expire
      BY <1>3, <2>2 DEF Expire, IdInv, Inv, TypeOK, Time
    <2>3. CASE clock' = clock
      BY <2>3 DEF IdInv
    <2> QED
      BY <2>1, <2>2, <2>3 DEF Edit, vars, external
  <1> QED
    BY <1>1, <1>2, <1>4 DEF IdInv

\* The next-state relation keeps IdInv.
LEMMA NextIdInv ==
  ASSUME Inv, Inv', IdInv, [Next]_vars
  PROVE  IdInv'
  <1>1. CASE Edit \/ HalfLife \/ Expire \/ Terminated \/ UNCHANGED vars
    BY <1>1, AroundIds DEF Terminated
  <1>2. ASSUME NEW t \in Thread, Arrive(t) \/ Run(t) \/ Browser(t)
        PROVE  IdInv'
    <2>1. Frame(t) /\ TypeOK' /\ TypeOK /\ serial' >= serial
      BY <1>2, FrameOf DEF Inv, Frame
    <2>2. /\ state'.session \in {state.session, mem[t].session, None}
          /\ \/ state'.credential \in {state.credential, None, mem[t].bearer,
                                       mem[t].held.credential}
             \/ /\ mem[t].bearer # None
                /\ state'.credential = [mem[t].bearer EXCEPT !.dead = TRUE]
          /\ \/ live' \subseteq live
             \/ \E at : live' = live \cup {NewKey(at)} /\ serial' = serial + 1
          /\ clock'.half \subseteq clock.half
          /\ renewal \in {t, None} \/ state'.credential = state.credential
      BY <1>2, StoredIds
    <2>3. ASSUME NEW u \in Thread PROVE IdThread(u)'
      <3>1. CASE u = t
        BY <1>2, <3>1, ThreadIds
      <3>2. CASE u # t
        BY <2>1, <2>2, <3>2, OtherIds DEF Frame
      <3> QED
        BY <3>1, <3>2
    <2>4. /\ serial \in Nat /\ serial' \in Nat /\ clock \in Time
          /\ clock'.over = clock.over
          /\ \A k \in live : k.id \in Nat
          /\ mem[t].session \in Nat \cup {None}
          /\ mem[t].bearer \in Credential \cup {None}
          /\ mem[t].held.credential \in Credential \cup {None}
          /\ state.session \in Nat \cup {None}
          /\ state.credential \in Credential \cup {None}
      BY <2>1 DEF TypeOK, Local, Hold, State, Key, Frame
    <2>5. RemembersIds(t)
      BY DEF IdInv
    <2>6. \A id \in clock'.half \cup clock'.over : id <= serial'
      BY <2>1, <2>2, <2>4 DEF IdInv, Time
    <2>7. state'.session # None => state'.session <= serial'
      BY <2>1, <2>2, <2>4, <2>5 DEF IdInv, RemembersIds
    <2>8. state'.credential # None => state'.credential.id <= serial'
      BY <2>1, <2>2, <2>4, <2>5 DEF IdInv, RemembersIds, Credential
    <2>9. \A k \in live' : k.id <= serial'
      BY <2>1, <2>2, <2>4 DEF IdInv, NewKey
    <2> QED
      BY <2>3, <2>6, <2>7, <2>8, <2>9 DEF IdInv, IdThread
  <1> QED
    BY <1>1, <1>2 DEF Next

HIDE BrokerAssumption DEF Goto, Become, quiet, external


-----------------------------------------------------------------------------
(* What the broker keeps is for its target *)

\* The next-state relation keeps Inv.
LEMMA NextInv == ASSUME Inv, [Next]_vars PROVE Inv'
  <1>1. ASSUME NEW t \in Thread, Refreshing(t) PROVE Inv'
    BY <1>1, RefreshInv, LockRefreshInv, SkipRefreshInv, ApplyNothingInv,
       ApplyInv, DropTokenInv, RetargetInv, RetireInv, RetireFailsInv
       DEF Refreshing
  <1>2. ASSUME NEW t \in Thread, Serving(t) PROVE Inv'
    BY <1>2, AdmitInv, AccountInv, IssueInv, LockIssueInv, SkipIssueInv,
       PresentInv, ProxyKeyInv, ProxyTokenInv, PairInv, StatusInv, FinishInv
       DEF Serving
  <1>3. ASSUME NEW t \in Thread, Renewing(t) PROVE Inv'
    BY <1>3, BeginInv, ResolveFreshInv, ResolveFailsInv, ResolveRefreshedInv,
       ResolveIdentityInv, IdentityReusedInv, IdentityRenewedInv,
       IdentityMissingInv, OpenPageInv, ExchangeInv, ExchangeFailsInv,
       KeepInv, KeepNoneInv, DeadInv, AnswerIssuedInv, AnswerForwardInv,
       AnswerSignInInv, AnswerTickInv
       DEF Renewing
  <1>4. ASSUME NEW t \in Thread, Minting(t) PROVE Inv'
    BY <1>4, MintSkippedInv, MintInv, MintRefusedInv, MintFailsInv,
       MintLostInv, MintUnauthorizedInv, TickInv, ExtendInv,
       ExtendUnauthorizedInv
       DEF Minting
  <1>5. ASSUME NEW t \in Thread, Signing(t) PROVE Inv'
    BY <1>5, SnapshotInv, JoinSignInInv, OwnSignInInv, ExplicitInv, SignOutInv,
       ShutdownInv
       DEF Signing
  <1>6. ASSUME NEW t \in Thread, Switching(t) PROVE Inv'
    BY <1>6, LockSwitchingInv, PlanInv, LockSwitchInv, StoreInv, StoreFailsInv,
       ReissueInv, AnswerInPlaceInv, SwitchDoneInv, SwitchedInv, ReportInv,
       SwitchUndoneInv, RestoreInv, SettleInv
       DEF Switching
  <1>7. ASSUME NEW t \in Thread, Arrive(t) \/ Run(t) \/ Browser(t) PROVE Inv'
    BY <1>1, <1>2, <1>3, <1>4, <1>5, <1>6, <1>7, ArriveInv, BrowserSignsInInv,
       BrowserFailsInv DEF Run, Browser
  <1>8. CASE Edit \/ HalfLife \/ Expire
    BY <1>8, EditInv, ClockInv
  <1>9. CASE Terminated \/ UNCHANGED vars
    BY <1>9, UnchangedInv DEF Terminated
  <1> QED
    BY <1>7, <1>8, <1>9 DEF Next

\* What the broker keeps is for its target, whatever the requests, the edits
\* of the settings and the faults, and in whichever order they come.
THEOREM Invariance == Spec => []Inv
  <1>1. Init => Inv
    BY InitInv
  <1>2. Inv /\ [Next]_vars => Inv'
    BY NextInv
  <1> QED
    BY <1>1, <1>2, PTL DEF Spec

\* The variables keep their types.
THEOREM TypeSafety == Spec => []TypeOK
  <1>1. Inv => TypeOK
    BY DEF Inv
  <1> QED
    BY <1>1, Invariance, PTL

\* Whoever talks to the IdP or the Gateway, or replaces the target, holds
\* Broker.renewal, and so there is one at most.
THEOREM Exclusion == Spec => []RenewalExclusion
  <1>1. Inv => RenewalExclusion
    BY DEF Inv, ThreadInv, RenewalExclusion
  <1> QED
    BY <1>1, Invariance, PTL

\* The key in memory is one for the Gateway and team the broker is on.
THEOREM KeyIsForTarget == Spec => []KeyMatchesTarget
  <1>1. Inv => KeyMatchesTarget
    BY DEF Inv, StateForTarget, For, KeyMatchesTarget
  <1> QED
    BY <1>1, Invariance, PTL

\* So is the session credential the next key would be minted with.
THEOREM CredentialIsForTarget == Spec => []CredentialMatchesTarget
  <1>1. Inv => CredentialMatchesTarget
    BY DEF Inv, StateForTarget, For, CredentialMatchesTarget
  <1> QED
    BY <1>1, Invariance, PTL

\* A key can be extended and deleted: the credential for that is beside it.
THEOREM KeyIsBacked == Spec => []KeyHasCredential
  <1>1. Inv => KeyHasCredential
    BY DEF Inv, StateForTarget, Backed, KeyHasCredential
  <1> QED
    BY <1>1, Invariance, PTL

\* What bearer_for_proxy returns is a token for the Gateway it returns with it.
THEOREM ProxyBearerIsPaired == Spec => []ProxyBearerPaired
  <1>1. Inv => ProxyBearerPaired
    BY DEF Inv, ThreadInv, Forwards, ProxyBearerPaired, Answered
  <1> QED
    BY <1>1, Invariance, PTL

-----------------------------------------------------------------------------
(* The ids, and the keys *)

\* Ids that are in use were given out, and the credential that is served, or
\* that a key is minted with, lasts: credential_from's comparison with the
\* clock it read is not undone before the answer.
THEOREM IdInvariance == Spec => [](Inv /\ IdInv)
  <1>1. Init => Inv /\ IdInv
    BY InitInv, InitIdInv
  <1>2. (Inv /\ IdInv) /\ [Next]_vars => (Inv /\ IdInv)'
    BY NextInv, NextIdInv
  <1> QED
    BY <1>1, <1>2, PTL DEF Spec

\* The session credential that is answered with is the one that is kept, and
\* neither expired nor found dead when the clock was read.
THEOREM BearerLastsLong == Spec => []BearerIsValid
  <1>1. Inv /\ IdInv => BearerIsValid
    BY DEF Inv, ThreadInv, BearerIsKept, IdInv, BearerLasts, BearerIsValid
  <1> QED
    BY <1>1, IdInvariance, PTL

\* With a Gateway that answers what it did, deletes what it is asked to and
\* honours its credentials, every key is in the state or in the hands of the
\* one thread that may put it back or delete it.
THEOREM KeyInvariance ==
  ASSUME HonestGateway
  PROVE  Spec => [](Inv /\ CustodyInv)
  <1>1. Init => Inv /\ CustodyInv
    BY InitInv, InitIdInv, InitKeyInv DEF CustodyInv
  <1>2. (Inv /\ CustodyInv) /\ [Next]_vars => (Inv /\ CustodyInv)'
    <2> SUFFICES ASSUME Inv, IdInv, KeyInv, [Next]_vars
                 PROVE  Inv' /\ IdInv' /\ KeyInv'
      BY DEF CustodyInv
    <2>1. Inv' /\ IdInv'
      BY NextInv, NextIdInv
    <2>2. KeyInv'
      BY <2>1, NextKeyInv DEF IdInv
    <2> QED
      BY <2>1, <2>2
  <1> QED
    BY <1>1, <1>2, PTL DEF Spec

\* No key that a Gateway still accepts is forgotten by a renewal, a switch, its
\* rollback, a sign-in, a sign-out or an edit of the settings.
THEOREM NoKeyIsLost ==
  ASSUME HonestGateway
  PROVE  Spec => []EveryLiveKeyIsHeld
  <1>1. CustodyInv => EveryLiveKeyIsHeld
    BY DEF CustodyInv, KeyInv
  <1> QED
    BY <1>1, KeyInvariance, PTL

\* When a sign-out answers, no Gateway accepts a key of the broker any more.
THEOREM SignOutLeavesNoKey ==
  ASSUME HonestGateway
  PROVE  Spec => []SignOutDeletesTheKey
  <1>1. ASSUME Inv, CustodyInv PROVE SignOutDeletesTheKey
    <2> SUFFICES ASSUME NEW t \in Thread, pc[t] = "finish",
                        mem[t].out.kind = "signed_out"
                 PROVE  live = {}
      BY DEF SignOutDeletesTheKey
    <2>1. renewal = t /\ state.key = None
      BY <1>1 DEF CustodyInv, KeyInv, KeyThread, SignsOutAlone
    <2>2. ASSUME NEW u \in Thread
          PROVE  mem[u].held.key = None /\ mem[u].doomed.key = None
      <3>1. KeyThread(u) /\ ThreadInv(u)
        BY <1>1 DEF CustodyInv, KeyInv, Inv
      <3>2. pc[u] \notin Locked
        BY <2>1, <3>1 DEF ThreadInv, Locked
      <3> QED
        BY <3>1, <3>2 DEF KeyThread, HoldsKeys, Bare, Issues, Locked
    <2>3. live \subseteq {None}
      BY <1>1, <2>1, <2>2 DEF CustodyInv, KeyInv, EveryLiveKeyIsHeld
    <2>4. None \notin live
      BY <1>1, NoneIsNoKey DEF Inv
    <2> QED
      BY <2>3, <2>4
  <1> QED
    BY <1>1, KeyInvariance, PTL

-----------------------------------------------------------------------------
(* The custody of the keys: each step is one of KeyCustody, or a stutter *)

\* The key in use, as KeyCustody sees it.
InUse == IF state.key \in live THEN state.key ELSE None

\* A key that is live and not in use is set aside, now and in the next state.
LEMMA AsideOf ==
  ASSUME KeyInv
  PROVE  SetAside = live \ {state.key}
  BY DEF KeyInv, EveryLiveKeyIsHeld, SetAside

LEMMA AsideThen ==
  ASSUME KeyInv'
  PROVE  SetAside' = live' \ {state'.key}
  BY DEF KeyInv, EveryLiveKeyIsHeld, SetAside

\* What no step does but Mint, Retire and Settle.
LEMMA KeptKeys ==
  ASSUME TypeOK, HonestGateway, NEW t \in Thread, KeyThread(t),
         Arrive(t) \/ Run(t) \/ Browser(t),
         ~Mint(t), ~Retire(t), ~Settle(t)
  PROVE  /\ live' = live
         /\ \/ state'.key = state.key /\ serial' \in {serial, serial + 1}
            \/ state'.key = None /\ serial' = serial
  <1>1. state \in State
    BY DEF TypeOK
  <1>h. /\ ~RetireFails(t) /\ ~MintLost(t) /\ ~MintUnauthorized(t)
        /\ ~ExtendUnauthorized(t) /\ ~Dead(t)
    BY Honest
  <1>2. CASE Refreshing(t)
    <2>1. live' = live /\ serial' = serial
      BY <1>2, <1>h DEF Refreshing, Refresh, LockRefresh, SkipRefresh, ApplyNothing,
         Apply, DropToken, Retarget, quiet, external
    <2>2. CASE Apply(t)
      <3>1. state' = state \/ \E b : state' = Forgotten(b)
        BY <2>2 DEF Apply
      <3> QED
        BY <1>1, <2>1, <3>1 DEF Forgotten, State
    <2>3. CASE ~Apply(t)
      BY <1>1, <1>2, <1>h, <2>1, <2>3 DEF Refreshing, Refresh, LockRefresh, SkipRefresh,
         ApplyNothing, DropToken, Retarget, quiet, State
    <2> QED
      BY <2>2, <2>3
  <1>3. CASE Serving(t)
    BY <1>1, <1>3 DEF Serving, Admit, Account, Issue, LockIssue, SkipIssue, Present,
       ProxyKey, ProxyToken, Pair, Status, Finish, State, quiet, external
  <1>4. CASE Renewing(t)
    BY <1>1, <1>h, <1>4 DEF Renewing, Begin, ResolveFresh, ResolveFails, ResolveRefreshed,
       ResolveIdentity, IdentityReused, IdentityRenewed, IdentityMissing,
       OpenPage, Exchange, ExchangeFails, Keep, KeepNone, AnswerIssued,
       AnswerForward, AnswerSignIn, AnswerTick, State, quiet, external
  <1>5. CASE Minting(t)
    BY <1>1, <1>h, <1>5 DEF Minting, MintSkipped, MintRefused, MintFails,
       Tick, ExtendNotDue, Extend, ExtendFails, State, quiet, external
  <1>6. CASE Signing(t)
    BY <1>1, <1>6 DEF Signing, Snapshot, JoinSignIn, OwnSignIn, Explicit, SignOut,
       Shutdown, Forgotten, State, quiet, external
  <1>7. CASE Switching(t)
    BY <1>1, <1>7 DEF Switching, LockSwitching, Plan, LockSwitch, Store, StoreFails,
       Reissue, AnswerInPlace, SwitchDone, Switched, Report, SwitchUndone,
       Restore, Forgotten, State, quiet, external
  <1>8. CASE Browser(t) \/ Arrive(t)
    BY <1>1, <1>8 DEF Browser, BrowserSignsIn, BrowserFails, Arrive, State, quiet, external
  <1> QED
    BY <1>2, <1>3, <1>4, <1>5, <1>6, <1>7, <1>8 DEF Run

\* A step of KeyCustody, or a stutter.
CustodyStep == [Custody!Next]_(Custody!custody)

\* A step that deletes no key sets one aside at most.
LEMMA KeptIn ==
  ASSUME Inv, Inv', KeyInv, KeyInv', live' = live,
         \/ state'.key = state.key /\ serial' \in {serial, serial + 1}
         \/ state'.key = None /\ serial' = serial
  PROVE  CustodyStep
  <1>1. /\ SetAside = live \ {state.key} /\ SetAside' = live' \ {state'.key}
        /\ serial \in Nat /\ None \notin live
    <2>1. serial \in Nat /\ None \notin live
      BY NoneIsNoKey DEF Inv, TypeOK
    <2> QED
      BY <2>1, AsideOf, AsideThen
  <1>2. CASE state'.key = state.key
    <2>1. SetAside' = SetAside /\ InUse' = InUse
      BY <1>1, <1>2 DEF InUse
    <2>2. CASE serial' = serial
      BY <2>1, <2>2 DEF CustodyStep, Custody!custody, InUse
    <2>3. CASE serial' = serial + 1
      <3>1. serial' > serial
        BY <1>1, <2>3
      <3> QED
        BY <2>1, <3>1 DEF CustodyStep, Custody!Next, Custody!Elsewhere, InUse
    <2> QED
      BY <1>1, <1>2, <2>2, <2>3
  <1>3. CASE state'.key = None /\ serial' = serial /\ state.key \in live
    <2>1. /\ InUse = state.key /\ InUse # None /\ InUse' = None
          /\ SetAside' = SetAside \cup {InUse}
      BY <1>1, <1>3 DEF InUse
    <2> QED
      BY <1>3, <2>1 DEF CustodyStep, Custody!Next, Custody!SetAside, InUse
  <1>4. CASE state'.key = None /\ serial' = serial /\ state.key \notin live
    <2>1. InUse' = InUse /\ SetAside' = SetAside
      BY <1>1, <1>4 DEF InUse
    <2> QED
      BY <1>4, <2>1 DEF CustodyStep, Custody!custody, InUse
  <1> QED
    BY <1>2, <1>3, <1>4

\* One key at most is gone, as no two have the same id.
LEMMA Vanishes ==
  ASSUME Inv, Inv', KeyInv, KeyInv', NEW id, live' \subseteq live,
         \A k \in live \ live' : k.id = id,
         state' = state, serial' = serial
  PROVE  CustodyStep
  <1>1. /\ SetAside = live \ {state.key} /\ SetAside' = live' \ {state'.key}
        /\ None \notin live
    <2>1. None \notin live
      BY NoneIsNoKey DEF Inv
    <2> QED
      BY <2>1, AsideOf, AsideThen
  <1>2. CASE live' = live
    BY <1>2, KeptIn
  <1>3. CASE live' # live
    <2>1. PICK key \in live : key \notin live'
      BY <1>3
    <2>2. ASSUME NEW k \in live \ live' PROVE k = key
      <3>1. k \in Known /\ key \in Known
        BY <1>1, <2>1 DEF Known
      <3> QED
        BY <2>1, <3>1 DEF KeyInv
    <2>3. live' = live \ {key}
      BY <2>1, <2>2
    <2>4. /\ SetAside' = SetAside \ {key}
          /\ InUse' = IF InUse = key THEN None ELSE InUse
      BY <1>1, <2>1, <2>3 DEF InUse
    <2> QED
      BY <2>1, <2>3, <2>4 DEF CustodyStep, Custody!Next, Custody!Vanish, InUse
  <1> QED
    BY <1>2, <1>3

\* The key of a switch that is undone is put back.
LEMMA SettlesCustody ==
  ASSUME Inv, Inv', KeyInv, KeyInv', NEW t \in Thread, Settle(t)
  PROVE  CustodyStep
  <1>1. /\ live' = live /\ serial' = serial /\ state \in State
        /\ pc[t] = "settle" /\ KeyThread(t) /\ None \notin live
    <2>1. live' = live /\ serial' = serial /\ pc[t] = "settle"
      BY DEF Settle, external
    <2> QED
      BY <2>1, NoneIsNoKey DEF Inv, TypeOK, KeyInv
  <1>2. state.key = None
    BY <1>1 DEF KeyThread, HoldsKeys, Bare
  <1>3. CASE state'.key \notin live
    <2>1. InUse' = InUse /\ SetAside' = SetAside
      BY <1>1, <1>2, <1>3, AsideOf, AsideThen DEF InUse
    <2> QED
      BY <1>1, <2>1 DEF CustodyStep, Custody!custody, InUse
  <1>4. CASE state'.key \in live
    <2>1. /\ SetAside = live /\ SetAside' = live \ {state'.key}
          /\ InUse = None /\ InUse' = state'.key
      BY <1>1, <1>2, <1>4, AsideOf, AsideThen DEF InUse
    <2> QED
      BY <1>1, <1>4, <2>1 DEF CustodyStep, Custody!Next, Custody!PutBack, InUse
  <1> QED
    BY <1>3, <1>4

\* A minted key is in use, where none was.
LEMMA MintsCustody ==
  ASSUME Inv, Inv', KeyInv, KeyInv', NEW t \in Thread, Mint(t)
  PROVE  CustodyStep
  <1> DEFINE key == NewKey(mem[t].at)
  <1>1. /\ live' = live \cup {key} /\ serial' = serial + 1 /\ state'.key = key
        /\ pc[t] = "mint" /\ KeyThread(t) /\ serial \in Nat /\ key.id = serial + 1
    BY DEF Inv, TypeOK, Mint, Mints, State, KeyInv, NewKey
  <1> HIDE DEF key
  <1>2. state.key \notin live
    BY <1>1 DEF KeyThread, MintsOverNone, Issues
  <1>3. key \notin live
    <2>1. \A k \in live : k # None
      BY NoneIsNoKey DEF Inv
    <2>2. \A k \in live : k.id <= serial
      BY <2>1 DEF KeyInv, Known
    <2> QED
      BY <1>1, <2>2
  <1>4. /\ SetAside = live /\ SetAside' = live /\ InUse = None /\ InUse' = key
    BY <1>1, <1>2, <1>3, AsideOf, AsideThen DEF InUse
  <1>5. key \in live' /\ key.id > serial /\ serial' = key.id
    BY <1>1
  <1> QED
    BY <1>1, <1>4, <1>5 DEF CustodyStep, Custody!Next, Custody!Mint, InUse

\* Every step.
LEMMA NextCustody ==
  ASSUME HonestGateway, Inv, Inv', KeyInv, KeyInv', [Next]_vars
  PROVE  CustodyStep
  <1>1. CASE Edit \/ HalfLife \/ Terminated \/ UNCHANGED vars
    <2>1. live' = live /\ state' = state /\ serial' = serial
      BY <1>1 DEF Edit, HalfLife, Terminated, vars, external
    <2> QED
      BY <2>1, KeptIn
  <1>2. CASE Expire
    <2>1. PICK id : live' = {k \in live : k.id # id}
      BY <1>2 DEF Expire
    <2>2. state' = state /\ serial' = serial
      BY <1>2 DEF Expire
    <2> QED
      BY <2>1, <2>2, Vanishes
  <1>3. ASSUME NEW t \in Thread, Arrive(t) \/ Run(t) \/ Browser(t)
        PROVE  CustodyStep
    <2>1. CASE Retire(t)
      <3>1. live' = {k \in live : k.id # mem[t].doomed.key.id \/ k.url # mem[t].from}
            /\ state' = state /\ serial' = serial
        BY <2>1 DEF Retire
      <3> QED
        BY <3>1, Vanishes
    <2>2. CASE Mint(t) \/ Settle(t)
      BY <2>2, MintsCustody, SettlesCustody
    <2>3. CASE ~Mint(t) /\ ~Retire(t) /\ ~Settle(t)
      <3>1. /\ live' = live
            /\ \/ state'.key = state.key /\ serial' \in {serial, serial + 1}
               \/ state'.key = None /\ serial' = serial
        BY <1>3, <2>3, KeptKeys DEF Inv, KeyInv
      <3> QED
        BY <3>1, KeptIn
    <2> QED
      BY <2>1, <2>2, <2>3
  <1> QED
    BY <1>1, <1>2, <1>3 DEF Next

\* The broker implements KeyCustody: the key in use is minted where there is
\* none, set aside before it is given up, and put back or deleted from there.
THEOREM CustodyIsKept ==
  ASSUME HonestGateway
  PROVE  Spec => KeepsCustody
  <1>1. Init => Custody!Init
    BY DEF Init, Custody!Init, SetAside
  <1>2. ASSUME Inv /\ CustodyInv, (Inv /\ CustodyInv)', [Next]_vars
        PROVE  [Custody!Next]_(Custody!custody)
    BY <1>2, NextCustody DEF CustodyInv, CustodyStep
  <1> QED
    BY <1>1, <1>2, KeyInvariance, PTL DEF Spec, KeepsCustody, Custody!Spec

USE DEF Goto, Become, quiet, external

-----------------------------------------------------------------------------
(* Settings, and what switches do to them *)

\* A patch leaves the list of environments alone.
LEMMA AppliedKeeps ==
  ASSUME NEW s \in Setting, NEW patch \in Patch
  PROVE  /\ Applied(patch, s).environments = s.environments
         /\ NamesOnce(s) => NamesOnce(Applied(patch, s))
         /\ \A name : EnvironmentNamed(Applied(patch, s), name)
                        = EnvironmentNamed(s, name)
  <1>1. Applied(patch, s).environments = s.environments
    BY DEF Applied, Setting
  <1> QED
    BY <1>1 DEF NamesOnce, EnvironmentNamed

\* The entry of a name is one, and with no environment listed twice it is the
\* one of its URL.
LEMMA OneOfAName ==
  ASSUME NEW s \in Setting, NEW name
  PROVE  /\ \A e, f \in EnvironmentNamed(s, name) : e = f
         /\ NamesOnce(s) => \A e \in EnvironmentNamed(s, name) :
                              EnvironmentWithUrl(s, e.url) = {e}
         /\ \A e \in EnvironmentNamed(s, name) : e \in Entry /\ e.name = name
  <1>1. DOMAIN s.environments \subseteq Nat
    <2>1. s.environments \in Seq(Entry)
      BY DEF Setting
    <2> QED
      BY <2>1
  <1>2. \A e \in EnvironmentNamed(s, name) : e \in Entry /\ e.name = name
    BY EnvironmentsFound
  <1>3. \A e, f \in EnvironmentNamed(s, name) : e = f
    <2> SUFFICES ASSUME NEW e \in EnvironmentNamed(s, name),
                        NEW f \in EnvironmentNamed(s, name)
                 PROVE  e = f
      OBVIOUS
    <2>1. PICK i \in DOMAIN s.environments :
            /\ e = s.environments[i] /\ s.environments[i].name = name
            /\ \A j \in DOMAIN s.environments :
                 s.environments[j].name = name => i <= j
      BY DEF EnvironmentNamed
    <2>2. PICK k \in DOMAIN s.environments :
            /\ f = s.environments[k] /\ s.environments[k].name = name
            /\ \A j \in DOMAIN s.environments :
                 s.environments[j].name = name => k <= j
      BY DEF EnvironmentNamed
    <2>3. i = k
      BY <1>1, <2>1, <2>2
    <2> QED
      BY <2>1, <2>2, <2>3
  <1>4. ASSUME NamesOnce(s), NEW e \in EnvironmentNamed(s, name)
        PROVE  EnvironmentWithUrl(s, e.url) = {e}
    <2>1. PICK i \in DOMAIN s.environments : e = s.environments[i]
      BY DEF EnvironmentNamed
    <2>2. {j \in DOMAIN s.environments : s.environments[j].url = e.url} = {i}
      BY <1>4, <2>1 DEF NamesOnce
    <2>3. i <= i
      BY <1>1
    <2> QED
      BY <2>1, <2>2, <2>3 DEF EnvironmentWithUrl
  <1> QED
    BY <1>2, <1>3, <1>4

\* What a switch is to write is a patch that leads to where it was asked to.
LEMMA PatchLeads ==
  ASSUME NEW req \in Request, NEW s \in Setting, NamesOnce(s),
         req.op \in Switches, ~AlreadyThere(req, s),
         req.op = "switch_environment" => Destination(req, s) # {}
  PROVE  LET patch == SwitchPatch(req, s)
             then  == Applied(patch, s) IN
         /\ patch \in Patch
         /\ IF req.op = "switch_team" THEN ManagedTeam(then) = req.team
            ELSE \A e \in EnvironmentNamed(s, req.name) : then.url = e.url
         /\ <<then.url, ManagedTeam(then)>> # <<s.url, ManagedTeam(s)>>
  <1>1. req.team \in Team /\ req.name \in Name
    BY BrokerAssumption
  <1>2. CASE req.op = "switch_team"
    <2>1. SwitchPatch(req, s) = TeamPatch(s, req.team)
      BY <1>2 DEF SwitchPatch
    <2>2. TeamPatch(s, req.team) \in Patch
      BY <1>1, TeamPatchType
    <2>3. /\ Applied(TeamPatch(s, req.team), s).team = req.team
      BY DEF TeamPatch, Previous, Applied, Setting
    <2>4. ManagedTeam(Applied(TeamPatch(s, req.team), s)) = req.team
      BY <1>1, <2>3, BrokerAssumption DEF ManagedTeam
    <2>5. ManagedTeam(s) # req.team
      BY <1>2 DEF AlreadyThere
    <2> QED
      BY <1>2, <2>1, <2>2, <2>4, <2>5
  <1>3. CASE req.op = "switch_environment"
    <2>1. PICK e : e \in EnvironmentNamed(s, req.name)
      BY <1>3 DEF Destination
    <2>2. EnvironmentNamed(s, req.name) = {e}
      BY <2>1, OneOfAName
    <2>3. SwitchPatch(req, s) = EnvironmentPatch(s, e)
      BY <1>3, <2>2 DEF SwitchPatch, Destination
    <2>4. /\ e \in Entry /\ e.name = req.name
          /\ EnvironmentWithUrl(s, e.url) = {e}
      BY <2>1, OneOfAName
    <2>5. EnvironmentPatch(s, e) \in Patch
      BY <2>4, EnvironmentPatchType
    <2>6. Applied(EnvironmentPatch(s, e), s).url = e.url
      BY DEF EnvironmentPatch, Applied, Setting
    <2>7. e.url # s.url
      <3> SUFFICES ASSUME e.url = s.url PROVE FALSE
        OBVIOUS
      <3>1. CurrentEnvironment(s) = {e}
        BY <2>4 DEF CurrentEnvironment
      <3>2. CurrentName(s) = req.name
        BY <2>4, <3>1 DEF CurrentName
      <3> QED
        BY <1>3, <3>2 DEF AlreadyThere
    <2> QED
      BY <1>3, <2>2, <2>3, <2>5, <2>6, <2>7
  <1> QED
    BY <1>2, <1>3 DEF Switches

-----------------------------------------------------------------------------
(* The other threads *)

\* A thread that is not the one that steps keeps its part: what it says of the
\* file only a switch says, and there is one at a time.
LEMMA OtherSwitches ==
  ASSUME TypeOK, NEW t \in Thread, NEW u \in Thread, u # t, SwitchThread(u),
         pc'[u] = pc[u], mem'[u] = mem[u],
         file' = file \/ switching = t,
         switching' = switching \/ switching \in {t, None}
  PROVE  SwitchThread(u)'
  <1>1. CASE ~IsSwitch(u)
    BY <1>1 DEF SwitchThread, IsSwitch, Unswitching
  <1>2. CASE IsSwitch(u) /\ pc[u] = "lockSwitching"
    BY <1>2 DEF SwitchThread, IsSwitch, Coming, Leaving, InPlace, Arriving,
       Undoing, Ending, Writing, Issuing, Issues
  <1>3. CASE IsSwitch(u) /\ pc[u] # "lockSwitching"
    <2>1. switching = u /\ switching' = u /\ file' = file
      BY <1>3, BrokerAssumption DEF SwitchThread
    <2> QED
      BY <1>3, <2>1 DEF SwitchThread, IsSwitch, Coming, Leaving, InPlace,
         Arriving, Undoing, Ending, Writing, Moving, Planned
  <1> QED
    BY <1>1, <1>2, <1>3

\* Who has either lock, and is writing nothing, finds the broker in step.
LEMMA OnlyWriter ==
  ASSUME Inv, SwitchInv, NEW t \in Thread, ~Writing(t),
         renewal \in {t, None} \/ switching = t
  PROVE  InStep
  <1> SUFFICES ASSUME NEW u \in Thread, Writing(u) PROVE u = t
    BY DEF SwitchInv, FileInv
  <1>1. renewal = u
    BY DEF Inv, ThreadInv, Locked, Writing
  <1>2. IsSwitch(u) /\ switching = u
    BY DEF SwitchInv, SwitchThread, Unswitching, Writing
  <1> QED
    BY <1>1, <1>2, BrokerAssumption

\* A step that leaves file and target alone.
LEMMA FileKept ==
  ASSUME FileInv, NEW t \in Thread, file' = file, target' = target,
         \A u \in Thread \ {t} : pc'[u] = pc[u] /\ mem'[u] = mem[u],
         Writing(t) => Writing(t)' \/ InStep
  PROVE  FileInv'
  <1>1. InStep' = InStep
    BY DEF InStep
  <1>2. ASSUME NEW u \in Thread, Writing(u) PROVE InStep \/ Writing(u)'
    BY <1>2 DEF Writing
  <1> QED
    BY <1>1, <1>2 DEF FileInv

-----------------------------------------------------------------------------
(* Steps that are none of a switch's own *)

\* What only a switch changes of what a thread remembers.
SamePlan(m, n) ==
  /\ n.req = m.req /\ n.ret = m.ret /\ n.moving = m.moving
  /\ n.loaded = m.loaded /\ n.patch = m.patch /\ n.undo = m.undo
  /\ n.before = m.before

\* Steps only switches take, and those that apply settings.
OfSwitches ==
  {"lockSwitching", "plan", "lockSwitch", "store", "reissue", "switched",
   "report", "restore", "settle", "dropToken", "retarget"}
Refreshes == {"apply", "retire", "dropToken", "retarget"}

\* Steps that no switch is at.
OfOthers ==
  {"snapshot", "admit", "present", "proxyKey", "account", "proxyToken", "pair",
   "lockSignIn", "explicit", "lockSignOut", "lockTick", "lockShutdown",
   "status"}

\* A step by which a request goes on to issue, or ends, or stays what it is.
GoesOn(t) ==
  /\ pc[t] # "idle" /\ pc'[t] # "idle" /\ pc[t] \notin Refreshes
  /\ file' = file /\ target' = target /\ switching' = switching
  /\ \/ pc'[t] = "finish" /\ pc[t] # "lockSwitching"
     \/ pc[t] \in Issuing /\ pc'[t] \in Issuing
     \/ pc[t] \in {"issue", "lockIssue"} /\ pc'[t] \in Issuing \cup {"lockIssue"}
     \/ /\ ~IsSwitch(t)
        /\ pc'[t] \notin OfSwitches
        /\ pc'[t] = "retire" => mem'[t].then \notin {"dropToken", "switched"}

LEMMA GoesOnSwitch ==
  ASSUME NEW t \in Thread, SwitchThread(t), GoesOn(t),
         SamePlan(mem[t], mem'[t])
  PROVE  SwitchThread(t)' /\ ~Writing(t)
  <1>1. ~Writing(t)
    BY DEF Writing, GoesOn, Refreshes
  <1>2. CASE ~IsSwitch(t)
    <2>1. ~IsSwitch(t)'
      BY <1>2 DEF IsSwitch, SamePlan, GoesOn
    <2>2. Unswitching(t)'
      BY <1>2 DEF SwitchThread, Unswitching, SamePlan, GoesOn, OfSwitches,
         Issuing, Issues
    <2> QED
      BY <1>1, <2>1, <2>2 DEF SwitchThread
  <1>3. CASE IsSwitch(t)
    <2>1. IsSwitch(t)'
      BY <1>3 DEF IsSwitch, SamePlan, GoesOn
    <2>2. ~Writing(t)'
      BY <1>3 DEF GoesOn, Writing, Issuing, Issues
    <2>3. /\ pc[t] # "lockSwitching" /\ pc'[t] # "lockSwitching"
          /\ pc'[t] # "retire"
      BY <1>3 DEF GoesOn, Issuing, Issues
    <2>4. CASE pc'[t] = "finish"
      BY <1>1, <1>3, <2>1, <2>2, <2>3, <2>4
         DEF SwitchThread, Ending, GoesOn
    <2>5. CASE pc[t] \in Issuing /\ pc'[t] \in Issuing
      <3>1. InPlace(t) \/ Arriving(t)
        BY <1>1, <1>3, <2>5 DEF SwitchThread, Coming, Leaving, Undoing, Ending,
           Issuing, Issues
      <3>2. InPlace(t)' \/ Arriving(t)'
        BY <1>1, <2>5, <3>1 DEF InPlace, Arriving, Moving, Planned, SamePlan,
           GoesOn, Issuing, Issues
      <3> QED
        BY <1>1, <1>3, <2>1, <2>2, <2>3, <3>2 DEF SwitchThread, GoesOn
    <2>6. CASE pc[t] \in {"issue", "lockIssue"}
               /\ pc'[t] \in Issuing \cup {"lockIssue"}
      <3>1. InPlace(t)
        BY <1>1, <1>3, <2>6 DEF SwitchThread, Coming, Leaving, Arriving,
           Undoing, Ending, Issuing, Issues
      <3>2. InPlace(t)'
        BY <2>6, <3>1 DEF InPlace, SamePlan, GoesOn, Issuing, Issues
      <3> QED
        BY <1>1, <1>3, <2>1, <2>2, <2>3, <3>2 DEF SwitchThread, GoesOn
    <2> QED
      BY <1>3, <2>4, <2>5, <2>6 DEF GoesOn
  <1> QED
    BY <1>2, <1>3

\* No switch is at a step of the others.
LEMMA OthersSteps ==
  ASSUME NEW t \in Thread, SwitchThread(t), pc[t] \in OfOthers
  PROVE  ~IsSwitch(t)
  BY DEF SwitchThread, OfOthers, Coming, Leaving, InPlace, Arriving, Undoing,
     Ending, Writing, Issuing, Issues

\* The answer is no part of a plan.
LEMMA OutApart ==
  ASSUME NEW m, Memory(m), NEW n, \E x : n = [m EXCEPT !.out = x]
  PROVE  SamePlan(m, n)
  BY DEF Memory, Blank, SamePlan

LEMMA SamePlans ==
  ASSUME NEW l, NEW m, NEW n, SamePlan(l, m), SamePlan(m, n)
  PROVE  SamePlan(l, n)
  BY DEF SamePlan

LEMMA DoomedApart ==
  ASSUME NEW m, Memory(m), NEW hold, NEW url, NEW after
  PROVE  LET n == Doomed(m, hold, url, after) IN
         SamePlan(m, n) /\ n.then = after /\ n.next = m.next
  BY DEF Memory, Doomed, Blank, SamePlan

\* Admission, and what is served at once.
LEMMA ServingOn ==
  ASSUME TypeOK, NEW t \in Thread, SwitchThread(t), Serving(t),
         ~Issue(t), ~Finish(t)
  PROVE  GoesOn(t) /\ SamePlan(mem[t], mem'[t])
  <1>1. /\ mem[t] \in Local /\ mem \in [Thread -> Local] /\ Memory(mem[t])
        /\ pc \in [Thread -> Label]
    BY Memories DEF TypeOK
  <1>2. pc[t] \in OfOthers \cup {"lockIssue"}
    BY <1>1 DEF Serving, Admit, Account, LockIssue, SkipIssue, Present,
       ProxyKey, ProxyToken, Pair, Status, OfOthers
  <1>3. pc[t] # "lockIssue" => ~IsSwitch(t)
    BY <1>2, OthersSteps
  <1>4. \/ pc'[t] = "finish"
        \/ pc[t] # "lockIssue" /\ pc'[t] \in {"issue", "proxyKey", "lockIssue"}
        \/ pc[t] = "lockIssue" /\ pc'[t] = "begin"
    BY ZenonT(40), <1>1
       DEF Serving, Admit, Account, LockIssue, SkipIssue, Present,
       ProxyKey, ProxyToken, Pair, Status, Ends
  <1>5. file' = file /\ target' = target /\ switching' = switching
    BY DEF Serving, Admit, Account, LockIssue, SkipIssue, Present,
       ProxyKey, ProxyToken, Pair, Status
  <1>6. GoesOn(t)
    BY <1>2, <1>3, <1>4, <1>5 DEF GoesOn, OfOthers, OfSwitches, Refreshes,
       Issuing, Issues
  <1>7. SamePlan(mem[t], mem'[t])
    <2>1. CASE Admit(t) \/ Account(t)
      <3> DEFINE m == [mem[t] EXCEPT !.seen = target]
      <3>1. Memory(m) /\ SamePlan(mem[t], m)
        BY <1>1 DEF SamePlan, Memory, Blank
      <3>2. mem'[t] = m \/ \E x : mem'[t] = [m EXCEPT !.out = x]
        <4>1. CASE Admit(t)
          BY <1>1, <4>1 DEF Admit, Ends
        <4>2. CASE Account(t)
          BY ZenonT(40), <1>1, <4>2 DEF Account, Ends
        <4> QED
          BY <2>1, <4>1, <4>2
      <3> HIDE DEF m
      <3>3. SamePlan(m, mem'[t])
        BY <3>1, <3>2 DEF SamePlan, Memory, Blank
      <3> QED
        BY <3>1, <3>3, SamePlans
    <2>2. CASE ~Admit(t) /\ ~Account(t)
      <3>1. mem'[t] = mem[t] \/ (\E x : mem'[t] = [mem[t] EXCEPT !.out = x])
            \/ (\E x : mem'[t] = [mem[t] EXCEPT !.at = x])
        BY ZenonT(40), <1>1, <2>2
           DEF Serving, Present, ProxyKey, ProxyToken, Pair, Status,
           LockIssue, SkipIssue, Ends
      <3>2. ASSUME NEW x, mem'[t] = [mem[t] EXCEPT !.out = x]
            PROVE  SamePlan(mem[t], mem'[t])
        BY <1>1, <3>2 DEF SamePlan, Memory, Blank
      <3>3. ASSUME NEW x, mem'[t] = [mem[t] EXCEPT !.at = x]
            PROVE  SamePlan(mem[t], mem'[t])
        BY <1>1, <3>3 DEF SamePlan, Memory, Blank
      <3> QED
        BY <3>1, <3>2, <3>3 DEF SamePlan
    <2> QED
      BY <2>1, <2>2
  <1> QED
    BY <1>6, <1>7

\* Answering with what is cached, or with what the browser brought.
LEMMA IdentifiedApart ==
  ASSUME NEW t \in Thread, mem \in [Thread -> Local], pc \in [Thread -> Label],
         NEW m, Memory(m),
         Identified(t, m) \/ \E reason : Unidentified(t, m, reason)
  PROVE  SamePlan(m, mem'[t]) /\ pc'[t] \in {"exchange", "keep"}
  <1>1. CASE Identified(t, m)
    <2>1. mem'[t] = m \/ \E x : mem'[t] = [m EXCEPT !.bearer = None, !.out = x]
      BY <1>1 DEF Identified
    <2>2. pc'[t] \in {"exchange", "keep"}
      BY <1>1 DEF Identified
    <2>3. ASSUME NEW x, mem'[t] = [m EXCEPT !.bearer = None, !.out = x]
          PROVE  SamePlan(m, mem'[t])
      BY <2>3 DEF SamePlan, Memory, Blank
    <2> QED
      BY <2>1, <2>2, <2>3 DEF SamePlan
  <1>2. ASSUME NEW reason, Unidentified(t, m, reason)
        PROVE  SamePlan(m, mem'[t]) /\ pc'[t] \in {"exchange", "keep"}
    <2>1. \E x, y : mem'[t] = [m EXCEPT !.bearer = x, !.out = y]
      BY <1>2 DEF Unidentified, FallBack
    <2>2. pc'[t] \in {"exchange", "keep"}
      BY <1>2 DEF Unidentified
    <2>3. ASSUME NEW x, NEW y, mem'[t] = [m EXCEPT !.bearer = x, !.out = y]
          PROVE  SamePlan(m, mem'[t])
      BY <2>3 DEF SamePlan, Memory, Blank
    <2> QED
      BY <2>1, <2>2, <2>3
  <1> QED
    BY <1>1, <1>2

\* Getting a credential.
LEMMA ResolvesOn ==
  ASSUME TypeOK, NEW t \in Thread, SwitchThread(t), GetsCredential(t)
  PROVE  GoesOn(t) /\ SamePlan(mem[t], mem'[t])
  <1>1. /\ mem[t] \in Local /\ mem \in [Thread -> Local] /\ Memory(mem[t])
        /\ pc \in [Thread -> Label]
    BY Memories DEF TypeOK
  <1>2. /\ pc[t] \in {"resolve", "identity", "browser", "exchange"}
        /\ file' = file /\ target' = target /\ switching' = switching
    BY <1>1 DEF GetsCredential, ResolveFresh, ResolveFails, ResolveRefreshed,
       ResolveIdentity, IdentityReused, IdentityRenewed, IdentityMissing,
       OpenPage, Exchange, ExchangeFails, BrowserSignsIn, BrowserFails
  <1>3. /\ SamePlan(mem[t], mem'[t])
        /\ pc'[t] \in {"keep", "identity", "browser", "exchange"}
    <2>1. CASE ResolveFresh(t) \/ ResolveRefreshed(t) \/ ResolveIdentity(t)
      <3> DEFINE m == [mem[t] EXCEPT !.session = state.session]
      <3>1. Memory(m) /\ SamePlan(mem[t], m)
        BY <1>1 DEF SamePlan, Memory, Blank
      <3>2. /\ \/ \E x : mem'[t] = [m EXCEPT !.bearer = x]
               \/ \E x : mem'[t] = [m EXCEPT !.exchanges = x]
            /\ pc'[t] \in {"keep", "identity"}
        BY <1>1, <2>1 DEF ResolveFresh, ResolveRefreshed, ResolveIdentity,
           Resolving
      <3> HIDE DEF m
      <3>3. SamePlan(m, mem'[t])
        BY <3>1, <3>2 DEF SamePlan, Memory, Blank
      <3> QED
        BY <3>1, <3>2, <3>3, SamePlans
    <2>2. CASE ResolveFails(t) \/ ExchangeFails(t)
      <3>1. PICK m \in {mem[t], Resolving(t)} : mem'[t] = FallBack(m, "gateway_error")
        BY <1>1, <2>2 DEF ResolveFails, ExchangeFails
      <3>2. Memory(m) /\ SamePlan(mem[t], m)
        BY <1>1 DEF Resolving, SamePlan, Memory, Blank
      <3>3. SamePlan(m, mem'[t])
        BY <3>1, <3>2 DEF FallBack, SamePlan, Memory, Blank
      <3>4. pc'[t] = "keep"
        BY <1>1, <2>2 DEF ResolveFails, ExchangeFails
      <3> QED
        BY <3>2, <3>3, <3>4, SamePlans
    <2>3. CASE IdentityReused(t) \/ IdentityMissing(t) \/ BrowserFails(t)
      BY <1>1, <2>3, IdentifiedApart DEF IdentityReused, IdentityMissing,
         BrowserFails
    <2>4. CASE IdentityRenewed(t) \/ BrowserSignsIn(t)
      <3> DEFINE m == [mem[t] EXCEPT !.session = serial + 1]
      <3>1. Memory(m) /\ SamePlan(mem[t], m)
        BY <1>1 DEF SamePlan, Memory, Blank
      <3>2. Identified(t, m)
        BY <2>4 DEF IdentityRenewed, BrowserSignsIn
      <3> HIDE DEF m
      <3> QED
        BY <1>1, <3>1, <3>2, IdentifiedApart, SamePlans
    <2>5. CASE OpenPage(t) \/ Exchange(t)
      BY <1>1, <2>5 DEF OpenPage, Exchange, SamePlan, Memory, Blank
    <2> QED
      BY <2>1, <2>2, <2>3, <2>4, <2>5 DEF GetsCredential
  <1> QED
    BY <1>2, <1>3 DEF GoesOn, Issuing, Issues, Refreshes

\* The rest of issue_under_renewal_lock.
IssuesOn(t) ==
  \/ Begin(t) \/ Keep(t) \/ KeepNone(t) \/ Dead(t)
  \/ MintSkipped(t) \/ Mint(t) \/ MintRefused(t) \/ MintFails(t)
  \/ MintLost(t) \/ MintUnauthorized(t)
  \/ ExtendNotDue(t) \/ Extend(t) \/ ExtendFails(t) \/ ExtendUnauthorized(t)

LEMMA IssuesOnSwitch ==
  ASSUME TypeOK, NEW t \in Thread, SwitchThread(t), IssuesOn(t)
  PROVE  GoesOn(t) /\ SamePlan(mem[t], mem'[t])
  <1>1. /\ mem[t] \in Local /\ mem \in [Thread -> Local] /\ Memory(mem[t])
        /\ pc \in [Thread -> Label]
    BY Memories DEF TypeOK
  <1>2. pc[t] \in {"begin", "keep", "mint", "dead", "extend"}
    BY DEF IssuesOn, Begin, Keep, KeepNone, Dead, MintSkipped, Mint,
       MintRefused, MintFails, MintLost, MintUnauthorized, Mints, ExtendNotDue,
       Extend, ExtendFails, ExtendUnauthorized
  <1>3. file' = file /\ target' = target /\ switching' = switching
    BY DEF IssuesOn, Begin, Keep, KeepNone, Dead, MintSkipped, Mint,
       MintRefused, MintFails, MintLost, MintUnauthorized, ExtendNotDue,
       Extend, ExtendFails, ExtendUnauthorized
  <1>4. pc'[t] \in Issuing \cup {"finish"}
    BY <1>1 DEF IssuesOn, Begin, Keep, KeepNone, Dead, MintSkipped, Mint,
       MintRefused, MintFails, MintLost, MintUnauthorized, ExtendNotDue,
       Extend, ExtendFails, ExtendUnauthorized, ServeCredential, Issuing, Issues
  <1>5. SamePlan(mem[t], mem'[t])
    <2>1. CASE Begin(t)
      <3>1. \/ \E x : mem'[t] = [mem[t] EXCEPT !.out = x]
            \/ mem'[t] = [mem[t] EXCEPT !.now = clock, !.phase = "first",
                                       !.out = NoAnswer]
        BY <1>1, <2>1 DEF Begin
      <3>2. CASE \E x : mem'[t] = [mem[t] EXCEPT !.out = x]
        BY <1>1, <3>2, OutApart
      <3>3. CASE mem'[t] = [mem[t] EXCEPT !.now = clock, !.phase = "first",
                                          !.out = NoAnswer]
        BY <1>1, <3>3 DEF SamePlan, Memory, Blank
      <3> QED
        BY <3>1, <3>2, <3>3
    <2>2. CASE Keep(t)
      BY <1>1, <2>2 DEF Keep, SamePlan
    <2>6. CASE KeepNone(t)
      <3>1. \/ mem'[t] = mem[t]
            \/ mem'[t] = [mem[t] EXCEPT !.out = Refused("gateway_error")]
            \/ mem'[t] = [mem[t] EXCEPT !.bearer = state.credential]
        <4>1. mem' \in {[mem EXCEPT ![t] = mem[t]],
                        [mem EXCEPT ![t] =
                           [mem[t] EXCEPT !.out = Refused("gateway_error")]],
                        [mem EXCEPT ![t] =
                           [mem[t] EXCEPT !.bearer = state.credential]]}
          BY <1>1, <2>6 DEF KeepNone
        <4> QED
          BY <1>1, <4>1
      <3> QED
        BY <1>1, <3>1 DEF SamePlan, Memory, Blank
    <2>3. CASE Dead(t)
      <3>1. mem'[t] = [mem[t] EXCEPT !.now = clock, !.phase = "again"]
        BY <1>1, <2>3 DEF Dead
      <3> QED
        BY <1>1, <3>1 DEF SamePlan, Memory, Blank
    <2>4. CASE MintSkipped(t) \/ Mint(t) \/ MintRefused(t) \/ MintFails(t)
               \/ MintLost(t) \/ MintUnauthorized(t)
      <3>1. mem'[t] = mem[t] \/ \E x : mem'[t] = [mem[t] EXCEPT !.out = x]
        BY <1>1, <2>4 DEF MintSkipped, Mint, MintRefused, MintFails, MintLost,
           MintUnauthorized, ServeCredential
      <3> QED
        BY <1>1, <3>1 DEF SamePlan, Memory, Blank
    <2>5. CASE ExtendNotDue(t) \/ Extend(t) \/ ExtendFails(t)
               \/ ExtendUnauthorized(t)
      <3>1. mem'[t] = mem[t] \/ \E x : mem'[t] = [mem[t] EXCEPT !.phase = x]
        BY <1>1, <2>5 DEF ExtendNotDue, Extend, ExtendFails, ExtendUnauthorized
      <3> QED
        BY <1>1, <3>1 DEF SamePlan, Memory, Blank
    <2> QED
      BY <2>1, <2>2, <2>3, <2>4, <2>5, <2>6 DEF IssuesOn
  <1> QED
    BY <1>2, <1>3, <1>4, <1>5 DEF GoesOn, Issuing, Issues, Refreshes

\* Answers of requests that are no switch, and ticks.
LEMMA AnswersOn ==
  ASSUME TypeOK, NEW t \in Thread, SwitchThread(t),
         \/ AnswerIssued(t) \/ AnswerForward(t) \/ AnswerSignIn(t)
         \/ AnswerTick(t) \/ Tick(t)
  PROVE  GoesOn(t) /\ SamePlan(mem[t], mem'[t])
  <1>1. /\ mem[t] \in Local /\ mem \in [Thread -> Local] /\ Memory(mem[t])
        /\ pc \in [Thread -> Label]
    BY Memories DEF TypeOK
  <1>2. /\ pc[t] \in {"answer", "lockTick"}
        /\ file' = file /\ target' = target /\ switching' = switching
    BY DEF AnswerIssued, AnswerForward, AnswerSignIn, AnswerTick, Tick
  <1>3. pc[t] = "answer" => ~IsSwitch(t)
    BY DEF AnswerIssued, AnswerForward, AnswerSignIn, AnswerTick, Tick,
       IsSwitch, Switches
  <1>4. pc[t] = "lockTick" => ~IsSwitch(t)
    BY OthersSteps DEF OfOthers
  <1>5. pc'[t] \in {"finish", "proxyToken", "pair", "resolve", "extend"}
    <2>1. CASE AnswerIssued(t)
      BY <1>1, <2>1 DEF AnswerIssued, Served, Switches
    <2>2. CASE AnswerForward(t) \/ AnswerSignIn(t) \/ AnswerTick(t)
      BY <1>1, <2>2 DEF AnswerForward, AnswerSignIn, AnswerTick, Ends
    <2>3. CASE Tick(t)
      BY <1>1, <2>3 DEF Tick
    <2> QED
      BY <2>1, <2>2, <2>3
  <1>6. SamePlan(mem[t], mem'[t])
    <2>1. CASE Tick(t)
      <3> DEFINE m == [mem[t] EXCEPT !.at = target, !.now = clock,
                                     !.out = NoAnswer]
      <3>1. Memory(m) /\ SamePlan(mem[t], m)
        BY <1>1 DEF SamePlan, Memory, Blank
      <3>2. \/ mem'[t] = mem[t]
            \/ mem'[t] = [m EXCEPT !.bearer = state.credential]
            \/ mem'[t] = [m EXCEPT !.phase = "tick"]
        BY <1>1, <2>1 DEF Tick
      <3> HIDE DEF m
      <3> QED
        BY <3>1, <3>2 DEF SamePlan, Memory, Blank
    <2>2. CASE ~Tick(t)
      <3>1. mem'[t] = mem[t] \/ \E x : mem'[t] = [mem[t] EXCEPT !.out = x]
        <4>1. CASE AnswerSignIn(t)
          <5> DEFINE out == [mem[t].out EXCEPT !.kind =
                               IF @ = "credential" THEN "signed_in" ELSE @]
          <5>1. mem'[t] = [mem[t] EXCEPT !.out = out]
            BY <1>1, <4>1 DEF AnswerSignIn, Ends, Memory, Blank
          <5> HIDE DEF out
          <5> QED
            BY <5>1
        <4>2. CASE ~AnswerSignIn(t)
          BY <1>1, <2>2, <4>2 DEF AnswerIssued, AnswerForward, AnswerTick, Ends
        <4> QED
          BY <4>1, <4>2
      <3> QED
        BY <1>1, <3>1 DEF SamePlan, Memory, Blank
    <2> QED
      BY <2>1, <2>2
  <1> QED
    BY <1>2, <1>3, <1>4, <1>5, <1>6 DEF GoesOn, Refreshes, OfSwitches

\* Sign-ins, sign-outs and the end of the daemon.
LEMMA SigningOn ==
  ASSUME TypeOK, NEW t \in Thread, SwitchThread(t), Signing(t)
  PROVE  GoesOn(t) /\ SamePlan(mem[t], mem'[t])
  <1>1. /\ mem[t] \in Local /\ mem \in [Thread -> Local] /\ Memory(mem[t])
        /\ pc \in [Thread -> Label]
    BY Memories DEF TypeOK
  <1>2. /\ pc[t] \in OfOthers
        /\ file' = file /\ target' = target /\ switching' = switching
    BY DEF Signing, Snapshot, JoinSignIn, OwnSignIn, Explicit, SignOut,
       Shutdown, OfOthers
  <1>3. ~IsSwitch(t)
    BY <1>2, OthersSteps
  <1>4. CASE Snapshot(t) \/ JoinSignIn(t) \/ Explicit(t)
    <2>1. \/ mem'[t] = mem[t] \/ \E x : mem'[t] = [mem[t] EXCEPT !.out = x]
          \/ mem'[t] = [mem[t] EXCEPT !.signIns = state.signIns,
                          !.page = state.page, !.joined = state.explicit]
      BY <1>1, <1>4 DEF Snapshot, JoinSignIn, Explicit, Ends
    <2>2. pc'[t] \in {"refresh", "finish", "begin"}
      BY <1>1, <1>4 DEF Snapshot, JoinSignIn, Explicit, Ends
    <2>3. SamePlan(mem[t], mem'[t])
      <3>1. CASE mem'[t] = [mem[t] EXCEPT !.signIns = state.signIns,
                              !.page = state.page, !.joined = state.explicit]
        BY <1>1, <3>1 DEF SamePlan, Memory, Blank
      <3>2. CASE \E x : mem'[t] = [mem[t] EXCEPT !.out = x]
        BY <1>1, <3>2, OutApart
      <3>3. CASE mem'[t] = mem[t]
        BY <3>3 DEF SamePlan
      <3> QED
        BY <1>1, <2>1, <3>1, <3>2, <3>3
    <2> QED
      BY <1>2, <1>3, <2>2, <2>3 DEF GoesOn, Refreshes, OfSwitches, OfOthers
  <1>5. CASE OwnSignIn(t) \/ SignOut(t) \/ Shutdown(t)
    <2>1. CASE pc'[t] = "finish" /\ mem'[t] = [mem[t] EXCEPT !.out = Refused("static_key")]
      <3>1. SamePlan(mem[t], mem'[t])
        BY <1>1, <2>1 DEF SamePlan, Memory, Blank
      <3> QED
        BY <1>2, <2>1, <3>1 DEF GoesOn, Refreshes, OfOthers
    <2>2. ASSUME NEW m \in {mem[t], [mem[t] EXCEPT !.at = target],
                            [mem[t] EXCEPT !.out =
                               [NoAnswer EXCEPT !.kind = "signed_out"]]},
                 NEW after \in {"explicit", "finish"},
                 mem'[t] = Doomed(m, HoldNow, target.url, after),
                 pc'[t] \in {"retire", after}
          PROVE  GoesOn(t) /\ SamePlan(mem[t], mem'[t])
      <3>1. Memory(m) /\ SamePlan(mem[t], m)
        BY <1>1, <2>2 DEF SamePlan, Memory, Blank
      <3>2. SamePlan(mem[t], mem'[t]) /\ mem'[t].then = after
        BY <2>2, <3>1, DoomedApart, SamePlans
      <3> QED
        BY <1>2, <1>3, <2>2, <3>2 DEF GoesOn, Refreshes, OfOthers, OfSwitches
    <2>3. CASE OwnSignIn(t)
      <3>1. /\ mem'[t] = Doomed([mem[t] EXCEPT !.at = target], HoldNow,
                                target.url, "explicit")
            /\ pc'[t] \in {"retire", "explicit"}
        BY <1>1, <2>3 DEF OwnSignIn, Retiring
      <3> QED
        BY <2>2, <3>1
    <2>4. CASE SignOut(t)
      <3>1. \/ /\ mem'[t] = [mem[t] EXCEPT !.out = Refused("static_key")]
               /\ pc'[t] = "finish"
            \/ /\ mem'[t] = Doomed([mem[t] EXCEPT !.out =
                                      [NoAnswer EXCEPT !.kind = "signed_out"]],
                                   HoldNow, target.url, "finish")
               /\ pc'[t] \in {"retire", "finish"}
        BY ZenonT(40), <1>1, <2>4 DEF SignOut, Retiring, Ends
      <3> QED
        BY <2>1, <2>2, <3>1
    <2>5. CASE Shutdown(t)
      <3>1. /\ mem'[t] = Doomed(mem[t], HoldNow, target.url, "finish")
            /\ pc'[t] \in {"retire", "finish"}
        BY <1>1, <2>5 DEF Shutdown, Retiring
      <3> QED
        BY <2>2, <3>1
    <2> QED
      BY <1>5, <2>3, <2>4, <2>5
  <1> QED
    BY <1>4, <1>5 DEF Signing

-----------------------------------------------------------------------------
(* Steps of a switch, and the settings it applies *)

LEMMA Has ==
  ASSUME Inv, SwitchInv, NEW t \in Thread
  PROVE  /\ TypeOK /\ ThreadInv(t) /\ SwitchThread(t) /\ FileInv
         /\ mem[t] \in Local /\ mem \in [Thread -> Local] /\ Memory(mem[t])
         /\ pc \in [Thread -> Label]
  BY Memories DEF Inv, SwitchInv, TypeOK

\* Settings that were looked at, and not changed.
LEMMA Refreshed ==
  ASSUME NEW t \in Thread, SwitchThread(t), ~Writing(t),
         pc[t] \in {"refresh", "lockRefresh", "apply"},
         mem[t].ret \in Returns \cup {"idle"},
         \/ pc'[t] \in {"lockRefresh", mem[t].ret}
         \/ pc[t] = "lockRefresh" /\ pc'[t] = "apply",
         mem'[t] = mem[t], file' = file, switching' = switching
  PROVE  SwitchThread(t)' /\ ~Writing(t)'
  <1>1. ~Writing(t)' /\ pc'[t] # "retire"
    BY DEF Writing, Returns
  <1>2. CASE ~IsSwitch(t)
    <2>1. ~IsSwitch(t)' /\ Unswitching(t)'
      BY <1>2 DEF IsSwitch, SwitchThread, Unswitching, Returns
    <2> QED
      BY <1>1, <2>1 DEF SwitchThread
  <1>3. CASE IsSwitch(t)
    <2>1. Coming(t) \/ InPlace(t) \/ Arriving(t)
      BY <1>3 DEF SwitchThread, Leaving, Undoing, Ending
    <2>2. IsSwitch(t)' /\ switching = t
      BY <1>3, <2>1 DEF IsSwitch, SwitchThread, Returns, Coming, InPlace,
         Arriving
    <2>3. Coming(t) => Coming(t)'
      BY DEF Coming
    <2>4. InPlace(t) => InPlace(t)'
      BY DEF InPlace, Issuing, Issues
    <2>5. Arriving(t) => Arriving(t)'
      BY DEF Arriving, Moving, Planned, Returns, Issuing, Issues
    <2> QED
      BY <1>1, <2>1, <2>2, <2>3, <2>4, <2>5 DEF SwitchThread
  <1> QED
    BY <1>2, <1>3

LEMMA RefreshOn ==
  ASSUME Inv, SwitchInv, NEW t \in Thread,
         Refresh(t) \/ LockRefresh(t) \/ SkipRefresh(t)
  PROVE  SwitchThread(t)' /\ FileInv'
  <1>1. /\ TypeOK /\ ThreadInv(t) /\ SwitchThread(t) /\ FileInv
        /\ mem \in [Thread -> Local] /\ pc \in [Thread -> Label]
    BY Has
  <1>2. /\ pc[t] \in {"refresh", "lockRefresh"} /\ mem' = mem
        /\ \A u \in Thread \ {t} : pc'[u] = pc[u]
        /\ \/ pc'[t] \in {"lockRefresh", mem[t].ret}
           \/ pc[t] = "lockRefresh" /\ pc'[t] = "apply"
        /\ file' = file /\ target' = target /\ switching' = switching
    <2>1. CASE Refresh(t)
      BY <1>1, <2>1 DEF Refresh
    <2>2. CASE LockRefresh(t) \/ SkipRefresh(t)
      BY <1>1, <2>2 DEF LockRefresh, SkipRefresh
    <2> QED
      BY <2>1, <2>2
  <1>3. mem[t].ret \in Returns /\ ~Writing(t)
    BY <1>1, <1>2 DEF ThreadInv, ReturnsWell, Writing
  <1> QED
    BY <1>1, <1>2, <1>3, Refreshed, FileKept

\* A switch that applies what it wrote.
LEMMA WritingStage ==
  ASSUME NEW t \in Thread, SwitchThread(t), Writing(t)
  PROVE  /\ IsSwitch(t) /\ switching = t
         /\ \/ Arriving(t) /\ mem[t].ret = "reissue"
            \/ Undoing(t) /\ mem[t].ret = "settle"
  <1>1. IsSwitch(t)
    BY DEF SwitchThread, Writing, Unswitching
  <1>2. /\ mem[t].moving /\ mem[t].ret \in {"reissue", "settle"}
        /\ pc[t] # "lockSwitching" /\ pc[t] # "finish"
        /\ pc[t] = "retire" => mem[t].then # "finish"
    BY DEF Writing
  <1>3. Arriving(t) \/ Undoing(t)
    BY <1>1, <1>2 DEF SwitchThread, Coming, Leaving, InPlace, Ending
  <1>4. Arriving(t) => mem[t].ret = "reissue"
    BY <1>2 DEF Arriving
  <1> QED
    BY <1>1, <1>2, <1>3, <1>4 DEF SwitchThread, Undoing

LEMMA AppliedOn ==
  ASSUME NEW t \in Thread, SwitchThread(t), Writing(t),
         SamePlan(mem[t], mem'[t]), file' = file, switching' = switching,
         \/ pc'[t] = mem[t].ret
         \/ Writing(t)' /\ mem'[t].next = TargetOf(file.settings, file.version)
  PROVE  SwitchThread(t)'
  <1>1. /\ IsSwitch(t) /\ switching = t
        /\ \/ Arriving(t) /\ mem[t].ret = "reissue"
           \/ Undoing(t) /\ mem[t].ret = "settle"
    BY WritingStage
  <1>2. IsSwitch(t)'
    BY <1>1 DEF IsSwitch, SamePlan, Writing
  <1>3. /\ pc'[t] # "lockSwitching"
        /\ pc'[t] = mem[t].ret => ~Writing(t)'
        /\ pc'[t] = "retire" => mem'[t].then # "switched"
    BY <1>1 DEF Writing
  <1>4. CASE Arriving(t) /\ mem[t].ret = "reissue"
    <2>1. Arriving(t)'
      BY <1>4 DEF Arriving, Moving, Planned, SamePlan
    <2> QED
      BY <1>1, <1>2, <1>3, <2>1 DEF SwitchThread
  <1>5. CASE Undoing(t) /\ mem[t].ret = "settle"
    <2>1. Undoing(t)'
      BY <1>5 DEF Undoing, Moving, Planned, SamePlan
    <2> QED
      BY <1>1, <1>2, <1>3, <2>1 DEF SwitchThread
  <1> QED
    BY <1>1, <1>4, <1>5

LEMMA ApplyNothingOn ==
  ASSUME Inv, SwitchInv, NEW t \in Thread, ApplyNothing(t)
  PROVE  SwitchThread(t)' /\ FileInv'
  <1>1. /\ TypeOK /\ ThreadInv(t) /\ SwitchThread(t) /\ FileInv
        /\ mem \in [Thread -> Local] /\ pc \in [Thread -> Label]
    BY Has
  <1>2. /\ pc[t] = "apply" /\ mem' = mem /\ pc'[t] = mem[t].ret
        /\ \A u \in Thread \ {t} : pc'[u] = pc[u]
        /\ file' = file /\ target' = target /\ switching' = switching
    BY <1>1 DEF ApplyNothing, Return
  <1>3. InStep
    <2>1. file.settings # Malformed
      BY <1>1, BrokerAssumption DEF FileInv
    <2> QED
      BY <1>1, <2>1 DEF ApplyNothing, FileInv
  <1>4. CASE Writing(t)
    <2>1. SwitchThread(t)'
      BY <1>1, <1>2, <1>4, AppliedOn DEF SamePlan
    <2> QED
      BY <1>1, <1>2, <1>3, <2>1, FileKept
  <1>5. CASE ~Writing(t)
    <2>1. mem[t].ret \in Returns \cup {"idle"}
      <3>1. mem[t].ret \notin {"reissue", "settle"}
        BY <1>1, <1>2, <1>5 DEF SwitchThread, Unswitching, Coming, Leaving,
           InPlace, Arriving, Undoing, Ending, Moving, Issuing, Issues, Writing
      <3> QED
        BY <1>1, <3>1 DEF ThreadInv, ReturnsWell
    <2>2. SwitchThread(t)'
      BY <1>1, <1>2, <1>5, <2>1, Refreshed
    <2> QED
      BY <1>1, <1>2, <1>3, <1>5, <2>2, FileKept
  <1> QED
    BY <1>4, <1>5

LEMMA ApplyOn ==
  ASSUME Inv, SwitchInv, NEW t \in Thread, Apply(t)
  PROVE  SwitchThread(t)' /\ FileInv'
  <1>1. /\ TypeOK /\ ThreadInv(t) /\ SwitchThread(t) /\ FileInv
        /\ mem \in [Thread -> Local] /\ pc \in [Thread -> Label]
        /\ Memory(mem[t])
    BY Has
  <1>2. /\ pc[t] = "apply" /\ file.version # target.version
        /\ \A u \in Thread \ {t} : pc'[u] = pc[u] /\ mem'[u] = mem[u]
        /\ file' = file /\ target' = target /\ switching' = switching
    BY <1>1 DEF Apply
  <1>3. Writing(t)
    <2>1. ~InStep
      BY <1>2 DEF InStep, TargetOf
    <2>2. renewal = t
      BY <1>1, <1>2 DEF ThreadInv, Locked
    <2> QED
      BY <2>1, <2>2, OnlyWriter
  <1> DEFINE next == TargetOf(file.settings, file.version)
             m == [mem[t] EXCEPT !.next = next]
  <1>4. Memory(m) /\ SamePlan(mem[t], m) /\ m.next = next
    BY <1>1 DEF SamePlan, Memory, Blank
  <1>5. \/ /\ mem'[t] = Doomed(m, HoldNow, target.url, "dropToken")
           /\ pc'[t] \in {"retire", "dropToken"}
        \/ mem'[t] = m /\ pc'[t] = "dropToken"
    BY ZenonT(40), <1>1 DEF Apply, Retiring
  <1> HIDE DEF next, m
  <1>6. /\ SamePlan(mem[t], mem'[t]) /\ mem'[t].next = next
        /\ \/ pc'[t] = "retire" /\ mem'[t].then = "dropToken"
           \/ pc'[t] = "dropToken"
    BY <1>4, <1>5, DoomedApart, SamePlans
  <1>7. Writing(t)'
    BY <1>3, <1>6 DEF Writing, SamePlan
  <1>8. SwitchThread(t)'
    BY <1>1, <1>2, <1>3, <1>6, <1>7, AppliedOn DEF next
  <1> QED
    BY <1>1, <1>2, <1>7, <1>8, FileKept

\* Only a switch is at the steps that apply settings.
LEMMA Applies ==
  ASSUME NEW t \in Thread, SwitchThread(t), pc[t] \in {"dropToken", "retarget"}
  PROVE  Writing(t) /\ mem[t].next = TargetOf(file.settings, file.version)
  BY DEF SwitchThread, Unswitching, Coming, Leaving, InPlace, Arriving, Undoing,
     Ending, Issuing, Issues

LEMMA DropTokenOn ==
  ASSUME Inv, SwitchInv, NEW t \in Thread, DropToken(t)
  PROVE  SwitchThread(t)' /\ FileInv'
  <1>1. /\ TypeOK /\ SwitchThread(t) /\ FileInv
        /\ mem \in [Thread -> Local] /\ pc \in [Thread -> Label]
    BY Has
  <1>2. /\ pc[t] = "dropToken" /\ mem' = mem /\ pc'[t] = "retarget"
        /\ \A u \in Thread \ {t} : pc'[u] = pc[u]
        /\ file' = file /\ target' = target /\ switching' = switching
    BY <1>1 DEF DropToken
  <1>3. Writing(t) /\ mem[t].next = TargetOf(file.settings, file.version)
    BY <1>1, <1>2, Applies
  <1>4. Writing(t)'
    BY <1>2, <1>3 DEF Writing
  <1>5. SwitchThread(t)'
    BY <1>1, <1>2, <1>3, <1>4, AppliedOn DEF SamePlan
  <1> QED
    BY <1>1, <1>2, <1>4, <1>5, FileKept

LEMMA RetargetOn ==
  ASSUME Inv, SwitchInv, NEW t \in Thread, Retarget(t)
  PROVE  SwitchThread(t)' /\ FileInv'
  <1>1. /\ TypeOK /\ SwitchThread(t) /\ FileInv
        /\ mem \in [Thread -> Local] /\ pc \in [Thread -> Label]
    BY Has
  <1>2. /\ pc[t] = "retarget" /\ mem' = mem /\ pc'[t] = mem[t].ret
        /\ file' = file /\ target' = mem[t].next /\ switching' = switching
    BY <1>1 DEF Retarget, Return
  <1>3. Writing(t) /\ mem[t].next = TargetOf(file.settings, file.version)
    BY <1>1, <1>2, Applies
  <1>4. SwitchThread(t)'
    BY <1>1, <1>2, <1>3, AppliedOn DEF SamePlan
  <1>5. target' = TargetOf(file.settings, file.version) /\ InStep'
    BY <1>2, <1>3 DEF InStep
  <1>6. FileInv'
    <2>1. target'.version = file.version /\ file.version \in Nat
      BY <1>1, <1>5 DEF TargetOf, TypeOK
    <2> QED
      BY <1>1, <1>2, <1>5, <2>1 DEF FileInv
  <1> QED
    BY <1>4, <1>6

\* Where a thread goes on after a key was deleted.
LEMMA RetireOn ==
  ASSUME Inv, SwitchInv, NEW t \in Thread, Retire(t) \/ RetireFails(t)
  PROVE  SwitchThread(t)' /\ FileInv'
  <1>1. /\ TypeOK /\ ThreadInv(t) /\ SwitchThread(t) /\ FileInv
        /\ mem \in [Thread -> Local] /\ pc \in [Thread -> Label]
        /\ Memory(mem[t])
    BY Has
  <1>2. /\ pc[t] = "retire" /\ pc'[t] = mem[t].then
        /\ \A u \in Thread \ {t} : pc'[u] = pc[u] /\ mem'[u] = mem[u]
        /\ mem'[t] = [mem[t] EXCEPT !.doomed = NoHold]
        /\ file' = file /\ target' = target /\ switching' = switching
    BY <1>1 DEF Retire, RetireFails
  <1>3. /\ SamePlan(mem[t], mem'[t]) /\ mem'[t].next = mem[t].next
        /\ mem'[t].then = mem[t].then
    BY <1>1, <1>2 DEF SamePlan, Memory, Blank
  <1>4. mem[t].then \in {"dropToken", "explicit", "finish", "switched"}
    BY <1>1, <1>2 DEF ThreadInv, ReturnsWell
  <1>5. Writing(t) => Writing(t)'
    BY <1>2, <1>3 DEF Writing, SamePlan
  <1>6. CASE Writing(t)
    <2>1. mem[t].next = TargetOf(file.settings, file.version)
      BY <1>1, <1>2, <1>6, WritingStage DEF SwitchThread
    <2>2. SwitchThread(t)'
      BY <1>1, <1>2, <1>3, <1>5, <1>6, <2>1, AppliedOn
    <2> QED
      BY <1>1, <1>2, <1>5, <2>2, FileKept
  <1>7. CASE ~Writing(t) /\ IsSwitch(t)
    <2>1. \/ Arriving(t) /\ mem[t].then = "switched" /\ mem[t].ret = "reissue"
          \/ mem[t].then = "finish"
      <3>1. Arriving(t) \/ Undoing(t) \/ Ending(t)
        BY <1>1, <1>2, <1>7 DEF SwitchThread, Coming, Leaving, InPlace, Issuing,
           Issues
      <3> QED
        BY <1>2, <1>7, <3>1 DEF Arriving, Undoing, Ending, Issuing, Issues
    <2>2. IsSwitch(t)' /\ pc'[t] \in {"switched", "finish"} /\ ~Writing(t)'
          /\ switching = t
      BY <1>1, <1>2, <1>3, <1>7, <2>1
         DEF IsSwitch, SamePlan, Writing, SwitchThread
    <2>3. Arriving(t)' \/ Ending(t)'
      BY <1>2, <1>3, <2>1 DEF Arriving, Ending, Moving, Planned, SamePlan
    <2>4. SwitchThread(t)'
      BY <1>2, <2>2, <2>3 DEF SwitchThread
    <2> QED
      BY <1>1, <1>2, <1>7, <2>4, FileKept
  <1>8. CASE ~Writing(t) /\ ~IsSwitch(t)
    <2>1. ~IsSwitch(t)' /\ Unswitching(t)'
      BY <1>1, <1>2, <1>3, <1>4, <1>8
         DEF IsSwitch, SamePlan, SwitchThread, Unswitching
    <2>2. SwitchThread(t)'
      BY <2>1 DEF SwitchThread
    <2> QED
      BY <1>1, <1>2, <1>8, <2>2, FileKept
  <1> QED
    BY <1>6, <1>7, <1>8

\* A switch that stays with what it planned, and writes nothing.
LEMMA Stays ==
  ASSUME NEW t \in Thread, SwitchThread(t), FileInv,
         IsSwitch(t), pc[t] # "lockSwitching", ~Writing(t),
         pc'[t] \notin {"idle", "lockSwitching", "apply", "dropToken",
                        "retarget"},
         pc'[t] = "retire" =>
           /\ mem'[t].then # "dropToken"
           /\ mem'[t].then = "switched" =>
                For(mem'[t].doomed.key, mem'[t].before),
         mem'[t].req = mem[t].req, switching' = switching,
         file' = file, target' = target,
         \A u \in Thread \ {t} : pc'[u] = pc[u] /\ mem'[u] = mem[u],
         \/ Coming(t)' \/ Leaving(t)' \/ InPlace(t)' \/ Arriving(t)'
         \/ Undoing(t)' \/ Ending(t)'
  PROVE  SwitchThread(t)' /\ FileInv'
  <1>1. IsSwitch(t)' /\ ~Writing(t)' /\ switching' = t
    BY DEF IsSwitch, Writing, SwitchThread
  <1>2. SwitchThread(t)'
    BY <1>1 DEF SwitchThread, For
  <1> QED
    BY <1>2, FileKept

LEMMA IssueOn ==
  ASSUME Inv, SwitchInv, NEW t \in Thread, Issue(t)
  PROVE  SwitchThread(t)' /\ FileInv'
  <1>1. /\ TypeOK /\ SwitchThread(t) /\ FileInv
        /\ mem \in [Thread -> Local] /\ pc \in [Thread -> Label]
        /\ Memory(mem[t])
    BY Has
  <1>2. /\ pc[t] = "issue"
        /\ \A u \in Thread \ {t} : pc'[u] = pc[u] /\ mem'[u] = mem[u]
        /\ file' = file /\ target' = target /\ switching' = switching
    BY <1>1 DEF Issue
  <1>3. \E out : /\ pc'[t] \in {Served(mem[t].req.op, out), "lockIssue"}
                 /\ \/ mem'[t] = mem[t]
                    \/ mem'[t] = [mem[t] EXCEPT !.out = out]
    <2> DEFINE o == IF mem[t].seen.mode \notin Idp THEN DirectAnswer(mem[t].seen)
                    ELSE Issued(KeyToken(state.key))
    <2>1. \/ /\ Become(t, [mem[t] EXCEPT !.out = o])
             /\ Goto(t, Served(mem[t].req.op, o))
          \/ Become(t, mem[t]) /\ Goto(t, "lockIssue")
      BY DEF Issue
    <2> HIDE DEF o
    <2> QED
      BY <1>1, <2>1
  <1>4. /\ SamePlan(mem[t], mem'[t]) /\ mem'[t].then = mem[t].then
        /\ pc'[t] \in {"finish", "lockIssue", "proxyToken", "pair", "switched"}
        /\ mem[t].req.op \in Switches => pc'[t] \notin {"proxyToken", "pair"}
        /\ mem[t].req.op \notin Switches => pc'[t] # "switched"
    BY <1>1, <1>3 DEF Served, Switches, SamePlan, Memory, Blank
  <1>5. ~Writing(t)
    BY <1>2 DEF Writing
  <1>6. CASE IsSwitch(t)
    <2>1. InPlace(t) /\ mem[t].ret = "plan"
      BY <1>1, <1>2, <1>6 DEF SwitchThread, Coming, Leaving, InPlace, Arriving,
         Undoing, Ending, Writing, Issuing, Issues
    <2>2. mem[t].req.op \in Switches
      BY <1>6 DEF IsSwitch
    <2>3. InPlace(t)' \/ Ending(t)'
      BY <1>2, <1>4, <2>1, <2>2 DEF InPlace, Ending, SamePlan
    <2> QED
      BY <1>1, <1>2, <1>4, <1>5, <1>6, <2>2, <2>3, Stays DEF SamePlan
  <1>7. CASE ~IsSwitch(t)
    <2>1. mem[t].req.op \notin Switches
      BY <1>2, <1>7 DEF IsSwitch
    <2>2. ~IsSwitch(t)' /\ Unswitching(t)'
      BY <1>1, <1>2, <1>4, <1>7, <2>1
         DEF IsSwitch, SamePlan, SwitchThread, Unswitching
    <2>3. SwitchThread(t)'
      BY <2>2 DEF SwitchThread
    <2> QED
      BY <1>1, <1>2, <1>5, <2>3, FileKept
  <1> QED
    BY <1>6, <1>7

LEMMA LockSwitchingOn ==
  ASSUME Inv, SwitchInv, NEW t \in Thread, LockSwitching(t)
  PROVE  SwitchThread(t)' /\ FileInv'
  <1>1. /\ TypeOK /\ SwitchThread(t) /\ FileInv
        /\ mem \in [Thread -> Local] /\ pc \in [Thread -> Label]
    BY Has
  <1>2. /\ pc[t] = "lockSwitching" /\ pc'[t] = "refresh" /\ mem' = mem
        /\ \A u \in Thread \ {t} : pc'[u] = pc[u]
        /\ file' = file /\ target' = target /\ switching' = t
    BY <1>1 DEF LockSwitching
  <1>3. IsSwitch(t) /\ Coming(t)
    BY <1>1, <1>2 DEF SwitchThread, Unswitching, Leaving, InPlace, Arriving,
       Undoing, Ending, Writing, Issuing, Issues
  <1>4. IsSwitch(t)' /\ Coming(t)' /\ ~Writing(t)' /\ ~Writing(t)
    BY <1>2, <1>3 DEF IsSwitch, Coming, Writing
  <1>5. SwitchThread(t)'
    BY <1>2, <1>4 DEF SwitchThread
  <1> QED
    BY <1>1, <1>2, <1>4, <1>5, FileKept

\* A switch plans from settings that are in the file, and stays there until it
\* has written others.
LEMMA PlanOn ==
  ASSUME Inv, SwitchInv, NEW t \in Thread, Plan(t)
  PROVE  SwitchThread(t)' /\ FileInv'
  <1>1. /\ TypeOK /\ SwitchThread(t) /\ FileInv
        /\ mem \in [Thread -> Local] /\ pc \in [Thread -> Label]
        /\ Memory(mem[t])
    BY Has
  <1>2. /\ pc[t] = "plan"
        /\ \A u \in Thread \ {t} : pc'[u] = pc[u] /\ mem'[u] = mem[u]
        /\ file' = file /\ target' = target /\ switching' = switching
    BY ZenonT(40), <1>1 DEF Plan, Ends
  <1>3. IsSwitch(t) /\ Coming(t)
    BY <1>1, <1>2 DEF SwitchThread, Unswitching, Leaving, InPlace, Arriving,
       Undoing, Ending, Writing, Issuing, Issues
  <1>4. ~Writing(t) /\ mem[t].req.op \in Switches
    BY <1>2, <1>3 DEF Writing, IsSwitch
  <1> DEFINE s == file.settings
             patch == SwitchPatch(mem[t].req, s)
             unknown == /\ mem[t].req.op = "switch_environment"
                        /\ Destination(mem[t].req, s) = {}
  <1>5. \/ /\ pc'[t] = "finish"
           /\ \E x : mem'[t] = [mem[t] EXCEPT !.out = x]
        \/ /\ pc'[t] = "issue" /\ AlreadyThere(mem[t].req, s)
           /\ mem'[t] = [mem[t] EXCEPT !.seen = target]
        \/ /\ pc'[t] = "lockSwitch" /\ ~AlreadyThere(mem[t].req, s) /\ ~unknown
           /\ mem'[t] = [mem[t] EXCEPT !.loaded = s, !.patch = patch,
                           !.undo = Previous(patch.kind, s)]
    <2> DEFINE refusal ==
           IF target.mode \in StaticKey THEN "static_key"
           ELSE IF target.mode \notin Idp \/ s = Malformed THEN "gateway_error"
           ELSE IF unknown THEN "unknown_environment" ELSE None
    <2>1. refusal = None => ~unknown
      BY BrokerAssumption DEF Reason
    <2> HIDE DEF unknown
    <2>2. CASE refusal # None
      <3>1. Ends(t, [mem[t] EXCEPT !.out = Refused(refusal)])
        BY <2>2 DEF Plan, unknown
      <3> HIDE DEF refusal
      <3> QED
        BY <1>1, <3>1 DEF Ends
    <2>3. CASE refusal = None
      <3>1. IF AlreadyThere(mem[t].req, s)
            THEN /\ Become(t, [mem[t] EXCEPT !.seen = target])
                 /\ Goto(t, "issue")
            ELSE /\ Become(t, [mem[t] EXCEPT !.loaded = s, !.patch = patch,
                                             !.undo = Previous(patch.kind, s)])
                 /\ Goto(t, "lockSwitch")
        BY <2>3 DEF Plan, unknown
      <3> HIDE DEF refusal, patch
      <3> QED
        BY <1>1, <2>1, <2>3, <3>1
    <2> QED
      BY <2>2, <2>3
  <1>6. NamesOnce(s)
    BY <1>1 DEF FileInv
  <1> HIDE DEF patch
  <1>7. mem'[t].req = mem[t].req
    BY <1>1, <1>5 DEF Memory, Blank
  <1>8. Ending(t)' \/ InPlace(t)' \/ Leaving(t)'
    <2>1. CASE pc'[t] = "finish"
      BY <2>1 DEF Ending
    <2>2. CASE pc'[t] = "issue"
      <3>1. SamePlan(mem[t], mem'[t]) /\ AlreadyThere(mem[t].req, s)
        BY <1>1, <1>5, <2>2 DEF SamePlan, Memory, Blank
      <3> QED
        BY <1>2, <1>3, <2>2, <3>1 DEF InPlace, Coming, SamePlan
    <2>3. CASE pc'[t] = "lockSwitch"
      <3>1. /\ mem'[t].loaded = s /\ mem'[t].patch = patch
            /\ mem'[t].undo = Previous(patch.kind, s)
            /\ mem'[t].req = mem[t].req /\ mem'[t].ret = mem[t].ret
            /\ mem'[t].moving = mem[t].moving
            /\ ~AlreadyThere(mem[t].req, s) /\ ~unknown
        BY <1>1, <1>5, <2>3 DEF Memory, Blank
      <3>2. Planned(t)'
        BY <1>6, <3>1 DEF Planned, patch
      <3> QED
        BY <1>2, <1>3, <2>3, <3>1, <3>2 DEF Leaving, Coming
    <2> QED
      BY <1>5, <2>1, <2>2, <2>3
  <1>9. pc'[t] \in {"finish", "issue", "lockSwitch"}
    BY <1>5
  <1> QED
    BY <1>1, <1>2, <1>3, <1>4, <1>7, <1>8, <1>9, Stays

LEMMA LockSwitchOn ==
  ASSUME Inv, SwitchInv, NEW t \in Thread, LockSwitch(t)
  PROVE  SwitchThread(t)' /\ FileInv'
  <1>1. /\ TypeOK /\ SwitchThread(t) /\ FileInv
        /\ mem \in [Thread -> Local] /\ pc \in [Thread -> Label]
    BY Has
  <1>2. /\ pc[t] = "lockSwitch" /\ pc'[t] = "store" /\ mem' = mem
        /\ \A u \in Thread \ {t} : pc'[u] = pc[u]
        /\ file' = file /\ target' = target /\ switching' = switching
    BY <1>1 DEF LockSwitch
  <1>3. IsSwitch(t) /\ Leaving(t) /\ ~Writing(t)
    BY <1>1, <1>2 DEF SwitchThread, Unswitching, Coming, InPlace, Arriving,
       Undoing, Ending, Writing, Issuing, Issues
  <1>4. Leaving(t)'
    BY <1>2, <1>3 DEF Leaving, Planned
  <1> QED
    BY <1>1, <1>2, <1>3, <1>4, Stays

\* Settings that are saved are new, or what the file says.
LEMMA SavedAs ==
  ASSUME FileInv, TypeOK, NEW t \in Thread, NEW s \in Setting, NamesOnce(s),
         file' = Saved(s), target' = target, Writing(t)'
  PROVE  FileInv' /\ file'.settings = s
  <1>1. /\ file.version \in Nat /\ target.version \in Nat
        /\ target.version <= file.version
    BY DEF FileInv, TypeOK, TargetType
  <1>2. CASE s = file.settings
    BY <1>2 DEF Saved, FileInv, InStep
  <1>3. CASE s # file.settings
    <2>1. file' = [version |-> file.version + 1, settings |-> s]
      BY <1>3 DEF Saved
    <2>2. target'.version < file'.version
      BY <1>1, <2>1
    <2> QED
      BY <1>1, <2>1, <2>2 DEF FileInv
  <1> QED
    BY <1>2, <1>3

LEMMA StoreOn ==
  ASSUME Inv, SwitchInv, NEW t \in Thread, Store(t)
  PROVE  SwitchThread(t)' /\ FileInv'
  <1>1. /\ TypeOK /\ ThreadInv(t) /\ SwitchThread(t) /\ FileInv
        /\ mem \in [Thread -> Local] /\ pc \in [Thread -> Label]
        /\ Memory(mem[t]) /\ mem[t] \in Local
    BY Has
  <1>2. /\ pc[t] = "store" /\ pc'[t] = "apply"
        /\ file' = Saved(Applied(mem[t].patch, mem[t].loaded))
        /\ target' = target /\ switching' = switching
        /\ mem'[t] = [mem[t] EXCEPT !.before = target, !.held = HoldNow,
                                    !.moving = TRUE, !.ret = "reissue"]
    BY <1>1 DEF Store
  <1>3. /\ mem'[t].before = target /\ mem'[t].moving /\ mem'[t].ret = "reissue"
        /\ mem'[t].req = mem[t].req /\ mem'[t].loaded = mem[t].loaded
        /\ mem'[t].patch = mem[t].patch /\ mem'[t].undo = mem[t].undo
    BY <1>1, <1>2 DEF Memory, Blank
  <1>4. IsSwitch(t) /\ Leaving(t) /\ switching = t
    BY <1>1, <1>2 DEF SwitchThread, Unswitching, Coming, InPlace, Arriving,
       Undoing, Ending, Writing, Issuing, Issues
  <1>5. /\ ~Writing(t) /\ Writing(t)'
    BY <1>2, <1>3 DEF Writing
  <1>6. InStep
    <2>1. renewal = t
      BY <1>1, <1>2 DEF ThreadInv, Locked
    <2> QED
      BY <1>5, <2>1, OnlyWriter
  <1>7. SameGateway(target, TargetOf(mem[t].loaded, 0))
    BY <1>4, <1>6 DEF InStep, Leaving, SameGateway, TargetOf
  <1>8. /\ mem[t].patch \in Patch /\ mem[t].loaded \in Setting
        /\ NamesOnce(mem[t].loaded)
    BY <1>1, <1>4 DEF Local, Leaving, Planned
  <1>9. /\ Applied(mem[t].patch, mem[t].loaded) \in Setting
        /\ NamesOnce(Applied(mem[t].patch, mem[t].loaded))
    BY <1>8, AppliedType, AppliedKeeps
  <1>10. /\ FileInv'
         /\ file'.settings = Applied(mem[t].patch, mem[t].loaded)
    BY <1>1, <1>2, <1>5, <1>9, SavedAs
  <1>11. Planned(t)' /\ Moving(t)'
    BY <1>3, <1>4, <1>7 DEF Leaving, Planned, Moving
  <1>12. Arriving(t)'
    BY <1>3, <1>5, <1>10, <1>11 DEF Arriving
  <1>13. SwitchThread(t)'
    BY <1>2, <1>3, <1>4, <1>12 DEF SwitchThread, IsSwitch
  <1> QED
    BY <1>10, <1>13

\* What a switch does once it holds the answer of the new Gateway or team, and
\* before that answer.
LEMMA ArrivingOn ==
  ASSUME Inv, SwitchInv, NEW t \in Thread,
         Reissue(t) \/ SwitchDone(t) \/ SwitchUndone(t)
  PROVE  SwitchThread(t)' /\ FileInv'
  <1>1. /\ TypeOK /\ ThreadInv(t) /\ SwitchThread(t) /\ FileInv
        /\ mem \in [Thread -> Local] /\ pc \in [Thread -> Label]
        /\ Memory(mem[t])
    BY Has
  <1>2. /\ \/ pc[t] = "reissue"
           \/ pc[t] = "answer" /\ mem[t].moving
        /\ \A u \in Thread \ {t} : pc'[u] = pc[u] /\ mem'[u] = mem[u]
        /\ file' = file /\ target' = target /\ switching' = switching
    <2>1. CASE Reissue(t)
      BY <1>1, <2>1 DEF Reissue
    <2>2. CASE SwitchDone(t)
      BY <1>1, <2>2 DEF SwitchDone
    <2>3. CASE SwitchUndone(t)
      BY <1>1, <2>3 DEF SwitchUndone
    <2> QED
      BY <2>1, <2>2, <2>3
  <1>3. IsSwitch(t) /\ Arriving(t) /\ ~Writing(t) /\ mem[t].ret = "reissue"
    BY <1>1, <1>2 DEF SwitchThread, Unswitching, Coming, Leaving, InPlace,
       Arriving, Undoing, Ending, Writing, Issuing, Issues
  <1>4. /\ SamePlan(mem[t], mem'[t])
        /\ \/ pc'[t] \in {"begin", "switched", "restore"}
           \/ /\ pc'[t] = "retire" /\ mem'[t].then = "switched"
              /\ mem'[t].doomed = mem[t].held
    <2>1. CASE Reissue(t)
      BY <1>1, <2>1 DEF Reissue, SamePlan, Memory, Blank
    <2>2. CASE SwitchDone(t)
      <3> DEFINE m == [mem[t] EXCEPT !.held = NoHold]
      <3>1. Memory(m) /\ SamePlan(mem[t], m)
        BY <1>1 DEF SamePlan, Memory, Blank
      <3>2. /\ mem'[t] = Doomed(m, mem[t].held, mem[t].before.url, "switched")
            /\ pc'[t] \in {"retire", "switched"}
        BY <1>1, <2>2 DEF SwitchDone, Retiring
      <3> HIDE DEF m
      <3> QED
        BY <3>1, <3>2, DoomedApart, DoomedFields, SamePlans
    <2>3. CASE SwitchUndone(t)
      <3>1. mem'[t] = [mem[t] EXCEPT !.out = SwitchRefusal(mem[t].out)]
        BY <1>1, <2>3 DEF SwitchUndone, Memory, Blank
      <3>2. pc'[t] = "restore"
        BY <1>1, <2>3 DEF SwitchUndone
      <3> QED
        BY <1>1, <3>1, <3>2 DEF SamePlan, Memory, Blank
    <2> QED
      BY <2>1, <2>2, <2>3
  <1>5. Arriving(t)'
    BY <1>2, <1>3, <1>4
       DEF Arriving, Moving, Planned, SamePlan, Issuing, Issues
  <1>6. pc[t] # "lockSwitching" /\ mem'[t].req = mem[t].req
    BY <1>2, <1>4 DEF SamePlan
  <1>7. pc'[t] = "retire" =>
          /\ mem'[t].then = "switched"
          /\ For(mem'[t].doomed.key, mem'[t].before)
    BY <1>1, <1>4 DEF ThreadInv, HoldsWhatWasIssued, SamePlan
  <1> QED
    BY <1>1, <1>2, <1>3, <1>4, <1>5, <1>6, <1>7, Stays

LEMMA AnswerInPlaceOn ==
  ASSUME Inv, SwitchInv, NEW t \in Thread, AnswerInPlace(t)
  PROVE  SwitchThread(t)' /\ FileInv'
  <1>1. /\ TypeOK /\ SwitchThread(t) /\ FileInv
        /\ mem \in [Thread -> Local] /\ pc \in [Thread -> Label]
        /\ Memory(mem[t])
    BY Has
  <1>2. /\ pc[t] = "answer" /\ mem[t].req.op \in Switches /\ ~mem[t].moving
        /\ \A u \in Thread \ {t} : pc'[u] = pc[u] /\ mem'[u] = mem[u]
        /\ pc'[t] \in {"finish", "switched"}
        /\ file' = file /\ target' = target /\ switching' = switching
    BY <1>1 DEF AnswerInPlace, Ends
  <1>3. IsSwitch(t) /\ InPlace(t) /\ ~Writing(t) /\ mem[t].ret = "plan"
    BY <1>1, <1>2 DEF SwitchThread, IsSwitch, Coming, Leaving, InPlace,
       Arriving, Moving, Undoing, Ending, Writing
  <1>4. SamePlan(mem[t], mem'[t])
    <2>1. \/ mem'[t] = mem[t]
          \/ mem'[t] = [mem[t] EXCEPT !.out = SwitchRefusal(mem[t].out)]
      BY <1>1 DEF AnswerInPlace, Ends, Memory, Blank
    <2> QED
      BY <1>1, <2>1 DEF SamePlan, Memory, Blank
  <1>5. InPlace(t)' \/ Ending(t)'
    BY <1>2, <1>3, <1>4 DEF InPlace, Ending, SamePlan
  <1>6. pc[t] # "lockSwitching" /\ mem'[t].req = mem[t].req
    BY <1>2, <1>4 DEF SamePlan
  <1> QED
    BY <1>1, <1>2, <1>3, <1>5, <1>6, Stays

LEMMA SwitchedOn ==
  ASSUME Inv, SwitchInv, NEW t \in Thread, Switched(t)
  PROVE  SwitchThread(t)' /\ FileInv'
  <1>1. /\ TypeOK /\ SwitchThread(t) /\ FileInv
        /\ mem \in [Thread -> Local] /\ pc \in [Thread -> Label]
        /\ Memory(mem[t])
    BY Has
  <1>2. /\ pc[t] = "switched" /\ pc'[t] = "refresh"
        /\ \A u \in Thread \ {t} : pc'[u] = pc[u] /\ mem'[u] = mem[u]
        /\ mem'[t] = [mem[t] EXCEPT !.ret = "report"]
        /\ file' = file /\ target' = target /\ switching' = switching
    BY <1>1 DEF Switched
  <1>3. /\ mem'[t].ret = "report"
        /\ mem'[t].req = mem[t].req /\ mem'[t].moving = mem[t].moving
        /\ mem'[t].loaded = mem[t].loaded /\ mem'[t].patch = mem[t].patch
        /\ mem'[t].undo = mem[t].undo /\ mem'[t].before = mem[t].before
    BY <1>1, <1>2 DEF Memory, Blank
  <1>4. IsSwitch(t) /\ ~Writing(t) /\ (InPlace(t) \/ Arriving(t))
    BY <1>1, <1>2 DEF SwitchThread, Unswitching, Coming, Leaving, Undoing,
       Ending, Writing
  <1>5. InPlace(t)' \/ Arriving(t)'
    BY <1>2, <1>3, <1>4 DEF InPlace, Arriving, Moving, Planned
  <1> QED
    BY <1>1, <1>2, <1>3, <1>4, <1>5, Stays

\* The settings a failed switch puts back are those it started from.
LEMMA RestoreOn ==
  ASSUME Inv, SwitchInv, NEW t \in Thread, Restore(t)
  PROVE  SwitchThread(t)' /\ FileInv'
  <1>1. /\ TypeOK /\ SwitchThread(t) /\ FileInv
        /\ mem \in [Thread -> Local] /\ pc \in [Thread -> Label]
        /\ Memory(mem[t]) /\ mem[t] \in Local
    BY Has
  <1>2. /\ pc[t] = "restore" /\ pc'[t] = "apply"
        /\ \/ file' = Saved(Restored(mem[t]))
           \/ "store" \in Faults /\ file' = file
        /\ target' = target /\ switching' = switching
        /\ \A u \in Thread \ {t} : pc'[u] = pc[u] /\ mem'[u] = mem[u]
        /\ mem'[t] = [mem[t] EXCEPT !.ret = "settle"]
    BY <1>1 DEF Restore
  <1>3. /\ mem'[t].ret = "settle"
        /\ mem'[t].req = mem[t].req /\ mem'[t].moving = mem[t].moving
        /\ mem'[t].loaded = mem[t].loaded /\ mem'[t].patch = mem[t].patch
        /\ mem'[t].undo = mem[t].undo /\ mem'[t].before = mem[t].before
    BY <1>1, <1>2 DEF Memory, Blank
  <1>4. IsSwitch(t) /\ Arriving(t) /\ ~Writing(t) /\ switching = t
    BY <1>1, <1>2 DEF SwitchThread, Unswitching, Coming, Leaving, InPlace,
       Undoing, Ending, Writing, Issuing, Issues
  <1>5. Writing(t)'
    BY <1>2, <1>3, <1>4 DEF Writing, Arriving, Moving
  <1>6. /\ mem[t].patch \in Patch /\ mem[t].loaded \in Setting
        /\ NamesOnce(mem[t].loaded)
        /\ file.settings = Applied(mem[t].patch, mem[t].loaded)
        /\ mem[t].undo = Previous(mem[t].patch.kind, mem[t].loaded)
    BY <1>1, <1>4 DEF Local, Arriving, Moving, Planned
  <1>7. Restored(mem[t]) = mem[t].loaded
    <2>1. file.settings # Malformed
      BY <1>1, BrokerAssumption DEF FileInv
    <2> QED
      BY <1>6, <2>1, PreviousUndoesApplied DEF Restored
  <1>8. CASE file' = Saved(Restored(mem[t]))
    <2>1. FileInv' /\ file'.settings = mem[t].loaded
      BY <1>1, <1>2, <1>5, <1>6, <1>7, <1>8, SavedAs
    <2>2. Undoing(t)'
      BY <1>3, <1>4, <1>5, <2>1 DEF Undoing, Arriving, Moving, Planned
    <2> QED
      BY <1>2, <1>3, <1>4, <2>1, <2>2 DEF SwitchThread, IsSwitch
  <1>9. CASE "store" \in Faults /\ file' = file
    <2>1. FileInv'
      BY <1>1, <1>2, <1>4, <1>9, FileKept
    <2>2. Undoing(t)'
      BY <1>3, <1>4, <1>5, <1>6, <1>9 DEF Undoing, Arriving, Moving, Planned
    <2> QED
      BY <1>2, <1>3, <1>4, <2>1, <2>2 DEF SwitchThread, IsSwitch
  <1> QED
    BY <1>2, <1>8, <1>9

LEMMA SettleOn ==
  ASSUME Inv, SwitchInv, NEW t \in Thread, Settle(t)
  PROVE  SwitchThread(t)' /\ FileInv'
  <1>1. /\ TypeOK /\ SwitchThread(t) /\ FileInv
        /\ mem \in [Thread -> Local] /\ pc \in [Thread -> Label]
        /\ Memory(mem[t])
    BY Has
  <1>2. /\ pc[t] = "settle"
        /\ \A u \in Thread \ {t} : pc'[u] = pc[u] /\ mem'[u] = mem[u]
        /\ file' = file /\ target' = target /\ switching' = switching
    BY <1>1 DEF Settle, Ends
  <1>3. IsSwitch(t) /\ ~Writing(t)
    BY <1>1, <1>2 DEF SwitchThread, Unswitching, Writing
  <1> DEFINE m == [mem[t] EXCEPT !.held = NoHold]
  <1>4. Memory(m) /\ SamePlan(mem[t], m)
    BY <1>1 DEF SamePlan, Memory, Blank
  <1>5. \/ mem'[t] = m /\ pc'[t] = "finish"
        \/ /\ mem'[t] = Doomed(m, mem[t].held, mem[t].before.url, "finish")
           /\ pc'[t] \in {"retire", "finish"}
    <2>1. m.before = mem[t].before
      BY <1>4 DEF SamePlan
    <2> QED
      BY ZenonT(40), <1>1, <2>1 DEF Settle, Ends, Retiring
  <1> HIDE DEF m
  <1>6. /\ mem'[t].req = mem[t].req
        /\ \/ pc'[t] = "finish"
           \/ pc'[t] = "retire" /\ mem'[t].then = "finish"
    BY <1>4, <1>5, DoomedApart DEF SamePlan
  <1> QED
    BY <1>1, <1>2, <1>3, <1>6, Stays DEF Ending

-----------------------------------------------------------------------------
(* Every step *)

LEMMA ArriveOn ==
  ASSUME Inv, SwitchInv, NEW t \in Thread, Arrive(t)
  PROVE  SwitchThread(t)' /\ FileInv'
  <1>1. /\ TypeOK /\ FileInv
        /\ mem \in [Thread -> Local] /\ pc \in [Thread -> Label]
    BY Has
  <1>2. PICK r \in Request :
          /\ \E token : mem' =
               [mem EXCEPT ![t] = [Blank EXCEPT !.req = r,
                          !.presented = token, !.ret = AfterRefresh(r.op)]]
          /\ pc' = [pc EXCEPT ![t] =
                      CASE r.op = "sign_in"   -> "snapshot"
                        [] r.op \in Switches  -> "lockSwitching"
                        [] r.op = "shutdown"  -> "lockShutdown"
                        [] OTHER              -> "refresh"]
    BY DEF Arrive
  <1>3. /\ pc[t] = "idle" /\ file' = file /\ target' = target
        /\ switching' = switching
        /\ \A u \in Thread \ {t} : pc'[u] = pc[u] /\ mem'[u] = mem[u]
    BY <1>1 DEF Arrive
  <1>4. /\ mem'[t].req = r /\ mem'[t].ret = AfterRefresh(r.op)
        /\ ~mem'[t].moving
    BY <1>1, <1>2 DEF Blank
  <1>5. r.op \in Op
    BY BrokerAssumption
  <1>6. CASE r.op \in Switches
    <2>1. pc'[t] = "lockSwitching" /\ mem'[t].ret = "plan"
      BY <1>1, <1>2, <1>4, <1>6 DEF Switches, AfterRefresh
    <2> QED
      BY <1>1, <1>3, <1>4, <1>6, <2>1, FileKept
         DEF SwitchThread, IsSwitch, Coming, Writing
  <1>7. CASE r.op \notin Switches
    <2>1. /\ pc'[t] \in {"snapshot", "lockShutdown", "refresh"}
          /\ mem'[t].ret \notin {"plan", "reissue", "settle", "report"}
      BY <1>1, <1>2, <1>4, <1>5, <1>7 DEF Switches, AfterRefresh, Op
    <2> QED
      BY <1>1, <1>3, <1>4, <1>7, <2>1, FileKept
         DEF SwitchThread, IsSwitch, Unswitching, Writing
  <1> QED
    BY <1>6, <1>7

LEMMA FinishOn ==
  ASSUME Inv, SwitchInv, NEW t \in Thread, Finish(t)
  PROVE  SwitchThread(t)' /\ FileInv'
  <1>1. /\ TypeOK /\ FileInv
        /\ mem \in [Thread -> Local] /\ pc \in [Thread -> Label]
    BY Has
  <1>2. /\ pc[t] = "finish" /\ pc'[t] = "idle"
        /\ mem'[t] = [Blank EXCEPT !.req = mem[t].req, !.out = mem[t].out]
        /\ file' = file /\ target' = target
        /\ \A u \in Thread \ {t} : pc'[u] = pc[u] /\ mem'[u] = mem[u]
    BY <1>1 DEF Finish
  <1>3. /\ ~mem'[t].moving /\ mem'[t].ret = "idle"
    BY <1>2 DEF Blank
  <1> QED
    BY <1>1, <1>2, <1>3, FileKept
       DEF SwitchThread, IsSwitch, Unswitching, Writing

\* The steps by which requests go on.
LEMMA GoOn ==
  ASSUME Inv, SwitchInv, NEW t \in Thread, GoesOn(t), SamePlan(mem[t], mem'[t]),
         \A u \in Thread \ {t} : pc'[u] = pc[u] /\ mem'[u] = mem[u]
  PROVE  SwitchThread(t)' /\ FileInv'
  <1>1. SwitchThread(t) /\ FileInv
    BY Has
  <1>2. SwitchThread(t)' /\ ~Writing(t)
    BY <1>1, GoesOnSwitch
  <1> QED
    BY <1>1, <1>2, FileKept DEF GoesOn

LEMMA StoreFailsOn ==
  ASSUME TypeOK, NEW t \in Thread, StoreFails(t) \/ Report(t)
  PROVE  GoesOn(t) /\ SamePlan(mem[t], mem'[t])
  <1>1. /\ mem[t] \in Local /\ mem \in [Thread -> Local] /\ Memory(mem[t])
        /\ pc \in [Thread -> Label]
    BY Memories DEF TypeOK
  <1>2. /\ pc[t] \in {"store", "report"} /\ pc'[t] = "finish"
        /\ file' = file /\ target' = target /\ switching' = switching
    BY <1>1 DEF StoreFails, Report, Ends
  <1>3. \E x : mem'[t] = [mem[t] EXCEPT !.out = x]
    BY <1>1 DEF StoreFails, Report, Ends
  <1> QED
    BY <1>1, <1>2, <1>3 DEF GoesOn, Refreshes, SamePlan, Memory, Blank

LEMMA ThreadSwitches ==
  ASSUME Inv, SwitchInv, NEW t \in Thread, Arrive(t) \/ Run(t) \/ Browser(t)
  PROVE  SwitchThread(t)' /\ FileInv'
  <1>1. /\ TypeOK /\ SwitchThread(t)
    BY Has
  <1>2. \A u \in Thread \ {t} : pc'[u] = pc[u] /\ mem'[u] = mem[u]
    BY <1>1, FrameOf DEF Frame
  <1>3. CASE Refreshing(t)
    BY <1>3, RefreshOn, ApplyNothingOn, ApplyOn, DropTokenOn, RetargetOn,
       RetireOn DEF Refreshing
  <1>4. CASE Serving(t)
    BY <1>1, <1>2, <1>4, IssueOn, FinishOn, ServingOn, GoOn
  <1>5. CASE Renewing(t) \/ Minting(t) \/ Browser(t)
    BY <1>1, <1>2, <1>5, ResolvesOn, IssuesOnSwitch, AnswersOn, GoOn
       DEF Renewing, Minting, Browser, GetsCredential, IssuesOn
  <1>6. CASE Signing(t)
    BY <1>1, <1>2, <1>6, SigningOn, GoOn
  <1>7. CASE Switching(t)
    BY <1>1, <1>2, <1>7, LockSwitchingOn, PlanOn, LockSwitchOn, StoreOn,
       StoreFailsOn, ArrivingOn, AnswerInPlaceOn, SwitchedOn, RestoreOn,
       SettleOn, GoOn DEF Switching
  <1> QED
    BY <1>3, <1>4, <1>5, <1>6, <1>7, ArriveOn DEF Run

\* Only one switch is under way.
LEMMA SwitchingOf ==
  ASSUME TypeOK, NEW t \in Thread, SwitchThread(t),
         Arrive(t) \/ Run(t) \/ Browser(t)
  PROVE  /\ switching' = switching \/ switching \in {t, None}
         /\ file' = file \/ switching = t
  <1>1. CASE Refreshing(t)
    BY <1>1 DEF Refreshing, Refresh, LockRefresh, SkipRefresh, ApplyNothing,
       Apply, DropToken, Retarget, Retire, RetireFails, Return
  <1>2. CASE Serving(t)
    BY <1>2 DEF Serving, Admit, Account, Issue, LockIssue, SkipIssue, Present,
       ProxyKey, ProxyToken, Pair, Status, Finish, Ends
  <1>3. CASE Renewing(t)
    BY <1>3 DEF Renewing, Begin, ResolveFresh, ResolveFails, ResolveRefreshed,
       ResolveIdentity, IdentityReused, IdentityRenewed, IdentityMissing,
       OpenPage, Exchange, ExchangeFails, Keep, KeepNone, Dead, AnswerIssued,
       AnswerForward, AnswerSignIn, AnswerTick, Identified, Unidentified, Ends
  <1>4. CASE Minting(t)
    BY <1>4 DEF Minting, MintSkipped, Mint, MintRefused, MintFails, MintLost,
       MintUnauthorized, Tick, ExtendNotDue, Extend, ExtendFails,
       ExtendUnauthorized, ServeCredential
  <1>5. CASE Signing(t)
    BY <1>5 DEF Signing, Snapshot, JoinSignIn, OwnSignIn, Explicit, SignOut,
       Shutdown, Ends
  <1>6. CASE Store(t) \/ Restore(t)
    <2>1. /\ switching' = switching /\ pc[t] \in {"store", "restore"}
      BY <1>6 DEF Store, Restore
    <2>2. switching = t
      BY <2>1 DEF SwitchThread, Unswitching
    <2> QED
      BY <2>1, <2>2
  <1>7. CASE Switching(t) /\ ~Store(t) /\ ~Restore(t)
    BY ZenonT(40), <1>7
       DEF Switching, LockSwitching, Plan, LockSwitch, StoreFails,
       Reissue, AnswerInPlace, SwitchDone, Switched, Report, SwitchUndone,
       Settle, Ends
  <1>8. CASE Browser(t) \/ Arrive(t)
    BY <1>8 DEF Browser, BrowserSignsIn, BrowserFails, Identified, Unidentified,
       Arrive
  <1> QED
    BY <1>1, <1>2, <1>3, <1>4, <1>5, <1>6, <1>7, <1>8 DEF Run

\* What a thread at "settle" does next.
LEMMA SettlesOnly ==
  ASSUME TypeOK, NEW t \in Thread, pc[t] = "settle",
         Arrive(t) \/ Run(t) \/ Browser(t)
  PROVE  Settle(t)
  BY DEF Arrive, Run, Browser, Refreshing, Serving, Renewing, Minting, Signing,
     Switching, Refresh, LockRefresh, SkipRefresh, ApplyNothing,
     Apply, DropToken, Retarget, Retire, RetireFails, Admit, Account, Issue,
     LockIssue, SkipIssue, Present, ProxyKey, ProxyToken, Pair, Status, Finish,
     Begin, ResolveFresh, ResolveFails, ResolveRefreshed,
     ResolveIdentity, IdentityReused, IdentityRenewed, IdentityMissing,
     OpenPage, Exchange, ExchangeFails, Keep, KeepNone, Dead, AnswerIssued,
     AnswerForward, AnswerSignIn, AnswerTick, MintSkipped, Mint, Mints,
     MintRefused, MintFails, MintLost, MintUnauthorized, Tick, ExtendNotDue,
     Extend, ExtendFails, ExtendUnauthorized, Snapshot, JoinSignIn, OwnSignIn,
     Explicit, SignOut, Shutdown, LockSwitching, Plan, LockSwitch, Store,
     StoreFails, Reissue, AnswerInPlace, SwitchDone, Switched, Report,
     SwitchUndone, Restore, BrowserSignsIn, BrowserFails

LEMMA InitSwitchInv ==
  ASSUME Undisturbed, Init
  PROVE  SwitchInv
  <1>1. PICK s \in Installed : /\ file = [version |-> 1, settings |-> s]
                              /\ target = TargetOf(s, 1)
    BY DEF Init
  <1>2. s \in Setting /\ NamesOnce(s)
    BY <1>1, BrokerAssumption DEF Undisturbed
  <1>3. FileInv
    BY <1>1, <1>2 DEF FileInv, InStep, TargetOf
  <1>4. ASSUME NEW t \in Thread PROVE SwitchThread(t)
    BY DEF Init, SwitchThread, IsSwitch, Unswitching, Blank
  <1> QED
    BY <1>3, <1>4 DEF SwitchInv

LEMMA NextSwitchInv ==
  ASSUME Undisturbed, Inv, SwitchInv, [Next]_vars
  PROVE  SwitchInv'
  <1>1. CASE \E t \in Thread : Arrive(t) \/ Run(t) \/ Browser(t)
    <2>1. PICK t \in Thread : Arrive(t) \/ Run(t) \/ Browser(t)
      BY <1>1
    <2>2. TypeOK /\ SwitchThread(t)
      BY Has
    <2>3. SwitchThread(t)' /\ FileInv'
      BY <2>1, ThreadSwitches
    <2>4. \A u \in Thread \ {t} : pc'[u] = pc[u] /\ mem'[u] = mem[u]
      BY <2>1, <2>2, FrameOf DEF Frame
    <2>5. /\ switching' = switching \/ switching \in {t, None}
          /\ file' = file \/ switching = t
      BY <2>1, <2>2, SwitchingOf
    <2>6. ASSUME NEW u \in Thread \ {t} PROVE SwitchThread(u)'
      <3>1. SwitchThread(u)
        BY DEF SwitchInv
      <3> QED
        BY <2>2, <2>4, <2>5, <3>1, OtherSwitches
    <2> QED
      BY <2>3, <2>6 DEF SwitchInv
  <1>2. CASE Edit
    BY <1>2 DEF Edit, Undisturbed
  <1>3. CASE HalfLife \/ Expire \/ Terminated \/ UNCHANGED vars
    <2>1. UNCHANGED <<file, target, switching, pc, mem>>
      BY <1>3 DEF HalfLife, Expire, Terminated, vars
    <2>2. FileInv'
      BY <2>1 DEF SwitchInv, FileInv, InStep, Writing
    <2>3. ASSUME NEW t \in Thread PROVE SwitchThread(t)'
      BY <2>1 DEF SwitchInv, SwitchThread, IsSwitch, Unswitching, Coming,
         Leaving, InPlace, Arriving, Undoing, Ending, Writing, Moving, Planned,
         For
    <2> QED
      BY <2>2, <2>3 DEF SwitchInv
  <1> QED
    BY <1>1, <1>2, <1>3 DEF Next

\* On a device whose settings nobody else edits, the file, the target and the
\* plan of the one switch under way fit together.
THEOREM SwitchInvariance ==
  ASSUME Undisturbed
  PROVE  Spec => [](Inv /\ SwitchInv)
  <1>1. Init => Inv /\ SwitchInv
    BY InitInv, InitSwitchInv
  <1>2. Inv /\ SwitchInv /\ [Next]_vars => (Inv /\ SwitchInv)'
    BY NextInv, NextSwitchInv
  <1> QED
    BY <1>1, <1>2, PTL DEF Spec

\* The invariants of the keys and of the switches together.
THEOREM CustodyAndSwitchesHold ==
  ASSUME HonestGateway
  PROVE  Spec => []CustodyAndSwitches
  <1>1. CASE Undisturbed
    <2>1. CustodyInv /\ SwitchInv => CustodyAndSwitches
      BY DEF CustodyAndSwitches
    <2> QED
      BY <1>1, <2>1, KeyInvariance, SwitchInvariance, PTL
  <1>2. CASE ~Undisturbed
    <2>1. CustodyInv => CustodyAndSwitches
      BY <1>2 DEF CustodyAndSwitches
    <2> QED
      BY <2>1, KeyInvariance, PTL
  <1> QED
    BY <1>1, <1>2

-----------------------------------------------------------------------------
(* What follows of switches *)

\* A switch that reports has moved the broker to the team or the environment it
\* was asked for (switch_team, switch_environment).
THEOREM SwitchesMove ==
  ASSUME Undisturbed, NameAssumption
  PROVE  Spec => []SwitchedMeansMoved
  <1>1. ASSUME Inv, SwitchInv PROVE SwitchedMeansMoved
    <2> SUFFICES ASSUME NEW t \in Thread, pc[t] = "report"
                 PROVE  IF mem[t].req.op = "switch_team"
                        THEN target.team = mem[t].req.team
                        ELSE \A e \in EnvironmentNamed(file.settings,
                                                       mem[t].req.name) :
                               target.url = e.url
      BY DEF SwitchedMeansMoved
    <2> DEFINE m == mem[t]
               s == file.settings
    <2>1. /\ TypeOK /\ ThreadInv(t) /\ SwitchThread(t) /\ FileInv
          /\ mem[t] \in Local
      BY <1>1, Has
    <2>2. /\ IsSwitch(t) /\ switching = t /\ ~Writing(t)
          /\ InPlace(t) \/ Arriving(t)
      BY <2>1 DEF SwitchThread, Unswitching, Coming, Leaving, Undoing, Ending,
         Writing
    <2>3. /\ target.url = s.url /\ target.team = ManagedTeam(s)
      <3>1. InStep
        BY <1>1, <2>2, OnlyWriter
      <3> QED
        BY <3>1 DEF InStep, TargetOf
    <2>4. m.req \in Request /\ m.req.op \in Switches /\ m.req.name \in Name
      BY <2>1, <2>2, BrokerAssumption DEF ThreadInv, IsSwitch
    <2>5. s \in Setting /\ NamesOnce(s)
      BY <2>1 DEF FileInv
    <2>6. CASE InPlace(t)
      <3>1. AlreadyThere(m.req, s)
        BY <2>6 DEF InPlace
      <3>2. CASE m.req.op = "switch_team"
        BY <2>3, <3>1, <3>2 DEF AlreadyThere
      <3>3. CASE m.req.op = "switch_environment"
        <4>1. CurrentName(s) = m.req.name
          BY <3>1, <3>3 DEF AlreadyThere
        <4>2. CurrentEnvironment(s) # {}
          BY <2>4, <4>1 DEF CurrentName, NameAssumption
        <4>3. PICK f \in CurrentEnvironment(s) : f.name = m.req.name
          BY <4>1, <4>2 DEF CurrentName
        <4>4. PICK i \in DOMAIN s.environments : f = s.environments[i]
          BY <4>3 DEF CurrentEnvironment, EnvironmentWithUrl
        <4>5. f.url = s.url
          BY <2>5, <4>3, EnvironmentsFound DEF CurrentEnvironment
        <4>6. ASSUME NEW e \in EnvironmentNamed(s, m.req.name) PROVE e = f
          <5>1. PICK j \in DOMAIN s.environments :
                  /\ e = s.environments[j]
                  /\ s.environments[j].name = m.req.name
            BY DEF EnvironmentNamed
          <5>2. i = j
            BY <2>5, <4>3, <4>4, <5>1 DEF NamesOnce
          <5> QED
            BY <4>4, <5>1, <5>2
        <4> QED
          BY <2>3, <3>3, <4>5, <4>6
      <3> QED
        BY <2>4, <3>2, <3>3 DEF Switches
    <2>7. CASE Arriving(t)
      <3>1. /\ Planned(t) /\ s = Applied(m.patch, m.loaded)
            /\ m.patch = SwitchPatch(m.req, m.loaded)
            /\ NamesOnce(m.loaded) /\ ~AlreadyThere(m.req, m.loaded)
            /\ m.req.op = "switch_environment" =>
                 Destination(m.req, m.loaded) # {}
        BY <2>7 DEF Arriving, Moving, Planned
      <3>2. m.loaded \in Setting /\ m.patch \in Patch
        BY <2>1 DEF Local
      <3>3. IF m.req.op = "switch_team" THEN ManagedTeam(s) = m.req.team
            ELSE \A e \in EnvironmentNamed(m.loaded, m.req.name) : s.url = e.url
        BY <2>4, <3>1, <3>2, PatchLeads
      <3>4. EnvironmentNamed(s, m.req.name) = EnvironmentNamed(m.loaded, m.req.name)
        BY <3>1, <3>2, AppliedKeeps
      <3> QED
        BY <2>3, <3>3, <3>4
    <2> QED
      BY <2>2, <2>6, <2>7
  <1> QED
    BY <1>1, SwitchInvariance, PTL

\* A switch that failed has put back the settings, the key and the credential
\* it took (restore_after_failed_switch), if the settings can be written.
THEOREM FailedSwitchesRestore ==
  ASSUME Undisturbed, "store" \notin Faults
  PROVE  Spec => FailedSwitchRestores
  <1>1. ASSUME Inv, SwitchInv, [Next]_vars, NEW t \in Thread,
               pc[t] = "settle", pc'[t] # "settle"
        PROVE  /\ file.settings = mem[t].loaded
               /\ state'.key = mem[t].held.key
               /\ state'.credential = mem[t].held.credential
    <2>1. /\ TypeOK /\ ThreadInv(t) /\ SwitchThread(t) /\ FileInv
      BY <1>1, Has
    <2>2. Undoing(t) /\ ~Writing(t) /\ renewal = t
      BY <1>1, <2>1 DEF SwitchThread, Unswitching, Coming, Leaving, InPlace,
         Arriving, Ending, Issuing, Issues, Writing, ThreadInv, Locked
    <2>3. file.settings = mem[t].loaded
      BY <2>2 DEF Undoing
    <2>4. SameGateway(target, mem[t].before)
      <3>1. InStep
        BY <1>1, <2>2, OnlyWriter
      <3> QED
        BY <2>2, <2>3, <3>1
           DEF InStep, Undoing, Moving, SameGateway, TargetOf
    <2>5. Settle(t)
      <3>1. PICK u \in Thread : Arrive(u) \/ Run(u) \/ Browser(u)
        BY <1>1 DEF Next, Edit, HalfLife, Expire, Terminated, vars
      <3>2. u = t
        BY <1>1, <2>1, <3>1, FrameOf DEF Frame
      <3> QED
        BY <1>1, <2>1, <3>1, <3>2, SettlesOnly
    <2>6. /\ state' = [state EXCEPT !.key = mem[t].held.key,
                         !.credential = mem[t].held.credential,
                         !.mintRefusal = mem[t].held.mintRefusal]
      <3>1. Memory(mem[t])
        BY <1>1, Has
      <3>2. [mem[t] EXCEPT !.held = NoHold].before = mem[t].before
        BY <3>1 DEF Memory, Blank
      <3> QED
        BY <2>4, <2>5, <3>2 DEF Settle
    <2> QED
      BY <2>1, <2>3, <2>6 DEF TypeOK, State
  <1>2. Inv /\ SwitchInv /\ [Next]_vars =>
          [\A t \in Thread : pc[t] = "settle" /\ pc'[t] # "settle" =>
             /\ file.settings = mem[t].loaded
             /\ state'.key = mem[t].held.key
             /\ state'.credential = mem[t].held.credential]_vars
    BY <1>1
  <1> QED
    BY <1>2, SwitchInvariance, PTL DEF Spec, FailedSwitchRestores

\* No two keys of one Gateway and team are live: beside the one in the state
\* there is at most the one a switch took out, and that is another team's.
THEOREM KeysAreFew ==
  ASSUME HonestGateway, Undisturbed
  PROVE  Spec => []OneKeyPerTeam
  <1>1. ASSUME Inv, CustodyInv, SwitchInv PROVE OneKeyPerTeam
    <2>1. ASSUME NEW t \in Thread,
                 mem[t].held.key # None \/ mem[t].doomed.key # None
          PROVE  /\ renewal = t
                 /\ mem[t].held.key = None \/ mem[t].doomed.key = None
      <3>1. ThreadInv(t) /\ HoldsKeys(t)
        BY <1>1 DEF Inv, CustodyInv, KeyInv, KeyThread
      <3>2. pc[t] \in Locked
        BY <2>1, <3>1 DEF HoldsKeys, Bare, Locked, Issues
      <3>3. mem[t].held.key # None => pc[t] # "retire"
        BY <3>1 DEF HoldsKeys, Bare, Issues
      <3> QED
        BY <3>1, <3>2, <3>3 DEF ThreadInv, HoldsKeys
    <2>2. ASSUME NEW t \in Thread, state.key # None,
                 NEW k \in {mem[t].held.key, mem[t].doomed.key}, k # None
          PROVE  <<k.url, k.team>> # <<state.key.url, state.key.team>>
      <3> DEFINE m == mem[t]
                 then == Applied(m.patch, m.loaded)
      <3>1. /\ ThreadInv(t) /\ HoldsKeys(t) /\ MovesOn(t) /\ SwitchThread(t)
            /\ StateForTarget /\ mem[t] \in Local /\ renewal = t
        BY <1>1, <2>1, <2>2, Has DEF Inv, CustodyInv, KeyInv, KeyThread
      <3>2. \/ /\ m.moving /\ k = m.held.key /\ pc[t] = "answer"
            \/ /\ pc[t] = "retire" /\ m.then = "switched" /\ k = m.doomed.key
        BY <2>2, <3>1 DEF HoldsKeys
      <3>3. IsSwitch(t) /\ Arriving(t) /\ ~Writing(t)
        BY <3>1, <3>2 DEF SwitchThread, Unswitching, Coming, Leaving, InPlace,
           Undoing, Ending, Writing, Issuing, Issues
      <3>4. For(k, m.before)
        BY <3>1, <3>2, <3>3 DEF ThreadInv, HoldsWhatWasIssued, SwitchThread
      <3>5. target.url = then.url /\ target.team = ManagedTeam(then)
        <4>1. InStep
          BY <1>1, <3>1, <3>3, OnlyWriter
        <4> QED
          BY <3>3, <4>1 DEF InStep, TargetOf, Arriving
      <3>6. /\ m.before.url = m.loaded.url
            /\ m.before.team = ManagedTeam(m.loaded)
        BY <3>3 DEF Arriving, Moving, SameGateway, TargetOf
      <3>7. <<then.url, ManagedTeam(then)>> #
              <<m.loaded.url, ManagedTeam(m.loaded)>>
        <4>1. /\ m.patch = SwitchPatch(m.req, m.loaded)
              /\ NamesOnce(m.loaded) /\ ~AlreadyThere(m.req, m.loaded)
              /\ m.req.op = "switch_environment" =>
                   Destination(m.req, m.loaded) # {}
          BY <3>3 DEF Arriving, Moving, Planned
        <4>2. m.loaded \in Setting /\ m.req \in Request /\ m.req.op \in Switches
          BY <3>1, <3>3 DEF Local, ThreadInv, IsSwitch
        <4> QED
          BY <4>1, <4>2, PatchLeads
      <3>8. state.key.url = target.url /\ state.key.team = target.team
        BY <2>2, <3>1 DEF StateForTarget, For
      <3> QED
        BY <2>2, <3>4, <3>5, <3>6, <3>7, <3>8 DEF For
    <2> SUFFICES ASSUME NEW j \in live, NEW k \in live,
                        j.url = k.url, j.team = k.team
                 PROVE  j = k
      BY DEF OneKeyPerTeam
    <2>3. j # None /\ k # None
      <3>1. TypeOK
        BY <1>1 DEF Inv
      <3> QED
        BY <3>1, NoneIsNoKey
    <2>4. ASSUME NEW l \in live
          PROVE  \/ l = state.key
                 \/ \E t \in Thread : l \in {mem[t].held.key, mem[t].doomed.key}
      BY <1>1, <2>4 DEF CustodyInv, KeyInv, EveryLiveKeyIsHeld
    <2>5. CASE j = state.key \/ k = state.key
      BY <2>2, <2>3, <2>4, <2>5
    <2>6. CASE j # state.key /\ k # state.key
      <3>1. PICK t \in Thread : j \in {mem[t].held.key, mem[t].doomed.key}
        BY <2>4, <2>6
      <3>2. PICK u \in Thread : k \in {mem[u].held.key, mem[u].doomed.key}
        BY <2>4, <2>6
      <3>3. renewal = t /\ renewal = u
        BY <2>1, <2>3, <3>1, <3>2
      <3>4. mem[t].held.key = None \/ mem[t].doomed.key = None
        BY <2>1, <2>3, <3>1
      <3> QED
        BY <2>3, <3>1, <3>2, <3>3, <3>4
    <2> QED
      BY <2>5, <2>6
  <1> QED
    BY <1>1, KeyInvariance, SwitchInvariance, PTL
=============================================================================
