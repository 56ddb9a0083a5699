----------------------------- MODULE McpProofs -----------------------------
(* The MCP service, for any number of calls, any identities, tools and edits  *)
(* of the settings, and whatever the broker, the Gateway and the clients do.  *)
(* First the settings: after the first edit, reloads that overlap leave it    *)
(* with the section of the version it knows (until then it may have what the  *)
(* start left), and with the cap of its section; and its steps are steps      *)
(* of CallSlots, whose permits are conserved whatever the caps are.  Then the *)
(* session: its catalog is that of its identity and of the section of the     *)
(* moment; a server is active, and an "ask" tool runs, only after the user's  *)
(* yes; a client that was told that nothing was run is told the truth.        *)
EXTENDS McpService, FiniteSetTheorems, TLAPS

-----------------------------------------------------------------------------
(* The permits of CallSlots *)

\* What a cap and its debt come to stays within the semaphore's maximum: a
\* larger cap first pays what is owed.
DebtIsCovered == ledger.cap + ledger.owed <= MaxPermits

SlotInv == SlotTypeOK /\ PermitsAreConserved /\ DebtIsCovered

LEMMA LesserIsANumber ==
    ASSUME NEW m \in Nat, NEW n \in Nat
    PROVE  /\ Lesser(m, n) \in Nat
           /\ Lesser(m, n) <= m
           /\ Lesser(m, n) <= n
           /\ Lesser(m, n) = m \/ Lesser(m, n) = n
BY DEF Lesser

LEMMA BoundedIsACap ==
    ASSUME NEW n \in Nat \ {0}
    PROVE  Bounded(n) \in 1..MaxPermits
BY SlotAssumption DEF Bounded, Lesser

LEMMA OutIsFinite ==
    IsFiniteSet(Out) /\ IsFiniteSet(Out') /\ Cardinality(Out) \in Nat /\ Cardinality(Out') \in Nat
<1>1. Out \subseteq Call /\ Out' \subseteq Call
  BY DEF Out
<1>2. IsFiniteSet(Out) /\ IsFiniteSet(Out')
  BY <1>1, SlotAssumption, FS_Subset
<1> QED
  BY <1>2, FS_CardinalityType

LEMMA NobodyIsOut ==
    ASSUME slot = [c \in Call |-> "none"]
    PROVE  Cardinality(Out) = 0
<1>1. Out = {}
  BY DEF Out
<1> QED
  BY <1>1, FS_EmptySet

\* A permit leaves the semaphore, and comes back or is forgotten.
LEMMA OneMoreIsOut ==
    ASSUME SlotTypeOK, NEW c \in Call, slot[c] = "none",
           slot' = [slot EXCEPT ![c] = "held"]
    PROVE  Cardinality(Out') = Cardinality(Out) + 1
<1>1. c \notin Out /\ Out' = Out \cup {c}
  BY DEF Out, SlotTypeOK
<1> QED
  BY <1>1, OutIsFinite, FS_AddElement

LEMMA OneLessIsOut ==
    ASSUME SlotTypeOK, NEW c \in Call, slot[c] # "none",
           slot' = [slot EXCEPT ![c] = "none"]
    PROVE  Cardinality(Out') = Cardinality(Out) - 1
<1>1. c \in Out /\ Out' = Out \ {c}
  BY DEF Out, SlotTypeOK
<1> QED
  BY <1>1, OutIsFinite, FS_RemoveElement

-----------------------------------------------------------------------------
LEMMA InvAtTheStart ==
    ASSUME NEW n \in Nat \ {0}, SlotsInit(n)
    PROVE  SlotInv
<1>1. Bounded(n) \in 1..MaxPermits
  BY BoundedIsACap
<1>2. Cardinality(Out) = 0
  BY NobodyIsOut DEF SlotsInit
<1> QED
  BY <1>1, <1>2, SlotAssumption
  DEF SlotInv, SlotTypeOK, PermitsAreConserved, DebtIsCovered, SlotsInit

LEMMA InvOnGrow ==
    ASSUME SlotInv, NEW n \in Nat \ {0}, Grow(n), UNCHANGED slot
    PROVE  SlotInv'
<1> DEFINE added  == Bounded(n) - ledger.cap
           repaid == Lesser(added, ledger.owed)
<1>1. Bounded(n) \in 1..MaxPermits
  BY BoundedIsACap
<1>2. added \in Nat
  BY <1>1, SlotAssumption DEF Grow, SlotInv, SlotTypeOK
<1>3. repaid \in Nat /\ repaid <= added /\ repaid <= ledger.owed
      /\ (repaid = added \/ repaid = ledger.owed)
  BY <1>2, LesserIsANumber DEF SlotInv, SlotTypeOK
<1>4. ledger' = [cap |-> Bounded(n), owed |-> ledger.owed - repaid]
      /\ available' = available + added - repaid
  BY DEF Grow
<1>5. Cardinality(Out') = Cardinality(Out)
  BY DEF Out
<1> HIDE DEF repaid
<1> QED
  BY <1>1, <1>2, <1>3, <1>4, <1>5, OutIsFinite, SlotAssumption
  DEF SlotInv, SlotTypeOK, PermitsAreConserved, DebtIsCovered

LEMMA InvOnShrink ==
    ASSUME SlotInv, NEW n \in Nat \ {0}, Shrink(n), UNCHANGED slot
    PROVE  SlotInv'
<1> DEFINE removed   == ledger.cap - Bounded(n)
           forgotten == Lesser(removed, available)
<1>1. Bounded(n) \in 1..MaxPermits
  BY BoundedIsACap
<1>2. removed \in Nat
  BY <1>1, SlotAssumption DEF Shrink, SlotInv, SlotTypeOK
<1>3. forgotten \in Nat /\ forgotten <= removed /\ forgotten <= available
  BY <1>2, LesserIsANumber DEF SlotInv, SlotTypeOK
<1>4. ledger' = [cap |-> Bounded(n), owed |-> ledger.owed + removed - forgotten]
      /\ available' = available - forgotten
  BY DEF Shrink
<1>5. Cardinality(Out') = Cardinality(Out)
  BY DEF Out
<1> HIDE DEF forgotten
<1> QED
  BY <1>1, <1>2, <1>3, <1>4, <1>5, OutIsFinite, SlotAssumption
  DEF SlotInv, SlotTypeOK, PermitsAreConserved, DebtIsCovered

LEMMA InvOnResize ==
    ASSUME SlotInv, NEW n \in Nat \ {0}, Resize(n)
    PROVE  SlotInv'
<1>1. CASE Grow(n)
  BY <1>1, InvOnGrow DEF Resize
<1>2. CASE Shrink(n)
  BY <1>2, InvOnShrink DEF Resize
<1>3. CASE UNCHANGED <<available, ledger>>
  BY <1>3 DEF Resize, SlotInv, SlotTypeOK, PermitsAreConserved, DebtIsCovered, Out
<1> QED
  BY <1>1, <1>2, <1>3 DEF Resize

LEMMA InvOnAcquire ==
    ASSUME SlotInv, NEW c \in Call, Acquire(c)
    PROVE  SlotInv'
<1>1. Cardinality(Out') = Cardinality(Out) + 1
  BY OneMoreIsOut DEF SlotInv, Acquire
<1>2. slot' \in [Call -> {"none", "held", "returning"}]
  BY DEF SlotInv, SlotTypeOK, Acquire
<1> QED
  BY <1>1, <1>2, OutIsFinite, SlotAssumption
  DEF SlotInv, SlotTypeOK, PermitsAreConserved, DebtIsCovered, Acquire

LEMMA InvOnRelease ==
    ASSUME SlotInv, NEW c \in Call, Release(c)
    PROVE  SlotInv'
<1>1. slot' \in [Call -> {"none", "held", "returning"}]
  BY DEF SlotInv, SlotTypeOK, Release
<1>2. CASE ledger.owed > 0
  <2>1. Cardinality(Out') = Cardinality(Out) - 1
    BY <1>2, OneLessIsOut DEF SlotInv, Release
  <2> QED
    BY <1>1, <1>2, <2>1, OutIsFinite, SlotAssumption
    DEF SlotInv, SlotTypeOK, PermitsAreConserved, DebtIsCovered, Release
<1>3. CASE ledger.owed = 0
  <2>1. Out' = Out
    BY <1>3 DEF SlotInv, SlotTypeOK, Release, Out
  <2> QED
    BY <1>1, <1>3, <2>1 DEF SlotInv, SlotTypeOK, PermitsAreConserved, DebtIsCovered, Release
<1> QED
  BY <1>2, <1>3 DEF Release

LEMMA InvOnGiveBack ==
    ASSUME SlotInv, NEW c \in Call, GiveBack(c)
    PROVE  SlotInv'
<1>1. Cardinality(Out') = Cardinality(Out) - 1
  BY OneLessIsOut DEF SlotInv, GiveBack
<1>2. slot' \in [Call -> {"none", "held", "returning"}]
  BY DEF SlotInv, SlotTypeOK, GiveBack
<1> QED
  BY <1>1, <1>2, OutIsFinite, SlotAssumption
  DEF SlotInv, SlotTypeOK, PermitsAreConserved, DebtIsCovered, GiveBack

LEMMA InvOnStep ==
    ASSUME SlotInv, [SlotNext]_slotVars
    PROVE  SlotInv'
<1>1. CASE UNCHANGED slotVars
  BY <1>1 DEF slotVars, SlotInv, SlotTypeOK, PermitsAreConserved, DebtIsCovered, Out
<1>2. CASE SlotNext
  BY <1>2, SlotAssumption, InvOnResize, InvOnAcquire, InvOnRelease, InvOnGiveBack DEF SlotNext
<1> QED
  BY <1>1, <1>2

-----------------------------------------------------------------------------
\* The invariant of the slots holds in every behaviour: the ledger balances,
\* and no debt exceeds what the semaphore may hold.
THEOREM SlotsInvariance == SlotSpec => []SlotInv
<1>1. (\E n \in Caps : SlotsInit(n)) => SlotInv
  BY InvAtTheStart, SlotAssumption
<1>2. SlotInv /\ [SlotNext]_slotVars => SlotInv'
  BY InvOnStep
<1> QED
  BY <1>1, <1>2, PTL DEF SlotSpec

\* No permit of a tool call is lost and none is invented, whatever caps the
\* settings ask for while calls run.
THEOREM Conservation == SlotSpec => []PermitsAreConserved
BY SlotsInvariance, PTL DEF SlotInv

\* The semaphore is never given more permits than it can hold.
THEOREM NoOverflow == SlotSpec => []SemaphoreNeverOverflows
<1>1. SlotInv => SemaphoreNeverOverflows
  BY OutIsFinite, SlotAssumption
  DEF SlotInv, SlotTypeOK, PermitsAreConserved, DebtIsCovered, SemaphoreNeverOverflows
<1> QED
  BY <1>1, SlotsInvariance, PTL

-----------------------------------------------------------------------------
(* The settings of the service *)

\* What the records hold at least.
Shape ==
    /\ {"version", "section", "session"} \subseteq DOMAIN state
    /\ DOMAIN pc = Call
    /\ DOMAIN mem = Call
    /\ \A c \in Call : {"version", "section"} \subseteq DOMAIN mem[c]

\* A task that reloads the settings read their version before it read the file.
ReadInOrder(c) ==
    /\ pc[c] \in {"load", "store"} => mem[c].version \in 0..version
    /\ pc[c] = "store" =>
        /\ \E n \in DOMAIN Sections : mem[c].section = Sections[n]
        /\ mem[c].version = version => mem[c].section = Sections[version]

ServiceInv ==
    /\ Shape
    /\ version \in DOMAIN Sections
    /\ state.version \in 0..version
    /\ KnownVersionMeansKnownSection
    /\ CapFollowsSection
    /\ \A c \in Call : ReadInOrder(c)
    /\ SlotInv

\* What almost every step leaves alone: the settings, and, but for its own
\* task, which then reloads nothing, the reloads that are under way.
Aside(c) ==
    /\ version' = version
    /\ state'.version = state.version /\ state'.section = state.section
    /\ ledger'.cap = ledger.cap
    /\ \A d \in Call \ {c} : pc'[d] = pc[d] /\ mem'[d] = mem[d]
    /\ \/ pc'[c] \notin {"load", "store"}
       \/ /\ pc'[c] = pc[c]
          /\ mem'[c].version = mem[c].version /\ mem'[c].section = mem[c].section

LEMMA SectionsAreCaps ==
    ASSUME NEW n \in DOMAIN Sections
    PROVE  Sections[n].cap \in Caps /\ Sections[n].cap \in Nat \ {0} /\ n \in Nat \ {0}
<1>1. Sections[n].cap \in Caps
  BY McpAssumption
<1>2. n \in Nat \ {0}
  <2>1. Len(Sections) \in Nat \ {0} /\ DOMAIN Sections = 1..Len(Sections)
    BY McpAssumption
  <2> QED
    BY <2>1
<1> QED
  BY <1>1, <1>2, SlotAssumption

LEMMA AsideKeepsInv ==
    ASSUME ServiceInv, NEW c \in Call, Aside(c), Shape', [SlotNext]_slotVars
    PROVE  ServiceInv'
<1>1. SlotInv'
  BY InvOnStep DEF ServiceInv
<1>2. ReadInOrder(c)' /\ \A d \in Call \ {c} : ReadInOrder(d)'
  BY DEF ServiceInv, Aside, ReadInOrder
<1>3. KnownVersionMeansKnownSection' /\ CapFollowsSection'
  BY DEF ServiceInv, Aside, KnownVersionMeansKnownSection, CapFollowsSection, Bounded
<1> QED
  BY <1>1, <1>2, <1>3 DEF ServiceInv, Aside

-----------------------------------------------------------------------------
(* Steps that leave settings and slots alone *)

\* Admission, and the look at the settings that finds them as they were.
LEMMA SettingsAside ==
    ASSUME ServiceInv, NEW c \in Call,
           \/ Admit(c) \/ AdmitCaller(c) \/ AdmitRefused(c) \/ SettingsKnown(c)
           \/ SettingsUnreadable(c) \/ Identify(c) \/ Adopt(c)
    PROVE  Aside(c) /\ Shape' /\ UNCHANGED slotVars
<1>1. CASE Admit(c)
  BY <1>1 DEF Admit, Moves, Aside, Shape, ServiceInv, Goto, slotVars
<1>2. CASE AdmitCaller(c)
  BY <1>2 DEF AdmitCaller, Aside, Shape, ServiceInv, Goto, slotVars
<1>3. CASE AdmitRefused(c)
  BY <1>3 DEF AdmitRefused, Reply, Idle, Aside, Shape, ServiceInv, Goto, slotVars
<1>4. CASE SettingsKnown(c)
  BY <1>4 DEF SettingsKnown, Reloaded, Aside, Shape, ServiceInv, Goto, slotVars
<1>5. CASE SettingsUnreadable(c)
  BY <1>5 DEF SettingsUnreadable, Reloaded, Aside, Shape, ServiceInv, Goto, slotVars
<1>6. CASE Identify(c)
  BY <1>6 DEF Identify, Aside, Shape, ServiceInv, Goto, slotVars
<1>7. CASE Adopt(c)
  BY <1>7 DEF Adopt, Adopted, SessionOf, Reply, Idle, Aside, Shape, ServiceInv, Goto, slotVars
<1> QED
  BY <1>1, <1>2, <1>3, <1>4, <1>5, <1>6, <1>7

\* Fetching the catalog.
LEMMA CatalogAside ==
    ASSUME ServiceInv, NEW c \in Call,
           \/ NotDue(c) \/ FetchDue(c) \/ CatalogHeld(c) \/ NoCatalog(c)
           \/ Fetch(c) \/ Connect(c) \/ Listed(c) \/ NotListed(c)
    PROVE  Aside(c) /\ Shape' /\ UNCHANGED slotVars
<1>1. CASE NotDue(c)
  BY <1>1 DEF NotDue, Due, Reply, Idle, Aside, Shape, ServiceInv, Goto, slotVars
<1>2. CASE FetchDue(c)
  BY <1>2 DEF FetchDue, Due, Aside, Shape, ServiceInv, Goto, slotVars
<1>3. CASE CatalogHeld(c)
  BY <1>3 DEF CatalogHeld, Aside, Shape, ServiceInv, Goto, slotVars
<1>4. CASE NoCatalog(c)
  BY <1>4 DEF NoCatalog, Aside, Shape, ServiceInv, Goto, slotVars
<1>5. CASE Fetch(c)
  BY <1>5 DEF Fetch, SessionOf, Aside, Shape, ServiceInv, Goto, slotVars
<1>6. CASE Connect(c)
  BY <1>6 DEF Connect, Aside, Shape, ServiceInv, Goto, slotVars
<1>7. CASE Listed(c)
  BY <1>7 DEF Listed, KeptCatalog, SessionOf, Reply, Idle, Aside, Shape, ServiceInv, Goto, slotVars
<1>8. CASE NotListed(c)
  BY <1>8 DEF NotListed, Reply, Idle, Aside, Shape, ServiceInv, Goto, slotVars
<1> QED
  BY <1>1, <1>2, <1>3, <1>4, <1>5, <1>6, <1>7, <1>8

\* The operations, but for what they do with a slot.
LEMMA OperationAside ==
    ASSUME ServiceInv, NEW c \in Call,
           \/ Answer(c) \/ CheckCall(c) \/ CheckServer(c) \/ Early(c)
           \/ Ask(c) \/ Accepted(c) \/ Declined(c) \/ ReadIdentity(c)
           \/ Readopt(c) \/ Activate(c) \/ Switch(c) \/ ForgetFetchTime(c)
    PROVE  Aside(c) /\ Shape' /\ UNCHANGED slotVars
<1>1. CASE Answer(c)
  BY <1>1 DEF Answer, Reply, Idle, Aside, Shape, ServiceInv, Goto, slotVars
<1>2. CASE CheckCall(c)
  BY <1>2 DEF CheckCall, Reply, Idle, Aside, Shape, ServiceInv, Goto, slotVars
<1>3. CASE CheckServer(c)
  BY <1>3 DEF CheckServer, Reply, Idle, Aside, Shape, ServiceInv, Goto, slotVars
<1>4. CASE Early(c)
  BY <1>4 DEF Early, Reply, Idle, Aside, Shape, ServiceInv, Goto, slotVars
<1>5. CASE Ask(c)
  BY <1>5 DEF Ask, Reply, Idle, Aside, Shape, ServiceInv, Goto, slotVars
<1>6. CASE Accepted(c)
  BY <1>6 DEF Accepted, Aside, Shape, ServiceInv, Goto, slotVars
<1>7. CASE Declined(c)
  BY <1>7 DEF Declined, Reply, Idle, Aside, Shape, ServiceInv, Goto, slotVars
<1>8. CASE ReadIdentity(c)
  BY <1>8 DEF ReadIdentity, Aside, Shape, ServiceInv, Goto, slotVars
<1>9. CASE Readopt(c)
  BY <1>9 DEF Readopt, Adopted, SessionOf, Aside, Shape, ServiceInv, Goto, slotVars
<1>10. CASE Activate(c)
  BY <1>10 DEF Activate, SameSession, SessionOf, Reply, Idle, Aside, Shape, ServiceInv, Goto, slotVars
<1>11. CASE Switch(c)
  BY <1>11 DEF Switch, Moves, Reply, Idle, Aside, Shape, ServiceInv, Goto, slotVars
<1>12. CASE ForgetFetchTime(c)
  BY <1>12 DEF ForgetFetchTime, SessionOf, Reply, Idle, Aside, Shape, ServiceInv, Goto, slotVars
<1> QED
  BY <1>1, <1>2, <1>3, <1>4, <1>5, <1>6, <1>7, <1>8, <1>9, <1>10, <1>11, <1>12

\* The client and its stdio server: a call comes, a question is answered.
LEMMA ClientAside ==
    ASSUME ServiceInv, NEW c \in Call, Client(c) \/ StdioServer(c)
    PROVE  Aside(c) /\ Shape' /\ UNCHANGED slotVars
<1>1. CASE \E r \in Request[c] : Call_(c, r)
  BY <1>1 DEF Call_, Idle, Aside, Shape, ServiceInv, Goto, slotVars
<1>2. CASE ShowDialog(c)
  BY <1>2 DEF ShowDialog, Aside, Shape, ServiceInv, Goto, slotVars
<1>3. CASE \E answer \in Answers : UserAnswers(c, answer) \/ Resume(c, answer)
  BY <1>3 DEF UserAnswers, Resume, Aside, Shape, ServiceInv, Goto, slotVars
<1>4. CASE ResumeOther(c)
  BY <1>4 DEF ResumeOther, Aside, Shape, ServiceInv, Goto, slotVars
<1>5. CASE Die(c)
  BY <1>5 DEF Die, Aside, Shape, ServiceInv, Goto, slotVars
<1>6. CASE StdioServer(c)
  BY <1>6 DEF StdioServer, Unsupported, Park, Expire, Aside, Shape, ServiceInv, Goto, slotVars
<1> QED
  BY <1>1, <1>2, <1>3, <1>4, <1>5, <1>6 DEF Client

-----------------------------------------------------------------------------
(* Steps that move a slot *)

LEMMA SlotAside ==
    ASSUME ServiceInv, NEW c \in Call,
           TakeSlot(c) \/ CompareForCall(c) \/ CallEnds(c) \/ Drop(c)
    PROVE  Aside(c) /\ Shape' /\ [SlotNext]_slotVars
<1>1. CASE TakeSlot(c)
  BY <1>1 DEF TakeSlot, Acquire, SlotNext, Aside, Shape, ServiceInv, Goto
<1>2. Release(c) => ledger'.cap = ledger.cap
  BY DEF Release, ServiceInv, SlotInv, SlotTypeOK
<1>3. CASE CompareForCall(c)
  BY <1>2, <1>3 DEF CompareForCall, SlotNext, slotVars, Aside, Shape, ServiceInv, Goto
<1>4. CASE CallEnds(c)
  BY <1>2, <1>4 DEF CallEnds, SlotNext, Aside, Shape, ServiceInv, Goto
<1>5. CASE Drop(c)
  BY <1>5 DEF Drop, GiveBack, SlotNext, slotVars, Aside, Shape, ServiceInv, Goto, Reply, Idle
<1> QED
  BY <1>1, <1>3, <1>4, <1>5

-----------------------------------------------------------------------------
(* A reload: the version, then the file, then one section under the lock *)

LEMMA ReadVersion ==
    ASSUME ServiceInv, NEW c \in Call, SettingsChanged(c)
    PROVE  ServiceInv' /\ UNCHANGED slotVars
<1>1. UNCHANGED slotVars
  BY DEF SettingsChanged
<1>2. SlotInv'
  BY <1>1, InvOnStep DEF ServiceInv
<1>3. version \in 0..version
  BY SectionsAreCaps DEF ServiceInv
<1>4. ReadInOrder(c)' /\ \A d \in Call \ {c} : ReadInOrder(d)'
  BY <1>3 DEF SettingsChanged, ServiceInv, Shape, ReadInOrder, Goto
<1> QED
  BY <1>2, <1>4 DEF SettingsChanged, ServiceInv, Shape, Goto, slotVars,
     KnownVersionMeansKnownSection, CapFollowsSection, Bounded

LEMMA ReadSection ==
    ASSUME ServiceInv, NEW c \in Call, LoadSettings(c)
    PROVE  ServiceInv' /\ UNCHANGED slotVars
<1>1. UNCHANGED slotVars
  BY DEF LoadSettings
<1>2. SlotInv'
  BY <1>1, InvOnStep DEF ServiceInv
<1>3. ReadInOrder(c)' /\ \A d \in Call \ {c} : ReadInOrder(d)'
  BY DEF LoadSettings, ServiceInv, Shape, ReadInOrder, Goto
<1> QED
  BY <1>2, <1>3 DEF LoadSettings, ServiceInv, Shape, Goto, slotVars,
     KnownVersionMeansKnownSection, CapFollowsSection, Bounded

\* The cap is that of the section, whether it grew, shrank or stayed.
LEMMA ResizeFollows ==
    ASSUME NEW n, Resize(n)
    PROVE  ledger'.cap = Bounded(n)
BY DEF Resize, Grow, Shrink

LEMMA StoreReload ==
    ASSUME ServiceInv, NEW c \in Call, StoreSettings(c)
    PROVE  ServiceInv' /\ [SlotNext]_slotVars
<1> DEFINE new == mem[c].section
<1>1. PICK n \in DOMAIN Sections : new = Sections[n]
  BY DEF StoreSettings, ServiceInv, ReadInOrder
<1>2. new.cap \in Caps
  BY <1>1, SectionsAreCaps
<1>3. [SlotNext]_slotVars
  BY <1>2 DEF StoreSettings, SlotNext
<1>4. SlotInv'
  BY <1>3, InvOnStep DEF ServiceInv
<1>5. /\ state'.version = mem[c].version
      /\ state'.section = new
      /\ {"version", "section", "session"} \subseteq DOMAIN state'
  BY DEF StoreSettings, StoredVersion, ServiceInv, Shape
<1>6. CapFollowsSection'
  BY <1>5, ResizeFollows DEF StoreSettings, ServiceInv, CapFollowsSection, slotVars, Bounded
<1>7. KnownVersionMeansKnownSection' /\ state'.version \in 0..version'
  BY <1>5 DEF StoreSettings, ServiceInv, ReadInOrder, KnownVersionMeansKnownSection
<1>8. ReadInOrder(c)' /\ \A d \in Call \ {c} : ReadInOrder(d)'
  BY DEF StoreSettings, ServiceInv, Shape, ReadInOrder, Reloaded, Goto
<1>9. Shape'
  BY <1>5 DEF StoreSettings, ServiceInv, Shape, Reloaded, Goto
<1> QED
  BY <1>3, <1>4, <1>6, <1>7, <1>8, <1>9 DEF StoreSettings, ServiceInv

-----------------------------------------------------------------------------
(* The rest of the world *)

\* An edit makes every version that was read an old one.
LEMMA EditKeepsInv ==
    ASSUME ServiceInv, Edit
    PROVE  ServiceInv' /\ UNCHANGED slotVars
<1>1. UNCHANGED slotVars
  BY DEF Edit
<1>2. SlotInv'
  BY <1>1, InvOnStep DEF ServiceInv
<1>3. version \in Nat \ {0}
  BY SectionsAreCaps DEF ServiceInv
<1>4. version' \in DOMAIN Sections
  BY <1>3, McpAssumption DEF Edit
<1>5. \A c \in Call : ReadInOrder(c)'
  BY <1>3 DEF Edit, ServiceInv, ReadInOrder
<1>6. KnownVersionMeansKnownSection' /\ state'.version \in 0..version'
  BY <1>3 DEF Edit, ServiceInv, KnownVersionMeansKnownSection
<1> QED
  BY <1>1, <1>2, <1>4, <1>5, <1>6 DEF Edit, ServiceInv, Shape, slotVars, CapFollowsSection, Bounded

LEMMA WorldKeepsInv ==
    ASSUME ServiceInv, BrokerMoves \/ Age
    PROVE  ServiceInv' /\ UNCHANGED slotVars
<1>1. UNCHANGED slotVars /\ UNCHANGED <<version, pc, mem>>
  BY DEF BrokerMoves, Age, Moves
<1>2. SlotInv'
  BY <1>1, InvOnStep DEF ServiceInv
<1>3. /\ state'.version = state.version /\ state'.section = state.section
      /\ {"version", "section", "session"} \subseteq DOMAIN state'
  BY DEF BrokerMoves, Age, Moves, ServiceInv, Shape
<1> QED
  BY <1>1, <1>2, <1>3 DEF ServiceInv, Shape, slotVars, ReadInOrder,
     KnownVersionMeansKnownSection, CapFollowsSection, Bounded

-----------------------------------------------------------------------------
LEMMA ServiceStart ==
    ASSUME Init
    PROVE  ServiceInv /\ (\E n \in Caps : SlotsInit(n))
<1>1. 1 \in DOMAIN Sections
  BY McpAssumption
<1>2. PICK section \in {Sections[1]} \cup Earlier :
        /\ state = [version |-> 1, section |-> section, session |-> None]
        /\ SlotsInit(section.cap)
  BY DEF Init
<1>3. section.cap \in Caps
  BY <1>1, <1>2, SectionsAreCaps, McpAssumption
<1>4. SlotInv
  BY <1>2, <1>3, InvAtTheStart, SlotAssumption
<1>5. CapFollowsSection
  BY <1>2, <1>3, SlotAssumption DEF SlotsInit, CapFollowsSection, Bounded
<1>6. KnownVersionMeansKnownSection
  BY DEF Init, KnownVersionMeansKnownSection
<1> QED
  BY <1>1, <1>2, <1>3, <1>4, <1>5, <1>6 DEF Init, ServiceInv, Shape, ReadInOrder, Idle

LEMMA ServiceStep ==
    ASSUME ServiceInv, [Next]_vars
    PROVE  ServiceInv' /\ [SlotNext]_slotVars
<1>1. CASE UNCHANGED vars
  <2>1. SlotInv'
    BY <1>1, InvOnStep DEF vars, ServiceInv
  <2> QED
    BY <1>1, <2>1 DEF vars, serviceVars, slotVars, ServiceInv, Shape, ReadInOrder,
       KnownVersionMeansKnownSection, CapFollowsSection, Bounded
<1>2. ASSUME NEW c \in Call, Daemon(c) \/ TakeSlot(c) \/ Client(c) \/ StdioServer(c)
      PROVE  ServiceInv' /\ [SlotNext]_slotVars
  <2>1. CASE SettingsChanged(c) \/ LoadSettings(c) \/ StoreSettings(c)
    BY <2>1, ReadVersion, ReadSection, StoreReload
  <2>2. CASE TakeSlot(c) \/ CompareForCall(c) \/ CallEnds(c) \/ Drop(c)
    BY <2>2, SlotAside, AsideKeepsInv
  <2>3. CASE Client(c) \/ StdioServer(c)
    BY <2>3, ClientAside, AsideKeepsInv
  <2>4. CASE \/ Admit(c) \/ AdmitCaller(c) \/ AdmitRefused(c)
           \/ SettingsKnown(c) \/ SettingsUnreadable(c) \/ Identify(c)
           \/ Adopt(c)
    BY <2>4, SettingsAside, AsideKeepsInv
  <2>5. CASE \/ NotDue(c) \/ FetchDue(c) \/ CatalogHeld(c)
           \/ NoCatalog(c) \/ Fetch(c) \/ Connect(c)
           \/ Listed(c) \/ NotListed(c)
    BY <2>5, CatalogAside, AsideKeepsInv
  <2>6. CASE \/ Answer(c) \/ CheckCall(c) \/ CheckServer(c)
           \/ Early(c) \/ Ask(c) \/ Accepted(c)
           \/ Declined(c) \/ ReadIdentity(c) \/ Readopt(c)
           \/ Activate(c) \/ Switch(c) \/ ForgetFetchTime(c)
    BY <2>6, OperationAside, AsideKeepsInv
  <2> QED
    BY <1>2, <2>1, <2>2, <2>3, <2>4, <2>5, <2>6 DEF Daemon
<1> QED
  BY <1>1, <1>2, EditKeepsInv, WorldKeepsInv DEF Next

\* The invariant of the service's settings holds in every behaviour: what a
\* task read of them it read in the order version, file, and stores together.
THEOREM ServiceInvariance == Spec => []ServiceInv
<1>1. Init => ServiceInv
  BY ServiceStart
<1>2. ServiceInv /\ [Next]_vars => ServiceInv'
  BY ServiceStep
<1> QED
  BY <1>1, <1>2, PTL DEF Spec

\* Whatever section the start left under the first version, the service that
\* knows the version of an edit has the section of that edit or of a later one:
\* reloads that overlap never put an older one back.
THEOREM ReloadsSettle == Spec => []KnownVersionMeansKnownSection
BY ServiceInvariance, PTL DEF ServiceInv

\* The semaphore is resized to the cap of the very section that is stored.
THEOREM CapIsTheSections == Spec => []CapFollowsSection
BY ServiceInvariance, PTL DEF ServiceInv

\* Whatever the service does with its slots is a step of CallSlots or none.
THEOREM ServiceUsesSlots == Spec => SlotSpec
<1>1. Init => \E n \in Caps : SlotsInit(n)
  BY ServiceStart
<1>2. ServiceInv /\ [Next]_vars => [SlotNext]_slotVars
  BY ServiceStep
<1> QED
  BY <1>1, <1>2, ServiceInvariance, PTL DEF Spec, SlotSpec

\* The service loses no permit and invents none.
THEOREM ServiceConserves == Spec => []PermitsAreConserved
BY ServiceUsesSlots, Conservation, PTL

-----------------------------------------------------------------------------
(* The session: the invariant *)

\* A tool that runs without a question: decided so, and listed once.
Allowed(catalog, name) ==
    /\ catalog.entries[name].verdict = "allow"
    /\ Cardinality({i \in DOMAIN catalog.listed : catalog.listed[i].name = name}) = 1

\* Every tool of a catalog has to be asked for, or is allowed.
Judged(catalog) ==
    \A name \in DOMAIN catalog.entries :
        catalog.entries[name].verdict = "ask" \/ Allowed(catalog, name)

\* The catalog of the session is its identity's and follows the section; its
\* active servers are those the user accepted for that identity.
SessionSound ==
    /\ {"version", "section", "session"} \subseteq DOMAIN state
    /\ state.session # None =>
        /\ {"identity", "catalog", "active", "attempted"} \subseteq DOMAIN state.session
        /\ \A server \in state.session.active : <<state.session.identity, server>> \in confirmed
        /\ state.session.catalog # None =>
            /\ {"listed", "by", "entries"} \subseteq DOMAIN state.session.catalog
            /\ state.session.catalog.by = state.session.identity
            /\ state.session.catalog.entries = Build(state.session.catalog.listed, state.section)
            /\ IsFiniteSet(DOMAIN state.session.catalog.listed)
            /\ Judged(state.session.catalog)

BrokerSound ==
    /\ DOMAIN broker = {"identity", "move"}
    /\ broker.identity \in Identity \cup {None}

\* The bearer a task asks the Gateway with, and the connection it lists over.
Bearing(c) ==
    /\ pc[c] \notin {"idle", "admit"} /\ NeedsBearer(Op(c)) => mem[c].bearer \in Identity
    /\ pc[c] \in {"fetch", "connect", "listing"} => mem[c].bearer \in Identity
    /\ pc[c] = "listing" => mem[c].over = mem[c].bearer
    /\ pc[c] = "catalog" => NeedsBearer(Op(c))

\* Where a task has no catalog yet, nor an answer.
Unfetched == {"admit", "version", "load", "store", "identify", "adopt", "catalog",
                   "fetch", "due", "early"}

Fetched(c) ==
    /\ pc[c] \in Unfetched => mem[c].catalog = None /\ mem[c].answer = None
    /\ pc[c] = "serve" => Judged(mem[c].catalog)

\* A dialog or a parked conversation is that of a task that waits for it.
Waiting(c) ==
    front[c].stage \in {"asking", "parked"} => pc[c] = "asked" /\ mem[c].answer = None

\* A server that is about to be activated was accepted, for that bearer.
Consented(c) ==
    /\ mem[c].answer = "accept" \/ pc[c] \in {"same", "readopt", "compare"}
    /\ Op(c) = "activate"
    => <<mem[c].bearer, mem[c].req.server>> \in confirmed

\* A call on its way to the Gateway was said yes to, or is of an "allow" tool.
OnItsWay(c) ==
    \/ pc[c] \in {"slot", "same", "readopt", "compare", "running"}
    \/ pc[c] = "connect" /\ mem[c].catalog # None

Cleared(c) ==
    /\ pc[c] = "slot" => Op(c) = "call"
    /\ pc[c] = "running" => Op(c) = "call" /\ mem[c].catalog # None
    /\ mem[c].answer = "accept" => front[c].yes
    /\ OnItsWay(c) /\ Op(c) = "call" /\ ~front[c].yes => Allowed(mem[c].catalog, mem[c].req.name)

\* Who was told that nothing was run waits for nothing more, and nothing will be.
Truthful(c) ==
    /\ front[c].ran => pc[c] \in {"running", "drop"}
    /\ front[c].told = "nothing_run" =>
        /\ ~front[c].ran
        /\ front[c].stage = "none"
        /\ \/ pc[c] = "idle"
           \/ pc[c] = "asked" /\ mem[c].answer = None

TaskShape(c) ==
    /\ DOMAIN mem[c] = DOMAIN Idle
    /\ DOMAIN front[c] = DOMAIN Closed
    /\ front[c].yes \in BOOLEAN /\ front[c].ran \in BOOLEAN

TaskSound(c) ==
    /\ TaskShape(c)
    /\ Bearing(c)
    /\ Fetched(c)
    /\ Waiting(c)
    /\ Consented(c)
    /\ Cleared(c)
    /\ Truthful(c)

SessionInv ==
    /\ DOMAIN pc = Call /\ DOMAIN mem = Call /\ DOMAIN front = Call
    /\ BrokerSound
    /\ SessionSound
    /\ \A c \in Call : TaskSound(c)

-----------------------------------------------------------------------------
(* Catalogs *)

\* The listing of a Gateway before the settings group and decide it.
Raw(tools) ==
    [name \in {tools[i].name : i \in DOMAIN tools} |->
        [name        |-> name,
         server      |-> Ungrouped,
         own         |-> name,
         description |-> tools[Min({i \in DOMAIN tools : tools[i].name = name})].description,
         annotations |-> tools[Min({i \in DOMAIN tools : tools[i].name = name})].annotations,
         verdict     |-> "ask",
         listedTwice |-> Cardinality({i \in DOMAIN tools : tools[i].name = name}) > 1]]

LEMMA BuildIsSettledRaw ==
    ASSUME NEW tools, NEW section
    PROVE  Build(tools, section) = WithSettings(Raw(tools), section)
BY DEF Build, Raw

\* An entry as the service knows it.
Entry(name, server, own, description, annotations, verdict, listedTwice) ==
    [name |-> name, server |-> server, own |-> own, description |-> description,
     annotations |-> annotations, verdict |-> verdict, listedTwice |-> listedTwice]

\* The settings give an entry its server, its own name and its verdict; the
\* verdict it had before is not looked at.
LEMMA SettledForm ==
    ASSUME NEW n, NEW sv, NEW ow, NEW de, NEW an, NEW ve, NEW tw, NEW section
    PROVE  LET part == Split[section.separator][n]
           IN  Settled(Entry(n, sv, ow, de, an, ve, tw), section) =
               Entry(n, part.server, part.own, de, an,
                     Decide(Entry(n, part.server, part.own, de, an, "ask", tw), section.allow), tw)
<1> DEFINE part == Split[section.separator][n]
           e == Entry(n, sv, ow, de, an, ve, tw)
           grouped == [e EXCEPT !.server = part.server, !.own = part.own]
<1>1. grouped = Entry(n, part.server, part.own, de, an, ve, tw)
  <2>1. grouped = [[e EXCEPT !.server = part.server] EXCEPT !.own = part.own]
    OBVIOUS
  <2>2. [e EXCEPT !.server = part.server] = Entry(n, part.server, ow, de, an, ve, tw)
    BY DEF Entry
  <2>3. [Entry(n, part.server, ow, de, an, ve, tw) EXCEPT !.own = part.own] =
            Entry(n, part.server, part.own, de, an, ve, tw)
    BY DEF Entry
  <2> QED
    BY <2>1, <2>2, <2>3
<1>2. Settled(e, section) = [grouped EXCEPT !.verdict = Decide(grouped, section.allow)]
  BY DEF Settled, Entry
<1>3. Decide(grouped, section.allow) =
        Decide(Entry(n, part.server, part.own, de, an, "ask", tw), section.allow)
  BY <1>1 DEF Decide, Entry
<1> QED
  BY <1>1, <1>2, <1>3 DEF Entry

\* Settings that come later leave nothing of those before.
LEMMA SettledAgain ==
    ASSUME NEW tools, NEW s1, NEW s2, NEW name \in DOMAIN Raw(tools)
    PROVE  Settled(Settled(Raw(tools)[name], s1), s2) = Settled(Raw(tools)[name], s2)
<1>1. PICK de, an, tw : Raw(tools)[name] = Entry(name, Ungrouped, name, de, an, "ask", tw)
  BY DEF Raw, Entry
<1>2. \A s : \E sv, ow, ve : Settled(Raw(tools)[name], s) = Entry(name, sv, ow, de, an, ve, tw)
  BY <1>1, SettledForm
<1>3. PICK sv, ow, ve : Settled(Raw(tools)[name], s1) = Entry(name, sv, ow, de, an, ve, tw)
  BY <1>2
<1> QED
  BY <1>1, <1>3, SettledForm

\* A catalog that is settled again is the one a new listing would make.
LEMMA ResettledIsBuilt ==
    ASSUME NEW tools, NEW s1, NEW s2
    PROVE  WithSettings(Build(tools, s1), s2) = Build(tools, s2)
<1> DEFINE raw == Raw(tools)
<1> HIDE DEF raw
<1>1. \A name \in DOMAIN raw : Settled(Settled(raw[name], s1), s2) = Settled(raw[name], s2)
  BY SettledAgain DEF raw
<1>2. WithSettings(WithSettings(raw, s1), s2) = WithSettings(raw, s2)
  BY <1>1 DEF WithSettings
<1> QED
  BY <1>2, BuildIsSettledRaw DEF raw

\* "allow" is never the verdict on a name that was listed twice.
LEMMA BuildIsJudged ==
    ASSUME NEW catalog, NEW section, IsFiniteSet(DOMAIN catalog.listed),
           catalog.entries = Build(catalog.listed, section)
    PROVE  Judged(catalog)
<1> SUFFICES ASSUME NEW name \in DOMAIN catalog.entries
             PROVE  catalog.entries[name].verdict = "ask" \/ Allowed(catalog, name)
  BY DEF Judged
<1> DEFINE tools == catalog.listed
           twice == {i \in DOMAIN tools : tools[i].name = name}
           listedTwice == Cardinality(twice) > 1
           part == Split[section.separator][name]
           entry == Build(tools, section)[name]
<1>1. name \in DOMAIN Raw(tools) /\ entry = Settled(Raw(tools)[name], section)
  BY BuildIsSettledRaw DEF WithSettings
<1>2. PICK de, an : Raw(tools)[name] = Entry(name, Ungrouped, name, de, an, "ask", listedTwice)
  BY <1>1 DEF Raw, Entry
<1>3. Cardinality(twice) \in Nat /\ Cardinality(twice) # 0
  <2>1. twice # {} /\ twice \in SUBSET DOMAIN tools
    BY <1>1 DEF Raw
  <2> QED
    BY <2>1, FS_Subset, FS_CardinalityType, FS_EmptySet
<1> DEFINE g == Entry(name, part.server, part.own, de, an, "ask", listedTwice)
<1>4. entry = Entry(name, part.server, part.own, de, an, Decide(g, section.allow), listedTwice)
  BY <1>1, <1>2, SettledForm
<1>5. entry.verdict = Decide(g, section.allow)
  BY <1>4 DEF Entry
<1>6. Decide(g, section.allow) \in {"allow", "ask"}
  BY DEF Decide
<1>7. ASSUME listedTwice
      PROVE  Decide(g, section.allow) = "ask"
  BY <1>7 DEF Decide, Entry
<1> QED
  BY <1>3, <1>5, <1>6, <1>7 DEF Allowed

-----------------------------------------------------------------------------
(* What a step leaves alone *)

\* The other tasks stay where they are, and what users accepted stays so.
OthersAside(c) ==
    /\ DOMAIN pc' = Call /\ DOMAIN mem' = Call /\ DOMAIN front' = Call
    /\ \A d \in Call \ {c} : pc'[d] = pc[d] /\ mem'[d] = mem[d] /\ front'[d] = front[d]
    /\ confirmed \subseteq confirmed'

LEMMA OthersKeep ==
    ASSUME SessionInv, NEW c \in Call, OthersAside(c)
    PROVE  \A d \in Call \ {c} : TaskSound(d)'
<1> TAKE d \in Call \ {c}
<1>1. TaskSound(d)
  BY DEF SessionInv
<1> QED
  BY <1>1 DEF OthersAside, TaskSound, TaskShape, Bearing, Fetched, Waiting, Consented, Cleared, Truthful,
     OnItsWay, Unfetched, Entries, Op, NeedsBearer, Idle, Closed

LEMMA SameState ==
    ASSUME SessionSound, UNCHANGED state, confirmed \subseteq confirmed'
    PROVE  SessionSound'
BY DEF SessionSound, Judged

LEMMA NoneIsNoAnswer == None # "accept" /\ None \notin Identity
BY McpAssumption DEF Answers

\* A task that replies is done; it says that nothing was run only where it asked.
LEMMA ReplyEnds ==
    ASSUME SessionInv, NEW c \in Call, NEW outcome, Reply(c, outcome), UNCHANGED confirmed,
           outcome = "nothing_run" => pc[c] = "asked"
    PROVE  OthersAside(c) /\ TaskSound(c)'
<1>1. TaskSound(c) /\ DOMAIN pc = Call /\ DOMAIN mem = Call /\ DOMAIN front = Call
  BY DEF SessionInv
<1>2. OthersAside(c)
  BY <1>1 DEF Reply, Goto, OthersAside
<1>3. pc'[c] = "idle" /\ mem'[c] = Idle
  BY <1>1 DEF Reply, Goto
<1>4. front[c].told = "nothing_run" \/ outcome = "nothing_run" => front[c].ran = FALSE
  BY <1>1 DEF TaskSound, TaskShape, Truthful
<1>5. /\ front'[c].stage = "none" /\ front'[c].yes = FALSE /\ front'[c].ran = FALSE
      /\ DOMAIN front'[c] = DOMAIN Closed
  <2>1. CASE front'[c] = Closed
    BY <2>1 DEF Closed
  <2>2. CASE /\ front'[c] = [Closed EXCEPT !.told = "nothing_run", !.ran = front[c].ran]
             /\ front[c].ran = FALSE
    BY <2>2 DEF Closed
  <2> QED
    BY <1>1, <1>4, <2>1, <2>2 DEF Reply
<1>6. TaskShape(c)' /\ Waiting(c)' /\ Truthful(c)'
  BY <1>3, <1>5 DEF TaskShape, Waiting, Truthful
<1>7. Bearing(c)' /\ Fetched(c)' /\ Consented(c)' /\ Cleared(c)'
  BY <1>3, NoneIsNoAnswer DEF Bearing, Fetched, Unfetched, Consented, Cleared, OnItsWay, Idle
<1> QED
  BY <1>2, <1>6, <1>7 DEF TaskSound

-----------------------------------------------------------------------------
(* Steps of a task that leave the state of the service alone *)

LEMMA SettingsRead ==
    ASSUME SessionInv, NEW c \in Call,
           AdmitCaller(c) \/ SettingsKnown(c) \/ SettingsChanged(c) \/ SettingsUnreadable(c) \/ LoadSettings(c) \/ Identify(c)
    PROVE  OthersAside(c) /\ TaskSound(c)' /\ UNCHANGED state
<1>0. TaskSound(c)
  BY DEF SessionInv
<1>1. CASE AdmitCaller(c)
  BY <1>0, <1>1 DEF AdmitCaller, SessionInv, OthersAside, Goto,
       TaskSound, TaskShape, Bearing, Fetched, Waiting, Consented,
       Cleared, Truthful, OnItsWay, Unfetched, Entries, Op, NeedsBearer, Idle, Closed
<1>2. CASE SettingsKnown(c)
  BY <1>0, <1>2 DEF SettingsKnown, Reloaded, SessionInv, OthersAside, Goto,
       TaskSound, TaskShape, Bearing, Fetched, Waiting, Consented,
       Cleared, Truthful, OnItsWay, Unfetched, Entries, Op, NeedsBearer, Idle, Closed
<1>3. CASE SettingsChanged(c)
  BY <1>0, <1>3 DEF SettingsChanged, SessionInv, OthersAside, Goto,
       TaskSound, TaskShape, Bearing, Fetched, Waiting, Consented,
       Cleared, Truthful, OnItsWay, Unfetched, Entries, Op, NeedsBearer, Idle, Closed
<1>4. CASE SettingsUnreadable(c)
  BY <1>0, <1>4 DEF SettingsUnreadable, Reloaded, SessionInv, OthersAside, Goto,
       TaskSound, TaskShape, Bearing, Fetched, Waiting, Consented,
       Cleared, Truthful, OnItsWay, Unfetched, Entries, Op, NeedsBearer, Idle, Closed
<1>5. CASE LoadSettings(c)
  BY <1>0, <1>5 DEF LoadSettings, SessionInv, OthersAside, Goto,
       TaskSound, TaskShape, Bearing, Fetched, Waiting, Consented,
       Cleared, Truthful, OnItsWay, Unfetched, Entries, Op, NeedsBearer, Idle, Closed
<1>6. CASE Identify(c)
  BY <1>0, <1>6 DEF Identify, SessionInv, OthersAside, Goto,
       TaskSound, TaskShape, Bearing, Fetched, Waiting, Consented,
       Cleared, Truthful, OnItsWay, Unfetched, Entries, Op, NeedsBearer, Idle, Closed
<1> QED
  BY <1>1, <1>2, <1>3, <1>4, <1>5, <1>6

LEMMA Fetching ==
    ASSUME SessionInv, NEW c \in Call,
           FetchDue(c) \/ CatalogHeld(c) \/ NoCatalog(c) \/ Connect(c)
    PROVE  OthersAside(c) /\ TaskSound(c)' /\ UNCHANGED state
<1>0. TaskSound(c)
  BY DEF SessionInv
<1>1. CASE FetchDue(c)
  BY <1>0, <1>1, NoneIsNoAnswer DEF FetchDue, Due, BrokerSound, SessionInv, OthersAside, Goto,
       TaskSound, TaskShape, Bearing, Fetched, Waiting, Consented,
       Cleared, Truthful, OnItsWay, Unfetched, Entries, Op, NeedsBearer, Idle, Closed
<1>2. CASE CatalogHeld(c)
  BY <1>0, <1>2 DEF CatalogHeld, HasCatalog, SessionSound, Judged, SessionInv, OthersAside, Goto,
       TaskSound, TaskShape, Bearing, Fetched, Waiting, Consented,
       Cleared, Truthful, OnItsWay, Unfetched, Entries, Op, NeedsBearer, Idle, Closed
<1>3. CASE NoCatalog(c)
  BY <1>0, <1>3 DEF NoCatalog, SessionInv, OthersAside, Goto,
       TaskSound, TaskShape, Bearing, Fetched, Waiting, Consented,
       Cleared, Truthful, OnItsWay, Unfetched, Entries, Op, NeedsBearer, Idle, Closed
<1>4. CASE Connect(c)
  <2>1. CASE Op(c) = "call" /\ mem[c].catalog # None
    <3>1. /\ mem' = [mem EXCEPT ![c].over = mem[c].bearer]
          /\ pc' = [pc EXCEPT ![c] = "running"]
          /\ front' = [front EXCEPT ![c].ran = TRUE]
          /\ pc[c] = "connect" /\ UNCHANGED <<state, confirmed>>
      BY <1>4, <2>1 DEF Connect, ConnectedFor, Goto
    <3>2. /\ mem'[c] = [mem[c] EXCEPT !.over = mem[c].bearer]
          /\ pc'[c] = "running"
          /\ front'[c] = [front[c] EXCEPT !.ran = TRUE]
      BY <3>1 DEF SessionInv
    <3>3. OthersAside(c)
      BY <3>1 DEF OthersAside, SessionInv
    <3>4. /\ mem'[c].catalog = mem[c].catalog /\ mem'[c].req = mem[c].req
          /\ mem'[c].bearer = mem[c].bearer
          /\ front'[c].stage = front[c].stage
          /\ TaskShape(c)'
      BY <1>0, <3>2 DEF TaskSound, TaskShape, Idle, Closed
    <3>5. Bearing(c)' /\ Waiting(c)' /\ Consented(c)'
      BY <1>0, <3>1, <3>2, <3>4 DEF TaskSound, Bearing, Waiting, Consented, Op, NeedsBearer
    <3>6. Fetched(c)'
      BY <1>0, <3>1, <3>2, <3>4 DEF TaskSound, Fetched, Unfetched
    <3>7. Cleared(c)' /\ Truthful(c)'
      BY <1>0, <2>1, <3>1, <3>2 DEF TaskSound, TaskShape, Cleared, Truthful, OnItsWay,
         Entries, Op, Idle, Closed
    <3> QED
      BY <3>1, <3>3, <3>4, <3>5, <3>6, <3>7 DEF TaskSound
  <2>2. CASE ~(Op(c) = "call" /\ mem[c].catalog # None)
    BY <1>0, <1>4, <2>2 DEF Connect, ConnectedFor, SessionInv, OthersAside, Goto,
       TaskSound, TaskShape, Bearing, Fetched, Waiting, Consented,
       Cleared, Truthful, OnItsWay, Unfetched, Entries, Op, NeedsBearer, Idle, Closed
  <2> QED
    BY <2>1, <2>2
<1> QED
  BY <1>1, <1>2, <1>3, <1>4

LEMMA Confirming ==
    ASSUME SessionInv, NEW c \in Call,
           Accepted(c) \/ TakeSlot(c) \/ ReadIdentity(c) \/ CompareForCall(c) \/ CallEnds(c)
    PROVE  OthersAside(c) /\ TaskSound(c)' /\ UNCHANGED state
<1>0. TaskSound(c)
  BY DEF SessionInv
<1>1. CASE Accepted(c)
  BY <1>0, <1>1, NoneIsNoAnswer DEF Accepted, SessionInv, OthersAside, Goto,
       TaskSound, TaskShape, Bearing, Fetched, Waiting, Consented,
       Cleared, Truthful, OnItsWay, Unfetched, Entries, Op, NeedsBearer, Idle, Closed
<1>2. CASE TakeSlot(c)
  BY <1>0, <1>2 DEF TakeSlot, SessionInv, OthersAside, Goto,
       TaskSound, TaskShape, Bearing, Fetched, Waiting, Consented,
       Cleared, Truthful, OnItsWay, Unfetched, Entries, Op, NeedsBearer, Idle, Closed
<1>3. CASE ReadIdentity(c)
  BY <1>0, <1>3 DEF ReadIdentity, SessionInv, OthersAside, Goto,
       TaskSound, TaskShape, Bearing, Fetched, Waiting, Consented,
       Cleared, Truthful, OnItsWay, Unfetched, Entries, Op, NeedsBearer, Idle, Closed
<1>4. CASE CompareForCall(c)
  BY <1>0, <1>4 DEF CompareForCall, SessionInv, OthersAside, Goto,
       TaskSound, TaskShape, Bearing, Fetched, Waiting, Consented,
       Cleared, Truthful, OnItsWay, Unfetched, Entries, Op, NeedsBearer, Idle, Closed
<1>5. CASE CallEnds(c)
  BY <1>0, <1>5 DEF CallEnds, SessionInv, OthersAside, Goto,
       TaskSound, TaskShape, Bearing, Fetched, Waiting, Consented,
       Cleared, Truthful, OnItsWay, Unfetched, Entries, Op, NeedsBearer, Idle, Closed
<1> QED
  BY <1>1, <1>2, <1>3, <1>4, <1>5

-----------------------------------------------------------------------------
(* Steps of a task that may end it *)

LEMMA Refusing ==
    ASSUME SessionInv, NEW c \in Call,
           \/ AdmitRefused(c) \/ NotListed(c) \/ Answer(c) \/ Declined(c) \/ Drop(c)
    PROVE  OthersAside(c) /\ TaskSound(c)' /\ UNCHANGED <<state, broker>>
BY ReplyEnds DEF AdmitRefused, NotListed, Answer, Declined, Drop

\* A task that only goes on to its next point.
LEMMA GoesOn ==
    ASSUME SessionInv, NEW c \in Call, NEW step \in {"slot", "ask", "asked", "forget"},
           pc[c] \in {"serve", "early", "ask", "switch"},
           Goto(c, step), UNCHANGED <<mem, front, confirmed>>,
           step = "slot" => Op(c) = "call" /\ Allowed(mem[c].catalog, mem[c].req.name)
    PROVE  OthersAside(c) /\ TaskSound(c)'
<1>0. TaskSound(c) /\ pc'[c] = step
  BY DEF SessionInv, Goto
<1>1. OthersAside(c)
  BY DEF SessionInv, OthersAside, Goto
<1>2. UNCHANGED <<mem[c], front[c], Op(c)>>
  BY DEF Op
<1>3. TaskShape(c)' /\ Bearing(c)' /\ Fetched(c)' /\ Waiting(c)' /\ Consented(c)' /\ Truthful(c)'
  BY <1>0, <1>2 DEF TaskSound, TaskShape, Bearing, Fetched, Waiting, Consented, Truthful, Unfetched, Op
<1>4. Cleared(c)'
  BY <1>0, <1>2 DEF TaskSound, Cleared, OnItsWay, Entries, Op
<1> QED
  BY <1>1, <1>3, <1>4 DEF TaskSound

\* An operation that is served, or a switch that is checked before it is asked.
LEMMA Serving ==
    ASSUME SessionInv, NEW c \in Call, CheckCall(c) \/ CheckServer(c) \/ Early(c) \/ Ask(c)
    PROVE  OthersAside(c) /\ TaskSound(c)' /\ UNCHANGED <<state, broker>>
<1>1. CASE CheckCall(c)
  <2> DEFINE name == mem[c].req.name
  <2>1. CASE /\ name \in DOMAIN Entries(c)
             /\ Entries(c)[name].server \in ActiveFor(mem[c].bearer)
    <3>1. Judged(mem[c].catalog)
      BY <1>1 DEF CheckCall, SessionInv, TaskSound, Fetched
    <3>2. Entries(c)[name].verdict = "ask" \/ Allowed(mem[c].catalog, name)
      BY <2>1, <3>1 DEF Judged, Entries
    <3> QED
      BY <1>1, <2>1, <3>2, GoesOn DEF CheckCall
  <2>2. CASE ~(/\ name \in DOMAIN Entries(c)
               /\ Entries(c)[name].server \in ActiveFor(mem[c].bearer))
    BY <1>1, <2>2, ReplyEnds DEF CheckCall
  <2> QED
    BY <2>1, <2>2
<1>2. CASE CheckServer(c)
  BY <1>2, ReplyEnds, GoesOn DEF CheckServer
<1>3. CASE Early(c)
  BY <1>3, ReplyEnds, GoesOn DEF Early
<1>4. CASE Ask(c)
  BY <1>4, ReplyEnds, GoesOn DEF Ask
<1> QED
  BY <1>1, <1>2, <1>3, <1>4

\* The steps that move the broker's session.
LEMMA MovesSound ==
    ASSUME BrokerSound, Moves
    PROVE  BrokerSound' /\ broker'.identity \in Identity
BY DEF BrokerSound, Moves

LEMMA Admitting ==
    ASSUME SessionInv, NEW c \in Call, Admit(c)
    PROVE  OthersAside(c) /\ TaskSound(c)' /\ UNCHANGED state /\ BrokerSound'
<1>0. TaskSound(c)
  BY DEF SessionInv
<1>1. BrokerSound' /\ broker'.identity \in Identity
  BY MovesSound DEF Admit, SessionInv, BrokerSound
<1> QED
  BY <1>0, <1>1, NoneIsNoAnswer DEF Admit, SessionInv, OthersAside, Goto,
       TaskSound, TaskShape, Bearing, Fetched, Waiting, Consented,
       Cleared, Truthful, OnItsWay, Unfetched, Entries, Op, NeedsBearer, Idle, Closed

LEMMA Switching ==
    ASSUME SessionInv, NEW c \in Call, Switch(c)
    PROVE  OthersAside(c) /\ TaskSound(c)' /\ UNCHANGED state /\ BrokerSound'
<1>1. BrokerSound'
  BY MovesSound DEF Switch, SessionInv, BrokerSound
<1> QED
  BY <1>1, ReplyEnds, GoesOn DEF Switch

-----------------------------------------------------------------------------
(* The client and its stdio server *)

LEMMA Calling ==
    ASSUME SessionInv, NEW c \in Call, NEW r, Call_(c, r)
    PROVE  OthersAside(c) /\ TaskSound(c)' /\ UNCHANGED <<state, broker>>
<1>1. OthersAside(c)
  BY DEF Call_, SessionInv, OthersAside, Goto
<1>2. /\ mem'[c] = [Idle EXCEPT !.req = r]
      /\ pc'[c] = IF r.op = "status" THEN "identify" ELSE "admit"
      /\ \/ front'[c] = Closed
         \/ \E asks : front'[c] = [Closed EXCEPT !.stage = "open", !.asks = asks]
  BY DEF Call_, SessionInv, Goto
<1>3. /\ front'[c].stage \in {"none", "open"} /\ front'[c].told = "none"
      /\ front'[c].yes = FALSE /\ front'[c].ran = FALSE
      /\ DOMAIN front'[c] = DOMAIN Closed
  <2>1. CASE front'[c] = Closed
    BY <2>1 DEF Closed
  <2>2. ASSUME NEW asks, front'[c] = [Closed EXCEPT !.stage = "open", !.asks = asks]
        PROVE  /\ front'[c].stage = "open" /\ front'[c].told = "none"
               /\ front'[c].yes = FALSE /\ front'[c].ran = FALSE
               /\ DOMAIN front'[c] = DOMAIN Closed
    BY <2>2 DEF Closed
  <2> QED
    BY <1>2, <2>1, <2>2
<1>4. /\ mem'[c].catalog = None /\ mem'[c].answer = None /\ mem'[c].req = r
      /\ DOMAIN mem'[c] = DOMAIN Idle
  BY <1>2 DEF Idle
<1>5. TaskShape(c)' /\ Waiting(c)' /\ Truthful(c)'
  BY <1>3, <1>4 DEF TaskShape, Waiting, Truthful
<1>6. Bearing(c)' /\ Fetched(c)' /\ Consented(c)' /\ Cleared(c)'
  BY <1>2, <1>3, <1>4, NoneIsNoAnswer DEF Bearing, Fetched, Unfetched, Consented, Cleared,
     OnItsWay, Op, NeedsBearer
<1> QED
  BY <1>1, <1>5, <1>6 DEF TaskSound, Call_

\* The user answers, in a dialog or by calling again.
LEMMA Answering ==
    ASSUME SessionInv, NEW c \in Call, NEW answer \in Answers,
           UserAnswers(c, answer) \/ Resume(c, answer)
    PROVE  OthersAside(c) /\ TaskSound(c)' /\ UNCHANGED <<state, broker>>
<1>0. TaskSound(c) /\ pc[c] = "asked" /\ mem[c].answer = None
  BY DEF UserAnswers, Resume, SessionInv, TaskSound, Waiting
<1>1. OthersAside(c)
  BY DEF UserAnswers, Resume, SessionInv, OthersAside
<1>2. /\ mem'[c] = [mem[c] EXCEPT !.answer = answer]
      /\ front'[c] = [front[c] EXCEPT !.stage = "open", !.yes = (answer = "accept")]
      /\ pc'[c] = "asked"
  BY <1>0 DEF UserAnswers, Resume, SessionInv
<1>3. /\ mem'[c].answer = answer /\ mem'[c].req = mem[c].req
      /\ mem'[c].bearer = mem[c].bearer /\ mem'[c].catalog = mem[c].catalog
      /\ DOMAIN mem'[c] = DOMAIN Idle
  BY <1>0, <1>2 DEF TaskSound, TaskShape, Idle
<1>4. /\ front'[c].stage = "open" /\ front'[c].yes = (answer = "accept")
      /\ front'[c].told = front[c].told /\ front'[c].ran = front[c].ran
      /\ DOMAIN front'[c] = DOMAIN Closed
  BY <1>0, <1>2 DEF TaskSound, TaskShape, Closed
<1>5. Op(c)' = Op(c)
  BY <1>3 DEF Op
<1>6. front[c].ran = FALSE /\ front[c].told # "nothing_run"
  BY <1>0 DEF TaskSound, TaskShape, Truthful, UserAnswers, Resume
<1>7. TaskShape(c)' /\ Waiting(c)' /\ Truthful(c)'
  BY <1>2, <1>3, <1>4, <1>6 DEF TaskShape, Waiting, Truthful
<1>8. Bearing(c)' /\ Fetched(c)' /\ Cleared(c)'
  BY <1>0, <1>2, <1>3, <1>4, <1>5 DEF TaskSound, Bearing, Fetched, Unfetched, Cleared, OnItsWay, Op
<1>9. Consented(c)'
  BY <1>2, <1>3, <1>5 DEF Consented, Op, UserAnswers, Resume, Agreed
<1> QED
  BY <1>1, <1>7, <1>8, <1>9 DEF TaskSound, UserAnswers, Resume

LEMMA Conversing ==
    ASSUME SessionInv, NEW c \in Call,
           \/ Unsupported(c) \/ ShowDialog(c) \/ Park(c) \/ ResumeOther(c)
           \/ Expire(c) \/ Die(c)
    PROVE  OthersAside(c) /\ TaskSound(c)' /\ UNCHANGED <<state, broker>>
<1>0. TaskSound(c)
  BY DEF SessionInv
<1>1. CASE Unsupported(c)
  BY <1>0, <1>1 DEF Unsupported, Asking, SessionInv, OthersAside,
       TaskSound, TaskShape, Bearing, Fetched, Waiting, Consented,
       Cleared, Truthful, OnItsWay, Unfetched, Entries, Op, NeedsBearer, Idle, Closed
<1>2. CASE ShowDialog(c)
  BY <1>0, <1>2 DEF ShowDialog, Asking, SessionInv, OthersAside,
       TaskSound, TaskShape, Bearing, Fetched, Waiting, Consented,
       Cleared, Truthful, OnItsWay, Unfetched, Entries, Op, NeedsBearer, Idle, Closed
<1>3. CASE Park(c)
  BY <1>0, <1>3 DEF Park, Asking, SessionInv, OthersAside,
       TaskSound, TaskShape, Bearing, Fetched, Waiting, Consented,
       Cleared, Truthful, OnItsWay, Unfetched, Entries, Op, NeedsBearer, Idle, Closed
<1>4. CASE ResumeOther(c)
  BY <1>0, <1>4 DEF ResumeOther, SessionInv, OthersAside,
       TaskSound, TaskShape, Bearing, Fetched, Waiting, Consented,
       Cleared, Truthful, OnItsWay, Unfetched, Entries, Op, NeedsBearer, Idle, Closed
<1>5. CASE Expire(c)
  BY <1>0, <1>5 DEF Expire, SessionInv, OthersAside,
       TaskSound, TaskShape, Bearing, Fetched, Waiting, Consented,
       Cleared, Truthful, OnItsWay, Unfetched, Entries, Op, NeedsBearer, Idle, Closed
<1>6. CASE Die(c)
  BY <1>0, <1>6 DEF Die, SessionInv, OthersAside,
       TaskSound, TaskShape, Bearing, Fetched, Waiting, Consented,
       Cleared, Truthful, OnItsWay, Unfetched, Entries, Op, NeedsBearer, Idle, Closed
<1> QED
  BY <1>1, <1>2, <1>3, <1>4, <1>5, <1>6

-----------------------------------------------------------------------------
(* Steps that change the state of the service *)

\* A session whose identity, catalog and active servers stay is sound as before.
LEMMA SameSessionSound ==
    ASSUME SessionSound, state'.section = state.section, confirmed \subseteq confirmed',
           {"version", "section", "session"} \subseteq DOMAIN state',
           state'.session # None =>
            /\ state.session # None
            /\ {"identity", "catalog", "active", "attempted"} \subseteq DOMAIN state'.session
            /\ state'.session.identity = state.session.identity
            /\ state'.session.active = state.session.active
            /\ state'.session.catalog = state.session.catalog
    PROVE  SessionSound'
BY DEF SessionSound

\* The session of an identity that comes has no catalog and nothing active.
LEMMA AdoptedSound ==
    ASSUME SessionSound, NEW i, state' = Adopted(i), UNCHANGED confirmed
    PROVE  SessionSound'
<1>1. CASE state' = state
  BY <1>1, SameState
<1>2. CASE /\ state' = [state EXCEPT !.session = IF i = None THEN None ELSE NewSession(i)]
           /\ state' # state
  <2>1. /\ {"version", "section", "session"} \subseteq DOMAIN state'
        /\ state'.session = IF i = None THEN None ELSE NewSession(i)
    BY <1>2 DEF SessionSound
  <2>2. CASE i = None
    BY <2>1, <2>2 DEF SessionSound
  <2>3. CASE i # None
    BY <2>1, <2>3 DEF SessionSound, NewSession
  <2> QED
    BY <2>2, <2>3
<1> QED
  BY <1>1, <1>2 DEF Adopted

LEMMA Adopting ==
    ASSUME SessionInv, NEW c \in Call, Adopt(c) \/ Readopt(c)
    PROVE  OthersAside(c) /\ TaskSound(c)' /\ SessionSound' /\ UNCHANGED broker
<1>0. TaskSound(c)
  BY DEF SessionInv
<1>1. SessionSound'
  BY AdoptedSound DEF Adopt, Readopt, SessionInv
<1>2. CASE Readopt(c)
  BY <1>0, <1>1, <1>2 DEF Readopt, SessionInv, OthersAside, Goto,
       TaskSound, TaskShape, Bearing, Fetched, Waiting, Consented,
       Cleared, Truthful, OnItsWay, Unfetched, Entries, Op, NeedsBearer, Idle, Closed
<1>3. CASE Adopt(c) /\ Op(c) = "status"
  BY <1>1, <1>3, ReplyEnds DEF Adopt
<1>4. CASE Adopt(c) /\ Op(c) # "status"
  BY <1>0, <1>1, <1>4 DEF Adopt, SessionInv, OthersAside, Goto,
       TaskSound, TaskShape, Bearing, Fetched, Waiting, Consented,
       Cleared, Truthful, OnItsWay, Unfetched, Entries, Op, NeedsBearer, Idle, Closed
<1> QED
  BY <1>1, <1>2, <1>3, <1>4 DEF Adopt, Readopt

LEMMA Timing ==
    ASSUME SessionInv, NEW c \in Call, NotDue(c) \/ Fetch(c) \/ ForgetFetchTime(c)
    PROVE  OthersAside(c) /\ TaskSound(c)' /\ SessionSound' /\ UNCHANGED broker
<1>0. TaskSound(c)
  BY DEF SessionInv
<1>1. CASE NotDue(c)
  <2>1. SessionSound'
    BY <1>1, SameSessionSound DEF NotDue, Due, SessionInv, SessionSound
  <2> QED
    BY <1>1, <2>1, ReplyEnds DEF NotDue
<1>2. CASE Fetch(c)
  <2>1. SessionSound'
    BY <1>2, SameSessionSound DEF Fetch, SessionOf, SessionInv, SessionSound
  <2> QED
    BY <1>0, <1>2, <2>1 DEF Fetch, SessionInv, OthersAside, Goto,
       TaskSound, TaskShape, Bearing, Fetched, Waiting, Consented,
       Cleared, Truthful, OnItsWay, Unfetched, Entries, Op, NeedsBearer, Idle, Closed
<1>3. CASE ForgetFetchTime(c)
  <2>1. SessionSound'
    BY <1>3, SameSessionSound DEF ForgetFetchTime, SessionOf, SessionInv, SessionSound
  <2> QED
    BY <1>3, <2>1, ReplyEnds DEF ForgetFetchTime
<1> QED
  BY <1>1, <1>2, <1>3

LEMMA Activating ==
    ASSUME SessionInv, NEW c \in Call, Activate(c)
    PROVE  OthersAside(c) /\ TaskSound(c)' /\ SessionSound' /\ UNCHANGED broker
<1>0. TaskSound(c)
  BY DEF SessionInv
<1>1. OthersAside(c) /\ TaskSound(c)'
  BY ReplyEnds DEF Activate
<1>2. CASE ~SameSession(c)
  BY <1>1, <1>2, SameState DEF Activate, SessionInv
<1>3. CASE SameSession(c)
  <2>1. <<mem[c].bearer, mem[c].req.server>> \in confirmed
    BY <1>0 DEF Activate, TaskSound, Consented
  <2>2. state.session # None /\ state.session.identity = mem[c].bearer
    BY <1>3 DEF SameSession, SessionOf
  <2>3. /\ state' = [state EXCEPT !.session.active = @ \cup {mem[c].req.server}]
        /\ UNCHANGED confirmed
    BY <1>3 DEF Activate
  <2>4. /\ {"version", "section", "session"} \subseteq DOMAIN state'
        /\ state'.section = state.section
        /\ {"identity", "catalog", "active", "attempted"} \subseteq DOMAIN state'.session
        /\ state'.session.identity = state.session.identity
        /\ state'.session.catalog = state.session.catalog
        /\ state'.session.active = state.session.active \cup {mem[c].req.server}
    BY <2>2, <2>3 DEF SessionInv, SessionSound
  <2> QED
    BY <1>1, <2>1, <2>2, <2>3, <2>4 DEF SessionInv, SessionSound, Activate
<1> QED
  BY <1>1, <1>2, <1>3 DEF Activate

\* A listing makes a catalog of the connection's identity, by the section of
\* the moment.
LEMMA Listing ==
    ASSUME SessionInv, NEW c \in Call, Listed(c)
    PROVE  OthersAside(c) /\ TaskSound(c)' /\ SessionSound' /\ UNCHANGED broker
<1>0. TaskSound(c) /\ SessionSound
  BY DEF SessionInv
<1>1. mem[c].over = mem[c].bearer /\ mem[c].bearer \in Identity /\ pc[c] = "listing"
  BY <1>0 DEF Listed, TaskSound, Bearing
<1>2. PICK tools \in Listings[mem[c].over] :
        LET catalog == CatalogOf(tools, mem[c].over, state.section)
        IN  /\ state' = KeptCatalog(c, catalog)
            /\ IF Op(c) = "check"
               THEN Reply(c, "done")
               ELSE /\ mem' = [mem EXCEPT ![c].catalog = catalog, ![c].over = None]
                    /\ Goto(c, "serve")
                    /\ UNCHANGED front
  BY DEF Listed
<1> DEFINE catalog == CatalogOf(tools, mem[c].over, state.section)
<1>3. /\ {"listed", "by", "entries"} \subseteq DOMAIN catalog
      /\ catalog.by = mem[c].bearer
      /\ catalog.listed = tools /\ IsFiniteSet(DOMAIN tools)
      /\ catalog.entries = Build(catalog.listed, state.section)
  BY <1>1, McpAssumption DEF CatalogOf
<1>4. Judged(catalog)
  BY <1>3, BuildIsJudged
<1> HIDE DEF catalog
<1>5. SessionSound'
  <2>1. CASE ~SessionOf(mem[c].bearer)
    BY <1>0, <1>2, <2>1, SameState DEF KeptCatalog, Listed, catalog
  <2>2. CASE SessionOf(mem[c].bearer)
    <3>1. state' = [state EXCEPT !.session.catalog = catalog] /\ UNCHANGED confirmed
      BY <1>2, <2>2 DEF KeptCatalog, Listed, catalog
    <3>2. state.session # None /\ state.session.identity = mem[c].bearer
      BY <2>2 DEF SessionOf
    <3>3. /\ {"version", "section", "session"} \subseteq DOMAIN state'
          /\ state'.section = state.section
          /\ {"identity", "catalog", "active", "attempted"} \subseteq DOMAIN state'.session
          /\ state'.session.identity = state.session.identity
          /\ state'.session.catalog = catalog
          /\ state'.session.active = state.session.active
      BY <1>0, <3>1, <3>2 DEF SessionSound
    <3> QED
      BY <1>0, <1>3, <1>4, <3>1, <3>2, <3>3 DEF SessionSound
  <2> QED
    BY <2>1, <2>2
<1>6. CASE Op(c) = "check"
  BY <1>2, <1>5, <1>6, ReplyEnds DEF Listed
<1>7. CASE Op(c) # "check"
  <2>1. /\ mem' = [mem EXCEPT ![c].catalog = catalog, ![c].over = None]
        /\ pc' = [pc EXCEPT ![c] = "serve"]
        /\ UNCHANGED <<front, confirmed, broker>>
    BY <1>2, <1>7 DEF Listed, Goto, catalog
  <2>2. OthersAside(c)
    BY <2>1 DEF OthersAside, SessionInv
  <2>3. /\ mem'[c].catalog = catalog /\ mem'[c].req = mem[c].req
        /\ mem'[c].bearer = mem[c].bearer /\ mem'[c].answer = mem[c].answer
        /\ DOMAIN mem'[c] = DOMAIN Idle
        /\ pc'[c] = "serve"
    BY <1>0, <2>1 DEF SessionInv, TaskSound, TaskShape, Idle
  <2>4. TaskShape(c)' /\ Waiting(c)' /\ Truthful(c)' /\ Fetched(c)'
    BY <1>0, <1>1, <1>4, <2>1, <2>3 DEF TaskSound, TaskShape, Waiting, Truthful, Fetched, Unfetched
  <2>5. Op(c)' = Op(c)
    BY <2>3 DEF Op
  <2>6. Bearing(c)' /\ Consented(c)'
    <3>1. Bearing(c)'
      BY <1>1, <2>3 DEF Bearing
    <3>2. Consented(c) /\ UNCHANGED confirmed
      BY <1>0, <2>1 DEF TaskSound
    <3>3. Consented(c)'
      BY <2>3, <3>2 DEF Consented, Op
    <3> QED
      BY <3>1, <3>3
  <2>7. Cleared(c)'
    BY <1>0, <2>1, <2>3, <2>5 DEF TaskSound, Cleared, OnItsWay
  <2> QED
    BY <1>5, <2>1, <2>2, <2>4, <2>6, <2>7 DEF TaskSound
<1> QED
  BY <1>6, <1>7

\* A reload settles the catalog of the session by the section it stores.
LEMMA Storing ==
    ASSUME SessionInv, NEW c \in Call, StoreSettings(c)
    PROVE  OthersAside(c) /\ TaskSound(c)' /\ SessionSound' /\ UNCHANGED broker
<1>0. TaskSound(c) /\ SessionSound
  BY DEF SessionInv
<1> DEFINE new == mem[c].section
           held == state.session.catalog
<1>1. OthersAside(c) /\ TaskSound(c)'
  <2>1. /\ mem' = [mem EXCEPT ![c].section = None, ![c].version = 0]
        /\ pc' = [pc EXCEPT ![c] = IF NeedsBearer(Op(c)) THEN "adopt" ELSE "identify"]
        /\ UNCHANGED <<front, confirmed>> /\ pc[c] = "store"
    BY DEF StoreSettings, Reloaded, Goto
  <2> QED
    BY <1>0, <2>1 DEF SessionInv, OthersAside,
       TaskSound, TaskShape, Bearing, Fetched, Waiting, Consented,
       Cleared, Truthful, OnItsWay, Unfetched, Entries, Op, NeedsBearer, Idle, Closed
<1>2. CASE new = state.section
  <2>1. SessionSound'
    BY <1>0, <1>2, SameSessionSound DEF StoreSettings, StoredVersion, SessionSound
  <2> QED
    BY <1>1, <2>1 DEF StoreSettings
<1>3. CASE new # state.section
  <2>1. /\ state' = [state EXCEPT
                !.version = mem[c].version,
                !.section = new,
                !.session = ResettledSession(new)]
        /\ UNCHANGED <<confirmed, broker>>
    BY <1>3 DEF StoreSettings, StoredVersion
  <2>2. /\ {"version", "section", "session"} \subseteq DOMAIN state'
        /\ state'.section = new
        /\ state'.session = IF state.session = None THEN None
                            ELSE [state.session EXCEPT !.catalog = Resettled(held, new)]
    BY <1>0, <2>1 DEF SessionSound, ResettledSession
  <2>3. CASE state.session = None
    BY <1>1, <2>1, <2>2, <2>3 DEF SessionSound
  <2>4. CASE state.session # None
    <3>1. /\ {"identity", "catalog", "active", "attempted"} \subseteq DOMAIN state'.session
          /\ state'.session.identity = state.session.identity
          /\ state'.session.active = state.session.active
          /\ state'.session.catalog = Resettled(held, new)
      BY <1>0, <2>2, <2>4 DEF SessionSound
    <3>2. CASE held = None
      BY <1>0, <1>1, <2>1, <2>2, <2>4, <3>1, <3>2 DEF SessionSound, Resettled
    <3>3. CASE held # None
      <4> DEFINE settled == [held EXCEPT !.entries = WithSettings(@, new)]
      <4>1. state'.session.catalog = settled
        BY <3>1, <3>3 DEF Resettled
      <4>2. /\ {"listed", "by", "entries"} \subseteq DOMAIN settled
            /\ settled.by = held.by /\ settled.listed = held.listed
            /\ settled.entries = WithSettings(held.entries, new)
        BY <1>0, <2>4, <3>3 DEF SessionSound
      <4>3. settled.entries = Build(settled.listed, new)
        BY <1>0, <2>4, <3>3, <4>2, ResettledIsBuilt DEF SessionSound
      <4>4. IsFiniteSet(DOMAIN settled.listed)
        BY <1>0, <2>4, <3>3, <4>2 DEF SessionSound
      <4>5. Judged(settled)
        BY <4>3, <4>4, BuildIsJudged
      <4> HIDE DEF settled
      <4>6. SessionSound'
        BY <1>0, <2>1, <2>2, <2>4, <3>1, <3>3, <4>1, <4>2, <4>3, <4>4, <4>5 DEF SessionSound
      <4> QED
        BY <1>1, <2>1, <4>6
    <3> QED
      BY <3>2, <3>3
  <2> QED
    BY <2>3, <2>4
<1> QED
  BY <1>2, <1>3

-----------------------------------------------------------------------------
(* All steps *)

\* A step of a task that leaves the state and the broker's session alone.
LEMMA TaskKept ==
    ASSUME SessionInv, NEW c \in Call, OthersAside(c), TaskSound(c)', UNCHANGED <<state, broker>>
    PROVE  SessionInv'
BY OthersKeep, SameState DEF SessionInv, OthersAside, BrokerSound

LEMMA SessionStart ==
    ASSUME Init
    PROVE  SessionInv
<1>1. BrokerSound /\ SessionSound
  BY DEF Init, BrokerSound, SessionSound
<1>2. \A c \in Call : TaskSound(c)
  <2> TAKE c \in Call
  <2>1. pc[c] = "idle" /\ mem[c] = Idle /\ front[c] = Closed
    BY DEF Init
  <2> QED
    BY <2>1, NoneIsNoAnswer DEF TaskSound, TaskShape, Bearing, Fetched, Waiting, Consented,
       Cleared, Truthful, OnItsWay, Unfetched, Idle, Closed
<1> QED
  BY <1>1, <1>2 DEF Init, SessionInv

LEMMA TaskStep ==
    ASSUME SessionInv, NEW c \in Call, Daemon(c) \/ TakeSlot(c) \/ Client(c) \/ StdioServer(c)
    PROVE  SessionInv'
<1>1. CASE \/ AdmitCaller(c) \/ SettingsKnown(c) \/ SettingsChanged(c)
           \/ SettingsUnreadable(c) \/ LoadSettings(c) \/ Identify(c)
  <2>1. UNCHANGED broker
    BY <1>1 DEF AdmitCaller, SettingsKnown, SettingsChanged, SettingsUnreadable, LoadSettings, Identify
  <2> QED
    BY <1>1, <2>1, SettingsRead, TaskKept
<1>2. CASE FetchDue(c) \/ CatalogHeld(c) \/ NoCatalog(c) \/ Connect(c)
  <2>1. UNCHANGED broker
    BY <1>2 DEF FetchDue, CatalogHeld, NoCatalog, Connect
  <2> QED
    BY <1>2, <2>1, Fetching, TaskKept
<1>3. CASE \/ Accepted(c) \/ TakeSlot(c) \/ ReadIdentity(c)
           \/ CompareForCall(c) \/ CallEnds(c)
  <2>1. UNCHANGED broker
    BY <1>3 DEF Accepted, TakeSlot, ReadIdentity, CompareForCall, CallEnds
  <2> QED
    BY <1>3, <2>1, Confirming, TaskKept
<1>4. CASE \/ AdmitRefused(c) \/ NotListed(c) \/ Answer(c) \/ Declined(c) \/ Drop(c)
  BY <1>4, Refusing, TaskKept
<1>5. CASE CheckCall(c) \/ CheckServer(c) \/ Early(c) \/ Ask(c)
  BY <1>5, Serving, TaskKept
<1>6. CASE Admit(c) \/ Switch(c)
  BY <1>6, Admitting, Switching, SameState, OthersKeep DEF SessionInv, OthersAside
<1>7. CASE Client(c) \/ StdioServer(c)
  BY <1>7, Calling, Answering, Conversing, TaskKept DEF Client, StdioServer
<1>8. CASE \/ Adopt(c) \/ Readopt(c) \/ NotDue(c) \/ Fetch(c) \/ ForgetFetchTime(c)
           \/ Activate(c) \/ Listed(c) \/ StoreSettings(c)
  <2>1. OthersAside(c) /\ TaskSound(c)' /\ SessionSound' /\ UNCHANGED broker
    BY <1>8, Adopting, Timing, Activating, Listing, Storing
  <2> QED
    BY <2>1, OthersKeep DEF SessionInv, OthersAside, BrokerSound
<1> QED
  BY <1>1, <1>2, <1>3, <1>4, <1>5, <1>6, <1>7, <1>8 DEF Daemon

LEMMA SessionStep ==
    ASSUME SessionInv, [Next]_vars
    PROVE  SessionInv'
<1>1. CASE UNCHANGED <<pc, mem, front, confirmed>> /\ SessionSound' /\ BrokerSound'
  <2>1. \A c \in Call : TaskSound(c)'
    BY <1>1 DEF SessionInv,
       TaskSound, TaskShape, Bearing, Fetched, Waiting, Consented,
       Cleared, Truthful, OnItsWay, Unfetched, Entries, Op, NeedsBearer, Idle, Closed
  <2> QED
    BY <1>1, <2>1 DEF SessionInv
<1>2. CASE UNCHANGED vars \/ Edit
  <2>1. UNCHANGED <<pc, mem, front, confirmed, state, broker>>
    BY <1>2 DEF vars, serviceVars, Edit
  <2> QED
    BY <1>1, <2>1, SameState DEF SessionInv, BrokerSound
<1>3. CASE BrokerMoves
  <2>1. UNCHANGED <<pc, mem, front, confirmed, state>>
    BY <1>3 DEF BrokerMoves
  <2>2. BrokerSound'
    BY <1>3, MovesSound DEF BrokerMoves, BrokerSound, SessionInv
  <2> QED
    BY <1>1, <2>1, <2>2, SameState DEF SessionInv
<1>4. CASE Age
  <2>1. UNCHANGED <<pc, mem, front, confirmed, broker>>
    BY <1>4 DEF Age
  <2>2. SessionSound'
    BY <1>4, SameSessionSound DEF Age, SessionInv, SessionSound
  <2> QED
    BY <1>1, <2>1, <2>2 DEF SessionInv, BrokerSound
<1> QED
  BY <1>2, <1>3, <1>4, TaskStep DEF Next

\* The invariant of sessions, tasks and conversations holds in every behaviour.
THEOREM SessionInvariance == Spec => []SessionInv
<1>1. Init => SessionInv
  BY SessionStart
<1>2. SessionInv /\ [Next]_vars => SessionInv'
  BY SessionStep
<1> QED
  BY <1>1, <1>2, PTL DEF Spec

-----------------------------------------------------------------------------
(* What follows *)

\* Reloads, fetches and edits in any order leave the session with the catalog
\* that one built from its listing under the section of the moment would be.
THEOREM CatalogIsSettled == Spec => []CatalogFollowsSection
<1>1. SessionInv => CatalogFollowsSection
  BY DEF SessionInv, SessionSound, CatalogFollowsSection, HasCatalog
<1> QED
  BY <1>1, SessionInvariance, PTL

\* No session serves a catalog that was listed for another identity.
THEOREM CatalogIsItsOwn == Spec => []CatalogIsOfIdentity
<1>1. SessionInv => CatalogIsOfIdentity
  BY DEF SessionInv, SessionSound, CatalogIsOfIdentity, HasCatalog
<1> QED
  BY <1>1, SessionInvariance, PTL

\* A server is active, and a tool shown as callable, only for the identity the
\* user accepted it for.
THEOREM ActiveIsConfirmed == Spec => []ActiveMeansConfirmed
<1>1. ASSUME SessionInv
      PROVE  ActiveMeansConfirmed
  <2>1. state.session # None =>
            \A server \in state.session.active : <<state.session.identity, server>> \in confirmed
    BY <1>1 DEF SessionInv, SessionSound
  <2>2. ASSUME NEW c \in Call, NEW name \in Shown(c)
        PROVE  <<mem[c].bearer, Entries(c)[name].server>> \in confirmed
    <3>1. Entries(c)[name].server \in ActiveFor(mem[c].bearer)
      BY <2>2 DEF Shown, Search
    <3> QED
      BY <2>1, <3>1 DEF ActiveFor, SessionOf
  <2> QED
    BY <2>1, <2>2 DEF ActiveMeansConfirmed
<1> QED
  BY <1>1, SessionInvariance, PTL

\* What runs was said yes to, or is an "allow" tool that was listed once.
THEOREM RunsAreCleared == Spec => []RunsConfirmedOrAllowed
<1>1. ASSUME SessionInv
      PROVE  RunsConfirmedOrAllowed
  <2>1. ASSUME NEW c \in Call, pc[c] = "running", ~front[c].yes
        PROVE  Allowed(mem[c].catalog, mem[c].req.name)
    BY <1>1, <2>1 DEF SessionInv, TaskSound, Cleared, OnItsWay
  <2> QED
    BY <2>1 DEF RunsConfirmedOrAllowed, Allowed, Entries
<1> QED
  BY <1>1, SessionInvariance, PTL

\* Who is told that nothing was run is told the truth.
THEOREM ToldTheTruth == Spec => []ToldNothingRan
<1>1. SessionInv => ToldNothingRan
  BY DEF SessionInv, TaskSound, Truthful, ToldNothingRan
<1> QED
  BY <1>1, SessionInvariance, PTL

============================================================================
