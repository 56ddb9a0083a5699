----------------------------- MODULE CallSlots -----------------------------
(* The slots of tool calls of the MCP service (CallSlots and CallSlot of     *)
(* src/mcp/service.rs): a semaphore that follows mcp.max_concurrent_calls    *)
(* while permits are out. A ledger keeps what a smaller cap still has to     *)
(* take back from the calls that run.                                        *)
EXTENDS Integers, FiniteSets

CONSTANTS
    Call,           \* whoever may hold a slot
    MaxPermits,     \* Semaphore::MAX_PERMITS
    Caps            \* the caps the settings may ask for

ASSUME SlotAssumption ==
    /\ IsFiniteSet(Call)
    /\ MaxPermits \in Nat \ {0}
    /\ Caps \subseteq Nat \ {0}
    /\ Caps # {}

VARIABLES
    available,      \* permits in the semaphore
    ledger,         \* the cap, and the permits owed to it
    slot            \* where the permit of each call is

slotVars == <<available, ledger, slot>>

Lesser(m, n) == IF m <= n THEN m ELSE n

Bounded(n) == Lesser(n, MaxPermits)

\* Permits outside the semaphore: those of calls that run, and those on their
\* way back after the ledger was let go.
Out == {c \in Call : slot[c] # "none"}

SlotTypeOK ==
    /\ available \in Nat
    /\ ledger \in [cap : Nat \ {0}, owed : Nat]
    /\ slot \in [Call -> {"none", "held", "returning"}]

SlotsInit(n) ==
    /\ available = Bounded(n)
    /\ ledger = [cap |-> Bounded(n), owed |-> 0]
    /\ slot = [c \in Call |-> "none"]

\* A larger cap first pays what is owed, and only then adds permits.
Grow(n) ==
    LET added  == Bounded(n) - ledger.cap
        repaid == Lesser(added, ledger.owed)
    IN  /\ added > 0
        /\ ledger' = [cap |-> Bounded(n), owed |-> ledger.owed - repaid]
        /\ available' = available + added - repaid

\* A smaller cap takes the permits it finds and is owed the others.
Shrink(n) ==
    LET removed   == ledger.cap - Bounded(n)
        forgotten == Lesser(removed, available)
    IN  /\ removed > 0
        /\ ledger' = [cap  |-> Bounded(n),
                      owed |-> ledger.owed + removed - forgotten]
        /\ available' = available - forgotten

\* Variant: a cap that was raised is never lowered.
ResizeUp(n) ==
    /\ \/ Grow(n)
       \/ Bounded(n) <= ledger.cap /\ UNCHANGED <<available, ledger>>
    /\ UNCHANGED slot

Resize(n) ==
    /\ \/ Grow(n)
       \/ Shrink(n)
       \/ Bounded(n) = ledger.cap /\ UNCHANGED <<available, ledger>>
    /\ UNCHANGED slot

Acquire(c) ==
    /\ slot[c] = "none"
    /\ available > 0
    /\ available' = available - 1
    /\ slot' = [slot EXCEPT ![c] = "held"]
    /\ UNCHANGED ledger

\* The call ends: its permit pays a debt. With none to pay the ledger is let
\* go, and the permit goes back to the semaphore later.
Release(c) ==
    /\ slot[c] = "held"
    /\ \/ /\ ledger.owed > 0
          /\ ledger' = [ledger EXCEPT !.owed = @ - 1]
          /\ slot' = [slot EXCEPT ![c] = "none"]
       \/ /\ ledger.owed = 0
          /\ slot' = [slot EXCEPT ![c] = "returning"]
          /\ UNCHANGED ledger
    /\ UNCHANGED available

\* Variant: the permit that pays no debt is forgotten as well.
GiveBackLost(c) ==
    /\ slot[c] = "returning"
    /\ slot' = [slot EXCEPT ![c] = "none"]
    /\ UNCHANGED <<available, ledger>>

GiveBack(c) ==
    /\ slot[c] = "returning"
    /\ available' = available + 1
    /\ slot' = [slot EXCEPT ![c] = "none"]
    /\ UNCHANGED ledger

SlotNext ==
    \/ \E n \in Caps : Resize(n)
    \/ \E c \in Call : Acquire(c) \/ Release(c) \/ GiveBack(c)

SlotSpec == (\E n \in Caps : SlotsInit(n)) /\ [][SlotNext]_slotVars

-----------------------------------------------------------------------------
(* Properties *)

\* No permit is lost and none is invented: what is free and what is out is the
\* cap, and what a smaller cap is still owed.
PermitsAreConserved == available + Cardinality(Out) = ledger.cap + ledger.owed

\* The semaphore never holds more than its maximum, at which `add_permits`
\* panics, however often the cap goes up and down while calls run.
SemaphoreNeverOverflows == available <= MaxPermits

=============================================================================
