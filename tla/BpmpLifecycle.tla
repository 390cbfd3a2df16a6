--------------------------- MODULE BpmpLifecycle ----------------------------
(***************************************************************************)
(* libtx2bpmp/bpmp.c: tx2_bpmp_init and bpmp_destroy.  All handles share   *)
(* one static bpmp_data: the first init maps it and brings the channel up, *)
(* later ones take a reference, and the destroy that drops the last        *)
(* reference releases it.  The calls are synchronous, so each outcome of a *)
(* call is one step.  The mappings and the HSP's allocation belong to the  *)
(* platform (external).  Each init that runs acquires them anew and stores *)
(* over the pointers of the one before: `pointer' says which pointers of   *)
(* bpmp_data are set, `live' which of them point to something that exists, *)
(* and `lost' counts what exists and no pointer leads to any more.         *)
(***************************************************************************)
EXTENDS Integers, FiniteSets

CONSTANTS
    Handles,     \* the struct tx2_bpmp that clients pass to tx2_bpmp_init
    RefMod,      \* 2^32, the number of values of bpmp_refcount
    MaxEarly,    \* init calls that return early
    MaxFails,    \* init calls that go to fail
    Reopen       \* TRUE: an init may follow the last destroy

ASSUME HandlesAssumption == IsFiniteSet(Handles)
ASSUME RefAssumption == RefMod \in Nat /\ RefMod > Cardinality(Handles) + MaxFails
ASSUME LifeAssumption == MaxEarly \in Nat /\ MaxFails \in Nat /\ Reopen \in BOOLEAN

Resources == {"hsp", "tx", "rx"}

VARIABLES
    initialised,  \* bpmp_initialised
    refcount,     \* bpmp_refcount
    pointer,      \* resources whose pointer or flag is set in bpmp_data
    live,         \* resources whose pointer leads to a mapping or allocation
    lost,         \* lost[r]: mappings or allocations of r that no pointer leads to
    open,         \* handles initialised and not destroyed
    early, fails, \* failed init calls
    reopened,     \* history: an init followed the last destroy
    misuse        \* history: something was released that was not live

vars == <<initialised, refcount, pointer, live, lost, open, early, fails, reopened,
          misuse>>

Init ==
    /\ initialised = FALSE
    /\ refcount = 0
    /\ pointer = {} /\ live = {} /\ open = {}
    /\ lost = [r \in Resources |-> 0]
    /\ early = 0 /\ fails = 0
    /\ reopened = FALSE /\ misuse = FALSE
-----------------------------------------------------------------------------
\* Mutant: the count is tested before it goes down.
MutRelease(p, l) ==
    /\ refcount' = (refcount - 1) % RefMod
    /\ live' = IF refcount # 0 THEN l ELSE l \ p
    /\ misuse' = (misuse \/ (refcount = 0 /\ ~(p \subseteq l)))

(* bpmp_destroy, with p the pointers set and l what is live: the count     *)
(* goes down, and at zero whatever a pointer is set for is released.  The  *)
(* pointers and bpmp_initialised keep their values.                        *)
Release(p, l) ==
    /\ refcount' = (refcount - 1) % RefMod
    /\ live' = IF refcount' # 0 THEN l ELSE l \ p
    /\ misuse' = (misuse \/ (refcount' = 0 /\ ~(p \subseteq l)))

\* The success label of tx2_bpmp_init
Success(h) ==
    /\ refcount' = (refcount + 1) % RefMod
    /\ open' = open \cup {h}
    /\ initialised' = TRUE

MayOpen(h) ==
    /\ h \in Handles \ open
    /\ Reopen \/ ~initialised \/ open # {}

\* Mutant: a later init forgets to take a reference.
MutInitAgain(h) ==
    /\ MayOpen(h)
    /\ initialised
    /\ open' = open \cup {h}
    /\ reopened' = (reopened \/ open = {})
    /\ UNCHANGED <<initialised, refcount, pointer, live, lost, early, fails, misuse>>

\* tx2_bpmp_init when bpmp_initialised: only a reference is taken.
InitAgain(h) ==
    /\ MayOpen(h)
    /\ initialised
    /\ Success(h)
    /\ reopened' = (reopened \/ open = {})
    /\ UNCHANGED <<pointer, live, lost, early, fails, misuse>>

\* The pointers of s are stored over, or what they led to is dropped.
Losing(s) == [r \in Resources |-> IF r \in s THEN lost[r] + 1 ELSE lost[r]]

\* The init that brings the BPMP up, from the HSP to the interface
\* registration.  What earlier inits had acquired is stored over.
InitFirst(h) ==
    /\ MayOpen(h)
    /\ ~initialised
    /\ pointer' = Resources /\ live' = Resources
    /\ lost' = Losing(live)
    /\ Success(h)
    /\ UNCHANGED <<early, fails, reopened, misuse>>

\* The HSP fails, keeping what it allocated or not, the device tree node is
\* missing, a mapping fails, or the cookie cannot be freed.
EarlyReturns ==
    {[got |-> {}, null |-> {}, drop |-> {}],
     [got |-> {}, null |-> {}, drop |-> {"hsp"}],
     [got |-> {"hsp"}, null |-> {}, drop |-> {}],
     [got |-> {"hsp"}, null |-> {"tx"}, drop |-> {}],
     [got |-> {"hsp", "tx"}, null |-> {"rx"}, drop |-> {}],
     [got |-> Resources, null |-> {}, drop |-> {}]}

\* An early return, before the channel: what has been acquired so far stays,
\* and a mapping that fails leaves its pointer null.
InitReturnsEarly(h) ==
    /\ MayOpen(h)
    /\ ~initialised
    /\ early < MaxEarly /\ early' = early + 1
    /\ \E step \in EarlyReturns :
          /\ pointer' = (pointer \ step.null) \cup step.got
          /\ live' = (live \ step.null) \cup step.got
          /\ lost' = Losing((live \cap (step.null \cup step.got)) \cup step.drop)
    /\ UNCHANGED <<initialised, refcount, open, fails, reopened, misuse>>

\* The channel or the registration fails: bpmp_destroy cleans up, or would.
InitFails(h) ==
    /\ MayOpen(h)
    /\ ~initialised
    /\ fails < MaxFails /\ fails' = fails + 1
    /\ pointer' = Resources
    /\ lost' = Losing(live)
    /\ Release(Resources, Resources)
    /\ UNCHANGED <<initialised, open, early, reopened>>

\* tx2_bpmp_destroy on an open handle
Destroy(h) ==
    /\ h \in open
    /\ open' = open \ {h}
    /\ Release(pointer, live)
    /\ UNCHANGED <<initialised, pointer, lost, early, fails, reopened>>

Next == \E h \in Handles : \/ InitAgain(h) \/ InitFirst(h)
                           \/ InitReturnsEarly(h) \/ InitFails(h)
                           \/ Destroy(h)

Spec == Init /\ [][Next]_vars
-----------------------------------------------------------------------------
TypeOK ==
    /\ initialised \in BOOLEAN
    /\ refcount \in 0..(RefMod - 1)
    /\ pointer \subseteq Resources /\ live \subseteq Resources
    /\ lost \in [Resources -> Nat]
    /\ open \subseteq Handles
    /\ early \in 0..MaxEarly /\ fails \in 0..MaxFails
    /\ reopened \in BOOLEAN /\ misuse \in BOOLEAN

(* bpmp_refcount is the number of references that are valid, as long as no *)
(* init goes to fail: that path drops a reference nobody took.             *)
CountTracks == fails = 0 => refcount = Cardinality(open)

(* "Only cleanup the BPMP structure if there are no more references that   *)
(* are valid": an open handle has its mappings and its HSP.                *)
LiveWhileOpen == open # {} => live = Resources

\* No init has gone to fail, and none has followed the last destroy
Orderly == fails = 0 /\ ~reopened

(* What is left of that promise: it holds up to the first init that fails  *)
(* after the mappings or that follows the last destroy, with any number of *)
(* early returns before.                                                   *)
LiveWhileOrderly == Orderly => LiveWhileOpen

(* Until then no destroy unmaps or frees anything that is not there, and   *)
(* the last one releases whatever a pointer leads to.                      *)
ReleasedOnce ==
    Orderly => /\ ~misuse
               /\ initialised /\ open = {} => live = {}

(* Nothing is lost by an init that succeeds or by a destroy: each init     *)
(* that does not succeed costs at most one mapping or allocation of each   *)
(* kind, however the inits after it end.                                   *)
LostByFailures == \A r \in Resources : lost[r] <= early + fails

(* The count stays in its range, an orderly client's resources are         *)
(* released once, and only a failed init leaks.                            *)
LifecycleSound == TypeOK /\ ReleasedOnce /\ LostByFailures
=============================================================================
