------------------------------ MODULE Discovery ------------------------------
(***************************************************************************)
(* Stream discovery and registration in the driver (src/client/driver.rs,  *)
(* discover and its call in sync): every stream the backend describes is   *)
(* registered with the server, except those whose descriptor is the one    *)
(* last registered; a pass that registered all of them latches, and no     *)
(* other is made until a full sync, unless the backend asks for one every  *)
(* cycle.                                                                  *)
(*                                                                         *)
(* The backend and the server are external.  The server keeps the last     *)
(* descriptor it was sent for a stream, and refuses some streams for good. *)
(* A request whose answer is lost may have been applied, or be applied     *)
(* later, or never.                                                        *)
(***************************************************************************)
EXTENDS Naturals, FiniteSets

CONSTANTS Keys,         \* source keys
          Versions,     \* what a descriptor may say
          Refused,      \* the streams the server refuses
          MaxEdits,     \* changes of a descriptor
          MaxFaults     \* failing calls and crashes

ASSUME RefusedAreKeys == Refused \subseteq Keys

ASSUME DiscoveryBoundsAreNat == MaxEdits \in Nat /\ MaxFaults \in Nat

None == "none"

ASSUME NoneIsNoVersion == None \notin Versions

Descriptions == [Keys -> Versions \cup {None}]

VARIABLES
  rediscover,  \* backend.rediscover_every_cycle(), which never changes
  described,   \* the backend's descriptors
  served,      \* the server's streams
  stray,       \* registrations nobody waits for any more
  cache,       \* `registered`: the descriptor last registered, by its hash
  discovered,  \* the latch
  pc,          \* "idle", "discover", "register" or "await"
  full,        \* the cycle is a full sync
  todo,        \* the descriptors of this pass not dealt with yet
  key,         \* the stream being registered
  landed,      \* the server has applied its registration
  missed,      \* streams of this pass whose registration failed
  partial,     \* a history variable: the last pass missed some of its streams
  lost,        \* another: a registration's answer was never heard
  edits, faults   \* used up of their bounds

clientVars == <<cache, discovered, pc, full, todo, key, landed, missed, partial>>
vars == <<rediscover, described, served, stray, clientVars, lost, edits, faults>>

Nothing == [k \in Keys |-> None]

Fault == faults < MaxFaults /\ faults' = faults + 1

Init ==
  /\ rediscover \in BOOLEAN
  /\ described \in Descriptions
  /\ served = Nothing /\ stray = {}
  /\ cache = Nothing /\ discovered = FALSE
  /\ pc = "idle" /\ full = FALSE /\ todo = Nothing /\ key = None
  /\ landed = FALSE /\ missed = {} /\ partial = FALSE /\ lost = FALSE
  /\ edits = 0 /\ faults = 0

-----------------------------------------------------------------------------
(* The source and the server. *)

Edit ==
  /\ edits < MaxEdits /\ edits' = edits + 1
  /\ \E k \in Keys : \E v \in Versions \ {described[k]} :
       described' = [described EXCEPT ![k] = v]
  /\ UNCHANGED <<rediscover, served, stray, clientVars, lost, faults>>

Land ==
  /\ pc = "await" /\ ~landed /\ key \notin Refused
  /\ served' = [served EXCEPT ![key] = todo[key]]
  /\ landed' = TRUE
  /\ UNCHANGED <<rediscover, described, stray, cache, discovered, pc, full,
                 todo, key, missed, partial, lost, edits, faults>>

LandStray(m) ==
  /\ served' = [served EXCEPT ![m.key] = m.version]
  /\ stray' = stray \ {m}
  /\ UNCHANGED <<rediscover, described, clientVars, lost, edits, faults>>

LoseStray(m) ==
  /\ stray' = stray \ {m}
  /\ UNCHANGED <<rediscover, described, served, clientVars, lost, edits,
                 faults>>

-----------------------------------------------------------------------------
(* The driver. *)

\* A cycle that makes no pass leaves nothing behind here.
Start(isFull) ==
  /\ pc = "idle"
  /\ isFull \/ ~discovered \/ rediscover
  /\ pc' = "discover" /\ full' = isFull
  /\ UNCHANGED <<rediscover, described, served, stray, cache, discovered, todo,
                 key, landed, missed, partial, lost, edits, faults>>

DiscoverOk ==
  /\ pc = "discover"
  /\ pc' = "register"
  /\ todo' = described /\ missed' = {}
  /\ UNCHANGED <<rediscover, described, served, stray, cache, discovered, full,
                 key, landed, partial, lost, edits, faults>>

DiscoverFails ==
  /\ pc = "discover"
  /\ Fault
  /\ pc' = "idle" /\ full' = FALSE
  /\ UNCHANGED <<rediscover, described, served, stray, cache, discovered, todo,
                 key, landed, missed, partial, lost, edits>>

Dealt(k) ==
  /\ todo' = [todo EXCEPT ![k] = None]
  /\ pc' = "register" /\ key' = None /\ landed' = FALSE

\* The descriptor is the one last registered; a full sync re-asserts all.
Known(k) == ~full /\ cache[k] = todo[k]

Unchanged(k) ==
  /\ pc = "register" /\ todo[k] # None /\ Known(k)
  /\ Dealt(k)
  /\ UNCHANGED <<rediscover, described, served, stray, cache, discovered, full,
                 missed, partial, lost, edits, faults>>

\* Mistake: streams the backend does not describe are registered too.
DueAnyway(k) == ~Known(k)

Due(k) == todo[k] # None /\ ~Known(k)

Register(k) ==
  /\ pc = "register" /\ Due(k)
  /\ pc' = "await" /\ key' = k
  /\ UNCHANGED <<rediscover, described, served, stray, cache, discovered, full,
                 todo, landed, missed, partial, lost, edits, faults>>

RegisterOk ==
  /\ pc = "await" /\ landed
  /\ cache' = [cache EXCEPT ![key] = todo[key]]
  /\ Dealt(key)
  /\ UNCHANGED <<rediscover, described, served, stray, discovered, full,
                 missed, partial, lost, edits, faults>>

\* The server says no, for this stream or this time; the others go on.
Refusal ==
  \/ key \in Refused /\ UNCHANGED faults
  \/ key \notin Refused /\ ~landed /\ Fault

\* Mistakes: what was tried counts as registered; the first refusal ends the
\* pass.
MissedButCached ==
  /\ missed' = missed \cup {key}
  /\ cache' = [cache EXCEPT ![key] = todo[key]]
  /\ Dealt(key)

MissedAndOver ==
  /\ missed' = missed \cup {key} /\ UNCHANGED cache
  /\ todo' = Nothing
  /\ pc' = "register" /\ key' = None /\ landed' = FALSE

\* A stream that was not registered is left to a later pass.
Missed == missed' = missed \cup {key} /\ UNCHANGED cache /\ Dealt(key)

RegisterRefused ==
  /\ pc = "await"
  /\ Refusal
  /\ Missed
  /\ UNCHANGED <<rediscover, described, served, stray, discovered, full, partial,
                 lost, edits>>

\* The answer does not come: the request may be on its way still.
Abandoned == IF pc = "await" /\ ~landed /\ key \notin Refused
               THEN {[key |-> key, version |-> todo[key]]} ELSE {}

RegisterLost ==
  /\ pc = "await"
  /\ Fault
  /\ lost' = TRUE
  /\ stray' = stray \cup Abandoned
  /\ Missed
  /\ UNCHANGED <<rediscover, described, served, discovered, full, partial, edits>>

\* Mistake: the latch does not look at what was missed.
LatchedAnyway == TRUE

\* Only a pass that registered every descriptor latches.
Latched == discovered \/ missed = {}

PassEnds ==
  /\ pc = "register" /\ todo = Nothing
  /\ discovered' = Latched
  /\ partial' = (missed # {})
  /\ pc' = "idle" /\ full' = FALSE /\ missed' = {}
  /\ UNCHANGED <<rediscover, described, served, stray, cache, todo, key,
                 landed, lost, edits, faults>>

\* A new process has neither the cache nor the latch.
Crash ==
  /\ Fault
  /\ stray' = stray \cup Abandoned
  /\ lost' = (lost \/ Abandoned # {})
  /\ cache' = Nothing /\ discovered' = FALSE /\ partial' = FALSE
  /\ pc' = "idle" /\ full' = FALSE /\ todo' = Nothing /\ key' = None
  /\ landed' = FALSE /\ missed' = {}
  /\ UNCHANGED <<rediscover, described, served, edits>>

PassStep ==
  \/ DiscoverOk
  \/ \E k \in Keys : Unchanged(k) \/ Register(k)
  \/ Land
  \/ RegisterOk
  \/ key \in Refused /\ RegisterRefused
  \/ PassEnds

Next ==
  \/ Edit
  \/ \E isFull \in BOOLEAN : Start(isFull)
  \/ PassStep
  \/ DiscoverFails
  \/ RegisterRefused
  \/ RegisterLost
  \/ \E m \in stray : LandStray(m) \/ LoseStray(m)
  \/ Crash

\* The interval keeps starting cycles, never full ones; calls return, and no
\* request stays on its way for ever.
Fairness ==
  /\ WF_vars(Start(FALSE))
  /\ WF_vars(PassStep)
  /\ WF_vars(\E m \in stray : LandStray(m) \/ LoseStray(m))

Spec == Init /\ [][Next]_vars /\ Fairness

-----------------------------------------------------------------------------
TypeOK ==
  /\ rediscover \in BOOLEAN /\ lost \in BOOLEAN
  /\ described \in Descriptions /\ served \in Descriptions
  /\ stray \subseteq [key : Keys, version : Versions]
  /\ cache \in Descriptions /\ todo \in Descriptions
  /\ discovered \in BOOLEAN /\ full \in BOOLEAN /\ landed \in BOOLEAN
  /\ partial \in BOOLEAN
  /\ pc \in {"idle", "discover", "register", "await"}
  /\ key \in Keys \cup {None} /\ (pc = "await" => key \in Keys /\ todo[key] # None)
  /\ missed \subseteq Keys
  /\ edits \in 0..MaxEdits /\ faults \in 0..MaxFaults

\* What the code says of the cache: "a descriptor identical to the last
\* successfully registered one converges to the same server state"
\* (driver.rs:264-265).  A registration and its answer are two moments.
CacheIsTruth ==
  \A k \in Keys : cache[k] # None /\ k # key => cache[k] = served[k]

\* The cache says what the server holds for as long as every registration that
\* was applied was also answered, whatever was refused, whatever the source
\* changed meanwhile, and across restarts (driver.rs:266-295).
CacheIsTruthUnlessLost == ~lost => CacheIsTruth

\* What the code says of the latch: "a partial pass (API outage
\* mid-registration) must be retried on the next cycle" (driver.rs:305-306).
PartialPassRetried == pc = "idle" /\ partial => ~discovered \/ rediscover

\* Every stream the server admits is as the backend last described it.
Converge ==
  <>[](\A k \in Keys \ Refused : described[k] \in {None, served[k]})

\* A backend that asks for a pass every cycle has its changes registered, if no
\* answer is lost, and full syncs that keep being asked for heal everything, a
\* closed latch, lost answers and late registrations included: what a pass
\* missed, a later one makes good, and a stream the server refuses for good
\* holds no other back (driver.rs:266, 296-302, 722).
PassesConverge == (rediscover /\ <>[]~lost) \/ []<>full => Converge

\* A source that stands still has all its streams registered, the ones the
\* first passes missed included: the latch does not close too soon
\* (driver.rs:307-309).
StillSourceConverges == <>[](edits = 0 /\ ~lost) => Converge
=============================================================================
