---------------------------- MODULE SourceAudit ----------------------------
(***************************************************************************)
(* SOURCE_AUDIT (src/client/driver.rs, src/client/audit.rs): everything    *)
(* the source holds against everything registered at the server.  The      *)
(* heartbeat task takes the inventory, pages through the registered        *)
(* streams in the order of their ids, takes the source's curves, lists the *)
(* registered ones and compares.  All along the sync task registers, and   *)
(* an operator removes.                                                    *)
(*                                                                         *)
(* A stream or a curve is its source key, a number that stands for the     *)
(* place of its id: one that is registered late may land anywhere.  Which  *)
(* streams are paired, and what the connector declines, is copied into the *)
(* report and left out.                                                    *)
(***************************************************************************)
EXTENDS Ordered

CONSTANTS
  StreamKeys, CurveKeys,  \* the keys of streams, and those of curves
  PageSize,               \* streams on a page
  CurvePage,              \* curves on the one page there is
  SourceGroups,           \* the groups of the inventory
  GroupAtSource,          \* a stream's group in the inventory
  GroupInPath,            \* and in the path it is registered with
  MaxChanges              \* bound: registrations and removals during an audit

ASSUME KeysAreApart == StreamKeys \cap CurveKeys = {}

ASSUME KeysAreNumbers ==
  /\ IsFiniteSet(StreamKeys) /\ \A k \in StreamKeys : k \in Int
  /\ IsFiniteSet(CurveKeys)  /\ \A k \in CurveKeys : k \in Int

ASSUME AuditBoundsAreNat ==
  PageSize \in Nat \ {0} /\ CurvePage \in Nat /\ MaxChanges \in Nat

VARIABLES
  stored,   \* the keys registered at the server
  counted,  \* its lists say how long they are
  phase,    \* what the audit does next
  offered,  \* the keys the source offers, as far as they have been taken
  items,    \* the streams listed so far
  offset,   \* where the next page begins
  listed,   \* the answer about curves: a set of keys, or none if not served
  changes,  \* the number of changes during the audit
  always,   \* history: the keys registered throughout
  ever,     \* history: those registered at some moment
  removed   \* history: a stream was removed

audit == <<phase, offered, items, offset, listed>>
vars  == <<stored, counted, audit, changes, always, ever, removed>>

Keys == StreamKeys \cup CurveKeys

\* The part of a list, in the order of ids, that a page holds.
PageOf(keys, from, size) ==
  {k \in keys : Rank(k, keys) \in from..(from + size - 1)}

-----------------------------------------------------------------------------
(* The others. *)

Changes == changes < MaxChanges /\ changes' = changes + 1

\* The sync task registers a stream or a curve.
Register(k) ==
  /\ Changes /\ k \notin stored
  /\ stored' = stored \cup {k} /\ ever' = ever \cup {k}
  /\ UNCHANGED <<counted, audit, always, removed>>

Deregister(k) ==
  /\ Changes /\ k \in stored
  /\ stored' = stored \ {k} /\ always' = always \ {k}
  /\ removed' = (removed \/ k \in StreamKeys)
  /\ UNCHANGED <<counted, audit, ever>>

-----------------------------------------------------------------------------
(* The audit. *)

\* The next audit begins.
Begin ==
  /\ phase' = "inventory"
  /\ offered' = {} /\ items' = <<>> /\ offset' = 0 /\ listed' = {}
  /\ changes' = 0
  /\ always' = stored /\ ever' = stored /\ removed' = FALSE
  /\ UNCHANGED <<stored, counted>>

Init ==
  /\ stored \in SUBSET Keys /\ counted \in BOOLEAN
  /\ phase = "inventory"
  /\ offered = {} /\ items = <<>> /\ offset = 0 /\ listed = {}
  /\ changes = 0 /\ always = stored /\ ever = stored /\ removed = FALSE

\* source_inventory.
TakeInventory ==
  /\ phase = "inventory" /\ phase' = "streams"
  /\ offered' \in SUBSET StreamKeys
  /\ UNCHANGED <<stored, counted, items, offset, listed, changes, always, ever, removed>>

Streams == stored \cap StreamKeys

\* Mistakes: a page short of the end will do; the end is not enough.
NearlyAll(count) == count + 1 >= Cardinality(Streams)
MoreThanAll(count) == count > Cardinality(Streams)

\* As many listed as there are.
AllOf(count) == count >= Cardinality(Streams)

\* list_streams: a list that does not say how long it is ends with its first page.
ListPage ==
  LET page == Ascending(PageOf(Streams, offset, PageSize))
      done == ~counted \/ AllOf(Len(items \o page)) \/ Len(page) < PageSize
  IN /\ phase = "streams" /\ items' = items \o page
     /\ phase' = IF done THEN "source curves" ELSE phase
     /\ offset' = IF done THEN offset ELSE offset + PageSize
     /\ UNCHANGED <<stored, counted, offered, listed, changes, always, ever, removed>>

\* discover_standard_curves.
TakeCurves ==
  /\ phase = "source curves" /\ phase' = "curves"
  /\ \E keys \in SUBSET CurveKeys : offered' = offered \cup keys
  /\ UNCHANGED <<stored, counted, items, offset, listed, changes, always, ever, removed>>

\* Mistake: a server without the collection is one that holds no curves.
EmptyWithout == {{}}

\* What a server that does not serve the collection answers.
Without == {}

\* list_standard_curve_keys: one page, whatever there is.
ListCurves ==
  /\ phase = "curves" /\ phase' = "reported"
  /\ listed' \in {{PageOf(stored \cap CurveKeys, 0, CurvePage)}, Without}
  /\ UNCHANGED <<stored, counted, offered, items, offset, changes, always, ever, removed>>

\* Any of the calls may fail, and then there is no report.
Fail == phase # "reported" /\ Begin

Again == phase = "reported" /\ Begin

-----------------------------------------------------------------------------
(* compare. *)

Candidates == offered \cap StreamKeys
Found      == ToSet(items)

Groups ==
  SourceGroups \cup {GroupAtSource[k] : k \in Candidates} \cup {GroupInPath[k] : k \in Found}

Unregistered(g) == {k \in Candidates \ Found : GroupAtSource[k] = g}
Orphaned(g)     == {k \in Found \ Candidates : GroupInPath[k] = g}

\* A stream that was listed twice counts twice.
Registered(g) == Cardinality({i \in DOMAIN items : GroupInPath[items[i]] = g})

\* None of them when the server could not be asked.
CurvesUnregistered == UNION {(offered \cap CurveKeys) \ keys : keys \in listed}
CurvesOrphaned     == UNION {keys \ offered : keys \in listed}

-----------------------------------------------------------------------------
Next ==
  \/ \E k \in Keys : Register(k) \/ Deregister(k)
  \/ TakeInventory \/ ListPage \/ TakeCurves \/ ListCurves
  \/ Fail \/ Again

Spec == Init /\ [][Next]_vars

\* The types; every page but the last is full, and none is asked for that
\* begins past the end of the list.
TypeOK ==
  /\ stored \subseteq Keys /\ counted \in BOOLEAN
  /\ phase \in {"inventory", "streams", "source curves", "curves", "reported"}
  /\ offered \subseteq Keys /\ items \in Seq(StreamKeys)
  /\ offset \in Nat /\ (offset = 0 \/ offset < Cardinality(ever))
  /\ phase = "streams" => offset = Len(items)
  /\ listed \subseteq SUBSET CurveKeys /\ Cardinality(listed) <= 1
  /\ changes \in 0..MaxChanges
  /\ always \subseteq stored /\ stored \subseteq ever /\ ever \subseteq Keys

\* The sync task's registrations move streams from page to page while the list
\* is read, and a repeated stream counts towards its end; none that was there
\* all along is missed for that.  A removal may hide one, and so does a server
\* that does not say how long the list is (river_data_client.rs:190-229).
ListedUnlessRemoved ==
  counted /\ ~removed /\ phase \notin {"inventory", "streams"}
    => always \cap StreamKeys \subseteq Found

\* What the report says is so: of the streams, in the group each belongs to,
\* whatever is registered meanwhile, and of the curves as long as they fit the
\* page.  Every group of the source is named, one without a channel as well
\* (audit.rs:86-89, 107-112; river_data_client.rs:526-529).
FindingsTrue ==
  phase = "reported" =>
    /\ SourceGroups \subseteq Groups
    /\ \A g \in Groups :
         /\ Orphaned(g) \subseteq ever \ offered
         /\ {k \in Candidates \ ever : GroupAtSource[k] = g} \subseteq Unregistered(g)
         /\ counted /\ ~removed =>
              /\ Unregistered(g) \cap always = {}
              /\ {k \in (always \cap StreamKeys) \ offered : GroupInPath[k] = g}
                   \subseteq Orphaned(g)
         /\ counted /\ changes = 0 =>
              Registered(g) = Cardinality({k \in Streams : GroupInPath[k] = g})
    /\ CurvesOrphaned \subseteq ever \ offered
    /\ Cardinality(ever \cap CurveKeys) <= CurvePage => CurvesUnregistered \cap always = {}
    /\ listed # {} => (offered \cap CurveKeys) \ ever \subseteq CurvesUnregistered
=============================================================================
