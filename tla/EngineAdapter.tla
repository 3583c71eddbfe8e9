---------------------------- MODULE EngineAdapter ----------------------------
(***************************************************************************)
(* MockEngineAdapter: the coordinator behind an engine that launches rows  *)
(* in batches of declared physical shapes.  The adapter keeps a private    *)
(* copy of every dispatch (active) and what was launched (submitted), and  *)
(* a coordinator call and the update of these is one method.               *)
(*                                                                         *)
(* The harness around it is a transport: its queue may be filled with any  *)
(* reply to any command ever issued and be duplicated, dropped and         *)
(* reordered, so a delivery takes any such reply (sent of Coordinator).    *)
(* A delivery that raises or is stale changes neither the adapter nor the  *)
(* coordinator, with one exception: a backend may raise when it is handed  *)
(* a recovery command, after the verdict was applied.  A backend that      *)
(* raises has not taken what it was given.                                 *)
(*                                                                         *)
(* After a crash a new adapter is built around the restored coordinator;   *)
(* the backend lives elsewhere and keeps what it was given.                *)
(***************************************************************************)
EXTENDS Coordinator, Bags, BagsExt

CONSTANT Buckets    \* the declared shapes, [rows, slots]

ASSUME BucketsAssumption ==
    /\ Buckets # {}
    /\ \A b \in Buckets : b.rows \in Nat \ {0} /\ b.slots \in Nat /\ b.slots >= b.rows

VARIABLES
    active,     \* active[tag]: the row reserved under tag, its block table
    submitted,  \* tags of the active rows that were launched
    batches,    \* the backend: the bag of batches [rows, bucket, life] launched
    recoveries, \* the backend: recovery commands it was given
    refused     \* history: recovery commands at which it raised

adapterVars == <<active, submitted, batches, recoveries, refused>>
allVars == <<records, ledger, outbox, effects, durable, sent, verdicts, life,
             active, submitted, batches, recoveries, refused>>

AdapterInit ==
    /\ Init
    /\ active = [t \in {} |-> 0]
    /\ submitted = {}
    /\ batches = EmptyBag
    /\ recoveries = {} /\ refused = {}

-----------------------------------------------------------------------------
(* Physical shapes. *)

\* Padding rows occupy masked slots of their own.
Fits(bucket, rows, slots) ==
    /\ bucket.rows >= rows
    /\ bucket.slots >= slots + (bucket.rows - rows)

Supported(rows, slots) == \E b \in Buckets : Fits(b, rows, slots)

\* The sort key of choose, without the name; earlier parts weigh more.
Key(b, rows, slots) ==
    <<b.rows * b.slots, b.rows - rows, b.slots - slots, b.rows>>

Before(k, l) ==
    \E i \in DOMAIN k : k[i] < l[i] /\ \A j \in 1 .. i - 1 : k[j] = l[j]

Choose(rows, slots) ==
    CHOOSE b \in Buckets :
        /\ Fits(b, rows, slots)
        /\ \A c \in Buckets \ {b} :
              Fits(c, rows, slots) => Before(Key(b, rows, slots), Key(c, rows, slots))

SlotsOf(tags) == MapThenSumSet(LAMBDA t : active[t].reserved, tags)

-----------------------------------------------------------------------------
(* The methods of the adapter. *)

AdapterRegister(r, total, committed) ==
    /\ RegisterRequest(r, total, committed)
    /\ UNCHANGED adapterVars

\* The shape is not looked at before the pages are taken (EveryRowSettles).
WrongShapeSupported(width) == TRUE

\* An unsupported shape is refused before the coordinator is touched.
ShapeSupported(width) == Supported(1, width)

AdapterReserve(r, width) ==
    /\ ShapeSupported(width)
    /\ Reserve(r, width)
    /\ active' = With(active, records'[r].proto.active, records'[r].table)
    /\ UNCHANGED <<submitted, batches, recoveries, refused>>

\* Only the reservation is checked (AdapterAudit).
WrongLaunchable(t) == t \in DOMAIN active

Launchable(t) == t \in DOMAIN active /\ t \notin submitted

SubmitVerify(tags) ==
    /\ tags # {}
    /\ \A t \in tags : Launchable(t)
    /\ Supported(Cardinality(tags), SlotsOf(tags))
    /\ batches' = BagAdd(batches,
           [rows |-> tags, bucket |-> Choose(Cardinality(tags), SlotsOf(tags)),
            life |-> life])
    /\ submitted' = submitted \cup tags
    /\ UNCHANGED <<active, recoveries, refused, vars>>

\* An early callback is taken for a stale one (BackendAgrees).
WrongMayBeJudged(t) == TRUE

\* An exact callback for a row that was not launched raises.
MayBeJudged(t) == t \in DOMAIN active => t \in submitted

\* The command a miss returns.
Outbound(box, r) == box[r]

\* The backend takes a recovery command, or raises and the caller sees it.
HandOver(command) ==
    \/ recoveries' = recoveries \cup {command} /\ UNCHANGED refused
    \/ refused' = refused \cup {command} /\ UNCHANGED recoveries

\* An applied verdict takes the row away before a miss is handed over.
AdapterVerify(tag, hit, accepted) ==
    /\ MayBeJudged(tag)
    /\ VerifyComplete(tag, hit, accepted)
    /\ active' = Without(active, tag)
    /\ submitted' = submitted \ {tag}
    /\ IF hit THEN UNCHANGED <<recoveries, refused>>
       ELSE HandOver(Outbound(outbox', tag.req))
    /\ UNCHANGED batches

AdapterRecovery(tag, finished) ==
    /\ RecoveryComplete(tag, finished)
    /\ UNCHANGED adapterVars

\* The launched rows of a cancelled request are left behind (AdapterAudit).
WrongForgotten(r) == {t \in DOMAIN active : t.req = r /\ t \notin submitted}

\* The rows that go with a cancelled request.
Forgotten(r) == {t \in DOMAIN active : t.req = r}

AdapterCancel(r) ==
    /\ Cancel(r)
    /\ active' = [t \in DOMAIN active \ Forgotten(r) |-> active[t]]
    /\ submitted' = submitted \ Forgotten(r)
    /\ UNCHANGED <<batches, recoveries, refused>>

\* A new adapter knows no rows.
RestartedRows == [t \in {} |-> 0]

\* Process death, and a new adapter around the restored coordinator.
Restart ==
    /\ Crash
    /\ active' = RestartedRows
    /\ submitted' = {}
    /\ UNCHANGED <<batches, recoveries, refused>>

\* Requests start empty here, and a snapshot is published with each command:
\* Coordinator has the other cases, and the adapter does not depend on them.
AdapterNext ==
    \/ \E r \in Requests :
          \/ \E total \in Totals : AdapterRegister(r, total, 0)
          \/ \E width \in 1..MaxBlocks : AdapterReserve(r, width)
          \/ AdapterCancel(r)
    \/ \E tags \in SUBSET DOMAIN active : SubmitVerify(tags)
    \/ \E c \in sent :
          \/ /\ c.kind = "verify"
             /\ \E hit \in BOOLEAN, accepted \in 0..MaxBlocks :
                   AdapterVerify(c.tag, hit, accepted)
          \/ /\ c.kind = "recovery"
             /\ \E finished \in BOOLEAN : AdapterRecovery(c.tag, finished)
    \/ Restart

AdapterSpec == AdapterInit /\ [][AdapterNext]_allVars

\* The row of r is launched, alone or with others.
Launched(r) ==
    \E tags \in SUBSET DOMAIN active : (\E t \in tags : t.req = r) /\ SubmitVerify(tags)

\* Some reply to the current command of r is delivered by the adapter.
Delivered(r) ==
    \E c \in sent :
        /\ c.tag.req = r
        /\ \/ /\ c.kind = "verify"
              /\ \E hit \in BOOLEAN, accepted \in 0..MaxBlocks :
                    AdapterVerify(c.tag, hit, accepted)
           \/ /\ c.kind = "recovery"
              /\ \E finished \in BOOLEAN : AdapterRecovery(c.tag, finished)

\* As drive_to_terminal: what is reserved is launched, what is out is answered.
AdapterFairSpec ==
    /\ AdapterSpec
    /\ \A r \in Requests : WF_allVars(Launched(r)) /\ WF_allVars(Delivered(r))

-----------------------------------------------------------------------------
(* The adapter's copies are an exact cover of the coordinator's verifying  *)
(* rows, table by table, and only they are launched, each at most once in  *)
(* whatever batch and life: after every method, whatever callback came     *)
(* late or twice, and in an adapter built after a crash.                   *)
RowsCovered ==
    /\ DOMAIN active =
          {records[r].proto.active :
              r \in {x \in DOMAIN records : Lane(records[x]) = "verifying"}}
    /\ \A t \in DOMAIN active : active[t] = records[t.req].table
    /\ submitted \subseteq DOMAIN active

LaunchedOnce ==
    \A b \in DOMAIN batches :
        /\ batches[b] = 1
        /\ \A c \in DOMAIN batches \ {b} : b.rows \cap c.rows = {}

AdapterAudit == RowsCovered /\ LaunchedOnce

(* No verdict for a row that was not physically launched, although replies *)
(* may be delivered early, late or for another life; and a request that    *)
(* missed is known to the backend with exactly the command the coordinator *)
(* still waits for, accepted prefix included, unless the backend raised at *)
(* that very command.                                                      *)
BackendAgrees ==
    /\ \A t \in verdicts : \E b \in DOMAIN batches : t \in b.rows
    /\ \A r \in DOMAIN outbox :
          outbox[r].tag \in verdicts => outbox[r] \in recoveries \cup refused

(* Every reserved row is launched and judged, and every miss recovered:    *)
(* rejecting unsupported shapes and early callbacks wedges no request, nor *)
(* does a backend that raises at a recovery command.                       *)
EveryRowSettles ==
    \A r \in Requests : InFlight(r) ~> ~InFlight(r)

=============================================================================
