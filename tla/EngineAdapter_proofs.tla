------------------------ MODULE EngineAdapter_proofs ------------------------
(***************************************************************************)
(* Theorems about EngineAdapter, for every value of its constants.         *)
(*                                                                         *)
(* Every step of the adapter is a step of its coordinator or leaves it     *)
(* alone, so that what Coordinator_proofs shows of the coordinator holds   *)
(* here. The rows of the adapter then change with the one record that a    *)
(* method changes (Covered). A row is reserved under a tag that no command *)
(* ever carried, which is why it was not launched before, in this life or  *)
(* an older one (BatchesAre), and a fence opens a version above every      *)
(* verdict, which is why a command it rebuilds answers to none (Told):     *)
(* both need that commands leave only once the state that names them is    *)
(* durable.                                                                *)
(***************************************************************************)
EXTENDS EngineAdapter, Coordinator_proofs

USE DEF ReadyStates, InFlightStates, ProtocolStates

-----------------------------------------------------------------------------
(* The adapter only takes steps of its coordinator. *)

LEMMA AdapterSteps == [AdapterNext]_allVars => [Next]_vars
  <1> SUFFICES ASSUME [AdapterNext]_allVars PROVE [Next]_vars
    OBVIOUS
  <1>0. 0 \in 0 .. MaxBlocks
    BY CoordinatorAssumption
  <1>1. ASSUME NEW r \in Requests, NEW total \in Totals, AdapterRegister(r, total, 0)
        PROVE  Next
    BY <1>0, <1>1 DEF AdapterRegister, Next
  <1>2. ASSUME NEW r \in Requests, NEW width \in 1 .. MaxBlocks, AdapterReserve(r, width)
        PROVE  Next
    BY <1>2 DEF AdapterReserve, Next
  <1>3. ASSUME NEW r \in Requests, AdapterCancel(r)
        PROVE  Next
    BY <1>3 DEF AdapterCancel, Next
  <1>4. ASSUME NEW tags \in SUBSET DOMAIN active, SubmitVerify(tags)
        PROVE  UNCHANGED vars
    BY <1>4 DEF SubmitVerify
  <1>5. ASSUME NEW c \in sent, c.kind = "verify",
               NEW hit \in BOOLEAN, NEW accepted \in 0 .. MaxBlocks,
               AdapterVerify(c.tag, hit, accepted)
        PROVE  Next
    BY <1>5 DEF AdapterVerify, Next
  <1>6. ASSUME NEW c \in sent, c.kind = "recovery", NEW finished \in BOOLEAN,
               AdapterRecovery(c.tag, finished)
        PROVE  Next
    BY <1>6 DEF AdapterRecovery, Next
  <1>7. CASE Restart
    BY <1>7 DEF Restart, Next
  <1>8. CASE UNCHANGED allVars
    BY <1>8 DEF allVars, vars
  <1> QED BY <1>1, <1>2, <1>3, <1>4, <1>5, <1>6, <1>7, <1>8 DEF AdapterNext

\* The adapter implements the coordinator it wraps: launching, early and late
\* callbacks and restarts add no behaviour to it.
THEOREM AdapterImplementsCoordinator == AdapterSpec => Spec
  <1>1. AdapterInit => Init
    BY DEF AdapterInit
  <1> QED BY <1>1, AdapterSteps, PTL DEF AdapterSpec, Spec

-----------------------------------------------------------------------------
(* The rows of the adapter. *)

Verifying(recs, t) ==
    /\ t.req \in DOMAIN recs
    /\ ~recs[t.req].cancelled /\ recs[t.req].proto.state = "verifying"
    /\ recs[t.req].proto.active = t

RowsOf(recs) ==
    {recs[r].proto.active : r \in {x \in DOMAIN recs : Lane(recs[x]) = "verifying"}}

LEMMA RowsAre ==
    ASSUME NEW recs, NEW l, Whole(recs, l), NEW t
    PROVE  t \in RowsOf(recs) <=> Verifying(recs, t)
  <1>1. ASSUME NEW r \in DOMAIN recs, Lane(recs[r]) = "verifying"
        PROVE  /\ recs[r].proto.active.req = r /\ ~recs[r].cancelled
               /\ recs[r].proto.state = "verifying"
    <2>1. ~recs[r].cancelled /\ recs[r].proto.state = "verifying"
      BY <1>1 DEF Lane
    <2> DEFINE p == recs[r].proto
    <2>2. Sound(p, r) /\ r \in Requests /\ p.state \in InFlightStates
      BY <2>1 DEF Whole, Linked
    <2> HIDE DEF p
    <2>3. p.active.req = r
      BY <2>2, ActiveTag
    <2> QED BY <2>1, <2>3 DEF p
  <1>2. ASSUME t \in RowsOf(recs) PROVE Verifying(recs, t)
    <2>1. PICK r \in DOMAIN recs : Lane(recs[r]) = "verifying" /\ t = recs[r].proto.active
      BY <1>2 DEF RowsOf
    <2> QED BY <1>1, <2>1 DEF Verifying
  <1>3. ASSUME Verifying(recs, t) PROVE t \in RowsOf(recs)
    BY <1>3 DEF Verifying, RowsOf, Lane
  <1> QED BY <1>2, <1>3

\* RowsCovered, row by row.
Covered ==
    /\ \A t : t \in DOMAIN active <=> Verifying(records, t)
    /\ \A t \in DOMAIN active : active[t] = records[t.req].table
    /\ submitted \subseteq DOMAIN active

LEMMA CoveredIs == CInv => (RowsCovered <=> Covered)
  <1> SUFFICES ASSUME CInv PROVE RowsCovered <=> Covered
    OBVIOUS
  <1>1. Whole(records, ledger)
    BY DEF CInv
  <1>2. \A t : t \in RowsOf(records) <=> Verifying(records, t)
    BY <1>1, RowsAre
  <1>3. RowsCovered <=> /\ DOMAIN active = RowsOf(records)
                        /\ \A t \in DOMAIN active : active[t] = records[t.req].table
                        /\ submitted \subseteq DOMAIN active
    BY DEF RowsCovered, RowsOf
  <1>4. DOMAIN active = RowsOf(records) <=>
            \A t : t \in DOMAIN active <=> Verifying(records, t)
    BY <1>2
  <1> QED BY <1>3, <1>4 DEF Covered

\* What the change of one record does to the rows.
LEMMA RowsChange ==
    ASSUME NEW r, NEW p, NEW committed, NEW cancelled, Changes(r, p, committed, cancelled)
    PROVE  /\ \A t : t.req # r =>
                 /\ Verifying(records', t) <=> Verifying(records, t)
                 /\ Verifying(records, t) => records'[t.req] = records[t.req]
           /\ p.state # "verifying" => \A t : t.req = r => ~Verifying(records', t)
  <1>1. /\ DOMAIN records' = DOMAIN records \cup {r}
        /\ \A x \in DOMAIN records \ {r} : records'[x] = records[x]
        /\ records'[r].proto = p /\ records'[r].cancelled = cancelled
    BY DEF Changes, With
  <1> QED BY <1>1 DEF Verifying

\* A step that ends every attempt of r and keeps the other rows.
LEMMA RowsDropped ==
    ASSUME Covered, NEW r, NEW p, NEW committed, NEW cancelled,
           Changes(r, p, committed, cancelled), p.state # "verifying",
           DOMAIN active' = {t \in DOMAIN active : t.req # r},
           \A t \in DOMAIN active' : active'[t] = active[t],
           submitted' = {t \in submitted : t.req # r}
    PROVE  Covered'
  <1>1. /\ \A t : t.req # r =>
              /\ Verifying(records', t) <=> Verifying(records, t)
              /\ Verifying(records, t) => records'[t.req] = records[t.req]
        /\ \A t : t.req = r => ~Verifying(records', t)
    BY RowsChange
  <1>2. \A t : t \in DOMAIN active' <=> Verifying(records', t)
    BY <1>1 DEF Covered
  <1>3. \A t \in DOMAIN active' : active'[t] = records'[t.req].table
    BY <1>1 DEF Covered
  <1>4. submitted' \subseteq DOMAIN active'
    BY DEF Covered
  <1> QED BY <1>2, <1>3, <1>4 DEF Covered

\* The rows launched, in whatever batch and life.
Everything == UNION {b.rows : b \in DOMAIN batches}

BatchesAre ==
    /\ LaunchedOnce
    /\ \A b \in DOMAIN batches : b.rows # {}
    /\ Everything \subseteq Attempts /\ DOMAIN active \subseteq Attempts
    /\ Everything \cap DOMAIN active \subseteq submitted
    /\ submitted \subseteq Everything
    /\ verdicts \subseteq Everything

\* Commands that were handed to the backend, whether or not it raised.
Handed == recoveries \cup refused

Told == \A r \in DOMAIN outbox : outbox[r].tag \in verdicts => outbox[r] \in Handed

AInv == Covered /\ BatchesAre /\ Told

LEMMA AttemptsGrow ==
    ASSUME sent \subseteq sent'
    PROVE  Attempts \subseteq Attempts'
  BY DEF Attempts

LEMMA SameBatches ==
    ASSUME BatchesAre, batches' = batches, sent \subseteq sent',
           \A t \in DOMAIN active' :
               t \in Everything => t \in DOMAIN active /\ (t \in submitted => t \in submitted'),
           DOMAIN active' \subseteq Attempts',
           submitted' \subseteq submitted, verdicts' \subseteq Everything
    PROVE  BatchesAre'
  <1>1. Everything' = Everything
    BY DEF Everything
  <1>2. LaunchedOnce'
    BY DEF BatchesAre, LaunchedOnce
  <1> QED BY <1>1, <1>2, AttemptsGrow DEF BatchesAre

LEMMA ToldStill ==
    ASSUME Told, verdicts' = verdicts, recoveries' = recoveries, refused' = refused,
           \A r \in DOMAIN outbox' : r \in DOMAIN outbox /\ outbox'[r] = outbox[r]
    PROVE  Told'
  BY DEF Told, Handed

-----------------------------------------------------------------------------
(* The methods of the adapter. *)

LEMMA RegisterRows ==
    ASSUME CInv, AInv, NEW r \in Requests, NEW total \in Nat, AdapterRegister(r, total, 0)
    PROVE  AInv'
  <1> DEFINE p == IF 0 = total THEN FinishProtocol(NewProtocol) ELSE NewProtocol
  <1>1. /\ RegisterRequest(r, total, 0)
        /\ active' = active /\ submitted' = submitted /\ batches' = batches
        /\ recoveries' = recoveries /\ refused' = refused
    BY DEF AdapterRegister, adapterVars
  <1>2. Changes(r, p, 0, FALSE) /\ p.state \in {"ready", "finished"}
    BY <1>1, RegisterWhole DEF CInv
  <1>3. /\ r \notin DOMAIN records /\ outbox' = outbox /\ sent' = sent
        /\ verdicts' = verdicts
    BY <1>1 DEF RegisterRequest
  <1> HIDE DEF p
  <1>4. \A t \in DOMAIN active : t.req # r
    BY <1>3 DEF AInv, Covered, Verifying
  <1>5. /\ DOMAIN active' = {t \in DOMAIN active : t.req # r}
        /\ submitted' = {t \in submitted : t.req # r}
    BY <1>1, <1>4 DEF AInv, Covered
  <1>6. Covered'
    BY <1>1, <1>2, <1>5, RowsDropped DEF AInv
  <1>7. BatchesAre'
    BY <1>1, <1>3, SameBatches, AttemptsGrow DEF AInv, BatchesAre
  <1>8. Told'
    BY <1>1, <1>3, ToldStill DEF AInv
  <1> QED BY <1>6, <1>7, <1>8 DEF AInv

LEMMA ReserveRows ==
    ASSUME CInv, FInv, AInv, NEW r \in Requests, NEW width \in Nat, width > 0,
           AdapterReserve(r, width)
    PROVE  AInv'
  <1> DEFINE p == StartVerification(records[r].proto, r, records[r].proto.round + 1)
             new == p.active
  <1>1. /\ Reserve(r, width)
        /\ active' = With(active, records'[r].proto.active, records'[r].table)
        /\ submitted' = submitted /\ batches' = batches /\ recoveries' = recoveries /\ refused' = refused
    BY DEF AdapterReserve
  <1>2. /\ Changes(r, p, records[r].committed, FALSE) /\ p.state = "verifying"
        /\ records[r].proto.state \in ReadyStates
    BY <1>1, ReserveWhole DEF CInv
  <1>3. /\ new \in Tag /\ new.req = r /\ new \notin Attempts
        /\ Attempts' = Attempts \cup {new} /\ verdicts' = verdicts
    BY <1>1, ReserveFresh
  <1>4. outbox' = outbox /\ sent \subseteq sent'
    BY <1>1 DEF Reserve, Emit
  <1>5. records'[r].proto = p
    BY <1>2 DEF Changes
  <1> HIDE DEF p, new
  <1>6. /\ DOMAIN active' = DOMAIN active \cup {new}
        /\ active'[new] = records'[r].table
        /\ \A t \in DOMAIN active : t # new => active'[t] = active[t]
    BY <1>1, <1>5 DEF With, new
  <1>7. new \notin DOMAIN active
    BY <1>3 DEF AInv, BatchesAre
  <1>8. Covered'
    <2>1. /\ \A t : t.req # r =>
                /\ Verifying(records', t) <=> Verifying(records, t)
                /\ Verifying(records, t) => records'[t.req] = records[t.req]
          /\ \A t : t.req = r => (Verifying(records', t) <=> new = t)
      <3>1. \A t : t.req # r =>
               /\ Verifying(records', t) <=> Verifying(records, t)
               /\ Verifying(records, t) => records'[t.req] = records[t.req]
        BY <1>2, RowsChange
      <3>2. /\ r \in DOMAIN records' /\ records'[r].proto = p
            /\ ~records'[r].cancelled
        BY <1>2 DEF Changes, With
      <3>3. \A t : t.req = r => (Verifying(records', t) <=> new = t)
        BY <1>2, <3>2 DEF Verifying, new
      <3> QED BY <3>1, <3>3
    <2>2. \A t : t.req = r => ~Verifying(records, t)
      BY <1>2 DEF Verifying
    <2>3. \A t : t \in DOMAIN active' <=> Verifying(records', t)
      BY <1>3, <1>6, <2>1, <2>2 DEF AInv, Covered
    <2>4. \A t \in DOMAIN active' : active'[t] = records'[t.req].table
      BY <1>3, <1>6, <1>7, <2>1, <2>2 DEF AInv, Covered
    <2>5. submitted' \subseteq DOMAIN active'
      BY <1>1, <1>6 DEF AInv, Covered
    <2> QED BY <2>3, <2>4, <2>5 DEF Covered
  <1>9. BatchesAre'
    <2>1. \A t \in DOMAIN active' : t \in Everything => t \in DOMAIN active
      BY <1>3, <1>6 DEF AInv, BatchesAre
    <2>2. DOMAIN active' \subseteq Attempts'
      BY <1>3, <1>6 DEF AInv, BatchesAre
    <2>3. BatchesAre /\ verdicts' \subseteq Everything /\ submitted' \subseteq submitted
      BY <1>1, <1>3 DEF AInv, BatchesAre
    <2> QED BY <1>1, <1>4, <2>1, <2>2, <2>3, SameBatches
  <1>10. Told'
    BY <1>1, <1>3, <1>4, ToldStill DEF AInv
  <1> QED BY <1>8, <1>9, <1>10 DEF AInv

LEMMA CancelRows ==
    ASSUME CInv, AInv, NEW r \in Requests, AdapterCancel(r)
    PROVE  AInv'
  <1> DEFINE p == Closed(records[r].proto)
  <1>1. /\ Cancel(r)
        /\ active' = [t \in DOMAIN active \ Forgotten(r) |-> active[t]]
        /\ submitted' = submitted \ Forgotten(r)
        /\ batches' = batches /\ recoveries' = recoveries /\ refused' = refused
    BY DEF AdapterCancel
  <1>2. Changes(r, p, records[r].committed, TRUE) /\ p.state = "finished"
    BY <1>1, CancelWhole DEF CInv
  <1>3. outbox' = Without(outbox, r) /\ sent' = sent /\ verdicts' = verdicts
    BY <1>1 DEF Cancel
  <1> HIDE DEF p
  <1>4. /\ DOMAIN active' = {t \in DOMAIN active : t.req # r}
        /\ \A t \in DOMAIN active' : active'[t] = active[t]
        /\ submitted' = {t \in submitted : t.req # r}
    BY <1>1 DEF AInv, Covered, Forgotten
  <1>5. Covered'
    BY <1>2, <1>4, RowsDropped DEF AInv
  <1>6. BatchesAre'
    <2>1. sent \subseteq sent' /\ Attempts \subseteq Attempts'
      BY <1>3, AttemptsGrow
    <2>2. /\ BatchesAre /\ DOMAIN active' \subseteq Attempts'
          /\ submitted' \subseteq submitted /\ verdicts' \subseteq Everything
      BY <1>3, <1>4, <2>1 DEF AInv, BatchesAre
    <2>3. \A t \in DOMAIN active' :
             t \in Everything => t \in DOMAIN active /\ (t \in submitted => t \in submitted')
      BY <1>4
    <2> QED BY <1>1, <2>1, <2>2, <2>3, SameBatches
  <1>7. Told'
    BY <1>1, <1>3, ToldStill DEF AInv, Without
  <1> QED BY <1>5, <1>6, <1>7 DEF AInv

\* Launching rows that are reserved and were not launched before.
LEMMA SubmitRows ==
    ASSUME AInv, NEW tags \in SUBSET DOMAIN active, SubmitVerify(tags)
    PROVE  AInv'
  <1> DEFINE new == [rows |-> tags,
                     bucket |-> Choose(Cardinality(tags), SlotsOf(tags)), life |-> life]
  <1>1. /\ tags # {} /\ \A t \in tags : t \in DOMAIN active /\ t \notin submitted
        /\ batches' = BagAdd(batches, new) /\ submitted' = submitted \cup tags
        /\ active' = active /\ recoveries' = recoveries /\ refused' = refused
        /\ records' = records /\ outbox' = outbox /\ sent' = sent /\ verdicts' = verdicts
    BY DEF SubmitVerify, Launchable, vars
  <1>2. new.rows = tags
    OBVIOUS
  <1> HIDE DEF new
  <1>3. \A t \in tags : t \notin Everything
    BY <1>1 DEF AInv, BatchesAre
  <1>4. new \notin DOMAIN batches
    BY <1>1, <1>2, <1>3 DEF Everything
  <1>5. /\ DOMAIN batches' = DOMAIN batches \cup {new} /\ batches'[new] = 1
        /\ \A b \in DOMAIN batches : batches'[b] = batches[b]
    BY <1>1, <1>4 DEF BagAdd
  <1>6. \A b \in DOMAIN batches : b.rows \cap tags = {}
    BY <1>3 DEF Everything
  <1>7. LaunchedOnce'
    <2>1. \A b \in DOMAIN batches' : batches'[b] = 1
      BY <1>5 DEF AInv, BatchesAre, LaunchedOnce
    <2>2. \A b \in DOMAIN batches' : \A c \in DOMAIN batches' \ {b} : b.rows \cap c.rows = {}
      BY <1>2, <1>5, <1>6 DEF AInv, BatchesAre, LaunchedOnce
    <2> QED BY <2>1, <2>2 DEF LaunchedOnce
  <1>8. \A t : t \in Everything' <=> t \in Everything \/ t \in tags
    BY <1>2, <1>5 DEF Everything
  <1>9. \A b \in DOMAIN batches' : b.rows # {}
    BY <1>1, <1>2, <1>5 DEF AInv, BatchesAre
  <1>10. Attempts' = Attempts
    BY <1>1 DEF Attempts
  <1>11. BatchesAre'
    BY <1>1, <1>7, <1>8, <1>9, <1>10 DEF AInv, BatchesAre
  <1>12. Covered'
    BY <1>1 DEF AInv, Covered, Verifying
  <1>13. Told'
    BY <1>1, ToldStill DEF AInv
  <1> QED BY <1>11, <1>12, <1>13 DEF AInv

\* The tag the outbox has for a request names that request.
LEMMA OutboxTag ==
    ASSUME CInv, NEW r \in DOMAIN outbox
    PROVE  outbox[r].tag.req = r
  <1>1. /\ r \in DOMAIN records /\ records[r].proto.state = "recovering"
        /\ outbox[r] = [tag |-> records[r].proto.active, accepted |-> records[r].proto.accepted]
    BY DEF CInv, RebuiltOutbox
  <1>2. r \in Requests /\ Sound(records[r].proto, r)
    BY <1>1 DEF CInv, Whole, Linked
  <1> DEFINE p == records[r].proto
  <1>3. p.state \in InFlightStates /\ Sound(p, r) /\ outbox[r].tag = p.active
    BY <1>1, <1>2
  <1> HIDE DEF p
  <1> QED BY <1>2, <1>3, ActiveTag

LEMMA VerifyRows ==
    ASSUME CInv, AInv, NEW tag, NEW hit \in BOOLEAN, NEW accepted \in Nat,
           AdapterVerify(tag, hit, accepted)
    PROVE  AInv'
  <1> DEFINE r == tag.req
             p == AfterVerify(records[r], hit, accepted)
  <1>1. /\ VerifyComplete(tag, hit, accepted)
        /\ tag \in DOMAIN active => tag \in submitted
        /\ active' = Without(active, tag) /\ submitted' = submitted \ {tag}
        /\ Handed' = IF hit THEN Handed ELSE Handed \cup {outbox'[r]}
        /\ batches' = batches
    BY DEF AdapterVerify, MayBeJudged, Outbound, HandOver, Handed
  <1>2. Judged(tag, hit, accepted, p)
    BY <1>1, VerifyFacts
  <1>3. /\ verdicts' = verdicts \cup {tag} /\ sent \subseteq sent'
        /\ outbox' = IF hit THEN Without(outbox, r)
                     ELSE With(outbox, r, [tag |-> p.active, accepted |-> accepted])
    BY <1>1 DEF VerifyComplete, Emit
  <1> HIDE DEF p
  <1>4. /\ Changes(r, p, records[r].committed + accepted, FALSE) /\ p.state # "verifying"
        /\ Verifying(records, tag)
    BY <1>2 DEF Judged, Verifying
  <1>5. tag \in submitted /\ tag \in Everything
    BY <1>1, <1>4 DEF AInv, Covered, BatchesAre
  <1>6. \A t \in DOMAIN active : t.req = r <=> t = tag
    BY <1>4 DEF AInv, Covered, Verifying
  <1>7. /\ DOMAIN active' = DOMAIN active \ {tag}
        /\ \A t \in DOMAIN active' : active'[t] = active[t]
    BY <1>1 DEF Without
  <1>8. /\ DOMAIN active' = {t \in DOMAIN active : t.req # r}
        /\ submitted' = {t \in submitted : t.req # r}
    BY <1>1, <1>6, <1>7 DEF AInv, Covered
  <1>9. Covered'
    BY <1>4, <1>7, <1>8, RowsDropped DEF AInv
  <1>10. BatchesAre'
    <2>1. Attempts \subseteq Attempts'
      BY <1>3, AttemptsGrow
    <2>2. /\ BatchesAre /\ DOMAIN active' \subseteq Attempts'
          /\ submitted' \subseteq submitted /\ verdicts' \subseteq Everything
      BY <1>1, <1>3, <1>5, <1>7, <2>1 DEF AInv, BatchesAre
    <2>3. \A t \in DOMAIN active' :
             t \in Everything => t \in DOMAIN active /\ (t \in submitted => t \in submitted')
      BY <1>1, <1>7
    <2> QED BY <1>1, <1>3, <2>2, <2>3, SameBatches
  <1>11. Told'
    <2> SUFFICES ASSUME NEW x \in DOMAIN outbox', outbox'[x].tag \in verdicts'
                 PROVE  outbox'[x] \in Handed'
      BY DEF Told
    <2>1. CASE x = r
      <3>1. ~hit
        BY <1>3, <2>1 DEF Without
      <3> QED BY <1>1, <2>1, <3>1
    <2>2. CASE x # r
      <3>1. x \in DOMAIN outbox /\ outbox'[x] = outbox[x]
        BY <1>3, <2>2 DEF With, Without
      <3>2. outbox[x].tag # tag
        BY <2>2, <3>1, OutboxTag
      <3>3. outbox[x] \in Handed
        BY <1>3, <3>1, <3>2 DEF AInv, Told
      <3> QED BY <1>1, <3>1, <3>3
    <2> QED BY <2>1, <2>2
  <1> QED BY <1>9, <1>10, <1>11 DEF AInv

LEMMA RecoveryRows ==
    ASSUME CInv, AInv, NEW tag, NEW finished \in BOOLEAN, AdapterRecovery(tag, finished)
    PROVE  AInv'
  <1> DEFINE r == tag.req
             p == HandleRecoveryReply(records[r].proto, finished)
  <1>1. /\ RecoveryComplete(tag, finished)
        /\ active' = active /\ submitted' = submitted /\ batches' = batches
        /\ recoveries' = recoveries /\ refused' = refused
    BY DEF AdapterRecovery, adapterVars
  <1>2. /\ Changes(r, p, records[r].committed, FALSE)
        /\ p.state \in {"finished", "ready_backup"}
    BY <1>1, RecoveryWhole DEF CInv
  <1>3. /\ records[r].proto.state = "recovering"
        /\ outbox' = Without(outbox, r) /\ sent' = sent /\ verdicts' = verdicts
    BY <1>1 DEF RecoveryComplete, Expects, MatchesRecovery
  <1> HIDE DEF p, r
  <1>4. \A t \in DOMAIN active : t.req # r
    BY <1>3 DEF AInv, Covered, Verifying
  <1>5. /\ DOMAIN active' = {t \in DOMAIN active : t.req # r}
        /\ submitted' = {t \in submitted : t.req # r}
    BY <1>1, <1>4 DEF AInv, Covered
  <1>6. Covered'
    BY <1>1, <1>2, <1>5, RowsDropped DEF AInv
  <1>7. BatchesAre'
    BY <1>1, <1>3, SameBatches, AttemptsGrow DEF AInv, BatchesAre
  <1>8. Told'
    BY <1>1, <1>3, ToldStill DEF AInv, Without
  <1> QED BY <1>6, <1>7, <1>8 DEF AInv

\* What a crash fences was never judged under its new tag.
LEMMA RestartRows ==
    ASSUME CInv, FInv, AInv, Restart
    PROVE  AInv'
  <1> DEFINE old == durable.records
  <1>1. /\ Crash /\ active' = RestartedRows /\ submitted' = {}
        /\ batches' = batches /\ recoveries' = recoveries /\ refused' = refused
    BY DEF Restart
  <1>2. /\ Whole(old, durable.ledger) /\ ledger.alloc.pool \in Nat
        /\ Remembers(old, durable.ledger, sent)
    BY <1>1, PoolNat DEF CInv, FInv, Crash
  <1>3. records' = Resumed(old)
    BY <1>1, <1>2, CrashWhole
  <1>4. /\ verdicts' = verdicts /\ sent \subseteq sent'
        /\ outbox' = [r \in Fenced(old) |->
                         [tag |-> Resumed(old)[r].proto.active,
                          accepted |-> Resumed(old)[r].proto.accepted]]
    BY <1>1 DEF Crash, Emit, Fenced, Resumed
  <1> HIDE DEF old
  <1>5. DOMAIN active' = {}
    BY <1>1 DEF RestartedRows
  <1>6. DOMAIN records' = DOMAIN old
    BY <1>3 DEF Resumed
  <1>7. \A r \in DOMAIN records' : records'[r].proto.state # "verifying"
    BY <1>2, <1>3, <1>6, ResumedInFlight
  <1>8. Covered'
    BY <1>1, <1>5, <1>7 DEF Covered, Verifying
  <1>9. BatchesAre'
    BY <1>1, <1>4, <1>5, SameBatches DEF AInv, BatchesAre
  <1>10. Told'
    <2> SUFFICES ASSUME NEW r \in DOMAIN outbox', outbox'[r].tag \in verdicts PROVE FALSE
      BY <1>4 DEF Told
    <2> DEFINE new == Resumed(old)[r]
               t == new.proto.active
    <2>1. r \in Fenced(old) /\ outbox'[r].tag = t
      BY <1>4
    <2>2. /\ t \in Tag /\ t.req = r /\ t.version = new.proto.version
          /\ new.proto.version = old[r].proto.version + 1 /\ old[r].proto.version \in Nat
      BY <1>2, <2>1, FencedRecord
    <2> HIDE DEF new, t
    <2>3. PICK c \in sent : c.tag = t
      BY <2>1 DEF FInv, VerdictsSpent
    <2>4. t.version <= old[r].proto.version
      BY <1>2, <2>2, <2>3 DEF Remembers
    <2> QED BY <2>2, <2>4
  <1> QED BY <1>8, <1>9, <1>10 DEF AInv

LEMMA AInvStep == CInv /\ FInv /\ AInv /\ [AdapterNext]_allVars => AInv'
  <1> SUFFICES ASSUME CInv, FInv, AInv, [AdapterNext]_allVars PROVE AInv'
    OBVIOUS
  <1>0. Totals \subseteq Nat /\ 0 .. MaxBlocks \subseteq Nat /\ 1 .. MaxBlocks \subseteq Nat
    BY CoordinatorAssumption
  <1>1. ASSUME NEW r \in Requests, NEW total \in Totals, AdapterRegister(r, total, 0)
        PROVE  AInv'
    BY <1>0, <1>1, RegisterRows
  <1>2. ASSUME NEW r \in Requests, NEW width \in 1 .. MaxBlocks, AdapterReserve(r, width)
        PROVE  AInv'
    <2>1. width \in Nat /\ width > 0
      BY <1>0
    <2> QED BY <1>2, <2>1, ReserveRows
  <1>3. ASSUME NEW r \in Requests, AdapterCancel(r)
        PROVE  AInv'
    BY <1>3, CancelRows
  <1>4. ASSUME NEW tags \in SUBSET DOMAIN active, SubmitVerify(tags)
        PROVE  AInv'
    BY <1>4, SubmitRows
  <1>5. ASSUME NEW c \in sent, NEW hit \in BOOLEAN, NEW accepted \in 0 .. MaxBlocks,
               AdapterVerify(c.tag, hit, accepted)
        PROVE  AInv'
    BY <1>0, <1>5, VerifyRows
  <1>6. ASSUME NEW c \in sent, NEW finished \in BOOLEAN, AdapterRecovery(c.tag, finished)
        PROVE  AInv'
    BY <1>6, RecoveryRows
  <1>7. CASE Restart
    BY <1>7, RestartRows
  <1>8. CASE UNCHANGED allVars
    <2>1. /\ records' = records /\ outbox' = outbox /\ sent' = sent /\ verdicts' = verdicts
          /\ active' = active /\ submitted' = submitted /\ batches' = batches
          /\ recoveries' = recoveries /\ refused' = refused
      BY <1>8 DEF allVars
    <2>2. Covered' /\ Told'
      BY <2>1 DEF AInv, Covered, Verifying, Told, Handed
    <2>3. BatchesAre'
      BY <2>1, SameBatches, AttemptsGrow DEF AInv, BatchesAre
    <2> QED BY <2>2, <2>3 DEF AInv
  <1> QED BY <1>1, <1>2, <1>3, <1>4, <1>5, <1>6, <1>7, <1>8 DEF AdapterNext

LEMMA AInvInit == AdapterInit => AInv
  <1> SUFFICES ASSUME AdapterInit PROVE AInv
    OBVIOUS
  <1>1. /\ DOMAIN records = {} /\ DOMAIN active = {} /\ submitted = {}
        /\ DOMAIN outbox = {} /\ verdicts = {}
    BY DEF AdapterInit, Init
  <1>2. DOMAIN batches = {}
    BY DEF AdapterInit, EmptyBag, SetToBag
  <1>3. Everything = {} /\ LaunchedOnce
    BY <1>2 DEF Everything, LaunchedOnce
  <1>4. BatchesAre
    BY <1>1, <1>2, <1>3 DEF BatchesAre
  <1> QED BY <1>1, <1>4 DEF AInv, Covered, Verifying, Told

LEMMA AdapterInvariant ==
    ASSUME PublishBeforeEmit PROVE AdapterSpec => [](CInv /\ AInv)
  <1>1. AdapterSpec => [](CInv /\ FInv)
    BY AdapterImplementsCoordinator, Fenceable, PTL
  <1>2. CInv /\ FInv /\ AInv /\ [AdapterNext]_allVars => AInv'
    BY AInvStep
  <1> QED BY <1>1, <1>2, AInvInit, PTL DEF AdapterSpec

\* The adapter's rows are those the coordinator is verifying, table by table,
\* and no row is launched twice, in whatever batch and life.
THEOREM RowsAndLaunches ==
    ASSUME PublishBeforeEmit PROVE AdapterSpec => []AdapterAudit
  <1>1. CInv /\ AInv => AdapterAudit
    BY CoveredIs DEF AInv, BatchesAre, AdapterAudit
  <1> QED BY <1>1, AdapterInvariant, PTL

\* Nothing is judged that was not launched, and the backend has the very
\* recovery command the coordinator waits for after a miss, unless it raised
\* when it was handed that command.
THEOREM BackendNeverBehind ==
    ASSUME PublishBeforeEmit PROVE AdapterSpec => []BackendAgrees
  <1>1. AInv => BackendAgrees
    BY DEF AInv, BatchesAre, Everything, Told, Handed, BackendAgrees
  <1> QED BY <1>1, AdapterInvariant, PTL

=============================================================================
