------------------------------- MODULE SpendGate -------------------------------
(***************************************************************************)
(* The campaign ledger of fissionspec/spend_gate.py: stages in a fixed     *)
(* order, a budget sealed for one accelerator stage at a time, a terminal  *)
(* record of every gate, and the self-hashed audit document from which a   *)
(* ledger is read back.  A refused call raises and changes nothing.        *)
(***************************************************************************)
EXTENDS Naturals, Sequences, FiniteSets

CONSTANTS
    StageCount,    \* stage 1 is the CPU release, which has no budget
    Seconds,       \* amounts of GPU seconds, in caps and in results
    ReplayCounts        \* amounts of replays

\* Assumed of the constants.
GateConstants ==
    StageCount \in Nat \ {0} /\ Seconds \subseteq Nat /\ ReplayCounts \subseteq Nat

Stages == 1..StageCount
Budgets == [seconds : Seconds \ {0}, replays : ReplayCounts \ {0}]
Records == [verdict : {"pass", "fail"}, seconds : Seconds, replays : ReplayCounts]

VARIABLES
    budgets,       \* the sealed budgets, by stage
    records,       \* the gate records, in stage order
    document       \* the last audit document that was written

vars == <<budgets, records, document>>

----------------------------------------------------------------------------
(* The ledger.                                                             *)

Fits(r, b) == r.seconds <= b.seconds /\ r.replays <= b.replays

\* What the constructor accepts, of a copy and of a document alike.
Accepts(bs, rs) ==
    /\ Len(rs) <= StageCount
    /\ \A i \in DOMAIN rs :
          /\ i < Len(rs) => rs[i].verdict # "fail"
          /\ i # 1 => i \in DOMAIN bs /\ Fits(rs[i], bs[i])

Failed == records # <<>> /\ records[Len(records)].verdict = "fail"
\* A failed gate does not close the ledger (SpendAuthorized).
WrongOpen == Len(records) < StageCount

Open == ~Failed /\ Len(records) < StageCount
NextStage == Len(records) + 1

\* The CPU release gate cannot use the GPU.
ValidRecord(s, r) == s = 1 => r.seconds = 0 /\ r.replays = 0

Authorized == IF Open /\ NextStage \in DOMAIN budgets THEN budgets[NextStage].seconds ELSE 0

----------------------------------------------------------------------------
(* The calls.                                                              *)

Init == budgets = <<>> /\ records = <<>> /\ document = [budgets |-> <<>>, records |-> <<>>]

\* A second seal of the same stage is the same budget again, or refused.
SealNextBudget(s, b) ==
    /\ Open /\ s = NextStage /\ s # 1
    /\ s \notin DOMAIN budgets
    /\ budgets' = [t \in DOMAIN budgets \cup {s} |-> IF t = s THEN b ELSE budgets[t]]
    /\ UNCHANGED <<records, document>>

\* A record of an earlier stage is the recorded one again, or refused.
RecordGate(s, r) ==
    /\ Open /\ s = NextStage /\ ValidRecord(s, r)
    /\ s # 1 => s \in DOMAIN budgets /\ Fits(r, budgets[s])
    /\ Accepts(budgets, Append(records, r))
    /\ records' = Append(records, r)
    /\ UNCHANGED <<budgets, document>>

\* A call that is repeated finds its own effect and changes nothing.
Repeat ==
    /\ \/ \E s \in Stages, b \in Budgets : Open /\ s = NextStage /\ s \in DOMAIN budgets /\ budgets[s] = b
       \/ \E s \in DOMAIN records : ~(Open /\ s = NextStage)
    /\ UNCHANGED vars

Document ==
    /\ document' = [budgets |-> budgets, records |-> records]
    /\ UNCHANGED <<budgets, records>>

\* A restarted client reads the document back.
FromDocument ==
    /\ Accepts(document.budgets, document.records)
    /\ budgets' = document.budgets /\ records' = document.records
    /\ UNCHANGED document

Next ==
    \/ \E s \in Stages, b \in Budgets : SealNextBudget(s, b)
    \/ \E s \in Stages, r \in Records : RecordGate(s, r)
    \/ Repeat \/ Document \/ FromDocument

Spec == Init /\ [][Next]_vars

----------------------------------------------------------------------------
(* Properties.                                                             *)

\* Every sealed stage comes after a prefix of gates that all passed, and every
\* recorded stage stays within a budget that was sealed for it.
Sound(bs, rs) ==
    /\ DOMAIN rs \subseteq Stages
    /\ \A s \in DOMAIN bs : s \in Stages \ {1} /\ \A i \in 1..(s - 1) : i \in DOMAIN rs /\ rs[i].verdict = "pass"
    /\ \A i \in DOMAIN rs : IF i = 1 THEN rs[i].seconds = 0 ELSE i \in DOMAIN bs /\ Fits(rs[i], bs[i])
    /\ \A i \in DOMAIN rs : i < Len(rs) => rs[i].verdict = "pass"

\* No accelerator time is authorised or spent outside the stage order: of the
\* live ledger and of the document a restarted client reads back, also when
\* the document is older than the calls that were answered since.
SpendAuthorized ==
    /\ Sound(budgets, records)
    /\ Sound(document.budgets, document.records)
    /\ Authorized # 0 => \A i \in 1..Len(records) : records[i].verdict = "pass"

=============================================================================
