------------------------- MODULE IndependentParts_proofs -------------------------
(***************************************************************************)
(* What the ledger, the page slots, the stopping rule, the evidence        *)
(* bundles, the public replay and the handoff promise, for every value of  *)
(* their constants.                                                        *)
(*                                                                         *)
(* Only the variables of one part change, so an invariant of a part is an  *)
(* invariant of the composition: each section strengthens the property of  *)
(* its part to an inductive one, and the theorems at the end lift it.      *)
(***************************************************************************)
EXTENDS IndependentParts, FiniteSetTheorems, WellFoundedInduction, TLAPS

----------------------------------------------------------------------------
(* One part runs.                                                          *)

\* The part that runs is chosen once.
LEMMA PartStays ==
    ASSUME [Next]_vars
    PROVE  part' = part
  BY DEF Next, Only, vars

\* A step of the composition is a step of the part that runs.
LEMMA StepOfPart ==
    ASSUME [Next]_vars
    PROVE  /\ part = "ledger" => [Ledger!Next]_ledgerVars
           /\ part = "pages" => [Pages!Next]_pagesVars
           /\ part = "stopping" => [Stopping!Next]_stoppingVars
           /\ part = "bundle" => [Bundle!Next]_bundleVars
           /\ part = "handoff" => [Handoff!Next]_handoffVars
           /\ part = "replay" => [Replay!Next]_replayVars
  BY DEF Next, vars

\* A nonempty set of naturals has a least element.
LEMMA LeastNatural ==
    ASSUME NEW T, T \subseteq Nat, T # {}
    PROVE  \E x \in T : \A y \in T : x <= y
  <1> DEFINE R == OpToRel(<, Nat)
  <1>1. IsWellFoundedOn(R, Nat)
    BY NatLessThanWellFounded
  <1>2. \A x, y \in Nat : <<y, x>> \in R <=> y < x
    BY DEF OpToRel
  <1> HIDE DEF R
  <1>3. PICK x \in T : \A y \in T : ~ (<<y, x>> \in R)
    BY <1>1, WFMin
  <1>4. ASSUME NEW y \in T
        PROVE  x <= y
    <2>1. x \in Nat /\ y \in Nat
      OBVIOUS
    <2>2. ~ (y < x)
      BY <1>2, <1>3, <2>1, Zenon
    <2> QED BY <2>1, <2>2
  <1> QED BY <1>4

----------------------------------------------------------------------------
(* The ledger.  SpendAuthorized is inductive once the records are typed: a *)
(* budget that is sealed follows records that all passed, because a ledger *)
(* with a failed record is closed; and what the document holds was a       *)
(* ledger once.                                                            *)

Book(bs, rs) == rs \in Seq(Ledger!Records) /\ Ledger!Sound(bs, rs)

LedgerInv == Book(budgets, records) /\ Book(document.budgets, document.records)

\* An open ledger holds passed gates only.
LEMMA OpenMeansPassed ==
    ASSUME Book(budgets, records), Ledger!Open
    PROVE  \A i \in 1..Len(records) : i \in DOMAIN records /\ records[i].verdict = "pass"
  <1> SUFFICES ASSUME NEW i \in 1..Len(records)
               PROVE  i \in DOMAIN records /\ records[i].verdict = "pass"
    OBVIOUS
  <1>1. /\ records \in Seq(Ledger!Records) /\ Len(records) \in Nat /\ DOMAIN records = 1..Len(records)
        /\ records[i] \in Ledger!Records
    BY DEF Book
  <1>2. CASE i < Len(records)
    BY <1>1, <1>2 DEF Book, Ledger!Sound
  <1>3. CASE i = Len(records)
    <2>1. records # <<>>
      BY <1>1
    <2>2. records[i].verdict # "fail"
      BY <1>3, <2>1 DEF Ledger!Open, Ledger!Failed
    <2> QED BY <1>1, <2>2 DEF Ledger!Records
  <1>4. i < Len(records) \/ i = Len(records)
    <2>1. Len(records) \in Nat
      BY <1>1
    <2> QED BY <2>1
  <1> QED BY <1>2, <1>3, <1>4

\* Sealing the budget of the next stage.
LEMMA SealKeepsBook ==
    ASSUME Ledger!GateConstants, LedgerInv, NEW s \in Ledger!Stages, NEW b \in Ledger!Budgets, Ledger!SealNextBudget(s, b)
    PROVE  Book(budgets', records')
  <1>1. /\ s = Len(records) + 1 /\ s # 1
        /\ records' = records /\ DOMAIN budgets' = DOMAIN budgets \cup {s}
        /\ \A t \in DOMAIN budgets : budgets'[t] = budgets[t]
    BY DEF Ledger!SealNextBudget, Ledger!NextStage
  <1>2. \A i \in 1..Len(records) : i \in DOMAIN records /\ records[i].verdict = "pass"
    BY OpenMeansPassed DEF LedgerInv, Ledger!SealNextBudget
  <1>3. Ledger!Sound(budgets, records) /\ records \in Seq(Ledger!Records) /\ Len(records) \in Nat
    BY DEF LedgerInv, Book
  <1>4. \A t \in DOMAIN budgets' :
           t \in Ledger!Stages \ {1} /\ \A i \in 1..(t - 1) : i \in DOMAIN records /\ records[i].verdict = "pass"
    BY <1>1, <1>2, <1>3 DEF Ledger!Sound
  <1>5. \A i \in DOMAIN records :
           IF i = 1 THEN records[i].seconds = 0 ELSE i \in DOMAIN budgets' /\ Ledger!Fits(records[i], budgets'[i])
    BY <1>1, <1>3 DEF Ledger!Sound
  <1> QED BY <1>1, <1>3, <1>4, <1>5 DEF Ledger!Sound, Book

\* Recording the gate of the next stage.
LEMMA RecordKeepsBook ==
    ASSUME Ledger!GateConstants, LedgerInv, NEW s \in Ledger!Stages, NEW r \in Ledger!Records, Ledger!RecordGate(s, r)
    PROVE  Book(budgets', records')
  <1> DEFINE n == Len(records)
  <1>1. /\ s = n + 1 /\ s \in Ledger!Stages
        /\ records' = Append(records, r) /\ budgets' = budgets
        /\ s = 1 => r.seconds = 0
        /\ s # 1 => s \in DOMAIN budgets /\ Ledger!Fits(r, budgets[s])
    BY DEF Ledger!RecordGate, Ledger!NextStage, Ledger!ValidRecord
  <1>2. \A i \in 1..n : i \in DOMAIN records /\ records[i].verdict = "pass"
    BY OpenMeansPassed DEF LedgerInv, Ledger!RecordGate
  <1>3. Ledger!Sound(budgets, records) /\ records \in Seq(Ledger!Records) /\ n \in Nat
    BY DEF LedgerInv, Book
  <1>4. /\ records' \in Seq(Ledger!Records) /\ Len(records') = n + 1
        /\ DOMAIN records' = 1..(n + 1) /\ DOMAIN records = 1..n
        /\ \A i \in 1..n : records'[i] = records[i]
        /\ records'[n + 1] = r
    BY <1>1, <1>3
  <1>5. DOMAIN records' \subseteq Ledger!Stages
    BY <1>1, <1>3, <1>4 DEF Ledger!Sound
  <1>6. \A t \in DOMAIN budgets' :
           t \in Ledger!Stages \ {1} /\ \A i \in 1..(t - 1) : i \in DOMAIN records' /\ records'[i].verdict = "pass"
    <2> SUFFICES ASSUME NEW t \in DOMAIN budgets, NEW i \in 1..(t - 1)
                 PROVE  i \in DOMAIN records' /\ records'[i].verdict = "pass"
      BY <1>1, <1>3 DEF Ledger!Sound
    <2>1. i \in DOMAIN records /\ records[i].verdict = "pass"
      BY <1>3 DEF Ledger!Sound
    <2> QED BY <2>1, <1>3, <1>4
  <1>7. \A i \in DOMAIN records' :
           IF i = 1 THEN records'[i].seconds = 0
           ELSE i \in DOMAIN budgets' /\ Ledger!Fits(records'[i], budgets'[i])
    <2> SUFFICES ASSUME NEW i \in 1..(n + 1)
                 PROVE  IF i = 1 THEN records'[i].seconds = 0
                        ELSE i \in DOMAIN budgets /\ Ledger!Fits(records'[i], budgets[i])
      BY <1>1, <1>4
    <2>1. CASE i = n + 1
      BY <2>1, <1>1, <1>4
    <2>2. CASE i \in 1..n
      BY <2>2, <1>3, <1>4 DEF Ledger!Sound
    <2> QED BY <2>1, <2>2, <1>3
  <1>8. \A i \in DOMAIN records' : i < Len(records') => records'[i].verdict = "pass"
    BY <1>2, <1>3, <1>4
  <1> QED BY <1>4, <1>5, <1>6, <1>7, <1>8 DEF Ledger!Sound, Book

\* Every step keeps the ledger and its document sound.
LEMMA LedgerStep ==
    ASSUME Ledger!GateConstants, LedgerInv, [Ledger!Next]_ledgerVars
    PROVE  LedgerInv'
  <1>1. CASE \E s \in Ledger!Stages, b \in Ledger!Budgets : Ledger!SealNextBudget(s, b)
    BY <1>1, SealKeepsBook DEF LedgerInv, Ledger!SealNextBudget
  <1>2. CASE \E s \in Ledger!Stages, r \in Ledger!Records : Ledger!RecordGate(s, r)
    BY <1>2, RecordKeepsBook DEF LedgerInv, Ledger!RecordGate
  <1>3. CASE Ledger!Repeat
    BY <1>3 DEF Ledger!Repeat, LedgerInv, Ledger!vars
  <1>4. CASE Ledger!Document
    BY <1>4 DEF Ledger!Document, LedgerInv
  <1>5. CASE Ledger!FromDocument
    BY <1>5 DEF Ledger!FromDocument, LedgerInv
  <1>6. CASE UNCHANGED ledgerVars
    BY <1>6 DEF LedgerInv, ledgerVars
  <1> QED BY <1>1, <1>2, <1>3, <1>4, <1>5, <1>6 DEF Ledger!Next

\* It begins empty, and its invariant says what is promised.
LEMMA LedgerFacts ==
    /\ Ledger!Init => LedgerInv
    /\ LedgerInv => Ledger!SpendAuthorized
  <1>1. Ledger!Init => LedgerInv
    BY DEF Ledger!Init, LedgerInv, Book, Ledger!Sound
  <1>2. ASSUME LedgerInv
        PROVE  Ledger!SpendAuthorized
    <2>1. Ledger!Authorized # 0 => \A i \in 1..Len(records) : records[i].verdict = "pass"
      BY <1>2, OpenMeansPassed DEF LedgerInv, Ledger!Authorized
    <2> QED BY <1>2, <2>1 DEF LedgerInv, Book, Ledger!SpendAuthorized
  <1> QED BY <1>1, <1>2

----------------------------------------------------------------------------
(* The page slots.  The free list is a line of slots: it holds every free  *)
(* slot once, the head is its first, and each slot links to the next.  An  *)
(* allocation takes the first off, a release puts one in front; following  *)
(* the links finds the line, and no more than it, because a line without   *)
(* repetitions is no longer than there are slots.                          *)
(*                                                                         *)
(* A handle is dead once its slot moved on to a later generation or was    *)
(* retired.  That it stays dead rests on the line: a retired slot is not   *)
(* on it, so it is never allocated again.                                  *)

SlotType == [generation : Nat, next : 0..Capacity, allocated : BOOLEAN, retired : BOOLEAN]

SlotsTyped ==
    /\ slotAt \in [Pages!Slots -> SlotType]
    /\ freeHead \in 0..Capacity
    /\ \A i \in Pages!Slots : slotAt[i].retired => ~slotAt[i].allocated

\* The first n slots of line are the free list.
Threads(n, line) ==
    /\ \A j, k \in 1..n : line[j] = line[k] => j = k
    /\ \A k \in 1..n : Pages!Free(line[k])
    /\ \A i \in Pages!Slots : Pages!Free(i) => \E k \in 1..n : line[k] = i
    /\ freeHead = IF n = 0 THEN Pages!End ELSE line[1]
    /\ \A k \in 1..n : slotAt[line[k]].next = IF k = n THEN Pages!End ELSE line[k + 1]

Linked == \E n \in Nat : \E line \in [1..n -> Pages!Slots] : Threads(n, line)

HandleType == [pool : {Pool}, index : Pages!Slots, generation : Nat]

HandlesDated ==
    /\ issued \subseteq HandleType
    /\ released \subseteq issued
    /\ \A h \in issued : h.generation <= slotAt[h.index].generation
    /\ \A h \in released :
          h.generation < slotAt[h.index].generation \/ slotAt[h.index].retired
    /\ \A i \in Pages!Slots :
          slotAt[i].allocated => Pages!Handle(Pool, i, slotAt[i].generation) \in issued

\* The optional handles of a transaction.
HandleSets == SUBSET [pool : {Pool, Foreign}, index : Nat, generation : Nat]
TransactionType ==
    [epoch : Epochs, parent : SUBSET Branches, checkpoint : HandleSets, tail : HandleSets,
     state : {"open", "prepared", "committed", "aborted"}]

OnePool ==
    \A b \in DOMAIN branch :
        branch[b] \in TransactionType /\ Pages!SamePool(branch[b].checkpoint, branch[b].tail)

PagesInv == SlotsTyped /\ Linked /\ HandlesDated /\ OnePool

\* The slots after a change of one of them.
LEMMA OneSlot ==
    ASSUME SlotsTyped, NEW i \in Pages!Slots, NEW s \in SlotType, slotAt' = [slotAt EXCEPT ![i] = s]
    PROVE  /\ slotAt' \in [Pages!Slots -> SlotType]
           /\ slotAt'[i] = s
           /\ \A j \in Pages!Slots \ {i} : slotAt'[j] = slotAt[j]
  BY DEF SlotsTyped

\* The first slot of the line is handed out.
LEMMA AllocateKeeps ==
    ASSUME Pages!SlotsConstants, PagesInv, Pages!Allocate
    PROVE  PagesInv'
  <1> DEFINE i == freeHead
             s == Pages!Slot(slotAt[i].generation, Pages!End, TRUE, slotAt[i].retired)
  <1>a. PICK n \in Nat : \E line \in [1..n -> Pages!Slots] : Threads(n, line)
    BY DEF PagesInv, Linked
  <1>0. PICK line \in [1..n -> Pages!Slots] : Threads(n, line)
    BY <1>a
  <1>1. i \in Pages!Slots /\ Pages!Free(i) /\ i # Pages!End /\ n > 0 /\ i = line[1]
    <2>1. n # 0 /\ i = line[1]
      BY <1>0 DEF Threads, Pages!Allocate
    <2>2. n > 0 /\ 1 \in 1..n
      BY <2>1
    <2>3. i \in Pages!Slots /\ Pages!Free(i)
      BY <1>0, <2>1, <2>2 DEF Threads
    <2> QED BY <2>1, <2>2, <2>3 DEF Pages!Slots, Pages!End, Pages!SlotsConstants
  <1>2. slotAt[i] \in SlotType /\ s \in SlotType
    BY <1>1 DEF PagesInv, SlotsTyped, SlotType, Pages!Slot, Pages!End, Pages!SlotsConstants
  <1>3. slotAt' = [slotAt EXCEPT ![i] = s]
    BY DEF Pages!Allocate
  <1>4. /\ slotAt' \in [Pages!Slots -> SlotType]
        /\ slotAt'[i] = s
        /\ \A j \in Pages!Slots \ {i} : slotAt'[j] = slotAt[j]
    BY <1>1, <1>2, <1>3, OneSlot DEF PagesInv
  <1>5. /\ s.generation = slotAt[i].generation /\ s.next = Pages!End
        /\ s.allocated = TRUE /\ s.retired = slotAt[i].retired
    BY DEF Pages!Slot
  <1>6. freeHead' = slotAt[i].next /\ released' = released
        /\ issued' = issued \cup {Pages!Handle(Pool, i, slotAt[i].generation)}
    BY DEF Pages!Allocate
  <1> HIDE DEF s
  <1>7. SlotsTyped'
    <2>1. freeHead' \in 0..Capacity
      BY <1>2, <1>6 DEF SlotType
    <2>2. \A j \in Pages!Slots : slotAt'[j].retired => ~slotAt'[j].allocated
      BY <1>1, <1>4, <1>5 DEF PagesInv, SlotsTyped, Pages!Free
    <2> QED BY <1>4, <2>1, <2>2 DEF SlotsTyped, Pages!Slots
  <1>8. \A j \in Pages!Slots : Pages!Free(j)' <=> Pages!Free(j) /\ j # i
    BY <1>1, <1>4, <1>5 DEF Pages!Free
  <1>9. Linked'
    <2> DEFINE rest == [k \in 1..(n - 1) |-> line[k + 1]]
    <2>1. n - 1 \in Nat /\ \A k \in 1..(n - 1) : k + 1 \in 1..n /\ k \in 1..n /\ k # n
      BY <1>1
    <2>2. rest \in [1..(n - 1) -> Pages!Slots] /\ \A k \in 1..(n - 1) : rest[k] = line[k + 1]
      BY <2>1
    <2> HIDE DEF rest
    <2>3. \A k \in 1..n : k # 1 => line[k] # i /\ line[k] \in Pages!Slots
      BY <1>0, <1>1 DEF Threads
    <2>4. \A k \in 1..(n - 1) : rest[k] # i /\ rest[k] \in Pages!Slots
      BY <2>1, <2>2, <2>3
    <2>5. \A j, k \in 1..(n - 1) : rest[j] = rest[k] => j = k
      <3> SUFFICES ASSUME NEW j \in 1..(n - 1), NEW k \in 1..(n - 1), rest[j] = rest[k]
                   PROVE  j = k
        OBVIOUS
      <3>1. line[j + 1] = line[k + 1] /\ j + 1 \in 1..n /\ k + 1 \in 1..n
        BY <2>1, <2>2
      <3>2. j + 1 = k + 1
        BY <3>1, <1>0 DEF Threads
      <3> QED BY <3>2
    <2>6. \A k \in 1..(n - 1) : Pages!Free(rest[k])'
      <3> SUFFICES ASSUME NEW k \in 1..(n - 1)
                   PROVE  Pages!Free(rest[k])'
        OBVIOUS
      <3>1. Pages!Free(rest[k]) /\ rest[k] \in Pages!Slots \ {i}
        BY <1>0, <2>1, <2>2, <2>4 DEF Threads
      <3> QED BY <3>1, <1>4 DEF Pages!Free
    <2>7. ASSUME NEW j \in Pages!Slots, Pages!Free(j)'
          PROVE  \E k \in 1..(n - 1) : rest[k] = j
      <3>1. Pages!Free(j) /\ j # i
        BY <2>7, <1>8
      <3>2. PICK k \in 1..n : line[k] = j
        BY <3>1, <1>0 DEF Threads
      <3>3. k # 1
        BY <3>1, <3>2, <1>1
      <3>4. k - 1 \in 1..(n - 1) /\ (k - 1) + 1 = k
        BY <3>3
      <3>5. rest[k - 1] = j
        BY <2>2, <3>2, <3>4
      <3> QED BY <3>4, <3>5
    <2>8. freeHead' = IF n - 1 = 0 THEN Pages!End ELSE rest[1]
      <3>1. 1 \in 1..n /\ slotAt[line[1]].next = IF 1 = n THEN Pages!End ELSE line[1 + 1]
        BY <1>0, <1>1 DEF Threads
      <3>2. n # 1 => 1 \in 1..(n - 1)
        BY <1>1
      <3> QED BY <3>1, <3>2, <1>1, <1>6, <2>2
    <2>9. ASSUME NEW k \in 1..(n - 1)
          PROVE  slotAt'[rest[k]].next = IF k = n - 1 THEN Pages!End ELSE rest[k + 1]
      <3>1. slotAt'[rest[k]] = slotAt[line[k + 1]]
        BY <1>4, <2>2, <2>4
      <3>2. slotAt[line[k + 1]].next = IF k + 1 = n THEN Pages!End ELSE line[(k + 1) + 1]
        BY <1>0, <2>1 DEF Threads
      <3>3. k # n - 1 => k + 1 \in 1..(n - 1)
        OBVIOUS
      <3> QED BY <3>1, <3>2, <3>3, <2>2
    <2>10. Threads(n - 1, rest)'
      BY <2>5, <2>6, <2>7, <2>8, <2>9 DEF Threads, Pages!Slots, Pages!End
    <2> QED BY <2>1, <2>2, <2>10 DEF Linked, Pages!Slots
  <1>10. HandlesDated'
    <2> DEFINE g == Pages!Handle(Pool, i, slotAt[i].generation)
    <2>1. g \in HandleType /\ g.index = i /\ g.generation = slotAt[i].generation
      BY <1>1, <1>2 DEF Pages!Handle, HandleType, SlotType
    <2>2. \A j \in Pages!Slots : slotAt'[j].generation = slotAt[j].generation
                           /\ slotAt'[j].retired = slotAt[j].retired
      BY <1>4, <1>5
    <2>3. \A j \in Pages!Slots : slotAt'[j].allocated => Pages!Handle(Pool, j, slotAt'[j].generation) \in issued'
      BY <1>4, <1>5, <1>6, <2>2 DEF PagesInv, HandlesDated
    <2>4. slotAt[i].generation \in Nat
      BY <1>2 DEF SlotType
    <2> HIDE DEF g
    <2>5. \A h \in issued' : h \in HandleType /\ h.generation <= slotAt'[h.index].generation
      <3> SUFFICES ASSUME NEW h \in issued'
                   PROVE  h \in HandleType /\ h.generation <= slotAt'[h.index].generation
        OBVIOUS
      <3>1. CASE h \in issued
        BY <3>1, <2>2 DEF PagesInv, HandlesDated, HandleType
      <3>2. CASE h = g
        BY <3>2, <2>1, <2>2, <2>4, <1>1
      <3> QED BY <3>1, <3>2, <1>6 DEF g
    <2>6. \A h \in released' :
             h.generation < slotAt'[h.index].generation \/ slotAt'[h.index].retired
      BY <1>6, <2>2 DEF PagesInv, HandlesDated, HandleType
    <2> QED BY <1>6, <2>3, <2>5, <2>6 DEF PagesInv, HandlesDated, HandleType, Pages!Slots
  <1>11. OnePool'
    BY DEF PagesInv, OnePool, Pages!Allocate, HandleSets, TransactionType, Pages!SamePool
  <1> QED BY <1>7, <1>9, <1>10, <1>11 DEF PagesInv

\* The slot of h is free in its next generation, or retired for good.
LEMMA ReleaseKeeps ==
    ASSUME Pages!SlotsConstants, PagesInv, NEW h \in Pages!Presented, Pages!Release(h)
    PROVE  PagesInv'
  <1> DEFINE i == h.index
             s == Pages!Released(slotAt[i])
             again == slotAt[i].generation + 1 <= MaxGeneration
  <1>1. /\ i \in Pages!Slots /\ slotAt[i].allocated /\ slotAt[i].generation = h.generation
        /\ h \in issued
    BY DEF Pages!Release, Pages!Presented, Pages!Handle, Pages!SlotsConstants
  <1>2. slotAt[i] \in SlotType /\ slotAt[i].generation \in Nat
    BY <1>1 DEF PagesInv, SlotsTyped, SlotType
  <1>3. s \in SlotType
    BY <1>2 DEF PagesInv, SlotsTyped, SlotType, Pages!Released, Pages!Slot, Pages!End, Pages!SlotsConstants
  <1>4. slotAt' = [slotAt EXCEPT ![i] = s]
    BY DEF Pages!Release
  <1>5. /\ slotAt' \in [Pages!Slots -> SlotType]
        /\ slotAt'[i] = s
        /\ \A j \in Pages!Slots \ {i} : slotAt'[j] = slotAt[j]
    BY <1>1, <1>3, <1>4, OneSlot DEF PagesInv
  <1>6. /\ s.allocated = FALSE
        /\ again => s.generation = slotAt[i].generation + 1 /\ s.next = freeHead /\ s.retired = FALSE
        /\ ~again => s.generation = slotAt[i].generation /\ s.retired = TRUE
    BY DEF Pages!Released, Pages!Slot
  <1>7. /\ freeHead' = IF again THEN i ELSE freeHead
        /\ released' = released \cup {h} /\ issued' = issued
    BY DEF Pages!Release
  <1> HIDE DEF s, again
  <1>8. SlotsTyped'
    <2>1. freeHead' \in 0..Capacity
      BY <1>1, <1>7 DEF PagesInv, SlotsTyped, Pages!Slots, Pages!SlotsConstants
    <2>2. \A j \in Pages!Slots : slotAt'[j].retired => ~slotAt'[j].allocated
      BY <1>5, <1>6 DEF PagesInv, SlotsTyped
    <2> QED BY <1>5, <2>1, <2>2 DEF SlotsTyped, Pages!Slots
  <1>9. /\ ~Pages!Free(i)
        /\ \A j \in Pages!Slots : Pages!Free(j)' <=> (Pages!Free(j) \/ (again /\ j = i))
    BY <1>1, <1>5, <1>6 DEF Pages!Free
  <1>10. Linked'
    <2>0. PICK n \in Nat : \E line \in [1..n -> Pages!Slots] : Threads(n, line)
      BY DEF PagesInv, Linked
    <2>1. PICK line \in [1..n -> Pages!Slots] : Threads(n, line)
      BY <2>0
    <2>2. \A k \in 1..n : /\ line[k] \in Pages!Slots \ {i} /\ slotAt'[line[k]] = slotAt[line[k]]
                          /\ Pages!Free(line[k]) /\ Pages!Free(line[k])'
      <3>1. \A k \in 1..n : line[k] \in Pages!Slots \ {i} /\ Pages!Free(line[k])
        BY <2>1, <1>9 DEF Threads
      <3> QED BY <3>1, <1>5 DEF Pages!Free
    <2>3. CASE ~again
      <3>1. Threads(n, line)'
        BY <2>1, <2>2, <2>3, <1>7, <1>9 DEF Threads, Pages!Slots, Pages!End
      <3> QED BY <2>1, <3>1 DEF Linked, Pages!Slots
    <2>4. CASE again
      <3> DEFINE longer == [k \in 1..(n + 1) |-> IF k = 1 THEN i ELSE line[k - 1]]
      <3>1. \A k \in 1..(n + 1) : k # 1 => k - 1 \in 1..n
        OBVIOUS
      <3>2. /\ longer \in [1..(n + 1) -> Pages!Slots]
            /\ longer[1] = i
            /\ \A k \in 1..(n + 1) : k # 1 => longer[k] = line[k - 1]
        BY <1>1, <2>2, <3>1
      <3> HIDE DEF longer
      <3>3. ASSUME NEW j \in 1..(n + 1), NEW k \in 1..(n + 1), longer[j] = longer[k]
            PROVE  j = k
        <4>1. j = 1 <=> longer[j] = i
          BY <2>2, <3>1, <3>2
        <4>2. k = 1 <=> longer[k] = i
          BY <2>2, <3>1, <3>2
        <4>3. CASE j # 1 /\ k # 1
          <5>1. line[j - 1] = line[k - 1] /\ j - 1 \in 1..n /\ k - 1 \in 1..n
            BY <3>1, <3>2, <3>3, <4>3
          <5>2. j - 1 = k - 1
            BY <5>1, <2>1 DEF Threads
          <5> QED BY <5>2
        <4> QED BY <3>3, <4>1, <4>2, <4>3
      <3>4. Pages!Free(i)'
        BY <1>9, <1>1, <2>4
      <3>5. \A k \in 1..(n + 1) : Pages!Free(longer[k])'
        <4> SUFFICES ASSUME NEW k \in 1..(n + 1)
                     PROVE  Pages!Free(longer[k])'
          OBVIOUS
        <4>1. CASE k = 1
          BY <4>1, <3>2, <3>4 DEF Pages!Free
        <4>2. CASE k # 1
          <5>1. longer[k] = line[k - 1] /\ Pages!Free(line[k - 1])'
            BY <4>2, <3>1, <3>2, <2>2
          <5> QED BY <5>1 DEF Pages!Free
        <4> QED BY <4>1, <4>2
      <3>6. ASSUME NEW j \in Pages!Slots, Pages!Free(j)'
            PROVE  \E k \in 1..(n + 1) : longer[k] = j
        <4>1. CASE j = i
          BY <4>1, <3>2
        <4>2. CASE j # i
          <5>1. PICK k \in 1..n : line[k] = j
            BY <4>2, <3>6, <1>9, <2>1 DEF Threads
          <5>2. k + 1 \in 1..(n + 1) /\ k + 1 # 1 /\ (k + 1) - 1 = k
            OBVIOUS
          <5>3. longer[k + 1] = j
            BY <5>1, <5>2, <3>2
          <5> QED BY <5>2, <5>3
        <4> QED BY <4>1, <4>2
      <3>7. slotAt'[i].next = freeHead /\ freeHead' = i
        BY <1>5, <1>6, <1>7, <2>4
      <3>8. ASSUME NEW k \in 1..(n + 1)
            PROVE  slotAt'[longer[k]].next = IF k = n + 1 THEN Pages!End ELSE longer[k + 1]
        <4>1. CASE k = 1
          <5>1. freeHead = IF n = 0 THEN Pages!End ELSE line[1]
            BY <2>1 DEF Threads
          <5>2. n # 0 => 2 \in 1..(n + 1) /\ 2 # 1 /\ 2 - 1 = 1
            OBVIOUS
          <5>3. n # 0 => longer[2] = line[1]
            BY <5>2, <3>2
          <5> QED BY <4>1, <5>1, <5>3, <3>2, <3>7
        <4>2. CASE k # 1
          <5>1. k - 1 \in 1..n /\ longer[k] = line[k - 1]
            BY <4>2, <3>1, <3>2
          <5>2. slotAt'[longer[k]].next = IF k - 1 = n THEN Pages!End ELSE line[(k - 1) + 1]
            BY <5>1, <2>1, <2>2 DEF Threads
          <5>3. k # n + 1 => k + 1 \in 1..(n + 1) /\ k + 1 # 1 /\ (k + 1) - 1 = (k - 1) + 1
            OBVIOUS
          <5>4. k # n + 1 => longer[k + 1] = line[(k - 1) + 1]
            BY <5>3, <3>2
          <5> QED BY <5>2, <5>4
        <4> QED BY <4>1, <4>2
      <3>9. n + 1 # 0 /\ n + 1 \in Nat
        OBVIOUS
      <3>10. Threads(n + 1, longer)'
        BY <3>2, <3>3, <3>5, <3>6, <3>7, <3>8, <3>9 DEF Threads, Pages!Slots, Pages!End
      <3> QED BY <3>2, <3>9, <3>10 DEF Linked, Pages!Slots
    <2> QED BY <2>3, <2>4
  <1>11. HandlesDated'
    <2>1. \A j \in Pages!Slots : /\ slotAt[j].generation \in Nat /\ slotAt'[j].generation \in Nat
                           /\ slotAt[j].generation <= slotAt'[j].generation
      BY <1>2, <1>5, <1>6 DEF PagesInv, SlotsTyped, SlotType
    <2>2. \A j \in Pages!Slots : slotAt[j].retired => slotAt'[j].retired
      BY <1>1, <1>5, <1>6 DEF PagesInv, SlotsTyped
    <2>3. h.generation < slotAt'[i].generation \/ slotAt'[i].retired
      BY <1>1, <1>2, <1>5, <1>6
    <2>4. \A k \in issued' : k.generation <= slotAt'[k.index].generation
      BY <1>7, <2>1 DEF PagesInv, HandlesDated, HandleType
    <2>5. \A k \in released' :
             k.generation < slotAt'[k.index].generation \/ slotAt'[k.index].retired
      BY <1>7, <2>1, <2>2, <2>3 DEF PagesInv, HandlesDated, HandleType
    <2>6. \A j \in Pages!Slots : slotAt'[j].allocated => Pages!Handle(Pool, j, slotAt'[j].generation) \in issued'
      BY <1>5, <1>6, <1>7 DEF PagesInv, HandlesDated
    <2> QED BY <1>1, <1>7, <2>4, <2>5, <2>6 DEF PagesInv, HandlesDated, HandleType, Pages!Slots
  <1>12. OnePool'
    BY DEF PagesInv, OnePool, Pages!Release, HandleSets, TransactionType, Pages!SamePool
  <1> QED BY <1>8, <1>10, <1>11, <1>12 DEF PagesInv

\* The handles a transaction may name.
LEMMA HandlesTyped ==
    ASSUME Pages!SlotsConstants, PagesInv, NEW h \in Pages!Handles
    PROVE  h \in HandleSets /\ Pages!SamePool(h, h)
  <1>1. issued \subseteq [pool : {Pool, Foreign}, index : Nat, generation : Nat]
    BY DEF PagesInv, HandlesDated, HandleType, Pages!Slots, Pages!SlotsConstants
  <1>2. Pages!Handle(Foreign, 0, 1) \in [pool : {Pool, Foreign}, index : Nat, generation : Nat]
    BY DEF Pages!Handle
  <1>3. h = {} \/ \E x \in issued \cup {Pages!Handle(Foreign, 0, 1)} : h = {x}
    BY DEF Pages!Handles, Pages!Optional
  <1> QED BY <1>1, <1>2, <1>3 DEF HandleSets, Pages!SamePool

\* A transaction's step changes its own record only, and keeps it to one pool.
LEMMA TransactionKeeps ==
    ASSUME Pages!SlotsConstants, PagesInv, NEW b \in Branches, NEW e \in Epochs,
           \/ \E p \in Pages!Parents, h \in Pages!Handles : Pages!Begin(b, e, p, h)
           \/ \E h \in Pages!Handles : Pages!Prepare(b, e, h)
           \/ \E p \in Pages!Parents : Pages!CommitInto(b, e, p)
           \/ Pages!Abort(b, e)
    PROVE  UNCHANGED <<slotAt, freeHead, issued, released>> /\ OnePool'
  <1>1. ASSUME NEW p \in Pages!Parents, NEW h \in Pages!Handles, Pages!Begin(b, e, p, h)
        PROVE  OnePool'
    <2>1. h \in HandleSets /\ Pages!SamePool(h, h)
      BY HandlesTyped
    <2>2. p \in SUBSET Branches
      BY DEF Pages!Parents, Pages!Optional
    <2>3. branch'[b] \in TransactionType /\ branch'[b].checkpoint = h /\ branch'[b].tail = h
      BY <1>1, <2>1, <2>2 DEF Pages!Begin, TransactionType
    <2>4. \A c \in DOMAIN branch' : c # b => c \in DOMAIN branch /\ branch'[c] = branch[c]
      BY <1>1 DEF Pages!Begin
    <2> QED BY <2>1, <2>3, <2>4 DEF PagesInv, OnePool, Pages!SamePool
  <1>2. ASSUME NEW h \in Pages!Handles, Pages!Prepare(b, e, h)
        PROVE  OnePool'
    <2>1. h \in HandleSets
      BY HandlesTyped
    <2>2. branch[b] \in TransactionType /\ Pages!SamePool(branch[b].checkpoint, h)
      BY <1>2 DEF PagesInv, OnePool, Pages!Prepare, Pages!Begun
    <2>3. /\ branch'[b] \in TransactionType
          /\ branch'[b].checkpoint = branch[b].checkpoint /\ branch'[b].tail = h
      BY <1>2, <2>1, <2>2 DEF Pages!Prepare, Pages!Begun, TransactionType
    <2>4. \A c \in DOMAIN branch' : c # b => c \in DOMAIN branch /\ branch'[c] = branch[c]
      BY <1>2 DEF Pages!Prepare
    <2> QED BY <2>2, <2>3, <2>4 DEF PagesInv, OnePool, Pages!SamePool
  <1>3. ASSUME NEW s \in {"committed", "aborted"}, Pages!Begun(b),
               branch' = [branch EXCEPT ![b] = [@ EXCEPT !.state = s]]
        PROVE  OnePool'
    <2>1. branch[b] \in TransactionType /\ Pages!SamePool(branch[b].checkpoint, branch[b].tail)
      BY <1>3 DEF PagesInv, OnePool, Pages!Begun
    <2>2. /\ branch'[b] \in TransactionType
          /\ branch'[b].checkpoint = branch[b].checkpoint /\ branch'[b].tail = branch[b].tail
      BY <1>3, <2>1 DEF Pages!Begun, TransactionType
    <2>3. \A c \in DOMAIN branch' : c # b => c \in DOMAIN branch /\ branch'[c] = branch[c]
      BY <1>3
    <2> QED BY <2>1, <2>2, <2>3 DEF PagesInv, OnePool, Pages!SamePool
  <1>4. UNCHANGED <<slotAt, freeHead, issued, released>>
    BY DEF Pages!Begin, Pages!Prepare, Pages!CommitInto, Pages!Abort
  <1>5. (\E p \in Pages!Parents : Pages!CommitInto(b, e, p)) \/ Pages!Abort(b, e) => OnePool'
    BY <1>3 DEF Pages!CommitInto, Pages!Abort
  <1> QED BY <1>1, <1>2, <1>4, <1>5

\* Every step keeps the slots linked and the handles dated.
LEMMA PagesStep ==
    ASSUME Pages!SlotsConstants, PagesInv, [Pages!Next]_pagesVars
    PROVE  PagesInv'
  <1>1. CASE Pages!Allocate
    BY <1>1, AllocateKeeps
  <1>2. CASE \E h \in Pages!Presented : Pages!Release(h)
    BY <1>2, ReleaseKeeps
  <1>3. ASSUME UNCHANGED <<slotAt, freeHead, issued, released>>
        PROVE  SlotsTyped' /\ Linked' /\ HandlesDated'
    <2>1. SlotsTyped' /\ HandlesDated'
      BY <1>3 DEF PagesInv, SlotsTyped, HandlesDated, Pages!Slots, HandleType, SlotType, Pages!Handle
    <2>2. Linked'
      <3>1. PICK n \in Nat : \E line \in [1..n -> Pages!Slots] : Threads(n, line)
        BY DEF PagesInv, Linked
      <3>2. PICK line \in [1..n -> Pages!Slots] : Threads(n, line)
        BY <3>1
      <3>3. Threads(n, line)'
        BY <1>3, <3>2 DEF Threads, Pages!Free, Pages!Slots, Pages!End
      <3> QED BY <3>3 DEF Linked, Pages!Slots
    <2> QED BY <2>1, <2>2
  <1>4. ASSUME NEW b \in Branches, NEW e \in Epochs,
               \/ \E p \in Pages!Parents, h \in Pages!Handles : Pages!Begin(b, e, p, h)
               \/ \E h \in Pages!Handles : Pages!Prepare(b, e, h)
               \/ \E p \in Pages!Parents : Pages!CommitInto(b, e, p)
               \/ Pages!Abort(b, e)
        PROVE  PagesInv'
    BY <1>3, <1>4, TransactionKeeps DEF PagesInv
  <1>5. CASE UNCHANGED pagesVars
    <2>1. OnePool'
      BY <1>5 DEF pagesVars, PagesInv, OnePool
    <2> QED BY <1>3, <1>5, <2>1 DEF pagesVars, PagesInv
  <1> QED BY <1>1, <1>2, <1>4, <1>5 DEF Pages!Next

\* At the start the line is 0, 1, ..., Capacity - 1.
LEMMA PagesStart ==
    ASSUME Pages!SlotsConstants, Pages!Init
    PROVE  PagesInv
  <1>1. \A i \in Pages!Slots : /\ slotAt[i].generation = 1 /\ slotAt[i].next = i + 1
                               /\ slotAt[i].allocated = FALSE /\ slotAt[i].retired = FALSE
    BY DEF Pages!Init, Pages!Slot
  <1>2. \A i \in Pages!Slots : Pages!Slot(1, i + 1, FALSE, FALSE) \in SlotType
    BY DEF Pages!Slots, Pages!Slot, SlotType, Pages!SlotsConstants
  <1>3. SlotsTyped
    <2>1. slotAt \in [Pages!Slots -> SlotType]
      BY <1>2 DEF Pages!Init
    <2>2. freeHead \in 0..Capacity
      BY DEF Pages!Init, Pages!SlotsConstants
    <2> QED BY <1>1, <2>1, <2>2 DEF SlotsTyped
  <1>4. \A i \in Pages!Slots : Pages!Free(i)
    BY <1>1 DEF Pages!Free
  <1>5. Linked
    <2> DEFINE line == [k \in 1..Capacity |-> k - 1]
    <2>1. freeHead = 0 /\ Capacity \in Nat
      BY DEF Pages!Init, Pages!SlotsConstants
    <2>2. \A k \in 1..Capacity : k - 1 \in Pages!Slots
      BY <2>1 DEF Pages!Slots
    <2>3. line \in [1..Capacity -> Pages!Slots] /\ \A k \in 1..Capacity : line[k] = k - 1
      BY <2>2
    <2> HIDE DEF line
    <2>4. \A j, k \in 1..Capacity : line[j] = line[k] => j = k
      BY <2>3
    <2>5. \A i \in Pages!Slots : \E k \in 1..Capacity : line[k] = i
      <3> SUFFICES ASSUME NEW i \in Pages!Slots
                   PROVE  \E k \in 1..Capacity : line[k] = i
        OBVIOUS
      <3>1. i + 1 \in 1..Capacity /\ (i + 1) - 1 = i
        BY <2>1 DEF Pages!Slots
      <3> QED BY <2>3, <3>1
    <2>6. freeHead = IF Capacity = 0 THEN Pages!End ELSE line[1]
      BY <2>1, <2>3 DEF Pages!End
    <2>7. ASSUME NEW k \in 1..Capacity
          PROVE  slotAt[line[k]].next = IF k = Capacity THEN Pages!End ELSE line[k + 1]
      <3>1. slotAt[line[k]].next = k
        BY <1>1, <2>2, <2>3
      <3>2. k # Capacity => k + 1 \in 1..Capacity
        BY <2>1
      <3> QED BY <3>1, <3>2, <2>3 DEF Pages!End
    <2>8. Threads(Capacity, line)
      BY <1>4, <2>2, <2>3, <2>4, <2>5, <2>6, <2>7 DEF Threads
    <2> QED BY <2>1, <2>3, <2>8 DEF Linked
  <1>6. HandlesDated
    BY <1>1 DEF Pages!Init, HandlesDated
  <1>7. OnePool
    BY DEF Pages!Init, OnePool
  <1> QED BY <1>3, <1>5, <1>6, <1>7 DEF PagesInv

\* Following the links from the head finds the line.
LEMMA ChainIsLine ==
    ASSUME Pages!SlotsConstants, NEW n \in Nat, NEW line \in [1..n -> Pages!Slots], Threads(n, line)
    PROVE  Pages!Chain = {line[k] : k \in 1..n}
  <1> DEFINE Upto(k) == {line[j] : j \in {j \in 1..n : j <= k + 1}}
             g == [k \in 0..Capacity |-> Upto(k)]
             Body(f) == [k \in 0..Capacity |->
                            IF k = 0 THEN {freeHead} \ {Pages!End}
                            ELSE f[k - 1] \cup ({slotAt[i].next : i \in f[k - 1]} \ {Pages!End})]
  <1>1. Capacity \in Nat /\ \A k \in 1..n : line[k] # Pages!End
    BY DEF Pages!SlotsConstants, Pages!Slots, Pages!End
  <1>2. \A k, x : x \in Upto(k) <=> \E j \in 1..n : j <= k + 1 /\ x = line[j]
    OBVIOUS
  <1>3. {freeHead} \ {Pages!End} = Upto(0)
    <2>1. CASE n = 0
      BY <2>1, <1>2 DEF Threads
    <2>2. CASE n # 0
      <3>1. freeHead = line[1] /\ 1 \in 1..n
        BY <2>2 DEF Threads
      <3>2. \A j \in 1..n : j <= 0 + 1 <=> j = 1
        OBVIOUS
      <3> QED BY <3>1, <3>2, <1>1, <1>2
    <2> QED BY <2>1, <2>2
  <1>4. ASSUME NEW k \in 1..Capacity
        PROVE  Upto(k - 1) \cup ({slotAt[i].next : i \in Upto(k - 1)} \ {Pages!End}) = Upto(k)
    <2> HIDE DEF Upto
    <2>1. ASSUME NEW j \in 1..n, j <= k
          PROVE  slotAt[line[j]].next # Pages!End =>
                    j + 1 \in 1..n /\ slotAt[line[j]].next = line[j + 1]
      BY <2>1 DEF Threads
    <2>2. ASSUME NEW x \in Upto(k - 1)
          PROVE  x \in Upto(k) /\ (slotAt[x].next # Pages!End => slotAt[x].next \in Upto(k))
      <3>1. PICK j \in 1..n : j <= (k - 1) + 1 /\ x = line[j]
        BY <1>2
      <3>2. j <= k /\ j <= k + 1 /\ j + 1 <= k + 1
        BY <3>1
      <3> QED BY <3>1, <3>2, <2>1, <1>2
    <2>3. ASSUME NEW x \in Upto(k), x \notin Upto(k - 1)
          PROVE  \E i \in Upto(k - 1) : x = slotAt[i].next /\ x # Pages!End
      <3>1. PICK j \in 1..n : j <= k + 1 /\ x = line[j]
        BY <1>2
      <3>2. j = k + 1
        <4>1. ~(j <= (k - 1) + 1)
          BY <3>1, <2>3, <1>2
        <4> QED BY <3>1, <4>1
      <3>3. k \in 1..n /\ k # n /\ k <= (k - 1) + 1
        BY <3>2
      <3>4. line[k] \in Upto(k - 1)
        BY <3>3, <1>2
      <3>5. slotAt[line[k]].next = line[k + 1]
        BY <3>3 DEF Threads
      <3> QED BY <3>1, <3>2, <3>4, <3>5, <1>1
    <2> QED BY <2>2, <2>3
  <1>5. g = Body(g)
    <2> HIDE DEF Upto
    <2>1. \A k \in 0..Capacity : k # 0 => k \in 1..Capacity /\ k - 1 \in 0..Capacity
      BY <1>1
    <2>2. 0 \in 0..Capacity
      BY <1>1
    <2> SUFFICES ASSUME NEW k \in 0..Capacity
                 PROVE  Upto(k) = IF k = 0 THEN {freeHead} \ {Pages!End}
                                  ELSE g[k - 1] \cup ({slotAt[i].next : i \in g[k - 1]} \ {Pages!End})
      OBVIOUS
    <2> QED BY <2>1, <1>3, <1>4
  <1>6. Pages!reach = CHOOSE f : f = Body(f)
    BY DEF Pages!reach
  <1>7. Pages!reach = Body(Pages!reach)
    <2> HIDE DEF g, Body
    <2> QED BY <1>5, <1>6
  <1> DEFINE Strays == {k \in 0..Capacity : Pages!reach[k] # Upto(k)}
  <1>8. Strays = {}
    <2> SUFFICES ASSUME Strays # {} PROVE FALSE
      OBVIOUS
    <2>1. PICK k \in Strays : \A j \in Strays : k <= j
      <3>1. Strays \subseteq Nat
        BY <1>1
      <3> HIDE DEF Strays
      <3> QED BY <3>1, LeastNatural
    <2> HIDE DEF Upto
    <2>2. CASE k = 0
      BY <2>1, <2>2, <1>3, <1>7
    <2>3. CASE k # 0
      <3>1. k \in 1..Capacity /\ k - 1 \in 0..Capacity /\ k - 1 \notin Strays
        <4>1. k \in 1..Capacity /\ k - 1 \in 0..Capacity
          BY <2>3, <1>1
        <4>2. ~(k <= k - 1)
          BY <4>1
        <4> QED BY <4>1, <4>2, <2>1
      <3>2. Pages!reach[k - 1] = Upto(k - 1)
        BY <3>1
      <3>3. Pages!reach[k] = Upto(k)
        BY <3>1, <3>2, <2>3, <1>4, <1>7
      <3> QED BY <2>1, <3>3
    <2> QED BY <2>2, <2>3
  <1>9. n <= Capacity
    <2>1. line \in Injection(1..n, Pages!Slots)
      BY DEF Threads, Injection, IsInjective
    <2>2. /\ IsFiniteSet(Pages!Slots) /\ Cardinality(Pages!Slots) = Capacity
          /\ Cardinality(1..n) = n
      <3>1. 0 \in Int /\ 1 \in Int /\ Capacity - 1 \in Int /\ n \in Int
        BY <1>1
      <3>2. /\ IsFiniteSet(0..(Capacity - 1))
            /\ Cardinality(0..(Capacity - 1)) = IF 0 > Capacity - 1 THEN 0 ELSE (Capacity - 1) - 0 + 1
            /\ Cardinality(1..n) = IF 1 > n THEN 0 ELSE n - 1 + 1
        BY <3>1, FS_Interval
      <3> QED BY <3>2, <1>1 DEF Pages!Slots
    <2> QED BY <2>1, <2>2, FS_Injection
  <1>10. Pages!Chain = Upto(Capacity)
    BY <1>1, <1>8 DEF Pages!Chain
  <1>11. \A j \in 1..n : j <= Capacity + 1
    BY <1>1, <1>9
  <1>12. Upto(Capacity) = {line[k] : k \in 1..n}
    BY <1>11
  <1> QED BY <1>10, <1>12

\* What the invariant promises.
LEMMA PagesFacts ==
    ASSUME Pages!SlotsConstants, PagesInv
    PROVE  Pages!PagesSound
  <1>1. PICK n \in Nat : \E line \in [1..n -> Pages!Slots] : Threads(n, line)
    BY DEF PagesInv, Linked
  <1>2. PICK line \in [1..n -> Pages!Slots] : Threads(n, line)
    BY <1>1
  <1>3. {line[k] : k \in 1..n} = {i \in Pages!Slots : Pages!Free(i)}
    BY <1>2 DEF Threads
  <1>4. Pages!Chain = {i \in Pages!Slots : Pages!Free(i)}
    BY <1>2, <1>3, ChainIsLine
  <1>5. ASSUME NEW h \in released PROVE ~Pages!Contains(h)
    <2>1. h \in HandleType /\ slotAt[h.index].generation \in Nat
      BY DEF PagesInv, HandlesDated, HandleType, SlotsTyped, SlotType
    <2> QED BY <2>1 DEF PagesInv, HandlesDated, SlotsTyped, HandleType, Pages!Contains
  <1>6. Pages!StaleHandlesDead
    BY <1>5 DEF Pages!StaleHandlesDead, PagesInv, HandlesDated
  <1> QED BY <1>4, <1>6 DEF Pages!PagesSound, PagesInv, OnePool

----------------------------------------------------------------------------
(* The stopping rule.  The maximum is a registered look and a look there   *)
(* is always terminal, so a campaign that goes on is below it; and an      *)
(* endpoint's status puts the interval, and with it the effect, on one     *)
(* side of what is worthwhile.                                             *)

Statuses ==
    {"not_a_look", "continue", "efficacy", "futility", "positive_below_mwi", "precise_inconclusive",
     "maximum_reached"}

Verdicts ==
    /\ family = "efficacy" => \A h \in Hypotheses : effect[h] > Worthwhile
    /\ family = "futility" => \E h \in Hypotheses : effect[h] < Worthwhile

StoppingInv ==
    /\ effect \in [Hypotheses -> Int]
    /\ blocks \in 0..MaximumBlocks
    /\ family \in Statuses
    /\ Verdicts
    /\ Stopping!Terminal(family) => blocks \in Stopping!ScheduledLooks
    /\ blocks = MaximumBlocks => Stopping!Terminal(family)

\* The difference of two multiples is a multiple.
LEMMA MultiplesDiffer ==
    ASSUME NEW m \in Nat \ {0}, NEW a \in Nat, NEW b \in Nat, a % m = 0, b % m = 0, b <= a
    PROVE  (a - b) % m = 0
  <1> DEFINE q == (a - b) \div m
             r == (a - b) % m
             k == (a \div m) - (b \div m) - q
  <1>1. /\ a = (a \div m) * m /\ a \div m \in Int
        /\ b = (b \div m) * m /\ b \div m \in Int
        /\ a - b = q * m + r /\ q \in Int /\ r \in 0..(m - 1)
    OBVIOUS
  <1> HIDE DEF q, r
  <1>2. k \in Int /\ k * m = r
    BY <1>1
  <1> HIDE DEF k
  <1>3. k >= 1 => k * m >= m
    BY <1>2
  <1>4. k <= 0 - 1 => k * m <= 0 - m
    BY <1>2
  <1>5. k = 0
    BY <1>1, <1>2, <1>3, <1>4
  <1> QED BY <1>2, <1>5 DEF r

\* The hard maximum is a registered look (scheduled_looks).
LEMMA MaximumIsLook ==
    ASSUME Stopping!GateDeclaration
    PROVE  MaximumBlocks \in Stopping!ScheduledLooks
  <1>1. /\ LookEvery \in Nat \ {0} /\ MinimumBlocks \in Nat /\ MaximumBlocks \in Nat
        /\ MinimumBlocks <= MaximumBlocks
        /\ MinimumBlocks % LookEvery = 0 /\ MaximumBlocks % LookEvery = 0
    BY DEF Stopping!GateDeclaration
  <1>2. (MaximumBlocks - MinimumBlocks) % LookEvery = 0
    BY <1>1, MultiplesDiffer
  <1>3. MaximumBlocks \in MinimumBlocks..MaximumBlocks
    BY <1>1
  <1> QED BY <1>2, <1>3 DEF Stopping!ScheduledLooks

LEMMA LargerOfTwo ==
    ASSUME NEW a \in Int, NEW b \in Int
    PROVE  Stopping!Max({a, b}) \in Int /\ Stopping!Min({a, b}) \in Int
  <1>1. \E x \in {a, b} : \A y \in {a, b} : x >= y
    OBVIOUS
  <1>2. \E x \in {a, b} : \A y \in {a, b} : x <= y
    OBVIOUS
  <1> QED BY <1>1, <1>2 DEF Stopping!Max, Stopping!Min

\* An endpoint's status is true of its effect while the interval covers it.
LEMMA StatusTrue ==
    ASSUME Stopping!GateDeclaration, NEW x \in Int, NEW n, NEW i \in Stopping!IntervalsOf(x)
    PROVE  /\ Stopping!GateStatus(i, n) \in Statuses
           /\ Stopping!GateStatus(i, n) = "efficacy" => x > Worthwhile
           /\ Stopping!GateStatus(i, n) \in Stopping!PracticallyFutile => x < Worthwhile
  <1>1. i.lower <= x /\ x <= i.upper /\ i.lower \in Int /\ i.upper \in Int /\ Worthwhile \in Int
    <2>1. PICK m \in Means, r \in Radii : i = Stopping!Interval(m, r)
      BY DEF Stopping!IntervalsOf
    <2>2. m \in Int /\ r \in Int /\ Bound \in Int /\ Worthwhile \in Int
      BY DEF Stopping!GateDeclaration
    <2>3. i.lower = Stopping!Max({-Bound, m - r}) /\ i.upper = Stopping!Min({Bound, m + r})
      BY <2>1 DEF Stopping!Interval
    <2>4. -Bound \in Int /\ m - r \in Int /\ m + r \in Int
      BY <2>2
    <2>5. i.lower \in Int /\ i.upper \in Int
      <3>1. Stopping!Max({-Bound, m - r}) \in Int
        BY <2>4, LargerOfTwo
      <3>2. Stopping!Min({Bound, m + r}) \in Int
        BY <2>2, <2>4, LargerOfTwo
      <3> QED BY <2>3, <3>1, <3>2
    <2>6. i.lower <= x /\ x <= i.upper
      BY DEF Stopping!IntervalsOf
    <2> QED BY <2>2, <2>5, <2>6
  <1>2. Stopping!GateStatus(i, n) \in Statuses
    BY DEF Stopping!GateStatus, Statuses
  <1>3. Stopping!GateStatus(i, n) = "efficacy" => i.lower > Worthwhile
    BY DEF Stopping!GateStatus
  <1>4. Stopping!GateStatus(i, n) \in Stopping!PracticallyFutile => i.upper < Worthwhile
    BY DEF Stopping!GateStatus, Stopping!PracticallyFutile
  <1> QED BY <1>1, <1>2, <1>3, <1>4

\* A look keeps the verdicts true, and the look at the maximum is the last.
LEMMA LookKeeps ==
    ASSUME Stopping!GateDeclaration, StoppingInv, Stopping!Look
    PROVE  StoppingInv'
  <1> DEFINE n == blocks + 1
             possible == [h \in Hypotheses |-> {Stopping!GateStatus(i, n) : i \in Stopping!IntervalsOf(effect[h])}]
  <1>1. PICK statuses \in [Hypotheses -> UNION {possible[h] : h \in Hypotheses}] :
           /\ \A h \in Hypotheses : statuses[h] \in possible[h]
           /\ family' = Stopping!FamilyStatus(statuses, n)
    BY DEF Stopping!Look
  <1>2. effect' = effect /\ blocks' = n /\ n \in Stopping!ScheduledLooks
    BY DEF Stopping!Look
  <1>3. ASSUME NEW h \in Hypotheses
        PROVE  /\ statuses[h] = "efficacy" => effect[h] > Worthwhile
               /\ statuses[h] \in Stopping!PracticallyFutile => effect[h] < Worthwhile
    <2>1. PICK i \in Stopping!IntervalsOf(effect[h]) : statuses[h] = Stopping!GateStatus(i, n)
      BY <1>1
    <2>2. effect[h] \in Int
      BY DEF StoppingInv
    <2> QED BY <2>1, <2>2, StatusTrue
  <1>4. Hypotheses # {} /\ MaximumBlocks \in Nat /\ MinimumBlocks \in Nat
    BY DEF Stopping!GateDeclaration
  <1> HIDE DEF possible
  <1>5. Verdicts'
    <2>1. family' = "efficacy" => \A h \in Hypotheses : statuses[h] = "efficacy"
      BY <1>1 DEF Stopping!FamilyStatus
    <2>2. family' = "futility" => \E h \in Hypotheses : statuses[h] \in Stopping!PracticallyFutile
      BY <1>1 DEF Stopping!FamilyStatus
    <2> QED BY <1>2, <1>3, <2>1, <2>2 DEF Verdicts
  <1>6. family' \in Statuses
    BY <1>1 DEF Stopping!FamilyStatus, Statuses
  <1>7. n \in 0..MaximumBlocks
    BY <1>2, <1>4 DEF Stopping!ScheduledLooks
  <1>8. n = MaximumBlocks => Stopping!Terminal(family')
    BY <1>1 DEF Stopping!FamilyStatus, Stopping!Terminal
  <1>9. effect' \in [Hypotheses -> Int]
    BY <1>2 DEF StoppingInv
  <1> QED BY <1>2, <1>5, <1>6, <1>7, <1>8, <1>9 DEF StoppingInv, Stopping!Terminal, Stopping!ScheduledLooks

LEMMA CollectKeeps ==
    ASSUME Stopping!GateDeclaration, StoppingInv, Stopping!CollectBlock
    PROVE  StoppingInv'
  <1>1. /\ effect' = effect /\ blocks' = blocks + 1 /\ family' = "not_a_look"
        /\ blocks + 1 \notin Stopping!ScheduledLooks /\ ~Stopping!Terminal(family)
    BY DEF Stopping!CollectBlock
  <1>2. blocks \in 0..MaximumBlocks /\ blocks # MaximumBlocks /\ blocks + 1 # MaximumBlocks
    BY <1>1, MaximumIsLook DEF StoppingInv
  <1>3. MaximumBlocks \in Nat
    BY DEF Stopping!GateDeclaration
  <1> QED BY <1>1, <1>2, <1>3 DEF StoppingInv, Statuses, Verdicts, Stopping!Terminal

LEMMA StoppingStart ==
    ASSUME Stopping!GateDeclaration, Stopping!Init
    PROVE  StoppingInv
  <1>1. effect \in [Hypotheses -> Int]
    BY DEF Stopping!Init, Stopping!GateDeclaration
  <1>2. blocks = 0 /\ family = "not_a_look" /\ MaximumBlocks \in Nat \ {0}
    BY DEF Stopping!Init, Stopping!GateDeclaration
  <1> QED BY <1>1, <1>2 DEF StoppingInv, Statuses, Verdicts, Stopping!Terminal

LEMMA StoppingStep ==
    ASSUME Stopping!GateDeclaration, StoppingInv, [Stopping!Next]_stoppingVars
    PROVE  StoppingInv'
  <1>1. CASE UNCHANGED stoppingVars
    BY <1>1 DEF StoppingInv, stoppingVars, Verdicts, Stopping!Terminal, Stopping!ScheduledLooks
  <1> QED BY <1>1, LookKeeps, CollectKeeps DEF Stopping!Next

LEMMA StoppingFacts ==
    ASSUME Stopping!GateDeclaration, StoppingInv
    PROVE  Stopping!VerdictsTrue
  <1>1. /\ blocks \in Nat /\ MaximumBlocks \in Nat /\ RunsPerBlock \in Nat /\ ReplayCap \in Nat
        /\ blocks <= MaximumBlocks /\ RunsPerBlock * MaximumBlocks <= ReplayCap
    BY DEF Stopping!GateDeclaration, StoppingInv
  <1>2. blocks * RunsPerBlock <= RunsPerBlock * MaximumBlocks
    BY <1>1
  <1>3. blocks * RunsPerBlock \in Nat /\ RunsPerBlock * MaximumBlocks \in Nat
    BY <1>1
  <1>4. blocks * RunsPerBlock <= ReplayCap
    BY <1>1, <1>2, <1>3
  <1> QED BY <1>4 DEF StoppingInv, Verdicts, Stopping!VerdictsTrue

----------------------------------------------------------------------------
(* The evidence bundles.  A run has written all the files it no longer has *)
(* to do, so what its manifest records is one content for every file: of   *)
(* its mode and of the version it was loaded with.  A directory verifies   *)
(* when it still holds that content.                                       *)

Uniform(mode, version) == [f \in Bundle!Names |-> Bundle!Written(mode, version)]

RunType ==
    [step : {"idle", "data", "file", "manifest", "verify"}, mode : Modes \cup {"none"},
     version : Nat, hashed : Nat, todo : Seq(Bundle!Names)]

BundleTyped ==
    /\ source \in Nat /\ run \in RunType
    /\ disk = [f \in DOMAIN disk |-> disk[f]] /\ DOMAIN disk \subseteq Bundle!Names
    /\ Bundle!InPlace => temporary = {}

\* Every manifest records one content for all files, of some version so far.
ManifestsUniform ==
    \A m \in manifest : \E v \in 0..source : m.files = Uniform(m.mode, v)

\* What a run that is under way has done.
RunAhead ==
    run.step # "idle" =>
        /\ run.version <= source
        /\ \A f \in Bundle!Names :
              (\E i \in 1..Len(run.todo) : run.todo[i] = f)
                  \/ (f \in DOMAIN disk /\ disk[f] = Bundle!Written(run.mode, run.version))
        /\ run.step = "file" => run.todo # <<>>
        /\ run.step \in {"manifest", "verify"} => run.todo = <<>>
        /\ run.step = "verify" =>
              manifest = {[mode |-> run.mode, version |-> run.hashed, files |-> Uniform(run.mode, run.version)]}

BundleInv == BundleTyped /\ ManifestsUniform /\ RunAhead

\* A file is put: the others stay.
LEMMA PutFacts ==
    ASSUME BundleTyped, NEW content, Bundle!File \in Bundle!Names, Bundle!Put(content)
    PROVE  /\ disk' = [f \in DOMAIN disk' |-> disk'[f]] /\ DOMAIN disk' \subseteq Bundle!Names
           /\ DOMAIN disk' = DOMAIN disk \cup {Bundle!File}
           /\ disk'[Bundle!File] = content
           /\ \A f \in DOMAIN disk : f # Bundle!File => disk'[f] = disk[f]
  BY DEF BundleTyped, Bundle!Put

\* The file at the head of what is to do.
LEMMA FileFacts ==
    ASSUME BundleTyped, run.todo # <<>>
    PROVE  /\ Bundle!File \in Bundle!Names
           /\ Len(run.todo) \in Nat /\ Len(run.todo) > 0 /\ Bundle!File = run.todo[1]
           /\ Tail(run.todo) \in Seq(Bundle!Names)
           /\ Len(Tail(run.todo)) = Len(run.todo) - 1
           /\ \A i \in 1..(Len(run.todo) - 1) : Tail(run.todo)[i] = run.todo[i + 1]
  <1>1. run.todo \in Seq(Bundle!Names)
    BY DEF BundleTyped, RunType
  <1> QED BY <1>1 DEF Bundle!File

LEMMA BeginFileKeeps ==
    ASSUME BundleInv, Bundle!BeginFile
    PROVE  BundleInv'
  <1>1. /\ run.step = "data" /\ run.todo # <<>> /\ run' = [run EXCEPT !.step = "file"]
        /\ source' = source /\ manifest' = manifest /\ study' = study
    BY DEF Bundle!BeginFile
  <1>2. /\ run' \in RunType /\ run'.step = "file" /\ run'.mode = run.mode /\ run'.version = run.version
        /\ run'.todo = run.todo
    BY <1>1 DEF BundleInv, BundleTyped, RunType
  <1>3. /\ Bundle!File \in Bundle!Names
        /\ Len(run.todo) \in Nat /\ Len(run.todo) > 0 /\ Bundle!File = run.todo[1]
    BY <1>1, FileFacts DEF BundleInv
  <1>4. /\ disk' = [f \in DOMAIN disk' |-> disk'[f]] /\ DOMAIN disk' \subseteq Bundle!Names
        /\ \A f \in DOMAIN disk : f # Bundle!File => f \in DOMAIN disk' /\ disk'[f] = disk[f]
    <2>1. CASE Bundle!InPlace
      <3>1. Bundle!Put(Bundle!Torn)
        BY <2>1 DEF Bundle!BeginFile
      <3> QED BY <3>1, <1>3, PutFacts DEF BundleInv
    <2>2. CASE ~Bundle!InPlace
      BY <2>2 DEF Bundle!BeginFile, BundleInv, BundleTyped
    <2> QED BY <2>1, <2>2
  <1>5. BundleTyped'
    <2>1. Bundle!InPlace' => temporary' = {}
      BY <1>1 DEF Bundle!BeginFile, Bundle!InPlace, BundleInv, BundleTyped
    <2> QED BY <1>1, <1>2, <1>4, <2>1 DEF BundleInv, BundleTyped, RunType, Bundle!Names
  <1>6. ManifestsUniform'
    BY <1>1 DEF BundleInv, ManifestsUniform, Uniform, Bundle!Names
  <1>7. \A f \in Bundle!Names :
           (\E i \in 1..Len(run'.todo) : run'.todo[i] = f)
               \/ (f \in DOMAIN disk' /\ disk'[f] = Bundle!Written(run'.mode, run'.version))
    <2> SUFFICES ASSUME NEW f \in Bundle!Names, f # Bundle!File
                 PROVE  (\E i \in 1..Len(run.todo) : run.todo[i] = f)
                            \/ (f \in DOMAIN disk' /\ disk'[f] = Bundle!Written(run.mode, run.version))
      BY <1>2, <1>3
    <2>1. (\E i \in 1..Len(run.todo) : run.todo[i] = f)
              \/ (f \in DOMAIN disk /\ disk[f] = Bundle!Written(run.mode, run.version))
      BY <1>1 DEF BundleInv, RunAhead
    <2> QED BY <2>1, <1>4
  <1>8. RunAhead'
    <2>1. run'.version <= source' /\ run'.todo # <<>> /\ run'.step = "file"
      BY <1>1, <1>2 DEF BundleInv, RunAhead
    <2> QED BY <1>7, <2>1 DEF RunAhead, Bundle!Names, Bundle!Written
  <1> QED BY <1>5, <1>6, <1>8 DEF BundleInv

LEMMA WriteFileKeeps ==
    ASSUME BundleInv, Bundle!WriteFile
    PROVE  BundleInv'
  <1>1. /\ run.step = "file" /\ run' = [run EXCEPT !.step = "data", !.todo = Tail(@)]
        /\ source' = source /\ manifest' = manifest /\ study' = study
        /\ Bundle!Put(Bundle!Written(run.mode, run.version))
        /\ temporary' = temporary \ {Bundle!File}
    BY DEF Bundle!WriteFile
  <1>2. run.todo # <<>>
    BY <1>1 DEF BundleInv, RunAhead
  <1>3. /\ Bundle!File \in Bundle!Names
        /\ Len(run.todo) \in Nat /\ Len(run.todo) > 0 /\ Bundle!File = run.todo[1]
        /\ Tail(run.todo) \in Seq(Bundle!Names)
        /\ Len(Tail(run.todo)) = Len(run.todo) - 1
        /\ \A i \in 1..(Len(run.todo) - 1) : Tail(run.todo)[i] = run.todo[i + 1]
    BY <1>2, FileFacts DEF BundleInv
  <1>4. /\ run' \in RunType /\ run'.step = "data" /\ run'.mode = run.mode /\ run'.version = run.version
        /\ run'.todo = Tail(run.todo)
    BY <1>1, <1>3 DEF BundleInv, BundleTyped, RunType
  <1>5. /\ disk' = [f \in DOMAIN disk' |-> disk'[f]] /\ DOMAIN disk' \subseteq Bundle!Names
        /\ DOMAIN disk' = DOMAIN disk \cup {Bundle!File}
        /\ disk'[Bundle!File] = Bundle!Written(run.mode, run.version)
        /\ \A f \in DOMAIN disk : f # Bundle!File => disk'[f] = disk[f]
    BY <1>1, <1>3, PutFacts DEF BundleInv
  <1>6. BundleTyped'
    <2>1. Bundle!InPlace' => temporary' = {}
      BY <1>1 DEF Bundle!InPlace, BundleInv, BundleTyped
    <2> QED BY <1>1, <1>4, <1>5, <2>1 DEF BundleInv, BundleTyped, RunType, Bundle!Names
  <1>7. ManifestsUniform'
    BY <1>1 DEF BundleInv, ManifestsUniform, Uniform, Bundle!Names
  <1>8. ASSUME NEW f \in Bundle!Names
        PROVE  (\E i \in 1..Len(run'.todo) : run'.todo[i] = f)
                   \/ (f \in DOMAIN disk' /\ disk'[f] = Bundle!Written(run'.mode, run'.version))
    <2>1. CASE f = Bundle!File
      BY <2>1, <1>4, <1>5
    <2>2. CASE f # Bundle!File /\ \E i \in 1..Len(run.todo) : run.todo[i] = f
      <3>1. PICK i \in 1..Len(run.todo) : run.todo[i] = f
        BY <2>2
      <3>2. i - 1 \in 1..(Len(run.todo) - 1) /\ (i - 1) + 1 = i
        BY <3>1, <2>2, <1>3
      <3> QED BY <3>1, <3>2, <1>3, <1>4
    <2>3. CASE f # Bundle!File /\ f \in DOMAIN disk /\ disk[f] = Bundle!Written(run.mode, run.version)
      BY <2>3, <1>4, <1>5
    <2> QED BY <2>1, <2>2, <2>3, <1>1 DEF BundleInv, RunAhead
  <1>9. RunAhead'
    <2>1. run'.version <= source' /\ run'.step = "data"
      BY <1>1, <1>4 DEF BundleInv, RunAhead
    <2> QED BY <1>8, <2>1 DEF RunAhead, Bundle!Names, Bundle!Written
  <1> QED BY <1>6, <1>7, <1>9 DEF BundleInv

\* The data files are written, and none is on the way.
LEMMA AllWritten ==
    ASSUME BundleInv, run.step # "idle", run.todo = <<>>
    PROVE  disk = Uniform(run.mode, run.version)
  <1>1. \A f \in Bundle!Names : f \in DOMAIN disk /\ disk[f] = Bundle!Written(run.mode, run.version)
    BY DEF BundleInv, RunAhead
  <1>2. disk = [f \in DOMAIN disk |-> disk[f]] /\ DOMAIN disk = Bundle!Names
    BY <1>1 DEF BundleInv, BundleTyped
  <1> QED BY <1>1, <1>2 DEF Uniform

LEMMA BeginManifestKeeps ==
    ASSUME BundleInv, Bundle!BeginManifest
    PROVE  BundleInv'
  <1>1. /\ run.step = "data" /\ run.todo = <<>>
        /\ run' = [run EXCEPT !.step = "manifest", !.hashed = IF Bundle!InPlace THEN source ELSE @]
        /\ source' = source /\ disk' = disk /\ study' = study
        /\ manifest' \subseteq manifest
        /\ temporary' = IF Bundle!InPlace THEN temporary ELSE temporary \cup {"manifest"}
    BY DEF Bundle!BeginManifest
  <1>2. /\ run' \in RunType /\ run'.step = "manifest" /\ run'.mode = run.mode /\ run'.version = run.version
        /\ run'.todo = run.todo
    BY <1>1 DEF BundleInv, BundleTyped, RunType
  <1>3. BundleTyped'
    BY <1>1, <1>2 DEF BundleInv, BundleTyped, RunType, Bundle!Names, Bundle!InPlace
  <1>4. ManifestsUniform'
    BY <1>1 DEF BundleInv, ManifestsUniform, Uniform, Bundle!Names
  <1>5. RunAhead'
    BY <1>1, <1>2 DEF BundleInv, RunAhead, Bundle!Names, Bundle!Written
  <1> QED BY <1>3, <1>4, <1>5 DEF BundleInv

LEMMA WriteManifestKeeps ==
    ASSUME BundleInv, Bundle!WriteManifest
    PROVE  BundleInv'
  <1>1. /\ run.step = "manifest" /\ run' = [run EXCEPT !.step = "verify"]
        /\ source' = source /\ disk' = disk /\ study' = study
        /\ manifest' = {[mode |-> run.mode, version |-> run.hashed, files |-> Bundle!Recorded]}
        /\ temporary' = temporary \ {"manifest"}
    BY DEF Bundle!WriteManifest
  <1>2. /\ run' \in RunType /\ run'.step = "verify" /\ run'.mode = run.mode /\ run'.version = run.version
        /\ run'.todo = run.todo /\ run'.hashed = run.hashed
    BY <1>1 DEF BundleInv, BundleTyped, RunType
  <1>3. run.todo = <<>> /\ run.version <= source /\ run.version \in Nat /\ source \in Nat
    BY <1>1 DEF BundleInv, BundleTyped, RunAhead, RunType
  <1>4. Bundle!Recorded = Uniform(run.mode, run.version)
    BY <1>1, <1>3, AllWritten DEF Bundle!Recorded, Uniform
  <1>5. BundleTyped'
    BY <1>1, <1>2 DEF BundleInv, BundleTyped, RunType, Bundle!Names, Bundle!InPlace
  <1>6. ManifestsUniform'
    <2>1. run.version \in 0..source'
      BY <1>1, <1>3
    <2> QED BY <2>1, <1>1, <1>4 DEF ManifestsUniform, Uniform, Bundle!Names
  <1>7. RunAhead'
    BY <1>1, <1>2, <1>3, <1>4 DEF BundleInv, RunAhead, Bundle!Names, Bundle!Written, Uniform
  <1> QED BY <1>5, <1>6, <1>7 DEF BundleInv

LEMMA BundleStep ==
    ASSUME Bundle!BundleConstants, BundleInv, [Bundle!Next]_bundleVars
    PROVE  BundleInv'
  <1>1. ASSUME NEW mode \in Modes, Bundle!Start(mode)
        PROVE  BundleInv'
    <2>1. /\ run' = [step |-> "data", mode |-> mode, version |-> source, hashed |-> source, todo |-> DataFiles]
          /\ UNCHANGED <<study, source, disk, manifest, temporary>>
      BY <1>1 DEF Bundle!Start
    <2>2. DataFiles \in Seq(Bundle!Names) /\ \A f \in Bundle!Names : \E i \in 1..Len(DataFiles) : DataFiles[i] = f
      <3>1. DataFiles \in Seq(STRING)
        BY DEF Bundle!BundleConstants
      <3> QED BY <3>1 DEF Bundle!Names, Bundle!ToSet
    <2>3. BundleTyped'
      BY <2>1, <2>2 DEF BundleInv, BundleTyped, RunType, Bundle!InPlace, Bundle!Names
    <2>4. ManifestsUniform'
      BY <2>1 DEF BundleInv, ManifestsUniform, Uniform, Bundle!Names
    <2>5. RunAhead'
      BY <2>1, <2>2 DEF RunAhead, BundleInv, BundleTyped, Bundle!Names
    <2> QED BY <2>3, <2>4, <2>5 DEF BundleInv
  <1>2. ASSUME run' = Bundle!Idle, UNCHANGED <<study, source, disk, manifest, temporary>>
        PROVE  BundleInv'
    <2>1. run' \in RunType /\ run'.step = "idle"
      BY <1>2 DEF Bundle!Idle, RunType
    <2> QED BY <1>2, <2>1 DEF BundleInv, BundleTyped, ManifestsUniform, RunAhead, RunType, Uniform, Bundle!InPlace,
                              Bundle!Names
  <1>3. CASE Bundle!EditSources
    <2>1. source' = source + 1 /\ UNCHANGED <<study, disk, manifest, temporary, run>> /\ source \in Nat
      BY <1>3 DEF Bundle!EditSources, BundleInv, BundleTyped
    <2>2. ManifestsUniform'
      <3> SUFFICES ASSUME NEW m \in manifest
                   PROVE  \E v \in 0..source' : m.files = Uniform(m.mode, v)'
        BY <2>1 DEF ManifestsUniform
      <3>1. PICK v \in 0..source : m.files = Uniform(m.mode, v)
        BY DEF BundleInv, ManifestsUniform
      <3>2. v \in 0..source'
        BY <2>1
      <3> QED BY <3>1, <3>2 DEF Uniform, Bundle!Names
    <2>3. BundleTyped'
      BY <2>1 DEF BundleInv, BundleTyped, RunType, Bundle!InPlace, Bundle!Names
    <2>4. RunAhead'
      <3>1. run.version \in Nat
        BY DEF BundleInv, BundleTyped, RunType
      <3> QED BY <2>1, <3>1 DEF BundleInv, RunAhead, Uniform, Bundle!Names
    <2> QED BY <2>2, <2>3, <2>4 DEF BundleInv
  <1>4. CASE UNCHANGED bundleVars
    BY <1>4 DEF bundleVars, BundleInv, BundleTyped, ManifestsUniform, RunAhead, RunType, Uniform, Bundle!InPlace,
                Bundle!Names
  <1>5. Bundle!Return \/ Bundle!Crash => BundleInv'
    BY <1>2 DEF Bundle!Return, Bundle!Crash
  <1> QED BY <1>1, <1>3, <1>4, <1>5, BeginFileKeeps, WriteFileKeeps, BeginManifestKeeps, WriteManifestKeeps
          DEF Bundle!Next

LEMMA BundleStart ==
    ASSUME Bundle!Init
    PROVE  BundleInv
  <1>1. Bundle!Idle \in RunType /\ Bundle!Idle.step = "idle"
    BY DEF Bundle!Idle, RunType
  <1> QED BY <1>1 DEF Bundle!Init, BundleInv, BundleTyped, ManifestsUniform, RunAhead

\* A manifest that verifies is matched, file by file, by its own content.
LEMMA BundleFacts ==
    ASSUME Bundle!BundleConstants, BundleInv
    PROVE  Bundle!BundlesWhole
  <1>1. ASSUME NEW m \in manifest, Bundle!Verifies(m)
        PROVE  \E v \in 0..source : \A f \in Bundle!Names : disk[f] = Bundle!Written(m.mode, v)
    <2>1. PICK v \in 0..source : m.files = Uniform(m.mode, v)
      BY DEF BundleInv, ManifestsUniform
    <2> QED BY <2>1, <1>1 DEF Bundle!Verifies, Bundle!Matches, Uniform
  <1>2. ASSUME run.step = "verify", Bundle!InPlace => run.hashed = source
        PROVE  Bundle!Verified
    <2> DEFINE m == [mode |-> run.mode, version |-> run.hashed, files |-> Uniform(run.mode, run.version)]
    <2>1. m \in manifest /\ run.todo = <<>>
      BY <1>2 DEF BundleInv, RunAhead
    <2>2. disk = Uniform(run.mode, run.version)
      BY <1>2, <2>1, AllWritten
    <2>3. m.files = disk /\ m.version = run.hashed /\ DOMAIN disk = Bundle!Names
      BY <2>2 DEF Uniform
    <2> HIDE DEF m
    <2>4. Bundle!Names # {}
      <3>1. DataFiles \in Seq(STRING) /\ DataFiles # <<>>
        BY DEF Bundle!BundleConstants
      <3>2. 1 \in 1..Len(DataFiles)
        BY <3>1
      <3> QED BY <3>1, <3>2 DEF Bundle!Names, Bundle!ToSet
    <2>5. m.files # <<>>
      BY <2>3, <2>4
    <2>6. Bundle!InPlace => temporary = {}
      BY DEF BundleInv, BundleTyped
    <2>7. Bundle!Verifies(m)
      BY <1>2, <2>3, <2>5, <2>6 DEF Bundle!Verifies, Bundle!Matches
    <2> QED BY <2>1, <2>7 DEF Bundle!Verified
  <1> QED BY <1>1, <1>2 DEF Bundle!BundlesWhole

----------------------------------------------------------------------------
(* The numbers of a set in their order, one by one.                        *)

\* ReplayFreeze counts with the Cardinality of FiniteSets.
LEMMA SameCardinality == \A S : Replay!Cardinality(S) = Cardinality(S)
  BY DEF Replay!Cardinality, Cardinality, Replay!IsFiniteSet, IsFiniteSet

Numbers(n) == SUBSET (1..n)

LEMMA NumbersFinite ==
    ASSUME NEW n \in Nat, NEW S \in Numbers(n)
    PROVE  IsFiniteSet(S) /\ Cardinality(S) \in Nat /\ \A q \in S : q \in Int /\ q >= 1 /\ q <= n
  <1>1. IsFiniteSet(1..n)
    BY FS_Interval
  <1>2. IsFiniteSet(S)
    BY <1>1, FS_Subset DEF Numbers
  <1> QED BY <1>2, FS_CardinalityType DEF Numbers

LEMMA BelowFinite ==
    ASSUME NEW n \in Nat, NEW S \in Numbers(n), NEW m
    PROVE  IsFiniteSet(Replay!Below(S, m)) /\ Cardinality(Replay!Below(S, m)) \in Nat
  <1>1. IsFiniteSet(S) /\ Replay!Below(S, m) \in SUBSET S
    BY NumbersFinite DEF Replay!Below
  <1>2. IsFiniteSet(Replay!Below(S, m))
    BY <1>1, FS_Subset
  <1> QED BY <1>2, FS_CardinalityType

LEMMA BelowNext ==
    ASSUME NEW n \in Nat, NEW S \in Numbers(n), NEW m \in Nat
    PROVE  Cardinality(Replay!Below(S, m + 1)) =
               IF m \in S THEN Cardinality(Replay!Below(S, m)) + 1 ELSE Cardinality(Replay!Below(S, m))
  <1>1. IsFiniteSet(Replay!Below(S, m)) /\ \A q \in S : q \in Int
    BY BelowFinite, NumbersFinite
  <1>2. CASE m \in S
    <2>1. \A q \in S : q < m + 1 <=> q < m \/ q = m
      BY <1>1
    <2>2. ~ (m < m)
      OBVIOUS
    <2>3. Replay!Below(S, m + 1) = Replay!Below(S, m) \cup {m} /\ m \notin Replay!Below(S, m)
      BY <1>2, <2>1, <2>2, Zenon DEF Replay!Below
    <2> QED BY <1>1, <1>2, <2>3, FS_AddElement
  <1>3. CASE m \notin S
    <2>1. \A q \in S : q < m + 1 <=> q < m
      BY <1>1, <1>3
    <2>2. Replay!Below(S, m + 1) = Replay!Below(S, m)
      BY <2>1, Zenon DEF Replay!Below
    <2> QED BY <1>3, <2>2
  <1> QED BY <1>2, <1>3

\* With k elements to spare, some element has exactly k below it.
LEMMA KthExists ==
    ASSUME NEW n \in Nat, NEW S \in Numbers(n), NEW k \in Nat, k < Cardinality(S)
    PROVE  \E p \in S : Cardinality(Replay!Below(S, p)) = k
  <1> DEFINE Count(m) == Cardinality(Replay!Below(S, m))
             T == {m \in Nat : Count(m) > k}
  <1>1. Count(n + 1) = Cardinality(S)
    <2>1. \A q \in S : q < n + 1
      BY NumbersFinite
    <2>2. Replay!Below(S, n + 1) = S
      BY <2>1, Zenon DEF Replay!Below
    <2> QED BY <2>2
  <1>2. n + 1 \in T
    BY <1>1
  <1>3. PICK m \in T : \A y \in T : m <= y
    <2>1. T \subseteq Nat /\ T # {}
      BY <1>2
    <2> HIDE DEF T
    <2> QED BY <2>1, LeastNatural
  <1>4. Count(0) = 0
    <2>1. \A q \in S : ~ (q < 0)
      BY NumbersFinite
    <2>2. Replay!Below(S, 0) = {}
      BY <2>1, Zenon DEF Replay!Below
    <2> QED BY <2>2, FS_EmptySet
  <1>5. m # 0
    BY <1>3, <1>4
  <1>6. m - 1 \in Nat /\ (m - 1) + 1 = m
    BY <1>3, <1>5
  <1>7. ~(Count(m - 1) > k) /\ Count(m) > k
    BY <1>3, <1>6
  <1>8. Count(m - 1) \in Nat /\ Count(m) \in Nat
    BY BelowFinite
  <1>9. Count((m - 1) + 1) = IF m - 1 \in S THEN Count(m - 1) + 1 ELSE Count(m - 1)
    BY <1>6, BelowNext
  <1>10. Count(m) = IF m - 1 \in S THEN Count(m - 1) + 1 ELSE Count(m - 1)
    BY <1>6, <1>9
  <1>11. m - 1 \in S /\ Count(m - 1) = k
    <2> HIDE DEF Count, T
    <2> QED BY <1>7, <1>8, <1>10
  <1> QED BY <1>11

\* Counting below is strictly increasing on the set.
LEMMA BelowGrows ==
    ASSUME NEW n \in Nat, NEW S \in Numbers(n), NEW p \in S, NEW q \in S, p < q
    PROVE  Cardinality(Replay!Below(S, p)) < Cardinality(Replay!Below(S, q))
  <1>1. /\ IsFiniteSet(Replay!Below(S, p)) /\ Cardinality(Replay!Below(S, p)) \in Nat
        /\ IsFiniteSet(Replay!Below(S, q)) /\ Cardinality(Replay!Below(S, q)) \in Nat
    BY BelowFinite
  <1>2. ~(p < p) /\ \A x \in S : x < p => x < q
    BY NumbersFinite
  <1>3. p \notin Replay!Below(S, p) /\ Replay!Below(S, p) \cup {p} \in SUBSET Replay!Below(S, q)
    BY <1>2 DEF Replay!Below
  <1>4. Cardinality(Replay!Below(S, p) \cup {p}) = Cardinality(Replay!Below(S, p)) + 1
    BY <1>1, <1>3, FS_AddElement
  <1>5. Cardinality(Replay!Below(S, p) \cup {p}) <= Cardinality(Replay!Below(S, q))
    BY <1>1, <1>3, FS_Subset
  <1> QED BY <1>1, <1>4, <1>5

\* Nth takes the elements of the set, the least first.
LEMMA NthFacts ==
    ASSUME NEW n \in Nat, NEW S \in Numbers(n), NEW k \in Nat \ {0}, k <= Cardinality(S)
    PROVE  /\ Replay!Nth(S, k) \in S
           /\ Cardinality(Replay!Below(S, Replay!Nth(S, k))) = k - 1
           /\ \A p \in S : Cardinality(Replay!Below(S, p)) = k - 1 => p = Replay!Nth(S, k)
  <1>1. k - 1 \in Nat /\ k - 1 < Cardinality(S)
    BY NumbersFinite
  <1>2. \E p \in S : Cardinality(Replay!Below(S, p)) = k - 1
    BY <1>1, KthExists
  <1>3. Replay!Nth(S, k) \in S /\ Cardinality(Replay!Below(S, Replay!Nth(S, k))) = k - 1
    BY <1>2, SameCardinality DEF Replay!Nth
  <1>4. ASSUME NEW p \in S, Cardinality(Replay!Below(S, p)) = k - 1, p # Replay!Nth(S, k)
        PROVE  FALSE
    <2> DEFINE q == Replay!Nth(S, k)
    <2>1. q \in S /\ Cardinality(Replay!Below(S, q)) = k - 1
      BY <1>3
    <2> HIDE DEF q
    <2>2. p < q \/ q < p
      <3>1. p \in Int /\ q \in Int /\ p # q
        BY <1>4, <2>1, NumbersFinite DEF q
      <3> QED BY <3>1
    <2>3. ~ (k - 1 < k - 1)
      BY <1>1
    <2> QED BY <1>4, <2>1, <2>2, <2>3, BelowGrows
  <1> QED BY <1>3, <1>4

LEMMA FirstIsLeast ==
    ASSUME NEW n \in Nat, NEW S \in Numbers(n), 1 <= Cardinality(S)
    PROVE  Replay!Nth(S, 1) \in S /\ \A j \in S : Replay!Nth(S, 1) <= j
  <1> DEFINE p == Replay!Nth(S, 1)
  <1>1. p \in S /\ Cardinality(Replay!Below(S, p)) = 0
    BY NthFacts
  <1> HIDE DEF p
  <1>2. Replay!Below(S, p) = {}
    BY <1>1, BelowFinite, FS_EmptySet
  <1>3. \A j \in S : ~ (j < p)
    BY <1>2 DEF Replay!Below
  <1> QED BY <1>1, <1>3, NumbersFinite DEF p

\* The numbers of an interval follow each other.
LEMMA NthOfInterval ==
    ASSUME NEW n \in Nat, NEW a \in 1..n, NEW k \in Nat \ {0}, k <= Cardinality(a..n)
    PROVE  Replay!Nth(a..n, k) = a + k - 1
  <1> DEFINE p == a + k - 1
  <1>1. Cardinality(a..n) = n - a + 1
    BY FS_Interval
  <1>2. p \in a..n
    BY <1>1
  <1>3. Replay!Below(a..n, p) = a..(p - 1)
    BY <1>2 DEF Replay!Below
  <1>4. Cardinality(a..(p - 1)) = k - 1
    <2>1. a \in Int /\ p - 1 \in Int
      OBVIOUS
    <2>2. Cardinality(a..(p - 1)) = IF a > p - 1 THEN 0 ELSE (p - 1) - a + 1
      BY <2>1, FS_Interval
    <2> QED BY <2>2
  <1>5. a..n \in Numbers(n)
    BY DEF Numbers
  <1> HIDE DEF p
  <1>6. Cardinality(Replay!Below(a..n, p)) = k - 1
    BY <1>3, <1>4
  <1>7. p = Replay!Nth(a..n, k)
    BY <1>2, <1>5, <1>6, NthFacts
  <1> QED BY <1>7 DEF p

----------------------------------------------------------------------------
(* The public replay.  A derivative is always what some selection took, of *)
(* the registered trace unless a selection met another file; its row       *)
(* numbers tell whether the rows it took follow each other in the file.    *)
(* In a file that was inspected they do: its texts are in order, so every  *)
(* row after the first that reaches the target reaches it.                 *)

\* rows are what a selection takes from the file r for the target t.
Taken(rows, r, t, size) ==
    /\ size \in Nat \ {0} /\ size <= Cardinality(Replay!Hits(r.rows, t))
    /\ rows = Replay!SelectRows(r.rows, t, size)

\* A window of the registered trace c, or of any file once files were mixed.
Window(rows, size, mix, c) ==
    \E r \in RawTraces : \E t \in Int :
        /\ Taken(rows, r, t, size)
        /\ mix \/ (r = c /\ t = Replay!Target(Replay!Inspection(c)))

FreezeSteps == {"idle", "inspect", "select", "trace", "manifest", "verify", "raised", "rejected", "done"}

ReplayTyped ==
    /\ contract \in RawTraces /\ Replay!Inspects(contract) /\ raw \in RawTraces /\ mixed \in BOOLEAN
    /\ freezing \in [step : FreezeSteps, force : BOOLEAN, size : WindowSizes \cup {0},
                     inspected : {freezing.inspected}, derived : {freezing.derived}, before : {freezing.before}]

\* What the freeze has in hand at each step.
FreezeAhead ==
    /\ freezing.step \in {"inspect", "select", "trace", "manifest", "verify"} => freezing.size \in WindowSizes
    /\ freezing.step \in {"select", "trace", "manifest", "verify"} =>
          /\ freezing.inspected = <<Replay!Inspection(contract)>>
          /\ Replay!Span(Replay!Inspection(contract)) >= 1
    /\ freezing.step \in {"trace", "manifest", "verify"} =>
          \E rows : freezing.derived = <<rows>> /\ Window(rows, freezing.size, mixed, contract)
    /\ freezing.step \in {"manifest", "verify"} => trace = freezing.derived
    /\ freezing.step = "verify" =>
          provenance = <<Replay!ManifestPayload(Replay!Inspection(contract), freezing.derived[1])>>
    /\ freezing.step = "rejected" => mixed

\* The files that a freeze found are kept until it writes its own.
FilesKept ==
    ~freezing.force =>
        /\ freezing.step \in {"inspect", "select", "trace", "raised"} => freezing.before = <<trace, provenance>>
        /\ freezing.step = "manifest" => freezing.before = <<<<>>, <<>>>> /\ provenance = <<>>

TraceTaken == trace # <<>> => \E rows, size : trace = <<rows>> /\ Window(rows, size, mixed, contract)

ReplayInv == ReplayTyped /\ FreezeAhead /\ FilesKept /\ TraceTaken

\* The rows of a raw trace.
LEMMA RawFacts ==
    ASSUME Replay!ReplayConstants, NEW r \in RawTraces
    PROVE  /\ r.digest \in Nat /\ r.rows \in Seq(Replay!RawRows) /\ Len(r.rows) \in Nat
           /\ DOMAIN r.rows = 1..Len(r.rows)
           /\ \A i \in 1..Len(r.rows) :
                 /\ r.rows[i] \in Replay!RawRows
                 /\ r.rows[i].stamp \in Replay!Stamps /\ r.rows[i].stamp.at \in Nat
                 /\ r.rows[i].stamp.short \in BOOLEAN
                 /\ r.rows[i].prompt \in Nat /\ r.rows[i].output \in Nat
           /\ \A t : Replay!Hits(r.rows, t) \in Numbers(Len(r.rows))
  <1>1. r.digest \in Nat /\ r.rows \in Seq(Replay!RawRows)
    BY DEF Replay!ReplayConstants
  <1>2. Len(r.rows) \in Nat /\ DOMAIN r.rows = 1..Len(r.rows)
    BY <1>1
  <1>3. \A i \in 1..Len(r.rows) : r.rows[i] \in Replay!RawRows
    BY <1>1, <1>2
  <1>4. \A t : Replay!Hits(r.rows, t) \in Numbers(Len(r.rows))
    BY <1>2 DEF Replay!Hits, Numbers
  <1> QED BY <1>1, <1>2, <1>3, <1>4 DEF Replay!RawRows, Replay!Stamps

\* The row at position k of a selection.
TakenRow(r, t, k) == Replay!Nth(Replay!Hits(r.rows, t), k)

\* A selection, row by row.
LEMMA TakenFacts ==
    ASSUME Replay!ReplayConstants, NEW r \in RawTraces, NEW t, NEW size, NEW rows, Taken(rows, r, t, size)
    PROVE  /\ \A k \in 1..size : TakenRow(r, t, k) \in Replay!Hits(r.rows, t)
                                 /\ TakenRow(r, t, k) \in 1..Len(r.rows)
           /\ 1 \in 1..size
           /\ rows = [k \in 1..size |->
                        [arrival |-> r.rows[TakenRow(r, t, k)].stamp.at - r.rows[TakenRow(r, t, 1)].stamp.at,
                         stamp |-> r.rows[TakenRow(r, t, k)].stamp,
                         output |-> r.rows[TakenRow(r, t, k)].output,
                         prompt |-> r.rows[TakenRow(r, t, k)].prompt, row |-> TakenRow(r, t, k) - 1]]
  <1> DEFINE H == Replay!Hits(r.rows, t)
  <1>1. size \in Nat \ {0} /\ size <= Cardinality(H) /\ H \in Numbers(Len(r.rows)) /\ Len(r.rows) \in Nat
    BY RawFacts DEF Taken
  <1> HIDE DEF H
  <1>2. \A k \in 1..size : k \in Nat \ {0} /\ k <= Cardinality(H)
    BY <1>1, NumbersFinite
  <1>3. \A k \in 1..size : Replay!Nth(H, k) \in H
    BY <1>1, <1>2, NthFacts
  <1>4. \A j \in H : j \in 1..Len(r.rows)
    BY <1>1 DEF Numbers
  <1>5. 1 \in 1..size
    BY <1>1
  <1>6. rows = [k \in 1..size |->
                  [arrival |-> r.rows[TakenRow(r, t, k)].stamp.at - r.rows[TakenRow(r, t, 1)].stamp.at,
                   stamp |-> r.rows[TakenRow(r, t, k)].stamp,
                   output |-> r.rows[TakenRow(r, t, k)].output,
                   prompt |-> r.rows[TakenRow(r, t, k)].prompt, row |-> TakenRow(r, t, k) - 1]]
    BY <1>5 DEF Taken, Replay!SelectRows, TakenRow
  <1> QED BY <1>3, <1>4, <1>5, <1>6 DEF H, TakenRow

\* A selection as a sequence.
LEMMA TakenSequence ==
    ASSUME Replay!ReplayConstants, NEW r \in RawTraces, NEW t, NEW size, NEW rows, Taken(rows, r, t, size)
    PROVE  /\ size \in Nat \ {0} /\ DOMAIN rows = 1..size /\ Len(rows) = size
           /\ Head(rows) = rows[1] /\ Replay!Last(rows) = rows[size]
           /\ \A k \in 1..size :
                 /\ rows[k].arrival = r.rows[TakenRow(r, t, k)].stamp.at - r.rows[TakenRow(r, t, 1)].stamp.at
                 /\ rows[k].stamp = r.rows[TakenRow(r, t, k)].stamp
                 /\ rows[k].output = r.rows[TakenRow(r, t, k)].output
                 /\ rows[k].prompt = r.rows[TakenRow(r, t, k)].prompt
                 /\ rows[k].row = TakenRow(r, t, k) - 1
  <1> DEFINE row(k) == [arrival |-> r.rows[TakenRow(r, t, k)].stamp.at - r.rows[TakenRow(r, t, 1)].stamp.at,
                        stamp |-> r.rows[TakenRow(r, t, k)].stamp,
                        output |-> r.rows[TakenRow(r, t, k)].output,
                        prompt |-> r.rows[TakenRow(r, t, k)].prompt, row |-> TakenRow(r, t, k) - 1]
  <1>1. rows = [k \in 1..size |-> row(k)]
    BY TakenFacts
  <1>2. size \in Nat \ {0}
    BY DEF Taken
  <1> HIDE DEF row
  <1> DEFINE R == {row(k) : k \in 1..size}
  <1>3. rows \in [1..size -> R]
    BY <1>1
  <1> HIDE DEF R
  <1>4. rows \in Seq(R)
    BY <1>2, <1>3
  <1>5. DOMAIN rows = 1..size
    BY <1>3
  <1>6. Len(rows) = size
    BY <1>2, <1>4, <1>5
  <1>7. Head(rows) = rows[1] /\ Replay!Last(rows) = rows[size]
    BY <1>2, <1>4, <1>6 DEF Replay!Last
  <1>8. \A k \in 1..size : rows[k] = row(k)
    BY <1>1
  <1> QED BY <1>2, <1>5, <1>6, <1>7, <1>8 DEF row

\* The first row taken is the earliest that reaches the target.
LEMMA FirstTaken ==
    ASSUME Replay!ReplayConstants, NEW r \in RawTraces, NEW t \in Int, NEW size, NEW rows, Taken(rows, r, t, size)
    PROVE  Replay!StartsAt(r.rows, TakenRow(r, t, 1), t)
  <1> DEFINE H == Replay!Hits(r.rows, t)
             a == TakenRow(r, t, 1)
  <1>1. H \in Numbers(Len(r.rows)) /\ Len(r.rows) \in Nat /\ 1 <= Cardinality(H)
    <2>1. size \in Nat \ {0} /\ size <= Cardinality(H) /\ H \in Numbers(Len(r.rows)) /\ Len(r.rows) \in Nat
      BY RawFacts DEF Taken
    <2> HIDE DEF H
    <2>2. Cardinality(H) \in Nat
      BY <2>1, NumbersFinite
    <2> QED BY <2>1, <2>2
  <1>2. a \in H /\ \A j \in H : a <= j
    <2> HIDE DEF H
    <2>1. Replay!Nth(H, 1) \in H /\ \A j \in H : Replay!Nth(H, 1) <= j
      BY <1>1, FirstIsLeast
    <2> QED BY <2>1 DEF TakenRow, H
  <1>3. a \in 1..Len(r.rows)
    BY <1>1, <1>2 DEF Numbers
  <1>4. r.rows[a].stamp.at >= t
    BY <1>2, <1>3, RawFacts DEF Replay!Hits, Replay!Reached
  <1>5. ASSUME NEW j \in 1..(a - 1)
        PROVE  r.rows[j].stamp.at < t \/ (r.rows[j].stamp.at = t /\ r.rows[j].stamp.short)
    <2>1. j \in 1..Len(r.rows) /\ ~(a <= j)
      BY <1>1, <1>3
    <2>2. j \notin H /\ j \in DOMAIN r.rows
      BY <1>2, <2>1, RawFacts
    <2>3. r.rows[j].stamp.at \in Nat
      BY <2>1, RawFacts
    <2> QED BY <2>2, <2>3 DEF Replay!Hits, Replay!Reached
  <1> HIDE DEF a
  <1>6. Replay!StartsAt(r.rows, a, t)
    BY <1>4, <1>5 DEF Replay!StartsAt
  <1> QED BY <1>6 DEF a

\* What verifies is an unbroken stretch of the file it was taken from.
LEMMA VerifiedIsExcerpt ==
    ASSUME Replay!ReplayConstants, NEW r \in RawTraces, NEW t \in Int, NEW n, NEW rows, Taken(rows, r, t, n),
           trace = <<rows>>, NEW size, Replay!Verifies(size)
    PROVE  \E i \in 1..(Len(r.rows) - size + 1) :
              trace[1] = Replay!Excerpt(r.rows, i, size) /\ Replay!StartsAt(r.rows, i, t)
  <1> DEFINE a == TakenRow(r, t, 1)
  <1>1. /\ n \in Nat \ {0} /\ DOMAIN rows = 1..n /\ Len(rows) = n
        /\ \A k \in 1..n : rows[k].row = TakenRow(r, t, k) - 1
    BY TakenSequence
  <1>2. n = size /\ \A k \in 1..n : k > 1 => rows[k].row = rows[k - 1].row + 1
    BY <1>1 DEF Replay!Verifies, Replay!DerivativeRows
  <1>3. /\ 1 \in 1..n /\ Len(r.rows) \in Nat
        /\ \A k \in 1..n : TakenRow(r, t, k) \in 1..Len(r.rows)
    BY TakenFacts, RawFacts
  <1> DEFINE Strays == {k \in 1..n : TakenRow(r, t, k) # a + k - 1}
  <1>4. Strays = {}
    <2> SUFFICES ASSUME Strays # {} PROVE FALSE
      OBVIOUS
    <2>1. PICK k \in Strays : \A j \in Strays : k <= j
      <3>1. Strays \subseteq Nat
        BY <1>1
      <3> HIDE DEF Strays
      <3> QED BY <3>1, LeastNatural
    <2>2. k \in 1..n /\ k # 1
      BY <1>3, <2>1
    <2>3. k - 1 \in 1..n /\ ~(k <= k - 1)
      BY <1>1, <2>2
    <2>4. TakenRow(r, t, k - 1) = a + (k - 1) - 1
      BY <2>1, <2>3
    <2>5. TakenRow(r, t, k) - 1 = TakenRow(r, t, k - 1) - 1 + 1
      BY <1>1, <1>2, <2>2, <2>3
    <2>6. TakenRow(r, t, k) = a + k - 1
      <3>1. TakenRow(r, t, k) \in Int /\ TakenRow(r, t, k - 1) \in Int /\ a \in Int
        BY <1>3, <2>2, <2>3
      <3> QED BY <2>2, <2>4, <2>5, <3>1
    <2> QED BY <2>1, <2>6
  <1>5. \A k \in 1..n : TakenRow(r, t, k) = a + k - 1
    BY <1>4
  <1>6. a \in 1..(Len(r.rows) - size + 1)
    <2>1. n \in 1..n /\ TakenRow(r, t, n) = a + n - 1 /\ TakenRow(r, t, n) \in 1..Len(r.rows) /\ a \in 1..Len(r.rows)
      BY <1>1, <1>3, <1>5
    <2> QED BY <1>1, <1>2, <1>3, <2>1
  <1>7. rows = Replay!Excerpt(r.rows, a, size)
    <2>1. rows = [k \in 1..n |->
                    [arrival |-> r.rows[TakenRow(r, t, k)].stamp.at - r.rows[TakenRow(r, t, 1)].stamp.at,
                     stamp |-> r.rows[TakenRow(r, t, k)].stamp,
                     output |-> r.rows[TakenRow(r, t, k)].output,
                     prompt |-> r.rows[TakenRow(r, t, k)].prompt, row |-> TakenRow(r, t, k) - 1]]
      BY TakenFacts
    <2>2. \A k \in 1..n : (a + k - 1) - 1 = a + k - 2
      BY <1>3
    <2> HIDE DEF Strays
    <2> QED BY <1>2, <1>5, <2>1, <2>2 DEF Replay!Excerpt
  <1>8. Replay!StartsAt(r.rows, a, t)
    BY FirstTaken
  <1> HIDE DEF a, Strays
  <1> QED BY <1>6, <1>7, <1>8

\* The order of the texts is transitive.
LEMMA TextsTransitive ==
    ASSUME NEW x, NEW y, NEW z, x.at \in Nat, y.at \in Nat, z.at \in Nat,
           Replay!TextAtMost(x, y), Replay!TextAtMost(y, z)
    PROVE  Replay!TextAtMost(x, z)
  <1>1. x.at <= y.at /\ y.at <= z.at
    BY DEF Replay!TextAtMost
  <1>2. CASE x.at < z.at
    BY <1>2 DEF Replay!TextAtMost
  <1>3. CASE x.at = z.at
    <2>1. x.at = y.at /\ y.at = z.at /\ ~(x.at < y.at) /\ ~(y.at < z.at)
      BY <1>1, <1>3
    <2> QED BY <2>1, Zenon DEF Replay!TextAtMost
  <1> QED BY <1>1, <1>2, <1>3

\* The texts of an inspected file are in order, from any row to a later one.
LEMMA TextsOrdered ==
    ASSUME Replay!ReplayConstants, NEW r \in RawTraces, Replay!Inspects(r),
           NEW i \in 1..Len(r.rows), NEW j \in 1..Len(r.rows), i <= j
    PROVE  Replay!TextAtMost(r.rows[i].stamp, r.rows[j].stamp)
  <1>1. /\ Len(r.rows) \in Nat /\ DOMAIN r.rows = 1..Len(r.rows)
        /\ \A k \in 1..Len(r.rows) : r.rows[k].stamp.at \in Nat /\ r.rows[k].stamp.short \in BOOLEAN
    BY RawFacts
  <1> DEFINE T == {k \in i..Len(r.rows) : ~Replay!TextAtMost(r.rows[i].stamp, r.rows[k].stamp)}
  <1>2. T = {}
    <2> SUFFICES ASSUME T # {} PROVE FALSE
      OBVIOUS
    <2>1. PICK k \in T : \A m \in T : k <= m
      <3>1. T \subseteq Nat
        BY <1>1
      <3> HIDE DEF T
      <3> QED BY <3>1, LeastNatural
    <2>2. Replay!TextAtMost(r.rows[i].stamp, r.rows[i].stamp)
      BY <1>1 DEF Replay!TextAtMost
    <2>3. k \in i..Len(r.rows) /\ k # i
      BY <2>1, <2>2
    <2>4. k - 1 \in i..Len(r.rows) /\ ~(k <= k - 1) /\ k > 1
      BY <2>3
    <2>5. Replay!TextAtMost(r.rows[i].stamp, r.rows[k - 1].stamp)
      BY <2>1, <2>4
    <2>6. Replay!TextAtMost(r.rows[k - 1].stamp, r.rows[k].stamp)
      BY <1>1, <2>3, <2>4 DEF Replay!Inspects
    <2>7. k \in 1..Len(r.rows) /\ k - 1 \in 1..Len(r.rows)
      BY <2>3, <2>4
    <2>8. Replay!TextAtMost(r.rows[i].stamp, r.rows[k].stamp)
      BY <1>1, <2>5, <2>6, <2>7, TextsTransitive
    <2> QED BY <2>1, <2>8
  <1>3. j \in i..Len(r.rows)
    OBVIOUS
  <1> QED BY <1>2, <1>3

\* In an inspected file the rows that reach the target are the last ones.
LEMMA HitsAreLast ==
    ASSUME Replay!ReplayConstants, NEW r \in RawTraces, Replay!Inspects(r), NEW t \in Int,
           NEW size, NEW rows, Taken(rows, r, t, size)
    PROVE  Replay!Hits(r.rows, t) = TakenRow(r, t, 1)..Len(r.rows)
  <1> DEFINE a == TakenRow(r, t, 1)
             H == Replay!Hits(r.rows, t)
  <1>1. /\ Len(r.rows) \in Nat /\ DOMAIN r.rows = 1..Len(r.rows) /\ H \in Numbers(Len(r.rows))
        /\ \A k \in 1..Len(r.rows) : r.rows[k].stamp.at \in Nat
    BY RawFacts
  <1>2. a \in H /\ a \in 1..Len(r.rows)
    BY TakenFacts
  <1>3. ASSUME NEW j \in H
        PROVE  j \in a..Len(r.rows)
    <2>1. \A k \in 1..(a - 1) : r.rows[k].stamp.at < t \/ (r.rows[k].stamp.at = t /\ r.rows[k].stamp.short)
      BY FirstTaken DEF Replay!StartsAt
    <2>2. j \in 1..Len(r.rows) /\ (r.rows[j].stamp.at > t \/ (r.rows[j].stamp.at = t /\ ~r.rows[j].stamp.short))
      BY <1>1 DEF Replay!Hits, Replay!Reached
    <2>3. ~(j < a)
      <3> SUFFICES ASSUME j < a PROVE FALSE
        OBVIOUS
      <3>1. j \in 1..(a - 1) /\ r.rows[j].stamp.at \in Nat
        BY <1>1, <1>2, <2>2
      <3>2. ~(r.rows[j].stamp.at < t /\ r.rows[j].stamp.at > t) /\ ~(r.rows[j].stamp.at < t /\ r.rows[j].stamp.at = t)
            /\ ~(r.rows[j].stamp.at > t /\ r.rows[j].stamp.at = t)
        BY <3>1
      <3> QED BY <2>1, <2>2, <3>1, <3>2, Zenon
    <2> QED BY <1>1, <1>2, <2>2, <2>3
  <1>4. ASSUME NEW j \in a..Len(r.rows)
        PROVE  j \in H
    <2>1. j \in 1..Len(r.rows) /\ a <= j
      BY <1>1, <1>2
    <2>2. Replay!TextAtMost(r.rows[a].stamp, r.rows[j].stamp)
      BY <1>2, <2>1, TextsOrdered
    <2>3. Replay!Reached(r.rows[a].stamp, t)
      BY <1>2 DEF Replay!Hits
    <2>4. r.rows[a].stamp.at \in Nat /\ r.rows[j].stamp.at \in Nat
      BY <1>1, <1>2, <2>1
    <2>5. Replay!Reached(r.rows[j].stamp, t)
      <3> DEFINE x == r.rows[a].stamp
                 y == r.rows[j].stamp
      <3> HIDE DEF x, y
      <3>1. x.at \in Nat /\ y.at \in Nat /\ Replay!TextAtMost(x, y) /\ Replay!Reached(x, t)
        BY <2>2, <2>3, <2>4 DEF x, y
      <3>2. x.at <= y.at /\ x.at >= t
        BY <3>1 DEF Replay!TextAtMost, Replay!Reached
      <3>3. CASE y.at > t
        BY <3>3 DEF Replay!Reached, y
      <3>4. CASE y.at = t
        <4>1. x.at = t /\ ~(x.at > t) /\ ~(x.at < y.at)
          BY <3>1, <3>2, <3>4
        <4>2. ~y.short
          BY <3>1, <4>1, Zenon DEF Replay!TextAtMost, Replay!Reached
        <4> QED BY <3>4, <4>2 DEF Replay!Reached, y
      <3> QED BY <3>1, <3>2, <3>3, <3>4
    <2> QED BY <1>1, <2>1, <2>5 DEF Replay!Hits
  <1> HIDE DEF a, H
  <1>5. H = a..Len(r.rows)
    BY <1>3, <1>4
  <1> QED BY <1>5 DEF a, H

\* What an undisturbed freeze wrote passes its verification.
LEMMA UndisturbedVerifies ==
    ASSUME Replay!ReplayConstants, contract \in RawTraces, Replay!Inspects(contract), NEW t \in Int,
           NEW size, NEW rows, Taken(rows, contract, t, size), trace = <<rows>>,
           provenance = <<Replay!ManifestPayload(Replay!Inspection(contract), rows)>>
    PROVE  Replay!Verifies(size)
  <1> DEFINE a == TakenRow(contract, t, 1)
             n == Len(contract.rows)
             m == Replay!ManifestPayload(Replay!Inspection(contract), rows)
             at(k) == contract.rows[k].stamp.at
  <1>1. /\ size \in Nat \ {0} /\ DOMAIN rows = 1..size /\ Len(rows) = size
        /\ Head(rows) = rows[1] /\ Replay!Last(rows) = rows[size]
        /\ \A k \in 1..size :
              /\ rows[k].arrival = contract.rows[TakenRow(contract, t, k)].stamp.at - at(a)
              /\ rows[k].stamp = contract.rows[TakenRow(contract, t, k)].stamp
              /\ rows[k].output = contract.rows[TakenRow(contract, t, k)].output
              /\ rows[k].prompt = contract.rows[TakenRow(contract, t, k)].prompt
              /\ rows[k].row = TakenRow(contract, t, k) - 1
    BY TakenSequence
  <1>2. /\ n \in Nat /\ DOMAIN contract.rows = 1..n
        /\ \A k \in 1..n : at(k) \in Nat /\ contract.rows[k].prompt > 0 /\ contract.rows[k].output > 0
    BY RawFacts DEF Replay!Inspects
  <1>3. a \in 1..n /\ size <= Cardinality(a..n)
    BY HitsAreLast, TakenFacts DEF Taken
  <1>4. \A k \in 1..size : TakenRow(contract, t, k) = a + k - 1
    <2> SUFFICES ASSUME NEW k \in 1..size
                 PROVE  TakenRow(contract, t, k) = a + k - 1
      OBVIOUS
    <2>1. Cardinality(a..n) \in Nat
      <3>1. a..n \in Numbers(n)
        BY <1>3 DEF Numbers
      <3> QED BY <1>2, <3>1, NumbersFinite
    <2>2. k \in Nat \ {0} /\ k <= Cardinality(a..n)
      BY <1>1, <1>3, <2>1
    <2>3. Replay!Hits(contract.rows, t) = a..n
      BY HitsAreLast
    <2>4. TakenRow(contract, t, k) = Replay!Nth(a..n, k)
      BY <2>3 DEF TakenRow
    <2> HIDE DEF a, n
    <2>5. Replay!Nth(a..n, k) = a + k - 1
      BY <1>2, <1>3, <2>2, NthOfInterval
    <2> QED BY <2>4, <2>5
  <1>5. \A k \in 1..size : a + k - 1 \in 1..n
    BY <1>4, TakenFacts
  <1>6. \A j, k \in 1..size : j <= k => at(a + j - 1) <= at(a + k - 1)
    <2> SUFFICES ASSUME NEW j \in 1..size, NEW k \in 1..size, j <= k
                 PROVE  at(a + j - 1) <= at(a + k - 1)
      OBVIOUS
    <2>1. a + j - 1 \in 1..n /\ a + k - 1 \in 1..n /\ a + j - 1 <= a + k - 1
      BY <1>3, <1>5
    <2> DEFINE s == contract.rows[a + j - 1].stamp
               u == contract.rows[a + k - 1].stamp
    <2>2. Replay!TextAtMost(s, u)
      BY <2>1, TextsOrdered
    <2>3. s.at \in Nat /\ u.at \in Nat
      BY <1>2, <2>1
    <2> HIDE DEF s, u
    <2>4. s.at <= u.at
      BY <2>2, <2>3 DEF Replay!TextAtMost
    <2> QED BY <2>4 DEF s, u
  <1>7. \A k \in 1..size :
           /\ rows[k].arrival = at(a + k - 1) - at(a) /\ rows[k].stamp = contract.rows[a + k - 1].stamp
           /\ rows[k].output > 0 /\ rows[k].prompt > 0 /\ rows[k].row = a + k - 2
           /\ at(a + k - 1) \in Nat
    <2> SUFFICES ASSUME NEW k \in 1..size
                 PROVE  /\ rows[k].arrival = at(a + k - 1) - at(a) /\ rows[k].stamp = contract.rows[a + k - 1].stamp
                        /\ rows[k].output > 0 /\ rows[k].prompt > 0 /\ rows[k].row = a + k - 2
                        /\ at(a + k - 1) \in Nat
      OBVIOUS
    <2>1. TakenRow(contract, t, k) = a + k - 1 /\ a + k - 1 \in 1..n
      BY <1>4, <1>5
    <2>2. (a + k - 1) - 1 = a + k - 2
      BY <1>3
    <2> QED BY <1>1, <1>2, <2>1, <2>2
  <1>8. 1 \in 1..size /\ size \in 1..size /\ a + 1 - 1 = a /\ at(a) \in Nat
    BY <1>1, <1>2, <1>3
  <1> HIDE DEF a, n, at
  <1>9. rows[1].arrival = 0
    BY <1>7, <1>8
  <1>10. Replay!LoadsTrace(rows)
    <2> SUFFICES ASSUME NEW k \in 1..size
                 PROVE  rows[k].arrival >= 0 /\ rows[k].output > 0 /\ rows[k].prompt >= 0
      BY <1>1 DEF Replay!LoadsTrace
    <2>1. at(a + 1 - 1) <= at(a + k - 1)
      BY <1>6, <1>8
    <2>2. contract.rows[a + k - 1].prompt \in Nat
      <3>1. a + k - 1 \in 1..n
        BY <1>5
      <3> QED BY <3>1, RawFacts DEF n
    <2>3. rows[k].arrival >= 0
      BY <1>7, <1>8, <2>1
    <2>4. rows[k].prompt = contract.rows[a + k - 1].prompt
      BY <1>1, <1>4
    <2> QED BY <1>7, <2>2, <2>3, <2>4
  <1>11. Replay!DerivativeRows(rows, m)
    <2>1. ASSUME NEW k \in 1..size
          PROVE  /\ rows[k].arrival = rows[k].stamp.at - Head(rows).stamp.at
                 /\ rows[k].output > 0 /\ rows[k].prompt > 0
                 /\ k > 1 => rows[k].arrival >= rows[k - 1].arrival /\ rows[k].row = rows[k - 1].row + 1
      <3>1. rows[k].stamp.at = at(a + k - 1) /\ Head(rows).stamp.at = at(a)
        BY <1>1, <1>7, <1>8 DEF at
      <3>2. ASSUME k > 1
            PROVE  rows[k].arrival >= rows[k - 1].arrival /\ rows[k].row = rows[k - 1].row + 1
        <4>1. k - 1 \in 1..size /\ k - 1 <= k
          BY <1>1, <3>2
        <4>2. at(a + (k - 1) - 1) <= at(a + k - 1)
          BY <1>6, <4>1
        <4>3. rows[k - 1].row = a + (k - 1) - 2 /\ rows[k].row = a + k - 2
          BY <1>7, <4>1
        <4>4. /\ rows[k - 1].arrival = at(a + (k - 1) - 1) - at(a) /\ rows[k].arrival = at(a + k - 1) - at(a)
              /\ at(a + (k - 1) - 1) \in Nat /\ at(a + k - 1) \in Nat
          BY <1>7, <4>1
        <4> QED BY <1>3, <1>8, <4>2, <4>3, <4>4
      <3> QED BY <1>7, <3>1, <3>2
    <2>2. /\ m.first = Head(rows).stamp /\ m.last = Replay!Last(rows).stamp
          /\ m.firstRow = Head(rows).row /\ m.lastRow = Replay!Last(rows).row
          /\ m.span = Replay!Last(rows).stamp.at - Head(rows).stamp.at
      BY DEF Replay!ManifestPayload
    <2>3. Replay!Last(rows).arrival = m.span
      BY <1>1, <1>8, <2>1, <2>2
    <2> HIDE DEF m
    <2> QED BY <1>1, <2>1, <2>2, <2>3 DEF Replay!DerivativeRows
  <1>12. m.source = Replay!Inspection(contract) /\ m.rows = size /\ m.derivative = rows
    BY <1>1 DEF Replay!ManifestPayload
  <1> HIDE DEF m
  <1>13. trace # <<>> /\ provenance # <<>> /\ provenance[1] = m /\ trace[1] = rows
    BY DEF m
  <1> QED BY <1>1, <1>9, <1>10, <1>11, <1>12, <1>13 DEF Replay!Verifies

\* The time a window starts at.
LEMMA TargetIsInt ==
    ASSUME Replay!ReplayConstants, contract \in RawTraces, Replay!Inspects(contract),
           Replay!Span(Replay!Inspection(contract)) >= 1
    PROVE  Replay!Target(Replay!Inspection(contract)) \in Int
  <1> DEFINE i == Replay!Inspection(contract)
             n == Len(contract.rows)
  <1>1. contract.digest \in Nat /\ Second \in Nat \ {0} /\ n \in Nat /\ contract.rows \in Seq(Replay!RawRows)
    BY RawFacts DEF Replay!ReplayConstants
  <1>2. n # 0
    BY <1>1 DEF Replay!Inspects
  <1>3. 1 \in 1..n /\ n \in 1..n
    BY <1>1, <1>2
  <1>4. contract.rows[1].stamp.at \in Nat /\ contract.rows[n].stamp.at \in Nat
    BY <1>3, RawFacts
  <1>5. Head(contract.rows) = contract.rows[1] /\ Replay!Last(contract.rows) = contract.rows[n]
    BY <1>1, <1>2 DEF Replay!Last
  <1>6. i.first.at \in Int /\ i.last.at \in Int /\ i.digest \in Nat
    BY <1>1, <1>4, <1>5 DEF Replay!Inspection
  <1> HIDE DEF i, n
  <1>7. Replay!Span(i) \in Int /\ Replay!Span(i) >= 1
    BY <1>1, <1>6 DEF Replay!Span, i
  <1>8. Replay!OffsetSeconds(i) \in Int
    BY <1>6, <1>7 DEF Replay!OffsetSeconds
  <1>9. Replay!Target(i) \in Int
    BY <1>1, <1>6, <1>8 DEF Replay!Target
  <1> QED BY <1>9 DEF i

\* Files that were mixed stay mixed.
LEMMA WindowKept ==
    ASSUME NEW rows, NEW size, NEW c, NEW m, NEW n, m => n, Window(rows, size, m, c)
    PROVE  Window(rows, size, n, c)
  BY DEF Window

LEMMA ReplayStart ==
    ASSUME Replay!ReplayConstants, Replay!Init
    PROVE  ReplayInv
  <1>1. freezing = [step |-> "idle", force |-> FALSE, size |-> 0, inspected |-> <<>>, derived |-> <<>>, before |-> <<>>]
    BY DEF Replay!Init, Replay!Idle
  <1>2. ReplayTyped
    <2>1. contract \in RawTraces /\ Replay!Inspects(contract) /\ raw \in RawTraces /\ mixed \in BOOLEAN
      BY Zenon DEF Replay!Init
    <2>2. freezing \in [step : FreezeSteps, force : BOOLEAN, size : WindowSizes \cup {0},
                        inspected : {freezing.inspected}, derived : {freezing.derived}, before : {freezing.before}]
      BY <1>1 DEF FreezeSteps
    <2> QED BY <2>1, <2>2 DEF ReplayTyped
  <1>3. FreezeAhead /\ FilesKept /\ TraceTaken
    BY <1>1 DEF Replay!Init, FreezeAhead, FilesKept, TraceTaken
  <1> QED BY <1>2, <1>3 DEF ReplayInv

\* A selection is a window; it mixes files unless it reads what was inspected.
LEMMA SelectKeeps ==
    ASSUME Replay!ReplayConstants, ReplayInv, Replay!Select
    PROVE  ReplayInv'
  <1> DEFINE i == Replay!Inspection(contract)
             t == Replay!Target(i)
             size == freezing.size
             rows == Replay!SelectRows(raw.rows, t, size)
  <1>1. /\ freezing.step = "select" /\ freezing.size \in WindowSizes /\ freezing.inspected = <<i>>
        /\ Replay!Span(i) >= 1
        /\ contract \in RawTraces /\ Replay!Inspects(contract) /\ raw \in RawTraces /\ mixed \in BOOLEAN
        /\ ~freezing.force => freezing.before = <<trace, provenance>>
    BY DEF Replay!Select, ReplayInv, ReplayTyped, FreezeAhead, FilesKept
  <1>2. freezing.inspected[1] = i
    BY <1>1
  <1>3. UNCHANGED <<contract, raw, trace, provenance>>
    BY DEF Replay!Select
  <1>4. TraceTaken' /\ (mixed => mixed')
    <2>1. mixed => mixed'
      BY <1>1 DEF Replay!Select
    <2> QED BY <1>3, <2>1, WindowKept DEF ReplayInv, TraceTaken
  <1>5. CASE Replay!Cardinality(Replay!Hits(raw.rows, t)) < size
    <2>1. Replay!Raise /\ mixed' = mixed
      BY <1>2, <1>5 DEF Replay!Select
    <2>2. freezing' = [freezing EXCEPT !.step = "raised", !.inspected = <<>>, !.derived = <<>>]
      BY <2>1 DEF Replay!Raise
    <2> HIDE DEF i, t, size, rows
    <2>3. ReplayTyped'
      BY <1>1, <1>3, <2>1, <2>2 DEF ReplayInv, ReplayTyped, FreezeSteps, Replay!Inspects
    <2>4. FreezeAhead' /\ FilesKept'
      <3>1. freezing'.step = "raised" /\ freezing'.force = freezing.force /\ freezing'.before = freezing.before
        BY <2>2 DEF ReplayInv, ReplayTyped
      <3> QED BY <1>1, <1>3, <3>1 DEF FreezeAhead, FilesKept
    <2> QED BY <1>4, <2>3, <2>4 DEF ReplayInv
  <1>6. CASE ~(Replay!Cardinality(Replay!Hits(raw.rows, t)) < size)
    <2>1. /\ freezing' = [freezing EXCEPT !.step = "trace", !.derived = <<rows>>]
          /\ mixed' = (mixed \/ raw.digest # i.digest)
      BY <1>2, <1>6 DEF Replay!Select
    <2>2. /\ freezing'.step = "trace" /\ freezing'.size = size /\ freezing'.derived = <<rows>>
          /\ freezing'.inspected = freezing.inspected /\ freezing'.force = freezing.force
          /\ freezing'.before = freezing.before
      BY <2>1 DEF ReplayInv, ReplayTyped
    <2>3. t \in Int
      BY <1>1, TargetIsInt
    <2>4. Taken(rows, raw, t, size)
      <3> DEFINE H == Replay!Hits(raw.rows, t)
      <3>1. H \in Numbers(Len(raw.rows)) /\ Len(raw.rows) \in Nat
        BY <1>1, RawFacts
      <3>2. Cardinality(H) \in Nat
        <4> HIDE DEF H
        <4> QED BY <3>1, NumbersFinite
      <3>3. size \in Nat \ {0}
        BY <1>1 DEF Replay!ReplayConstants
      <3>4. size <= Cardinality(H)
        BY <1>6, <3>2, <3>3, SameCardinality
      <3> QED BY <3>3, <3>4 DEF Taken
    <2>5. mixed' \/ raw = contract
      <3>1. i.digest = contract.digest
        BY DEF Replay!Inspection
      <3> QED BY <1>1, <2>1, <3>1 DEF Replay!ReplayConstants
    <2>6. Window(rows, size, mixed', contract)
      BY <1>1, <2>3, <2>4, <2>5 DEF Window
    <2>7. ReplayTyped'
      <3> HIDE DEF i, t, size, rows
      <3> QED BY <1>1, <1>3, <2>1 DEF ReplayInv, ReplayTyped, FreezeSteps, Replay!Inspects
    <2>8. FreezeAhead' /\ FilesKept'
      <3> HIDE DEF t, rows
      <3>1. FilesKept'
        BY <1>1, <1>3, <2>2 DEF FilesKept
      <3>2. FreezeAhead'
        BY <1>1, <1>3, <2>2, <2>6 DEF FreezeAhead
      <3> QED BY <3>1, <3>2
    <2> QED BY <1>4, <2>7, <2>8 DEF ReplayInv
  <1> QED BY <1>5, <1>6

\* A freeze that nothing disturbed does not refuse its own files.
LEMMA VerifyKeeps ==
    ASSUME Replay!ReplayConstants, ReplayInv, Replay!VerifyFrozen
    PROVE  ReplayInv'
  <1>1. UNCHANGED <<contract, raw, trace, provenance, mixed>>
    BY DEF Replay!VerifyFrozen
  <1>2. freezing.step = "verify" /\ freezing.size \in WindowSizes
    BY DEF Replay!VerifyFrozen, ReplayInv, FreezeAhead
  <1>3. PICK rows : freezing.derived = <<rows>> /\ Window(rows, freezing.size, mixed, contract)
    BY <1>2 DEF ReplayInv, FreezeAhead
  <1>4. /\ trace = <<rows>>
        /\ provenance = <<Replay!ManifestPayload(Replay!Inspection(contract), rows)>>
    <2>1. freezing.derived[1] = rows
      BY <1>3
    <2> QED BY <1>2, <1>3, <2>1 DEF ReplayInv, FreezeAhead
  <1>5. ~mixed => Replay!Verifies(freezing.size)
    <2> SUFFICES ASSUME ~mixed PROVE Replay!Verifies(freezing.size)
      OBVIOUS
    <2>1. PICK t \in Int : Taken(rows, contract, t, freezing.size)
      BY <1>3 DEF Window
    <2>2. contract \in RawTraces /\ Replay!Inspects(contract)
      BY DEF ReplayInv, ReplayTyped
    <2> QED BY <1>4, <2>1, <2>2, UndisturbedVerifies
  <1>6. freezing' = [freezing EXCEPT !.step = IF Replay!Verifies(freezing.size) THEN "done" ELSE "rejected",
                                     !.inspected = <<>>, !.derived = <<>>]
    BY DEF Replay!VerifyFrozen
  <1>7. freezing'.step \in {"done", "rejected"} /\ (freezing'.step = "rejected" => mixed)
    BY <1>5, <1>6 DEF ReplayInv, ReplayTyped
  <1>8. ReplayTyped'
    BY <1>1, <1>6 DEF ReplayInv, ReplayTyped, FreezeSteps, Replay!Inspects
  <1>9. FreezeAhead' /\ FilesKept' /\ TraceTaken'
    BY <1>1, <1>7 DEF ReplayInv, FreezeAhead, FilesKept, TraceTaken
  <1> QED BY <1>8, <1>9 DEF ReplayInv

LEMMA ReplayStep ==
    ASSUME Replay!ReplayConstants, ReplayInv, [Replay!Next]_replayVars
    PROVE  ReplayInv'
  <1>1. /\ contract \in RawTraces /\ Replay!Inspects(contract) /\ raw \in RawTraces /\ mixed \in BOOLEAN
        /\ freezing \in [step : FreezeSteps, force : BOOLEAN, size : WindowSizes \cup {0},
                     inspected : {freezing.inspected}, derived : {freezing.derived}, before : {freezing.before}]
    BY DEF ReplayInv, ReplayTyped
  <1> DEFINE Raised == [freezing EXCEPT !.step = "raised", !.inspected = <<>>, !.derived = <<>>]
  <1>2. /\ Raised.step = "raised" /\ Raised.force = freezing.force /\ Raised.before = freezing.before
        /\ Raised \in [step : FreezeSteps, force : BOOLEAN, size : WindowSizes \cup {0},
                     inspected : {Raised.inspected}, derived : {Raised.derived}, before : {Raised.before}]
    BY <1>1 DEF FreezeSteps
  <1> HIDE DEF Raised
  <1>3. Replay!Raise => freezing' = Raised
    BY DEF Replay!Raise, Raised
  <1>4. ASSUME NEW force \in BOOLEAN, NEW size \in WindowSizes, Replay!Start(force, size)
        PROVE  ReplayInv'
    <2>1. /\ freezing' = [step |-> "inspect", force |-> force, size |-> size,
                          inspected |-> <<>>, derived |-> <<>>, before |-> <<trace, provenance>>]
          /\ UNCHANGED <<contract, raw, trace, provenance, mixed>>
      BY <1>4 DEF Replay!Start, Replay!Idle
    <2>2. ReplayTyped'
      BY <1>1, <2>1 DEF ReplayTyped, FreezeSteps, Replay!Inspects
    <2>3. FreezeAhead' /\ FilesKept' /\ TraceTaken'
      BY <2>1 DEF ReplayInv, FreezeAhead, FilesKept, TraceTaken
    <2> QED BY <2>2, <2>3 DEF ReplayInv
  <1>5. ASSUME Replay!InspectSource
        PROVE  ReplayInv'
    <2>1. freezing.step = "inspect" /\ UNCHANGED <<contract, raw, trace, provenance, mixed>>
      BY <1>5 DEF Replay!InspectSource
    <2>2. /\ freezing.size \in WindowSizes
          /\ ~freezing.force => freezing.before = <<trace, provenance>>
      BY <2>1 DEF ReplayInv, FreezeAhead, FilesKept
    <2>3. TraceTaken'
      BY <2>1 DEF ReplayInv, TraceTaken
    <2>4. CASE freezing' = Raised
      BY <1>1, <1>2, <2>1, <2>2, <2>3, <2>4 DEF ReplayInv, ReplayTyped, FreezeAhead, FilesKept, Replay!Inspects
    <2>5. CASE /\ freezing' = [freezing EXCEPT !.step = "select", !.inspected = <<Replay!Inspection(contract)>>]
               /\ Replay!Span(Replay!Inspection(contract)) >= 1
      <3>1. /\ freezing'.step = "select" /\ freezing'.force = freezing.force /\ freezing'.size = freezing.size
            /\ freezing'.inspected = <<Replay!Inspection(contract)>> /\ freezing'.before = freezing.before
        BY <1>1, <2>5
      <3>2. freezing' \in [step : FreezeSteps, force : BOOLEAN, size : WindowSizes \cup {0},
                     inspected : {freezing'.inspected}, derived : {freezing'.derived}, before : {freezing'.before}]
        BY <1>1, <2>5 DEF FreezeSteps
      <3>3. ReplayTyped'
        BY <1>1, <2>1, <3>2 DEF ReplayTyped, Replay!Inspects
      <3>4. FreezeAhead' /\ FilesKept'
        BY <2>1, <2>2, <2>5, <3>1 DEF FreezeAhead, FilesKept
      <3> QED BY <2>3, <3>3, <3>4 DEF ReplayInv
    <2> QED BY <1>3, <1>5, <2>4, <2>5 DEF Replay!InspectSource
  <1>6. ASSUME Replay!WriteTrace
        PROVE  ReplayInv'
    <2>1. /\ freezing.step = "trace" /\ UNCHANGED <<contract, raw, provenance, mixed>>
          /\ freezing.size \in WindowSizes /\ freezing.inspected = <<Replay!Inspection(contract)>>
          /\ Replay!Span(Replay!Inspection(contract)) >= 1
          /\ ~freezing.force => freezing.before = <<trace, provenance>>
      BY <1>6 DEF Replay!WriteTrace, ReplayInv, FreezeAhead, FilesKept
    <2>2. PICK rows : freezing.derived = <<rows>> /\ Window(rows, freezing.size, mixed, contract)
      BY <2>1 DEF ReplayInv, FreezeAhead
    <2>3. CASE Replay!Exists /\ ~freezing.force
      <3>1. freezing' = Raised /\ trace' = trace
        BY <1>3, <1>6, <2>3 DEF Replay!WriteTrace
      <3>2. TraceTaken'
        BY <2>1, <3>1 DEF ReplayInv, TraceTaken
      <3> QED BY <1>1, <1>2, <2>1, <3>1, <3>2 DEF ReplayInv, ReplayTyped, FreezeAhead, FilesKept, Replay!Inspects
    <2>4. CASE ~(Replay!Exists /\ ~freezing.force)
      <3>1. trace' = freezing.derived /\ freezing' = [freezing EXCEPT !.step = "manifest"]
        BY <1>6, <2>4 DEF Replay!WriteTrace
      <3>2. /\ freezing'.step = "manifest" /\ freezing'.force = freezing.force /\ freezing'.size = freezing.size
            /\ freezing'.inspected = freezing.inspected /\ freezing'.derived = freezing.derived
            /\ freezing'.before = freezing.before
        BY <1>1, <3>1
      <3>3. freezing' \in [step : FreezeSteps, force : BOOLEAN, size : WindowSizes \cup {0},
                     inspected : {freezing'.inspected}, derived : {freezing'.derived}, before : {freezing'.before}]
        BY <1>1, <3>1 DEF FreezeSteps
      <3>4. ReplayTyped'
        BY <1>1, <2>1, <3>3 DEF ReplayTyped, Replay!Inspects
      <3>5. FilesKept'
        BY <2>1, <2>4, <3>2 DEF FilesKept, Replay!Exists
      <3>6. FreezeAhead'
        BY <2>1, <2>2, <3>1, <3>2 DEF FreezeAhead
      <3>7. TraceTaken'
        BY <2>1, <2>2, <3>1 DEF TraceTaken
      <3> QED BY <3>4, <3>5, <3>6, <3>7 DEF ReplayInv
    <2> QED BY <2>3, <2>4
  <1>7. ASSUME Replay!WriteManifest
        PROVE  ReplayInv'
    <2>1. /\ freezing.step = "manifest" /\ UNCHANGED <<contract, raw, trace, mixed>>
          /\ freezing.size \in WindowSizes /\ freezing.inspected = <<Replay!Inspection(contract)>>
          /\ Replay!Span(Replay!Inspection(contract)) >= 1 /\ trace = freezing.derived
          /\ provenance' = <<Replay!ManifestPayload(freezing.inspected[1], freezing.derived[1])>>
          /\ freezing' = [freezing EXCEPT !.step = "verify"]
      BY <1>7 DEF Replay!WriteManifest, ReplayInv, FreezeAhead
    <2>2. PICK rows : freezing.derived = <<rows>> /\ Window(rows, freezing.size, mixed, contract)
      BY <2>1 DEF ReplayInv, FreezeAhead
    <2>3. /\ freezing'.step = "verify" /\ freezing'.force = freezing.force /\ freezing'.size = freezing.size
          /\ freezing'.inspected = freezing.inspected /\ freezing'.derived = freezing.derived
          /\ freezing'.before = freezing.before
      BY <1>1, <2>1
    <2>4. freezing' \in [step : FreezeSteps, force : BOOLEAN, size : WindowSizes \cup {0},
                   inspected : {freezing'.inspected}, derived : {freezing'.derived}, before : {freezing'.before}]
      BY <1>1, <2>1 DEF FreezeSteps
    <2>5. ReplayTyped'
      BY <1>1, <2>1, <2>4 DEF ReplayTyped, Replay!Inspects
    <2>6. freezing.inspected[1] = Replay!Inspection(contract)
      BY <2>1
    <2>7. FreezeAhead' /\ FilesKept' /\ TraceTaken'
      BY <2>1, <2>2, <2>3, <2>6 DEF ReplayInv, FreezeAhead, FilesKept, TraceTaken
    <2> QED BY <2>5, <2>7 DEF ReplayInv
  <1>8. ASSUME Replay!WriteFails
        PROVE  ReplayInv'
    <2>1. /\ freezing.step \in {"trace", "manifest"} /\ freezing' = Raised
          /\ trace' = IF freezing.step = "manifest" /\ ~freezing.force THEN <<>> ELSE trace
          /\ UNCHANGED <<contract, raw, provenance, mixed>>
      BY <1>3, <1>8 DEF Replay!WriteFails
    <2>2. TraceTaken'
      BY <2>1 DEF ReplayInv, TraceTaken
    <2>3. FilesKept'
      BY <1>2, <2>1 DEF ReplayInv, FilesKept
    <2> QED BY <1>1, <1>2, <2>1, <2>2, <2>3 DEF ReplayInv, ReplayTyped, FreezeAhead, Replay!Inspects
  <1>9. ASSUME Replay!Kill
        PROVE  ReplayInv'
    <2>1. /\ freezing' = [step |-> "idle", force |-> FALSE, size |-> 0,
                          inspected |-> <<>>, derived |-> <<>>, before |-> <<>>]
          /\ UNCHANGED <<contract, raw, trace, provenance, mixed>>
      BY <1>9 DEF Replay!Kill, Replay!Idle
    <2>2. ReplayTyped'
      BY <1>1, <2>1 DEF ReplayTyped, FreezeSteps, Replay!Inspects
    <2>3. FreezeAhead' /\ FilesKept' /\ TraceTaken'
      BY <2>1 DEF ReplayInv, FreezeAhead, FilesKept, TraceTaken
    <2> QED BY <2>2, <2>3 DEF ReplayInv
  <1>10. ASSUME NEW r \in RawTraces, Replay!ReplaceRaw(r)
         PROVE  ReplayInv'
    <2>1. raw' = r /\ UNCHANGED <<contract, trace, provenance, mixed, freezing>>
      BY <1>10 DEF Replay!ReplaceRaw
    <2>2. ReplayTyped'
      BY <1>1, <2>1 DEF ReplayTyped, Replay!Inspects
    <2>3. FreezeAhead' /\ FilesKept' /\ TraceTaken'
      BY <2>1 DEF ReplayInv, FreezeAhead, FilesKept, TraceTaken
    <2> QED BY <2>2, <2>3 DEF ReplayInv
  <1>11. CASE UNCHANGED replayVars
    <2>1. UNCHANGED <<contract, raw, trace, provenance, mixed, freezing>>
      BY <1>11 DEF replayVars
    <2>2. ReplayTyped'
      BY <1>1, <2>1 DEF ReplayTyped, Replay!Inspects
    <2>3. FreezeAhead' /\ FilesKept' /\ TraceTaken'
      BY <2>1 DEF ReplayInv, FreezeAhead, FilesKept, TraceTaken
    <2> QED BY <2>2, <2>3 DEF ReplayInv
  <1> QED BY <1>4, <1>5, <1>6, <1>7, <1>8, <1>9, <1>10, <1>11, SelectKeeps, VerifyKeeps DEF Replay!Next

\* The invariant gives what the replay promises.
LEMMA ReplayFacts ==
    ASSUME Replay!ReplayConstants, ReplayInv
    PROVE  Replay!ReplayRegistered /\ Replay!FailureLeavesNothing
  <1>1. Replay!FailureLeavesNothing
    BY DEF ReplayInv, FreezeAhead, FilesKept, Replay!FailureLeavesNothing
  <1>2. ASSUME NEW size \in WindowSizes, Replay!Verifies(size)
        PROVE  \E r \in IF mixed THEN RawTraces ELSE {contract} :
                  \E i \in 1..(Len(r.rows) - size + 1) :
                      /\ trace[1] = Replay!Excerpt(r.rows, i, size)
                      /\ mixed \/ Replay!StartsAt(r.rows, i, Replay!Target(Replay!Inspection(contract)))
    <2>1. trace # <<>>
      BY <1>2 DEF Replay!Verifies
    <2>2. PICK rows : \E n : trace = <<rows>> /\ Window(rows, n, mixed, contract)
      BY <2>1 DEF ReplayInv, TraceTaken
    <2>3. PICK n : trace = <<rows>> /\ Window(rows, n, mixed, contract)
      BY <2>2
    <2>4. PICK r \in RawTraces : \E t \in Int :
             /\ Taken(rows, r, t, n)
             /\ mixed \/ (r = contract /\ t = Replay!Target(Replay!Inspection(contract)))
      BY <2>3 DEF Window
    <2>5. PICK t \in Int :
             /\ Taken(rows, r, t, n)
             /\ mixed \/ (r = contract /\ t = Replay!Target(Replay!Inspection(contract)))
      BY <2>4
    <2>6. PICK i \in 1..(Len(r.rows) - size + 1) :
             trace[1] = Replay!Excerpt(r.rows, i, size) /\ Replay!StartsAt(r.rows, i, t)
      BY <1>2, <2>3, <2>5, VerifiedIsExcerpt
    <2>7. r \in IF mixed THEN RawTraces ELSE {contract}
      BY <2>5
    <2> QED BY <2>5, <2>6, <2>7
  <1>3. Replay!ReplayRegistered
    BY <1>2 DEF Replay!ReplayRegistered
  <1> QED BY <1>1, <1>3

----------------------------------------------------------------------------
(* The handoff.  The freeze is one script of 55 steps; its last 26 are the *)
(* verification, so that one position says where either of them is.  While *)
(* nothing changes behind its back, each position adds to what the task    *)
(* knows: inputs and documents that are as it read them, documents that    *)
(* are what the inputs give, inputs that are the commit's.  At the last    *)
(* one that is the whole bundle of the commit.                             *)

\* Step p of script s is operation op on the file on.
Goes(s, p, op, on) == s[p].op = op /\ s[p].on = on

Operations == {"clean", "committed", "closed", "read", "match", "stage", "rename", "inventory", "load", "derive"}

Files == {"tree", "folder", "protocol", "generators", "trace", "manifest", "evidence",
          "v1", "v2", "v3", "index", "plan", "ledger", "bundle"}

Commands == [op : Operations, on : Files]

LEMMA NamesKnown ==
    /\ "clean" \in Operations /\ "committed" \in Operations /\ "closed" \in Operations
    /\ "read" \in Operations /\ "match" \in Operations /\ "inventory" \in Operations
    /\ "load" \in Operations /\ "derive" \in Operations
    /\ "tree" \in Files /\ "folder" \in Files /\ "protocol" \in Files /\ "generators" \in Files
    /\ "trace" \in Files /\ "manifest" \in Files /\ "evidence" \in Files
    /\ "v1" \in Files /\ "v2" \in Files /\ "v3" \in Files
    /\ "index" \in Files /\ "plan" \in Files /\ "ledger" \in Files /\ "bundle" \in Files
  BY DEF Operations, Files

\* Sequence w is s, of length m, followed by u, of length n.
Joins(T, w, s, u, m, n) ==
    /\ w \in Seq(T) /\ Len(w) = m + n
    /\ \A i \in 1..m : w[i] = s[i]
    /\ \A i \in (m + 1)..(m + n) : w[i] = u[i - m]

LEMMA Joined ==
    ASSUME NEW T, NEW s \in Seq(T), NEW u \in Seq(T)
    PROVE  Joins(T, s \o u, s, u, Len(s), Len(u))
  BY DEF Joins

LEMMA DoIs ==
    ASSUME NEW op \in Operations, NEW names \in Seq(Files)
    PROVE  /\ Handoff!Do(op, names) \in Seq(Commands)
           /\ Len(Handoff!Do(op, names)) = Len(names)
           /\ \A i \in 1..Len(names) : Goes(Handoff!Do(op, names), i, op, names[i])
  <1> DEFINE N == Len(names)
             G == [i \in 1..N |-> [op |-> op, on |-> names[i]]]
  <1>1. N \in Nat /\ DOMAIN names = 1..N
    OBVIOUS
  <1>2. \A i \in 1..N : names[i] \in Files
    OBVIOUS
  <1>3. \A i \in 1..N : Goes(G, i, op, names[i]) /\ G[i] \in Commands
    BY <1>2 DEF Commands, Goes
  <1>4. DOMAIN G = 1..N /\ G = [i \in 1..N |-> G[i]]
    OBVIOUS
  <1>5. Handoff!Do(op, names) = G
    BY <1>1 DEF Handoff!Do
  <1> HIDE DEF G, N
  <1>6. G \in [1..N -> Commands]
    BY <1>3, <1>4
  <1>7. G \in Seq(Commands) /\ Len(G) = N
    BY <1>1, <1>6
  <1> QED BY <1>3, <1>5, <1>7 DEF N

\* The names of one, three or five files.
LEMMA NamesAre ==
    ASSUME NEW S, NEW a \in S, NEW b \in S, NEW c \in S, NEW d \in S, NEW e \in S
    PROVE  /\ <<a>> \in Seq(S) /\ Len(<<a>>) = 1 /\ <<a>>[1] = a
           /\ <<a, b, c>> \in Seq(S) /\ Len(<<a, b, c>>) = 3
           /\ <<a, b, c>>[1] = a /\ <<a, b, c>>[2] = b /\ <<a, b, c>>[3] = c
           /\ <<a, b, c, d, e>> \in Seq(S) /\ Len(<<a, b, c, d, e>>) = 5
           /\ <<a, b, c, d, e>>[1] = a /\ <<a, b, c, d, e>>[2] = b /\ <<a, b, c, d, e>>[3] = c
           /\ <<a, b, c, d, e>>[4] = d /\ <<a, b, c, d, e>>[5] = e
  <1>1. <<a>> \in Seq(S) /\ Len(<<a>>) = 1 /\ <<a>>[1] = a
    OBVIOUS
  <1>2. /\ <<a, b, c>> \in Seq(S) /\ Len(<<a, b, c>>) = 3
        /\ <<a, b, c>>[1] = a /\ <<a, b, c>>[2] = b /\ <<a, b, c>>[3] = c
    OBVIOUS
  <1>3. /\ Len(<<a, b, c, d, e>>) = 5
        /\ <<a, b, c, d, e>>[1] = a /\ <<a, b, c, d, e>>[2] = b /\ <<a, b, c, d, e>>[3] = c
        /\ <<a, b, c, d, e>>[4] = d /\ <<a, b, c, d, e>>[5] = e
    OBVIOUS
  <1>4. <<a, b, c, d, e>> \in Seq(S)
    OBVIOUS
  <1> QED BY <1>1, <1>2, <1>3, <1>4

\* A command on one, three or five files.
LEMMA DoOne ==
    ASSUME NEW op \in Operations, NEW a \in Files
    PROVE  /\ Handoff!Do(op, <<a>>) \in Seq(Commands) /\ Len(Handoff!Do(op, <<a>>)) = 1
           /\ Goes(Handoff!Do(op, <<a>>), 1, op, a)
  <1> DEFINE names == <<a>>
  <1>1. names \in Seq(Files) /\ Len(names) = 1 /\ names[1] = a
    BY NamesAre
  <1> HIDE DEF names
  <1>2. /\ Handoff!Do(op, names) \in Seq(Commands) /\ Len(Handoff!Do(op, names)) = 1
        /\ Goes(Handoff!Do(op, names), 1, op, a)
    <2>1. 1 \in 1..Len(names)
      BY <1>1
    <2> QED BY <1>1, <2>1, DoIs
  <1> QED BY <1>2 DEF names

LEMMA DoThree ==
    ASSUME NEW op \in Operations, NEW a \in Files, NEW b \in Files, NEW c \in Files
    PROVE  /\ Handoff!Do(op, <<a, b, c>>) \in Seq(Commands) /\ Len(Handoff!Do(op, <<a, b, c>>)) = 3
           /\ Goes(Handoff!Do(op, <<a, b, c>>), 1, op, a)
           /\ Goes(Handoff!Do(op, <<a, b, c>>), 2, op, b)
           /\ Goes(Handoff!Do(op, <<a, b, c>>), 3, op, c)
  <1> DEFINE names == <<a, b, c>>
  <1>1. names \in Seq(Files) /\ Len(names) = 3 /\ names[1] = a /\ names[2] = b /\ names[3] = c
    BY NamesAre
  <1> HIDE DEF names
  <1>2. /\ Handoff!Do(op, names) \in Seq(Commands) /\ Len(Handoff!Do(op, names)) = 3
        /\ Goes(Handoff!Do(op, names), 1, op, a)
        /\ Goes(Handoff!Do(op, names), 2, op, b)
        /\ Goes(Handoff!Do(op, names), 3, op, c)
    <2>1. 1 \in 1..Len(names) /\ 2 \in 1..Len(names) /\ 3 \in 1..Len(names)
      BY <1>1
    <2> QED BY <1>1, <2>1, DoIs
  <1> QED BY <1>2 DEF names

LEMMA ReplaceIs ==
    ASSUME NEW names \in Seq(Files)
    PROVE  /\ Handoff!Replace(names) \in Seq(Commands)
           /\ Len(Handoff!Replace(names)) = 2 * Len(names)
           /\ \A i \in 1..Len(names) :
                 /\ Goes(Handoff!Replace(names), 2 * i - 1, "stage", names[i])
                 /\ Goes(Handoff!Replace(names), 2 * i, "rename", names[i])
  <1> DEFINE N == 2 * Len(names)
             G == [i \in 1..N |-> [op |-> IF i % 2 = 1 THEN "stage" ELSE "rename", on |-> names[(i + 1) \div 2]]]
  <1>1. N \in Nat
    OBVIOUS
  <1>2. \A i \in 1..N : (i + 1) \div 2 \in 1..Len(names)
    OBVIOUS
  <1> HIDE DEF N
  <1>3. ASSUME NEW i \in 1..N
        PROVE  G[i] \in Commands
    <2>1. names[(i + 1) \div 2] \in Files
      BY <1>2
    <2> DEFINE op == IF i % 2 = 1 THEN "stage" ELSE "rename"
    <2>2. op \in Operations /\ G[i] = [op |-> op, on |-> names[(i + 1) \div 2]]
      BY DEF Operations
    <2> HIDE DEF op, G
    <2> QED BY <2>1, <2>2 DEF Commands
  <1> USE DEF N
  <1>4. G \in Seq(Commands) /\ Len(G) = N
    <2> HIDE DEF N
    <2>1. DOMAIN G = 1..N /\ G = [i \in 1..N |-> G[i]]
      OBVIOUS
    <2> HIDE DEF G
    <2>2. G \in [1..N -> Commands]
      BY <1>3, <2>1
    <2> QED BY <1>1, <2>2
  <1>5. ASSUME NEW i \in 1..Len(names)
        PROVE  Goes(G, 2 * i - 1, "stage", names[i]) /\ Goes(G, 2 * i, "rename", names[i])
    <2>1. 2 * i - 1 \in 1..N /\ 2 * i \in 1..N
      OBVIOUS
    <2>2. (2 * i - 1) % 2 = 1 /\ (2 * i) % 2 = 0 /\ (2 * i - 1 + 1) \div 2 = i /\ (2 * i + 1) \div 2 = i
      OBVIOUS
    <2> QED BY <2>1, <2>2 DEF Goes
  <1>6. Handoff!Replace(names) = G
    BY DEF Handoff!Replace
  <1> HIDE DEF G
  <1> QED BY <1>4, <1>5, <1>6

\* A document is staged and renamed before the next one is.
LEMMA ReplaceOne ==
    ASSUME NEW a \in Files
    PROVE  LET s == Handoff!Replace(<<a>>)
           IN  s \in Seq(Commands) /\ Len(s) = 2 /\ Goes(s, 1, "stage", a) /\ Goes(s, 2, "rename", a)
  <1> DEFINE names == <<a>>
  <1>1. names \in Seq(Files) /\ Len(names) = 1 /\ names[1] = a
    BY NamesAre
  <1> HIDE DEF names
  <1>2. 1 \in 1..Len(names) /\ 2 * 1 - 1 = 1 /\ 2 * 1 = 2
    BY <1>1
  <1>3. /\ Handoff!Replace(names) \in Seq(Commands) /\ Len(Handoff!Replace(names)) = 2
        /\ Goes(Handoff!Replace(names), 1, "stage", a)
        /\ Goes(Handoff!Replace(names), 2, "rename", a)
    BY <1>1, <1>2, ReplaceIs
  <1> QED BY <1>3 DEF names

LEMMA ReplaceThree ==
    ASSUME NEW a \in Files, NEW b \in Files, NEW c \in Files
    PROVE  LET s == Handoff!Replace(<<a, b, c>>)
           IN  /\ s \in Seq(Commands) /\ Len(s) = 6
               /\ Goes(s, 1, "stage", a) /\ Goes(s, 2, "rename", a)
               /\ Goes(s, 3, "stage", b) /\ Goes(s, 4, "rename", b)
               /\ Goes(s, 5, "stage", c) /\ Goes(s, 6, "rename", c)
  <1> DEFINE names == <<a, b, c>>
  <1>1. names \in Seq(Files) /\ Len(names) = 3 /\ names[1] = a /\ names[2] = b /\ names[3] = c
    BY NamesAre
  <1> HIDE DEF names
  <1>2. 1 \in 1..Len(names) /\ 2 \in 1..Len(names) /\ 3 \in 1..Len(names)
        /\ 2 * 1 - 1 = 1 /\ 2 * 1 = 2 /\ 2 * 2 - 1 = 3 /\ 2 * 2 = 4 /\ 2 * 3 - 1 = 5 /\ 2 * 3 = 6
    BY <1>1
  <1>3. Handoff!Replace(names) \in Seq(Commands) /\ Len(Handoff!Replace(names)) = 6
    BY <1>1, <1>2, ReplaceIs
  <1>4. Goes(Handoff!Replace(names), 1, "stage", a) /\ Goes(Handoff!Replace(names), 2, "rename", a)
    BY <1>1, <1>2, ReplaceIs
  <1>5. Goes(Handoff!Replace(names), 3, "stage", b) /\ Goes(Handoff!Replace(names), 4, "rename", b)
    BY <1>1, <1>2, ReplaceIs
  <1>6. Goes(Handoff!Replace(names), 5, "stage", c) /\ Goes(Handoff!Replace(names), 6, "rename", c)
    BY <1>1, <1>2, ReplaceIs
  <1> QED BY <1>3, <1>4, <1>5, <1>6 DEF names

LEMMA ReadsAre ==
    /\ Handoff!AnchorReads \in Seq(Commands) /\ Len(Handoff!AnchorReads) = 4
    /\ Goes(Handoff!AnchorReads, 1, "read", "generators")
    /\ Goes(Handoff!AnchorReads, 2, "read", "trace")
    /\ Goes(Handoff!AnchorReads, 3, "read", "manifest")
    /\ Goes(Handoff!AnchorReads, 4, "match", "trace")
    /\ Handoff!IndexReads \in Seq(Commands) /\ Len(Handoff!IndexReads) = 3
    /\ Goes(Handoff!IndexReads, 1, "read", "protocol")
    /\ Goes(Handoff!IndexReads, 2, "read", "manifest")
    /\ Goes(Handoff!IndexReads, 3, "read", "evidence")
    /\ Handoff!PlanReads \in Seq(Commands) /\ Len(Handoff!PlanReads) = 1
    /\ Goes(Handoff!PlanReads, 1, "read", "protocol")
  <1> DEFINE R == Handoff!Do("read", <<"generators", "trace", "manifest">>)
             M == Handoff!Do("match", <<"trace">>)
  <1>1. R \in Seq(Commands) /\ Len(R) = 3 /\ Goes(R, 1, "read", "generators")
        /\ Goes(R, 2, "read", "trace") /\ Goes(R, 3, "read", "manifest")
    BY DoThree, NamesKnown
  <1>2. M \in Seq(Commands) /\ Len(M) = 1 /\ Goes(M, 1, "match", "trace")
    BY DoOne, NamesKnown
  <1>3. Handoff!AnchorReads = R \o M
    BY DEF Handoff!AnchorReads
  <1> HIDE DEF R, M
  <1>4. Len(R \o M) = 4 /\ R \o M \in Seq(Commands) /\ (R \o M)[1] = R[1] /\ (R \o M)[2] = R[2]
        /\ (R \o M)[3] = R[3] /\ (R \o M)[4] = M[1]
    <2>1. Joins(Commands, R \o M, R, M, 3, 1)
      BY <1>1, <1>2, Joined
    <2> QED BY <2>1 DEF Joins
  <1>5. /\ Handoff!IndexReads \in Seq(Commands) /\ Len(Handoff!IndexReads) = 3
        /\ Goes(Handoff!IndexReads, 1, "read", "protocol")
        /\ Goes(Handoff!IndexReads, 2, "read", "manifest")
        /\ Goes(Handoff!IndexReads, 3, "read", "evidence")
    BY DoThree, NamesKnown DEF Handoff!IndexReads
  <1>6. /\ Handoff!PlanReads \in Seq(Commands) /\ Len(Handoff!PlanReads) = 1
        /\ Goes(Handoff!PlanReads, 1, "read", "protocol")
    BY DoOne, NamesKnown DEF Handoff!PlanReads
  <1> QED BY <1>1, <1>2, <1>3, <1>4, <1>5, <1>6 DEF Goes

LEMMA CommitStepsAre ==
    LET C == Handoff!ValidateCommit
    IN  /\ C \in Seq(Commands) /\ Len(C) = 5
        /\ Goes(C, 1, "committed", "protocol") /\ Goes(C, 2, "committed", "generators")
        /\ Goes(C, 3, "committed", "trace") /\ Goes(C, 4, "committed", "manifest")
        /\ Goes(C, 5, "committed", "evidence")
  <1> DEFINE names == Handoff!Inputs
  <1>1. names \in Seq(Files) /\ Len(names) = 5 /\ names[1] = "protocol" /\ names[2] = "generators"
        /\ names[3] = "trace" /\ names[4] = "manifest" /\ names[5] = "evidence"
    BY NamesAre, NamesKnown DEF Handoff!Inputs
  <1> HIDE DEF names
  <1>2. 1 \in 1..Len(names) /\ 2 \in 1..Len(names) /\ 3 \in 1..Len(names) /\ 4 \in 1..Len(names)
        /\ 5 \in 1..Len(names) /\ "committed" \in Operations
    BY <1>1, NamesKnown
  <1>3. Handoff!ValidateCommit = Handoff!Do("committed", names)
    BY DEF Handoff!ValidateCommit, names
  <1> QED BY <1>1, <1>2, <1>3, DoIs

\* The verification: the inventory, then every document derived again.
LEMMA VerifyScriptIs ==
    LET V == Handoff!VerifyScript
    IN  /\ V \in Seq(Commands) /\ Len(V) = 26
        /\ Goes(V, 1, "inventory", "bundle")
        /\ Goes(V, 2, "load", "v1") /\ Goes(V, 3, "load", "v2") /\ Goes(V, 4, "load", "v3")
        /\ Goes(V, 5, "read", "generators") /\ Goes(V, 6, "read", "trace") /\ Goes(V, 7, "read", "manifest")
        /\ Goes(V, 8, "match", "trace")
        /\ Goes(V, 9, "derive", "v1") /\ Goes(V, 10, "derive", "v2") /\ Goes(V, 11, "derive", "v3")
        /\ Goes(V, 12, "load", "index")
        /\ Goes(V, 13, "read", "protocol") /\ Goes(V, 14, "read", "manifest") /\ Goes(V, 15, "read", "evidence")
        /\ Goes(V, 16, "derive", "index")
        /\ Goes(V, 17, "load", "plan") /\ Goes(V, 18, "read", "protocol") /\ Goes(V, 19, "derive", "plan")
        /\ Goes(V, 20, "load", "ledger") /\ Goes(V, 21, "derive", "ledger")
        /\ Goes(V, 22, "committed", "protocol") /\ Goes(V, 23, "committed", "generators")
        /\ Goes(V, 24, "committed", "trace") /\ Goes(V, 25, "committed", "manifest")
        /\ Goes(V, 26, "committed", "evidence")
  <1> DEFINE I == Handoff!Do("inventory", <<"bundle">>)
             A == Handoff!Rederive(Handoff!Anchors, Handoff!AnchorReads)
             X == Handoff!Rederive(<<"index">>, Handoff!IndexReads)
             P == Handoff!Rederive(<<"plan">>, Handoff!PlanReads)
             L == Handoff!Rederive(<<"ledger">>, <<>>)
             C == Handoff!ValidateCommit
  <1>1. I \in Seq(Commands) /\ Len(I) = 1 /\ Goes(I, 1, "inventory", "bundle")
    BY DoOne, NamesKnown
  <1>2. A \in Seq(Commands) /\ Len(A) = 10 /\ Goes(A, 1, "load", "v1") /\ Goes(A, 2, "load", "v2")
        /\ Goes(A, 3, "load", "v3") /\ Goes(A, 4, "read", "generators") /\ Goes(A, 5, "read", "trace")
        /\ Goes(A, 6, "read", "manifest") /\ Goes(A, 7, "match", "trace") /\ Goes(A, 8, "derive", "v1")
        /\ Goes(A, 9, "derive", "v2") /\ Goes(A, 10, "derive", "v3")
    <2> DEFINE D == Handoff!Do("load", <<"v1", "v2", "v3">>)
               R == Handoff!AnchorReads
               E == Handoff!Do("derive", <<"v1", "v2", "v3">>)
    <2>1. D \in Seq(Commands) /\ Len(D) = 3 /\ Goes(D, 1, "load", "v1") /\ Goes(D, 2, "load", "v2")
          /\ Goes(D, 3, "load", "v3")
      BY DoThree, NamesKnown
    <2>2. E \in Seq(Commands) /\ Len(E) = 3 /\ Goes(E, 1, "derive", "v1") /\ Goes(E, 2, "derive", "v2")
          /\ Goes(E, 3, "derive", "v3")
      BY DoThree, NamesKnown
    <2>3. R \in Seq(Commands) /\ Len(R) = 4 /\ Goes(R, 1, "read", "generators") /\ Goes(R, 2, "read", "trace")
          /\ Goes(R, 3, "read", "manifest") /\ Goes(R, 4, "match", "trace")
      BY ReadsAre
    <2>4. A = (D \o R) \o E
      BY DEF Handoff!Rederive, Handoff!Anchors
    <2> HIDE DEF D, R, E
    <2>5. Joins(Commands, D \o R, D, R, 3, 4)
      BY <2>1, <2>3, Joined
    <2> DEFINE F == D \o R
    <2>7. F \in Seq(Commands) /\ Len(F) = 7
      BY <2>5 DEF Joins
    <2> HIDE DEF F
    <2>6. Joins(Commands, F \o E, F, E, 7, 3)
      BY <2>2, <2>7, Joined
    <2> HIDE DEF A
    <2> QED BY <2>1, <2>2, <2>3, <2>4, <2>5, <2>6 DEF F, Goes, Joins
  <1>3. X \in Seq(Commands) /\ Len(X) = 5 /\ Goes(X, 1, "load", "index") /\ Goes(X, 2, "read", "protocol")
        /\ Goes(X, 3, "read", "manifest") /\ Goes(X, 4, "read", "evidence") /\ Goes(X, 5, "derive", "index")
    <2> DEFINE D == Handoff!Do("load", <<"index">>)
               R == Handoff!IndexReads
               E == Handoff!Do("derive", <<"index">>)
    <2>1. D \in Seq(Commands) /\ Len(D) = 1 /\ Goes(D, 1, "load", "index")
      BY DoOne, NamesKnown
    <2>2. E \in Seq(Commands) /\ Len(E) = 1 /\ Goes(E, 1, "derive", "index")
      BY DoOne, NamesKnown
    <2>3. R \in Seq(Commands) /\ Len(R) = 3 /\ Goes(R, 1, "read", "protocol") /\ Goes(R, 2, "read", "manifest")
          /\ Goes(R, 3, "read", "evidence")
      BY ReadsAre
    <2>4. X = (D \o R) \o E
      BY DEF Handoff!Rederive
    <2> HIDE DEF D, R, E
    <2>5. Joins(Commands, D \o R, D, R, 1, 3)
      BY <2>1, <2>3, Joined
    <2> DEFINE F == D \o R
    <2>7. F \in Seq(Commands) /\ Len(F) = 4
      BY <2>5 DEF Joins
    <2> HIDE DEF F
    <2>6. Joins(Commands, F \o E, F, E, 4, 1)
      BY <2>2, <2>7, Joined
    <2> HIDE DEF X
    <2> QED BY <2>1, <2>2, <2>3, <2>4, <2>5, <2>6 DEF F, Goes, Joins
  <1>4. P \in Seq(Commands) /\ Len(P) = 3 /\ Goes(P, 1, "load", "plan") /\ Goes(P, 2, "read", "protocol")
        /\ Goes(P, 3, "derive", "plan")
    <2> DEFINE D == Handoff!Do("load", <<"plan">>)
               R == Handoff!PlanReads
               E == Handoff!Do("derive", <<"plan">>)
    <2>1. D \in Seq(Commands) /\ Len(D) = 1 /\ Goes(D, 1, "load", "plan")
      BY DoOne, NamesKnown
    <2>2. E \in Seq(Commands) /\ Len(E) = 1 /\ Goes(E, 1, "derive", "plan")
      BY DoOne, NamesKnown
    <2>3. R \in Seq(Commands) /\ Len(R) = 1 /\ Goes(R, 1, "read", "protocol")
      BY ReadsAre
    <2>4. P = (D \o R) \o E
      BY DEF Handoff!Rederive
    <2> HIDE DEF D, R, E
    <2>5. Joins(Commands, D \o R, D, R, 1, 1)
      BY <2>1, <2>3, Joined
    <2> DEFINE F == D \o R
    <2>7. F \in Seq(Commands) /\ Len(F) = 2
      BY <2>5 DEF Joins
    <2> HIDE DEF F
    <2>6. Joins(Commands, F \o E, F, E, 2, 1)
      BY <2>2, <2>7, Joined
    <2> HIDE DEF P
    <2> QED BY <2>1, <2>2, <2>3, <2>4, <2>5, <2>6 DEF F, Goes, Joins
  <1>5. L \in Seq(Commands) /\ Len(L) = 2 /\ Goes(L, 1, "load", "ledger") /\ Goes(L, 2, "derive", "ledger")
    <2> DEFINE D == Handoff!Do("load", <<"ledger">>)
               E == Handoff!Do("derive", <<"ledger">>)
    <2>1. D \in Seq(Commands) /\ Len(D) = 1 /\ Goes(D, 1, "load", "ledger")
      BY DoOne, NamesKnown
    <2>2. E \in Seq(Commands) /\ Len(E) = 1 /\ Goes(E, 1, "derive", "ledger")
      BY DoOne, NamesKnown
    <2>3. L = (D \o <<>>) \o E
      BY DEF Handoff!Rederive
    <2> HIDE DEF D, E
    <2>4. D \o <<>> = D
      BY <2>1
    <2>5. Joins(Commands, D \o E, D, E, 1, 1)
      BY <2>1, <2>2, Joined
    <2> HIDE DEF L
    <2> QED BY <2>1, <2>2, <2>3, <2>4, <2>5 DEF Goes, Joins
  <1>6. C \in Seq(Commands) /\ Len(C) = 5 /\ Goes(C, 1, "committed", "protocol")
        /\ Goes(C, 2, "committed", "generators") /\ Goes(C, 3, "committed", "trace")
        /\ Goes(C, 4, "committed", "manifest") /\ Goes(C, 5, "committed", "evidence")
    BY CommitStepsAre
  <1>7. Handoff!VerifyScript = ((((I \o A) \o X) \o P) \o L) \o C
    BY DEF Handoff!VerifyScript
  <1> HIDE DEF I, A, X, P, L, C
  <1> DEFINE W1 == I \o A
             W2 == W1 \o X
             W3 == W2 \o P
             W4 == W3 \o L
             W5 == W4 \o C
  <1>8. Handoff!VerifyScript = W5
    BY <1>7
  <1> HIDE DEF W5, W4, W3, W2
  <1>9. Joins(Commands, W1, I, A, 1, 10)
    BY <1>1, <1>2, Joined
  <1> HIDE DEF W1
  <1>10. W1 \in Seq(Commands) /\ Len(W1) = 11
    BY <1>9 DEF Joins
  <1>11. Joins(Commands, W2, W1, X, 11, 5)
    BY <1>10, <1>3, Joined DEF W2
  <1>12. W2 \in Seq(Commands) /\ Len(W2) = 16
    BY <1>11 DEF Joins
  <1>13. Joins(Commands, W3, W2, P, 16, 3)
    BY <1>12, <1>4, Joined DEF W3
  <1>14. W3 \in Seq(Commands) /\ Len(W3) = 19
    BY <1>13 DEF Joins
  <1>15. Joins(Commands, W4, W3, L, 19, 2)
    BY <1>14, <1>5, Joined DEF W4
  <1>16. W4 \in Seq(Commands) /\ Len(W4) = 21
    BY <1>15 DEF Joins
  <1>17. Joins(Commands, W5, W4, C, 21, 5)
    BY <1>16, <1>6, Joined DEF W5
  <1>18. W5 \in Seq(Commands) /\ Len(W5) = 26 /\ (\A i \in 1..21 : W5[i] = W4[i])
         /\ W5[22] = C[1] /\ W5[23] = C[2] /\ W5[24] = C[3] /\ W5[25] = C[4] /\ W5[26] = C[5]
    BY <1>17 DEF Joins
  <1>19. (\A i \in 1..19 : W5[i] = W3[i]) /\ W5[20] = L[1] /\ W5[21] = L[2]
    <2>1. (\A i \in 1..19 : W4[i] = W3[i]) /\ W4[20] = L[1] /\ W4[21] = L[2]
      BY <1>15 DEF Joins
    <2>2. /\ \A i \in 1..19 : W5[i] = W4[i]
          /\ W5[20] = W4[20] /\ W5[21] = W4[21]
      BY <1>18
    <2> QED BY <2>1, <2>2
  <1>20. (\A i \in 1..16 : W5[i] = W2[i]) /\ W5[17] = P[1] /\ W5[18] = P[2] /\ W5[19] = P[3]
    <2>1. (\A i \in 1..16 : W3[i] = W2[i]) /\ W3[17] = P[1] /\ W3[18] = P[2] /\ W3[19] = P[3]
      BY <1>13 DEF Joins
    <2> QED BY <2>1, <1>19
  <1>21. (\A i \in 1..11 : W5[i] = W1[i]) /\ W5[12] = X[1] /\ W5[13] = X[2] /\ W5[14] = X[3]
         /\ W5[15] = X[4] /\ W5[16] = X[5]
    <2>1. (\A i \in 1..11 : W2[i] = W1[i]) /\ W2[12] = X[1] /\ W2[13] = X[2] /\ W2[14] = X[3]
          /\ W2[15] = X[4] /\ W2[16] = X[5]
      BY <1>11 DEF Joins
    <2> QED BY <2>1, <1>20
  <1>22. W5[1] = I[1] /\ W5[2] = A[1] /\ W5[3] = A[2] /\ W5[4] = A[3] /\ W5[5] = A[4] /\ W5[6] = A[5]
         /\ W5[7] = A[6] /\ W5[8] = A[7] /\ W5[9] = A[8] /\ W5[10] = A[9] /\ W5[11] = A[10]
    BY <1>9, <1>21 DEF Joins
  <1>23. Goes(W5, 1, "inventory", "bundle")
        /\ Goes(W5, 2, "load", "v1") /\ Goes(W5, 3, "load", "v2") /\ Goes(W5, 4, "load", "v3")
        /\ Goes(W5, 5, "read", "generators") /\ Goes(W5, 6, "read", "trace") /\ Goes(W5, 7, "read", "manifest")
        /\ Goes(W5, 8, "match", "trace")
        /\ Goes(W5, 9, "derive", "v1") /\ Goes(W5, 10, "derive", "v2") /\ Goes(W5, 11, "derive", "v3")
    BY <1>1, <1>2, <1>22 DEF Goes
  <1>24. Goes(W5, 12, "load", "index")
        /\ Goes(W5, 13, "read", "protocol") /\ Goes(W5, 14, "read", "manifest") /\ Goes(W5, 15, "read", "evidence")
        /\ Goes(W5, 16, "derive", "index")
        /\ Goes(W5, 17, "load", "plan") /\ Goes(W5, 18, "read", "protocol") /\ Goes(W5, 19, "derive", "plan")
    BY <1>3, <1>4, <1>20, <1>21 DEF Goes
  <1>25. Goes(W5, 20, "load", "ledger") /\ Goes(W5, 21, "derive", "ledger")
        /\ Goes(W5, 22, "committed", "protocol") /\ Goes(W5, 23, "committed", "generators")
        /\ Goes(W5, 24, "committed", "trace") /\ Goes(W5, 25, "committed", "manifest")
        /\ Goes(W5, 26, "committed", "evidence")
    BY <1>5, <1>6, <1>18, <1>19 DEF Goes
  <1> QED BY <1>8, <1>18, <1>23, <1>24, <1>25

\* The freeze; its last 26 steps are those of the verification.
LEMMA FreezeScriptIs ==
    LET F == Handoff!FreezeScript
    IN  /\ F \in Seq(Commands) /\ Len(F) = 55
        /\ Goes(F, 1, "clean", "tree")
        /\ Goes(F, 2, "committed", "protocol") /\ Goes(F, 3, "committed", "generators")
        /\ Goes(F, 4, "committed", "trace") /\ Goes(F, 5, "committed", "manifest")
        /\ Goes(F, 6, "committed", "evidence") /\ Goes(F, 7, "closed", "folder")
        /\ Goes(F, 8, "read", "generators") /\ Goes(F, 9, "read", "trace") /\ Goes(F, 10, "read", "manifest")
        /\ Goes(F, 11, "match", "trace")
        /\ Goes(F, 12, "stage", "v1") /\ Goes(F, 13, "rename", "v1")
        /\ Goes(F, 14, "stage", "v2") /\ Goes(F, 15, "rename", "v2")
        /\ Goes(F, 16, "stage", "v3") /\ Goes(F, 17, "rename", "v3")
        /\ Goes(F, 18, "read", "protocol") /\ Goes(F, 19, "read", "manifest") /\ Goes(F, 20, "read", "evidence")
        /\ Goes(F, 21, "stage", "index") /\ Goes(F, 22, "rename", "index")
        /\ Goes(F, 23, "read", "protocol")
        /\ Goes(F, 24, "stage", "plan") /\ Goes(F, 25, "rename", "plan")
        /\ Goes(F, 26, "stage", "ledger") /\ Goes(F, 27, "rename", "ledger")
        /\ Goes(F, 28, "stage", "bundle") /\ Goes(F, 29, "rename", "bundle")
        /\ \A i \in 30..55 : F[i] = Handoff!VerifyScript[i - 29]
  <1> DEFINE T == Handoff!Do("clean", <<"tree">>)
             C == Handoff!ValidateCommit
             D == Handoff!Do("closed", <<"folder">>)
             A == Handoff!AnchorReads
             U == Handoff!Replace(Handoff!Anchors)
             X == Handoff!IndexReads
             I == Handoff!Replace(<<"index">>)
             P == Handoff!PlanReads
             R == Handoff!Replace(<<"plan", "ledger", "bundle">>)
             V == Handoff!VerifyScript
  <1>1. T \in Seq(Commands) /\ Len(T) = 1 /\ Goes(T, 1, "clean", "tree")
    BY DoOne, NamesKnown
  <1>2. C \in Seq(Commands) /\ Len(C) = 5
        /\ Goes(C, 1, "committed", "protocol") /\ Goes(C, 2, "committed", "generators")
        /\ Goes(C, 3, "committed", "trace") /\ Goes(C, 4, "committed", "manifest")
        /\ Goes(C, 5, "committed", "evidence")
    BY CommitStepsAre
  <1>3. D \in Seq(Commands) /\ Len(D) = 1 /\ Goes(D, 1, "closed", "folder")
    BY DoOne, NamesKnown
  <1>4. A \in Seq(Commands) /\ Len(A) = 4 /\ Goes(A, 1, "read", "generators") /\ Goes(A, 2, "read", "trace")
        /\ Goes(A, 3, "read", "manifest") /\ Goes(A, 4, "match", "trace")
    BY ReadsAre
  <1>5. U \in Seq(Commands) /\ Len(U) = 6 /\ Goes(U, 1, "stage", "v1") /\ Goes(U, 2, "rename", "v1")
        /\ Goes(U, 3, "stage", "v2") /\ Goes(U, 4, "rename", "v2")
        /\ Goes(U, 5, "stage", "v3") /\ Goes(U, 6, "rename", "v3")
    BY ReplaceThree, NamesKnown DEF Handoff!Anchors
  <1>6. X \in Seq(Commands) /\ Len(X) = 3 /\ Goes(X, 1, "read", "protocol") /\ Goes(X, 2, "read", "manifest")
        /\ Goes(X, 3, "read", "evidence")
    BY ReadsAre
  <1>7. I \in Seq(Commands) /\ Len(I) = 2 /\ Goes(I, 1, "stage", "index") /\ Goes(I, 2, "rename", "index")
    BY ReplaceOne, NamesKnown
  <1>8. P \in Seq(Commands) /\ Len(P) = 1 /\ Goes(P, 1, "read", "protocol")
    BY ReadsAre
  <1>9. R \in Seq(Commands) /\ Len(R) = 6 /\ Goes(R, 1, "stage", "plan") /\ Goes(R, 2, "rename", "plan")
        /\ Goes(R, 3, "stage", "ledger") /\ Goes(R, 4, "rename", "ledger")
        /\ Goes(R, 5, "stage", "bundle") /\ Goes(R, 6, "rename", "bundle")
    BY ReplaceThree, NamesKnown
  <1>10. V \in Seq(Commands) /\ Len(V) = 26
    BY VerifyScriptIs
  <1>11. Handoff!FreezeScript = ((((((((T \o C) \o D) \o A) \o U) \o X) \o I) \o P) \o R) \o V
    BY DEF Handoff!FreezeScript
  <1> HIDE DEF T, C, D, A, U, X, I, P, R, V
  <1> DEFINE W1 == T \o C
             W2 == W1 \o D
             W3 == W2 \o A
             W4 == W3 \o U
             W5 == W4 \o X
             W6 == W5 \o I
             W7 == W6 \o P
             W8 == W7 \o R
             W9 == W8 \o V
  <1>12. Handoff!FreezeScript = W9
    BY <1>11
  <1> HIDE DEF W9, W8, W7, W6, W5, W4, W3, W2
  <1>13. Joins(Commands, W1, T, C, 1, 5)
    BY <1>1, <1>2, Joined
  <1> HIDE DEF W1
  <1>14. W1 \in Seq(Commands) /\ Len(W1) = 6
    BY <1>13 DEF Joins
  <1>15. Joins(Commands, W2, W1, D, 6, 1)
    BY <1>14, <1>3, Joined DEF W2
  <1>16. W2 \in Seq(Commands) /\ Len(W2) = 7
    BY <1>15 DEF Joins
  <1>17. Joins(Commands, W3, W2, A, 7, 4)
    BY <1>16, <1>4, Joined DEF W3
  <1>18. W3 \in Seq(Commands) /\ Len(W3) = 11
    BY <1>17 DEF Joins
  <1>19. Joins(Commands, W4, W3, U, 11, 6)
    BY <1>18, <1>5, Joined DEF W4
  <1>20. W4 \in Seq(Commands) /\ Len(W4) = 17
    BY <1>19 DEF Joins
  <1>21. Joins(Commands, W5, W4, X, 17, 3)
    BY <1>20, <1>6, Joined DEF W5
  <1>22. W5 \in Seq(Commands) /\ Len(W5) = 20
    BY <1>21 DEF Joins
  <1>23. Joins(Commands, W6, W5, I, 20, 2)
    BY <1>22, <1>7, Joined DEF W6
  <1>24. W6 \in Seq(Commands) /\ Len(W6) = 22
    BY <1>23 DEF Joins
  <1>25. Joins(Commands, W7, W6, P, 22, 1)
    BY <1>24, <1>8, Joined DEF W7
  <1>26. W7 \in Seq(Commands) /\ Len(W7) = 23
    BY <1>25 DEF Joins
  <1>27. Joins(Commands, W8, W7, R, 23, 6)
    BY <1>26, <1>9, Joined DEF W8
  <1>28. W8 \in Seq(Commands) /\ Len(W8) = 29
    BY <1>27 DEF Joins
  <1>29. Joins(Commands, W9, W8, V, 29, 26)
    BY <1>28, <1>10, Joined DEF W9
  <1>30. /\ W9 \in Seq(Commands) /\ Len(W9) = 55 /\ (\A i \in 1..29 : W9[i] = W8[i])
         /\ \A i \in 30..55 : W9[i] = V[i - 29]
    BY <1>29 DEF Joins
  <1>31. (\A i \in 1..23 : W9[i] = W7[i])
         /\ W9[24] = R[1] /\ W9[25] = R[2] /\ W9[26] = R[3] /\ W9[27] = R[4] /\ W9[28] = R[5] /\ W9[29] = R[6]
    <2>1. (\A i \in 1..23 : W8[i] = W7[i])
          /\ W8[24] = R[1] /\ W8[25] = R[2] /\ W8[26] = R[3] /\ W8[27] = R[4] /\ W8[28] = R[5] /\ W8[29] = R[6]
      BY <1>27 DEF Joins
    <2>2. /\ \A i \in 1..23 : W9[i] = W8[i]
          /\ W9[24] = W8[24] /\ W9[25] = W8[25] /\ W9[26] = W8[26] /\ W9[27] = W8[27] /\ W9[28] = W8[28] /\ W9[29] = W8[29]
      BY <1>30
    <2> QED BY <2>1, <2>2
  <1>32. (\A i \in 1..22 : W9[i] = W6[i]) /\ W9[23] = P[1]
    <2>1. (\A i \in 1..22 : W7[i] = W6[i]) /\ W7[23] = P[1]
      BY <1>25 DEF Joins
    <2> QED BY <2>1, <1>31
  <1>33. (\A i \in 1..20 : W9[i] = W5[i]) /\ W9[21] = I[1] /\ W9[22] = I[2]
    <2>1. (\A i \in 1..20 : W6[i] = W5[i]) /\ W6[21] = I[1] /\ W6[22] = I[2]
      BY <1>23 DEF Joins
    <2> QED BY <2>1, <1>32
  <1>34. (\A i \in 1..17 : W9[i] = W4[i]) /\ W9[18] = X[1] /\ W9[19] = X[2] /\ W9[20] = X[3]
    <2>1. (\A i \in 1..17 : W5[i] = W4[i]) /\ W5[18] = X[1] /\ W5[19] = X[2] /\ W5[20] = X[3]
      BY <1>21 DEF Joins
    <2> QED BY <2>1, <1>33
  <1>35. (\A i \in 1..11 : W9[i] = W3[i])
         /\ W9[12] = U[1] /\ W9[13] = U[2] /\ W9[14] = U[3] /\ W9[15] = U[4] /\ W9[16] = U[5] /\ W9[17] = U[6]
    <2>1. (\A i \in 1..11 : W4[i] = W3[i])
          /\ W4[12] = U[1] /\ W4[13] = U[2] /\ W4[14] = U[3] /\ W4[15] = U[4] /\ W4[16] = U[5] /\ W4[17] = U[6]
      BY <1>19 DEF Joins
    <2> QED BY <2>1, <1>34
  <1>36. (\A i \in 1..7 : W9[i] = W2[i])
         /\ W9[8] = A[1] /\ W9[9] = A[2] /\ W9[10] = A[3] /\ W9[11] = A[4]
    <2>1. (\A i \in 1..7 : W3[i] = W2[i])
          /\ W3[8] = A[1] /\ W3[9] = A[2] /\ W3[10] = A[3] /\ W3[11] = A[4]
      BY <1>17 DEF Joins
    <2> QED BY <2>1, <1>35
  <1>37. W9[7] = D[1] /\ W9[1] = T[1] /\ W9[2] = C[1] /\ W9[3] = C[2] /\ W9[4] = C[3] /\ W9[5] = C[4]
         /\ W9[6] = C[5]
    BY <1>13, <1>15, <1>36 DEF Joins
  <1>38. /\ Goes(W9, 1, "clean", "tree")
         /\ Goes(W9, 2, "committed", "protocol") /\ Goes(W9, 3, "committed", "generators")
         /\ Goes(W9, 4, "committed", "trace") /\ Goes(W9, 5, "committed", "manifest")
         /\ Goes(W9, 6, "committed", "evidence") /\ Goes(W9, 7, "closed", "folder")
         /\ Goes(W9, 8, "read", "generators") /\ Goes(W9, 9, "read", "trace") /\ Goes(W9, 10, "read", "manifest")
         /\ Goes(W9, 11, "match", "trace")
    BY <1>1, <1>2, <1>3, <1>4, <1>36, <1>37 DEF Goes
  <1>39. /\ Goes(W9, 12, "stage", "v1") /\ Goes(W9, 13, "rename", "v1")
         /\ Goes(W9, 14, "stage", "v2") /\ Goes(W9, 15, "rename", "v2")
         /\ Goes(W9, 16, "stage", "v3") /\ Goes(W9, 17, "rename", "v3")
         /\ Goes(W9, 18, "read", "protocol") /\ Goes(W9, 19, "read", "manifest") /\ Goes(W9, 20, "read", "evidence")
    BY <1>5, <1>6, <1>34, <1>35 DEF Goes
  <1>40. /\ Goes(W9, 21, "stage", "index") /\ Goes(W9, 22, "rename", "index")
         /\ Goes(W9, 23, "read", "protocol")
         /\ Goes(W9, 24, "stage", "plan") /\ Goes(W9, 25, "rename", "plan")
         /\ Goes(W9, 26, "stage", "ledger") /\ Goes(W9, 27, "rename", "ledger")
         /\ Goes(W9, 28, "stage", "bundle") /\ Goes(W9, 29, "rename", "bundle")
    BY <1>7, <1>8, <1>9, <1>31, <1>32, <1>33 DEF Goes
  <1> QED BY <1>12, <1>30, <1>38, <1>39, <1>40 DEF V

\* What a step at position p can be, and the file it is on.
Command(p, op, on) ==
    /\ op = "clean" => p = 1
    /\ op = "closed" => p = 7
    /\ op = "committed" =>
          \/ ((p = 2 \/ p = 51) /\ on = "protocol") \/ ((p = 3 \/ p = 52) /\ on = "generators")
          \/ ((p = 4 \/ p = 53) /\ on = "trace") \/ ((p = 5 \/ p = 54) /\ on = "manifest")
          \/ ((p = 6 \/ p = 55) /\ on = "evidence")
    /\ op = "read" =>
          \/ ((p = 8 \/ p = 34) /\ on = "generators") \/ ((p = 9 \/ p = 35) /\ on = "trace")
          \/ ((p = 10 \/ p = 36) /\ on = "manifest")
          \/ ((p = 18 \/ p = 23 \/ p = 42 \/ p = 47) /\ on = "protocol")
          \/ ((p = 19 \/ p = 43) /\ on = "manifest") \/ ((p = 20 \/ p = 44) /\ on = "evidence")
    /\ op = "match" => p = 11 \/ p = 37
    /\ op = "stage" =>
          \/ (p = 12 /\ on = "v1") \/ (p = 14 /\ on = "v2") \/ (p = 16 /\ on = "v3")
          \/ (p = 21 /\ on = "index") \/ (p = 24 /\ on = "plan") \/ (p = 26 /\ on = "ledger")
          \/ (p = 28 /\ on = "bundle")
    /\ op = "rename" =>
          \/ (p = 13 /\ on = "v1") \/ (p = 15 /\ on = "v2") \/ (p = 17 /\ on = "v3")
          \/ (p = 22 /\ on = "index") \/ (p = 25 /\ on = "plan") \/ (p = 27 /\ on = "ledger")
          \/ (p = 29 /\ on = "bundle")
    /\ op = "inventory" => p = 30
    /\ op = "load" =>
          \/ (p = 31 /\ on = "v1") \/ (p = 32 /\ on = "v2") \/ (p = 33 /\ on = "v3")
          \/ (p = 41 /\ on = "index") \/ (p = 46 /\ on = "plan") \/ (p = 49 /\ on = "ledger")
    /\ op = "derive" =>
          \/ (p = 38 /\ on = "v1") \/ (p = 39 /\ on = "v2") \/ (p = 40 /\ on = "v3")
          \/ (p = 45 /\ on = "index") \/ (p = 48 /\ on = "plan") \/ (p = 50 /\ on = "ledger")

LEMMA CommandAt ==
    ASSUME NEW p \in 1..55
    PROVE  Command(p, Handoff!FreezeScript[p].op, Handoff!FreezeScript[p].on)
  <1> DEFINE F == Handoff!FreezeScript
             V == Handoff!VerifyScript
             op == F[p].op
             on == F[p].on
  <1> HIDE DEF op, on
  <1>1. CASE p \in 1..7
    <2>1. p = 1 \/ p = 2 \/ p = 3 \/ p = 4 \/ p = 5 \/ p = 6 \/ p = 7
      BY <1>1
    <2>2. Goes(F, 1, "clean", "tree") /\ Goes(F, 2, "committed", "protocol")
           /\ Goes(F, 3, "committed", "generators") /\ Goes(F, 4, "committed", "trace")
           /\ Goes(F, 5, "committed", "manifest") /\ Goes(F, 6, "committed", "evidence")
           /\ Goes(F, 7, "closed", "folder")
      BY FreezeScriptIs
    <2> HIDE DEF F
    <2>3. (p = 1 /\ op = "clean" /\ on = "tree") \/ (p = 2 /\ op = "committed" /\ on = "protocol")
           \/ (p = 3 /\ op = "committed" /\ on = "generators")
           \/ (p = 4 /\ op = "committed" /\ on = "trace")
           \/ (p = 5 /\ op = "committed" /\ on = "manifest")
           \/ (p = 6 /\ op = "committed" /\ on = "evidence") \/ (p = 7 /\ op = "closed" /\ on = "folder")
      BY <2>1, <2>2 DEF Goes, op, on
    <2>4. Command(p, op, on)
      BY <2>3 DEF Command
    <2> QED BY <2>4 DEF F, op, on
  <1>2. CASE p \in 8..14
    <2>1. p = 8 \/ p = 9 \/ p = 10 \/ p = 11 \/ p = 12 \/ p = 13 \/ p = 14
      BY <1>2
    <2>2. Goes(F, 8, "read", "generators") /\ Goes(F, 9, "read", "trace")
           /\ Goes(F, 10, "read", "manifest") /\ Goes(F, 11, "match", "trace")
           /\ Goes(F, 12, "stage", "v1") /\ Goes(F, 13, "rename", "v1") /\ Goes(F, 14, "stage", "v2")
      BY FreezeScriptIs
    <2> HIDE DEF F
    <2>3. (p = 8 /\ op = "read" /\ on = "generators") \/ (p = 9 /\ op = "read" /\ on = "trace")
           \/ (p = 10 /\ op = "read" /\ on = "manifest") \/ (p = 11 /\ op = "match" /\ on = "trace")
           \/ (p = 12 /\ op = "stage" /\ on = "v1") \/ (p = 13 /\ op = "rename" /\ on = "v1")
           \/ (p = 14 /\ op = "stage" /\ on = "v2")
      BY <2>1, <2>2 DEF Goes, op, on
    <2>4. Command(p, op, on)
      BY <2>3 DEF Command
    <2> QED BY <2>4 DEF F, op, on
  <1>3. CASE p \in 15..21
    <2>1. p = 15 \/ p = 16 \/ p = 17 \/ p = 18 \/ p = 19 \/ p = 20 \/ p = 21
      BY <1>3
    <2>2. Goes(F, 15, "rename", "v2") /\ Goes(F, 16, "stage", "v3") /\ Goes(F, 17, "rename", "v3")
           /\ Goes(F, 18, "read", "protocol") /\ Goes(F, 19, "read", "manifest")
           /\ Goes(F, 20, "read", "evidence") /\ Goes(F, 21, "stage", "index")
      BY FreezeScriptIs
    <2> HIDE DEF F
    <2>3. (p = 15 /\ op = "rename" /\ on = "v2") \/ (p = 16 /\ op = "stage" /\ on = "v3")
           \/ (p = 17 /\ op = "rename" /\ on = "v3") \/ (p = 18 /\ op = "read" /\ on = "protocol")
           \/ (p = 19 /\ op = "read" /\ on = "manifest") \/ (p = 20 /\ op = "read" /\ on = "evidence")
           \/ (p = 21 /\ op = "stage" /\ on = "index")
      BY <2>1, <2>2 DEF Goes, op, on
    <2>4. Command(p, op, on)
      BY <2>3 DEF Command
    <2> QED BY <2>4 DEF F, op, on
  <1>4. CASE p \in 22..29
    <2>1. p = 22 \/ p = 23 \/ p = 24 \/ p = 25 \/ p = 26 \/ p = 27 \/ p = 28 \/ p = 29
      BY <1>4
    <2>2. Goes(F, 22, "rename", "index") /\ Goes(F, 23, "read", "protocol")
           /\ Goes(F, 24, "stage", "plan") /\ Goes(F, 25, "rename", "plan")
           /\ Goes(F, 26, "stage", "ledger") /\ Goes(F, 27, "rename", "ledger")
           /\ Goes(F, 28, "stage", "bundle") /\ Goes(F, 29, "rename", "bundle")
      BY FreezeScriptIs
    <2> HIDE DEF F
    <2>3. (p = 22 /\ op = "rename" /\ on = "index") \/ (p = 23 /\ op = "read" /\ on = "protocol")
           \/ (p = 24 /\ op = "stage" /\ on = "plan") \/ (p = 25 /\ op = "rename" /\ on = "plan")
           \/ (p = 26 /\ op = "stage" /\ on = "ledger") \/ (p = 27 /\ op = "rename" /\ on = "ledger")
           \/ (p = 28 /\ op = "stage" /\ on = "bundle") \/ (p = 29 /\ op = "rename" /\ on = "bundle")
      BY <2>1, <2>2 DEF Goes, op, on
    <2>4. Command(p, op, on)
      BY <2>3 DEF Command
    <2> QED BY <2>4 DEF F, op, on
  <1>5. CASE p \in 30..36
    <2>1. p = 30 \/ p = 31 \/ p = 32 \/ p = 33 \/ p = 34 \/ p = 35 \/ p = 36
      BY <1>5
    <2>2. Goes(F, 30, "inventory", "bundle") /\ Goes(F, 31, "load", "v1") /\ Goes(F, 32, "load", "v2")
           /\ Goes(F, 33, "load", "v3") /\ Goes(F, 34, "read", "generators")
           /\ Goes(F, 35, "read", "trace") /\ Goes(F, 36, "read", "manifest")
      <3>1. F[30] = V[1] /\ F[31] = V[2] /\ F[32] = V[3] /\ F[33] = V[4] /\ F[34] = V[5] /\ F[35] = V[6]
             /\ F[36] = V[7]
        BY FreezeScriptIs
      <3> HIDE DEF F, V
      <3>2. Goes(V, 1, "inventory", "bundle") /\ Goes(V, 2, "load", "v1") /\ Goes(V, 3, "load", "v2")
             /\ Goes(V, 4, "load", "v3") /\ Goes(V, 5, "read", "generators") /\ Goes(V, 6, "read", "trace")
             /\ Goes(V, 7, "read", "manifest")
        BY VerifyScriptIs DEF V
      <3> QED BY <3>1, <3>2 DEF Goes
    <2> HIDE DEF F
    <2>3. (p = 30 /\ op = "inventory" /\ on = "bundle") \/ (p = 31 /\ op = "load" /\ on = "v1")
           \/ (p = 32 /\ op = "load" /\ on = "v2") \/ (p = 33 /\ op = "load" /\ on = "v3")
           \/ (p = 34 /\ op = "read" /\ on = "generators") \/ (p = 35 /\ op = "read" /\ on = "trace")
           \/ (p = 36 /\ op = "read" /\ on = "manifest")
      BY <2>1, <2>2 DEF Goes, op, on
    <2>4. Command(p, op, on)
      BY <2>3 DEF Command
    <2> QED BY <2>4 DEF F, op, on
  <1>6. CASE p \in 37..43
    <2>1. p = 37 \/ p = 38 \/ p = 39 \/ p = 40 \/ p = 41 \/ p = 42 \/ p = 43
      BY <1>6
    <2>2. Goes(F, 37, "match", "trace") /\ Goes(F, 38, "derive", "v1") /\ Goes(F, 39, "derive", "v2")
           /\ Goes(F, 40, "derive", "v3") /\ Goes(F, 41, "load", "index")
           /\ Goes(F, 42, "read", "protocol") /\ Goes(F, 43, "read", "manifest")
      <3>1. F[37] = V[8] /\ F[38] = V[9] /\ F[39] = V[10] /\ F[40] = V[11] /\ F[41] = V[12]
             /\ F[42] = V[13] /\ F[43] = V[14]
        BY FreezeScriptIs
      <3> HIDE DEF F, V
      <3>2. Goes(V, 8, "match", "trace") /\ Goes(V, 9, "derive", "v1") /\ Goes(V, 10, "derive", "v2")
             /\ Goes(V, 11, "derive", "v3") /\ Goes(V, 12, "load", "index")
             /\ Goes(V, 13, "read", "protocol") /\ Goes(V, 14, "read", "manifest")
        BY VerifyScriptIs DEF V
      <3> QED BY <3>1, <3>2 DEF Goes
    <2> HIDE DEF F
    <2>3. (p = 37 /\ op = "match" /\ on = "trace") \/ (p = 38 /\ op = "derive" /\ on = "v1")
           \/ (p = 39 /\ op = "derive" /\ on = "v2") \/ (p = 40 /\ op = "derive" /\ on = "v3")
           \/ (p = 41 /\ op = "load" /\ on = "index") \/ (p = 42 /\ op = "read" /\ on = "protocol")
           \/ (p = 43 /\ op = "read" /\ on = "manifest")
      BY <2>1, <2>2 DEF Goes, op, on
    <2>4. Command(p, op, on)
      BY <2>3 DEF Command
    <2> QED BY <2>4 DEF F, op, on
  <1>7. CASE p \in 44..49
    <2>1. p = 44 \/ p = 45 \/ p = 46 \/ p = 47 \/ p = 48 \/ p = 49
      BY <1>7
    <2>2. Goes(F, 44, "read", "evidence") /\ Goes(F, 45, "derive", "index")
           /\ Goes(F, 46, "load", "plan") /\ Goes(F, 47, "read", "protocol")
           /\ Goes(F, 48, "derive", "plan") /\ Goes(F, 49, "load", "ledger")
      <3>1. F[44] = V[15] /\ F[45] = V[16] /\ F[46] = V[17] /\ F[47] = V[18] /\ F[48] = V[19]
             /\ F[49] = V[20]
        BY FreezeScriptIs
      <3> HIDE DEF F, V
      <3>2. Goes(V, 15, "read", "evidence") /\ Goes(V, 16, "derive", "index")
             /\ Goes(V, 17, "load", "plan") /\ Goes(V, 18, "read", "protocol")
             /\ Goes(V, 19, "derive", "plan") /\ Goes(V, 20, "load", "ledger")
        BY VerifyScriptIs DEF V
      <3> QED BY <3>1, <3>2 DEF Goes
    <2> HIDE DEF F
    <2>3. (p = 44 /\ op = "read" /\ on = "evidence") \/ (p = 45 /\ op = "derive" /\ on = "index")
           \/ (p = 46 /\ op = "load" /\ on = "plan") \/ (p = 47 /\ op = "read" /\ on = "protocol")
           \/ (p = 48 /\ op = "derive" /\ on = "plan") \/ (p = 49 /\ op = "load" /\ on = "ledger")
      BY <2>1, <2>2 DEF Goes, op, on
    <2>4. Command(p, op, on)
      BY <2>3 DEF Command
    <2> QED BY <2>4 DEF F, op, on
  <1>8. CASE p \in 50..55
    <2>1. p = 50 \/ p = 51 \/ p = 52 \/ p = 53 \/ p = 54 \/ p = 55
      BY <1>8
    <2>2. Goes(F, 50, "derive", "ledger") /\ Goes(F, 51, "committed", "protocol")
           /\ Goes(F, 52, "committed", "generators") /\ Goes(F, 53, "committed", "trace")
           /\ Goes(F, 54, "committed", "manifest") /\ Goes(F, 55, "committed", "evidence")
      <3>1. F[50] = V[21] /\ F[51] = V[22] /\ F[52] = V[23] /\ F[53] = V[24] /\ F[54] = V[25]
             /\ F[55] = V[26]
        BY FreezeScriptIs
      <3> HIDE DEF F, V
      <3>2. Goes(V, 21, "derive", "ledger") /\ Goes(V, 22, "committed", "protocol")
             /\ Goes(V, 23, "committed", "generators") /\ Goes(V, 24, "committed", "trace")
             /\ Goes(V, 25, "committed", "manifest") /\ Goes(V, 26, "committed", "evidence")
        BY VerifyScriptIs DEF V
      <3> QED BY <3>1, <3>2 DEF Goes
    <2> HIDE DEF F
    <2>3. (p = 50 /\ op = "derive" /\ on = "ledger") \/ (p = 51 /\ op = "committed" /\ on = "protocol")
           \/ (p = 52 /\ op = "committed" /\ on = "generators")
           \/ (p = 53 /\ op = "committed" /\ on = "trace")
           \/ (p = 54 /\ op = "committed" /\ on = "manifest")
           \/ (p = 55 /\ op = "committed" /\ on = "evidence")
      BY <2>1, <2>2 DEF Goes, op, on
    <2>4. Command(p, op, on)
      BY <2>3 DEF Command
    <2> QED BY <2>4 DEF F, op, on
  <1>9. p \in 1..7 \/ p \in 8..14 \/ p \in 15..21 \/ p \in 22..29 \/ p \in 30..36 \/ p \in 37..43
          \/ p \in 44..49 \/ p \in 50..55
    OBVIOUS
  <1> QED BY <1>1, <1>2, <1>3, <1>4, <1>5, <1>6, <1>7, <1>8, <1>9

InputFiles == {"protocol", "generators", "trace", "manifest", "evidence"}
DerivedFiles == {"v1", "v2", "v3", "index", "plan", "ledger"}
Everything == DerivedFiles \cup {"bundle"}

LEMMA FilesAre ==
    /\ Handoff!ToSet(Handoff!Inputs) = InputFiles
    /\ Handoff!ToSet(Handoff!Anchors) = {"v1", "v2", "v3"}
    /\ Handoff!ToSet(Handoff!Derived) = DerivedFiles
    /\ Handoff!ToSet(Handoff!OutputFiles) = Everything
  <1>1. Handoff!ToSet(Handoff!Inputs) = InputFiles
    <2> DEFINE s == Handoff!Inputs
    <2>1. DOMAIN s = 1..5 /\ s[1] = "protocol" /\ s[2] = "generators" /\ s[3] = "trace" /\ s[4] = "manifest"
          /\ s[5] = "evidence"
      BY DEF Handoff!Inputs
    <2> HIDE DEF s
    <2>2. \A i \in 1..5 : i = 1 \/ i = 2 \/ i = 3 \/ i = 4 \/ i = 5
      OBVIOUS
    <2> QED BY <2>1, <2>2 DEF Handoff!ToSet, InputFiles, s
  <1>2. Handoff!Anchors = <<"v1", "v2", "v3">>
    BY DEF Handoff!Anchors
  <1>3. LET d == Handoff!Derived
        IN  Len(d) = 6 /\ DOMAIN d = 1..6 /\ d \in Seq(Files)
            /\ d[1] = "v1" /\ d[2] = "v2" /\ d[3] = "v3" /\ d[4] = "index" /\ d[5] = "plan" /\ d[6] = "ledger"
    <2> DEFINE u == <<"v1", "v2", "v3">>
               w == <<"index", "plan", "ledger">>
    <2>1. /\ u \in Seq(Files) /\ Len(u) = 3 /\ u[1] = "v1" /\ u[2] = "v2" /\ u[3] = "v3"
          /\ w \in Seq(Files) /\ Len(w) = 3 /\ w[1] = "index" /\ w[2] = "plan" /\ w[3] = "ledger"
      BY NamesAre, NamesKnown
    <2>2. Handoff!Derived = u \o w
      BY <1>2 DEF Handoff!Derived
    <2> HIDE DEF u, w
    <2>3. Joins(Files, u \o w, u, w, 3, 3)
      BY <2>1, Joined
    <2> DEFINE d == u \o w
    <2>4. Joins(Files, d, u, w, 3, 3)
      BY <2>3
    <2> HIDE DEF d
    <2>6. d \in Seq(Files) /\ Len(d) = 6 /\ DOMAIN d = 1..6
      BY <2>4 DEF Joins
    <2>7. d[1] = u[1] /\ d[2] = u[2] /\ d[3] = u[3] /\ d[4] = w[1] /\ d[5] = w[2] /\ d[6] = w[3]
      BY <2>4 DEF Joins
    <2>8. Handoff!Derived = d
      BY <2>2 DEF d
    <2> QED BY <2>1, <2>6, <2>7, <2>8
  <1>4. LET d == Handoff!OutputFiles
        IN  DOMAIN d = 1..7
            /\ d[1] = "v1" /\ d[2] = "v2" /\ d[3] = "v3" /\ d[4] = "index" /\ d[5] = "plan" /\ d[6] = "ledger"
            /\ d[7] = "bundle"
    <2> DEFINE u == Handoff!Derived
               w == <<"bundle">>
    <2>1. w \in Seq(Files) /\ Len(w) = 1 /\ w[1] = "bundle"
      BY NamesAre, NamesKnown
    <2>2. Handoff!OutputFiles = u \o w
      BY DEF Handoff!OutputFiles
    <2> HIDE DEF u, w
    <2>3. u \in Seq(Files) /\ Len(u) = 6 /\ u[1] = "v1" /\ u[2] = "v2" /\ u[3] = "v3" /\ u[4] = "index"
          /\ u[5] = "plan" /\ u[6] = "ledger"
      BY <1>3 DEF u
    <2>4. Joins(Files, u \o w, u, w, 6, 1)
      BY <2>1, <2>3, Joined
    <2> DEFINE d == u \o w
    <2>5. Joins(Files, d, u, w, 6, 1)
      BY <2>4
    <2> HIDE DEF d
    <2>6. d \in Seq(Files) /\ Len(d) = 7
      BY <2>5 DEF Joins
    <2>7. DOMAIN d = 1..7
      BY <2>6
    <2>8. d[1] = u[1] /\ d[2] = u[2] /\ d[3] = u[3] /\ d[4] = u[4] /\ d[5] = u[5] /\ d[6] = u[6]
          /\ d[7] = w[1]
      BY <2>5 DEF Joins
    <2>9. Handoff!OutputFiles = d
      BY <2>2 DEF d
    <2> QED BY <2>1, <2>3, <2>7, <2>8, <2>9
  <1>5. Handoff!ToSet(Handoff!Anchors) = {"v1", "v2", "v3"}
    <2> DEFINE s == Handoff!Anchors
    <2>1. DOMAIN s = 1..3 /\ s[1] = "v1" /\ s[2] = "v2" /\ s[3] = "v3"
      BY <1>2
    <2> HIDE DEF s
    <2>2. \A i \in 1..3 : i = 1 \/ i = 2 \/ i = 3
      OBVIOUS
    <2> QED BY <2>1, <2>2 DEF Handoff!ToSet, s
  <1>6. Handoff!ToSet(Handoff!Derived) = DerivedFiles
    <2> DEFINE s == Handoff!Derived
    <2>1. DOMAIN s = 1..6 /\ s[1] = "v1" /\ s[2] = "v2" /\ s[3] = "v3" /\ s[4] = "index" /\ s[5] = "plan"
          /\ s[6] = "ledger"
      BY <1>3
    <2> HIDE DEF s
    <2>2. \A i \in 1..6 : i = 1 \/ i = 2 \/ i = 3 \/ i = 4 \/ i = 5 \/ i = 6
      OBVIOUS
    <2> QED BY <2>1, <2>2 DEF Handoff!ToSet, DerivedFiles, s
  <1>7. Handoff!ToSet(Handoff!OutputFiles) = Everything
    <2> DEFINE s == Handoff!OutputFiles
    <2>1. DOMAIN s = 1..7 /\ s[1] = "v1" /\ s[2] = "v2" /\ s[3] = "v3" /\ s[4] = "index" /\ s[5] = "plan"
          /\ s[6] = "ledger" /\ s[7] = "bundle"
      BY <1>4
    <2> HIDE DEF s
    <2>2. \A i \in 1..7 : i = 1 \/ i = 2 \/ i = 3 \/ i = 4 \/ i = 5 \/ i = 6 \/ i = 7
      OBVIOUS
    <2> QED BY <2>1, <2>2 DEF Handoff!ToSet, Everything, DerivedFiles, s
  <1> QED BY <1>1, <1>5, <1>6, <1>7

\* The step that the task is at, counted in the freeze.
Position(t) == IF t.job = "freeze" THEN t.at ELSE t.at + 29

Runs(t) == t.job # "none" /\ t.result = "none"

TaskShape(t) ==
    /\ t = [job |-> t.job, at |-> t.at, commit |-> t.commit, saw |-> t.saw, docs |-> t.docs,
            disturbed |-> t.disturbed, result |-> t.result]
    /\ t.job \in {"none", "freeze", "verify"} /\ t.at \in Nat
    /\ t.job = "freeze" => t.at \in 1..55
    /\ t.job = "verify" => t.at \in 1..26

\* The task goes on to its next step, with this commit.
Moves(t, u, c) ==
    /\ TaskShape(u) /\ Runs(t) /\ Runs(u)
    /\ u.job = t.job /\ u.disturbed = t.disturbed /\ u.commit = c
    /\ Position(t) \in 1..54 /\ Position(u) = Position(t) + 1

\* With these inputs and these documents.
Steps(t, u, c, saw, docs) == Moves(t, u, c) /\ u.saw = saw /\ u.docs = docs

Ends(t, u, result) ==
    /\ TaskShape(u) /\ Runs(t) /\ u.job = t.job /\ u.disturbed = t.disturbed /\ u.commit = t.commit
    /\ u.result = result

\* The script of either job, by position.
LEMMA StepIs ==
    ASSUME TaskShape(task), Handoff!Running
    PROVE  /\ Runs(task) /\ Position(task) \in 1..55
           /\ Handoff!Step = Handoff!FreezeScript[Position(task)]
           /\ Handoff!Verifying <=> Position(task) > 29
  <1>1. CASE task.job = "freeze"
    <2>1. Handoff!Script(task.job) = Handoff!FreezeScript
      BY <1>1 DEF Handoff!Script
    <2>2. Len(Handoff!FreezeScript) = 55 /\ Len(Handoff!VerifyScript) = 26
      BY FreezeScriptIs, VerifyScriptIs
    <2>3. Position(task) = task.at /\ task.at \in 1..55
      BY <1>1 DEF Position, TaskShape
    <2> QED BY <2>1, <2>2, <2>3 DEF Handoff!Step, Handoff!Verifying, Handoff!Running, Runs
  <1>2. CASE task.job # "freeze"
    <2>1. task.job = "verify"
      BY <1>2 DEF TaskShape, Handoff!Running
    <2>2. Handoff!Script(task.job) = Handoff!VerifyScript
      BY <2>1 DEF Handoff!Script
    <2>3. Len(Handoff!VerifyScript) = 26
      BY VerifyScriptIs
    <2>4. Position(task) = task.at + 29 /\ task.at \in 1..26 /\ task.at \in Nat
      BY <2>1 DEF Position, TaskShape
    <2>5. Position(task) \in 30..55 /\ Position(task) - 29 = task.at
      BY <2>4
    <2>6. Handoff!FreezeScript[Position(task)] = Handoff!VerifyScript[task.at]
      BY <2>5, FreezeScriptIs
    <2>7. (task.at > 26 - 26) <=> (Position(task) > 29)
      BY <2>4, <2>5
    <2> QED BY <2>2, <2>3, <2>5, <2>6, <2>7 DEF Handoff!Step, Handoff!Verifying, Handoff!Running, Runs
  <1> QED BY <1>1, <1>2

\* The command of an action is one of the script.
LEMMA CommandIs ==
    ASSUME TaskShape(task), NEW op, Handoff!At(op)
    PROVE  /\ Runs(task) /\ Position(task) \in 1..55
           /\ Command(Position(task), op, Handoff!Step.on)
           /\ Handoff!Verifying <=> Position(task) > 29
  <1>1. Handoff!Running /\ Handoff!Step.op = op
    BY DEF Handoff!At
  <1>2. Position(task) \in 1..55 /\ Handoff!Step = Handoff!FreezeScript[Position(task)]
    BY <1>1, StepIs
  <1> QED BY <1>1, <1>2, StepIs, CommandAt

LEMMA Advances ==
    ASSUME NEW t, TaskShape(t), Runs(t), Handoff!Advance(t)
    PROVE  /\ Position(t) \in 1..55
           /\ Position(t) = 55 => Ends(t, task', "verified")
           /\ Position(t) # 55 => Steps(t, task', t.commit, t.saw, t.docs)
  <1>1. t.job = "freeze" \/ t.job = "verify"
    BY DEF TaskShape, Runs
  <1>2. Len(Handoff!FreezeScript) = 55 /\ Len(Handoff!VerifyScript) = 26
    BY FreezeScriptIs, VerifyScriptIs
  <1> DEFINE last == IF t.job = "freeze" THEN 55 ELSE 26
  <1>3. Len(Handoff!Script(t.job)) = last
    BY <1>1, <1>2 DEF Handoff!Script
  <1>4. Position(t) \in 1..55 /\ (t.at = last <=> Position(t) = 55) /\ t.at \in 1..last
    BY <1>1 DEF TaskShape, Position
  <1>5. CASE t.at = last
    <2>1. task' = [t EXCEPT !.result = "verified", !.saw = <<>>, !.docs = <<>>]
      BY <1>3, <1>5 DEF Handoff!Advance
    <2>2. task' = [job |-> t.job, at |-> t.at, commit |-> t.commit, saw |-> <<>>, docs |-> <<>>,
                   disturbed |-> t.disturbed, result |-> "verified"]
      BY <2>1 DEF TaskShape
    <2>3. TaskShape(task')
      BY <2>2 DEF TaskShape
    <2> QED BY <1>4, <1>5, <2>2, <2>3 DEF Ends
  <1>6. CASE t.at # last
    <2>1. task' = [t EXCEPT !.at = @ + 1]
      BY <1>3, <1>6 DEF Handoff!Advance
    <2>2. task' = [job |-> t.job, at |-> t.at + 1, commit |-> t.commit, saw |-> t.saw, docs |-> t.docs,
                   disturbed |-> t.disturbed, result |-> t.result]
      BY <2>1 DEF TaskShape
    <2>3. t.at + 1 \in 1..last /\ t.at + 1 \in Nat
      BY <1>4, <1>6
    <2>4. TaskShape(task')
      BY <1>1, <2>2, <2>3 DEF TaskShape
    <2>5. Position(t) \in 1..54 /\ Position(task') = Position(t) + 1
      BY <1>1, <1>4, <1>6, <2>2 DEF Position, TaskShape
    <2> QED BY <1>4, <1>6, <2>2, <2>4, <2>5 DEF Steps, Moves, Runs
  <1> QED BY <1>4, <1>5, <1>6

LEMMA Refused ==
    ASSUME TaskShape(task), Runs(task), Handoff!Refuse
    PROVE  Ends(task, task', "refused")
  <1>1. task' = [job |-> task.job, at |-> task.at, commit |-> task.commit, saw |-> <<>>, docs |-> <<>>,
                 disturbed |-> task.disturbed, result |-> "refused"]
    BY DEF Handoff!Refuse, TaskShape
  <1>2. TaskShape(task')
    BY <1>1 DEF TaskShape
  <1> QED BY <1>1, <1>2 DEF Ends

----------------------------------------------------------------------------
(* What each action does, by position.                                     *)

Surroundings == <<tree, commits, folder, litter, disturbances>>

LEMMA CheckCleanDoes ==
    ASSUME TaskShape(task), Handoff!CheckClean
    PROVE  /\ Position(task) = 1 /\ UNCHANGED Surroundings
           /\ \/ Steps(task, task', task.commit, task.saw, task.docs)
              \/ tree # Handoff!Last(commits) /\ Ends(task, task', "refused")
  <1>1. Handoff!At("clean") /\ Handoff!Require(tree = Handoff!Last(commits), task) /\ UNCHANGED Surroundings
    BY DEF Handoff!CheckClean, Surroundings
  <1>2. Runs(task) /\ Position(task) \in 1..55 /\ Command(Position(task), "clean", Handoff!Step.on)
    BY <1>1, CommandIs
  <1>3. Position(task) = 1
    BY <1>2 DEF Command
  <1>4. CASE tree = Handoff!Last(commits)
    <2>1. Handoff!Advance(task)
      BY <1>1, <1>4 DEF Handoff!Require
    <2> QED BY <1>1, <1>2, <1>3, <2>1, Advances
  <1>5. CASE tree # Handoff!Last(commits)
    <2>1. Handoff!Refuse
      BY <1>1, <1>5 DEF Handoff!Require
    <2> QED BY <1>1, <1>2, <1>3, <1>5, <2>1, Refused
  <1> QED BY <1>4, <1>5

LEMMA CheckCommittedDoes ==
    ASSUME TaskShape(task), Handoff!CheckCommitted
    PROVE  \E on : /\ Command(Position(task), "committed", on) /\ Position(task) \in 1..55
                   /\ UNCHANGED Surroundings
                   /\ \/ /\ tree[on] = commits[task.commit][on]
                         /\ \/ Steps(task, task', task.commit, task.saw, task.docs)
                            \/ Position(task) = 55 /\ Ends(task, task', "verified")
                      \/ tree[on] # commits[task.commit][on] /\ Ends(task, task', "refused")
  <1> DEFINE on == Handoff!Step.on
  <1>1. Handoff!At("committed") /\ Handoff!Require(tree[on] = commits[task.commit][on], task)
        /\ UNCHANGED Surroundings
    BY DEF Handoff!CheckCommitted, Surroundings
  <1>2. Runs(task) /\ Position(task) \in 1..55 /\ Command(Position(task), "committed", on)
    BY <1>1, CommandIs
  <1> HIDE DEF on
  <1>3. CASE tree[on] = commits[task.commit][on]
    <2>1. Handoff!Advance(task)
      BY <1>1, <1>3 DEF Handoff!Require
    <2> QED BY <1>1, <1>2, <1>3, <2>1, Advances
  <1>4. CASE tree[on] # commits[task.commit][on]
    <2>1. Handoff!Refuse
      BY <1>1, <1>4 DEF Handoff!Require
    <2> QED BY <1>1, <1>2, <1>4, <2>1, Refused
  <1> QED BY <1>3, <1>4

LEMMA CheckFolderDoes ==
    ASSUME TaskShape(task), Handoff!CheckFolder
    PROVE  /\ Position(task) = 7 /\ UNCHANGED Surroundings
           /\ \/ litter = {} /\ Steps(task, task', task.commit, task.saw, task.docs)
              \/ ~ Handoff!Closed /\ ~ (folder = <<>> /\ litter = {}) /\ Ends(task, task', "refused")
  <1> DEFINE good == Handoff!Closed \/ (folder = <<>> /\ litter = {})
  <1>1. Handoff!At("closed") /\ Handoff!Require(good, task) /\ UNCHANGED Surroundings
    BY DEF Handoff!CheckFolder, Surroundings
  <1>2. Runs(task) /\ Position(task) \in 1..55 /\ Command(Position(task), "closed", Handoff!Step.on)
    BY <1>1, CommandIs
  <1>3. Position(task) = 7
    BY <1>2 DEF Command
  <1>4. good => litter = {}
    BY DEF Handoff!Closed
  <1>5. good \/ (~ Handoff!Closed /\ ~ (folder = <<>> /\ litter = {}))
    OBVIOUS
  <1> HIDE DEF good
  <1>6. CASE good
    <2>1. Handoff!Advance(task)
      BY <1>1, <1>6 DEF Handoff!Require
    <2> QED BY <1>1, <1>2, <1>3, <1>4, <1>6, <2>1, Advances
  <1>7. CASE ~ good
    <2>1. Handoff!Refuse
      BY <1>1, <1>7 DEF Handoff!Require
    <2> QED BY <1>1, <1>2, <1>3, <1>5, <1>7, <2>1, Refused
  <1> QED BY <1>6, <1>7

\* A task with other inputs, documents or commit is still at its step.
LEMMA Replaced ==
    ASSUME TaskShape(task), Runs(task), NEW c, NEW saw, NEW docs, NEW t,
           t = [job |-> task.job, at |-> task.at, commit |-> c, saw |-> saw, docs |-> docs,
                disturbed |-> task.disturbed, result |-> task.result]
    PROVE  /\ TaskShape(t) /\ Runs(t) /\ Position(t) = Position(task)
           /\ t.commit = c /\ t.saw = saw /\ t.docs = docs /\ t.job = task.job /\ t.disturbed = task.disturbed
  BY DEF TaskShape, Runs, Position

LEMMA GoesOn ==
    ASSUME TaskShape(task), Runs(task), Position(task) # 55, NEW c, NEW saw, NEW docs,
           Handoff!Advance([job |-> task.job, at |-> task.at, commit |-> c, saw |-> saw, docs |-> docs,
                            disturbed |-> task.disturbed, result |-> task.result])
    PROVE  Steps(task, task', c, saw, docs)
  <1> DEFINE t == [job |-> task.job, at |-> task.at, commit |-> c, saw |-> saw, docs |-> docs,
                   disturbed |-> task.disturbed, result |-> task.result]
  <1>1. /\ TaskShape(t) /\ Runs(t) /\ Position(t) = Position(task)
        /\ t.commit = c /\ t.saw = saw /\ t.docs = docs /\ t.job = task.job /\ t.disturbed = task.disturbed
    BY Replaced
  <1>2. Handoff!Advance(t)
    OBVIOUS
  <1> HIDE DEF t
  <1>3. Steps(t, task', c, saw, docs)
    BY <1>1, <1>2, Advances
  <1> QED BY <1>1, <1>3 DEF Steps, Moves

LEMMA ReadInputDoes ==
    ASSUME TaskShape(task), Handoff!ReadInput
    PROVE  \E on : /\ Command(Position(task), "read", on) /\ Position(task) \in 1..55
                   /\ UNCHANGED Surroundings
                   /\ Steps(task, task', task.commit, Handoff!Extended(task.saw, on, tree[on]), task.docs)
  <1> DEFINE on == Handoff!Step.on
             saw == Handoff!Extended(task.saw, on, tree[on])
  <1>1. Handoff!At("read") /\ Handoff!Advance([task EXCEPT !.saw = saw]) /\ UNCHANGED Surroundings
    BY DEF Handoff!ReadInput, Surroundings
  <1>2. Runs(task) /\ Position(task) \in 1..55 /\ Command(Position(task), "read", on)
    BY <1>1, CommandIs
  <1>3. Position(task) # 55
    BY <1>2 DEF Command
  <1>4. [task EXCEPT !.saw = saw]
          = [job |-> task.job, at |-> task.at, commit |-> task.commit, saw |-> saw, docs |-> task.docs,
             disturbed |-> task.disturbed, result |-> task.result]
    BY DEF TaskShape
  <1>5. Steps(task, task', task.commit, saw, task.docs)
    <2> HIDE DEF saw
    <2> QED BY <1>1, <1>2, <1>3, <1>4, GoesOn
  <1> HIDE DEF on
  <1> QED BY <1>1, <1>2, <1>5

LEMMA MatchReplayDoes ==
    ASSUME TaskShape(task), Handoff!MatchReplay
    PROVE  /\ (Position(task) = 11 \/ Position(task) = 37) /\ UNCHANGED Surroundings
           /\ \/ Steps(task, task', task.commit, task.saw, task.docs)
              \/ tree["trace"] # task.saw["manifest"] /\ Ends(task, task', "refused")
  <1>1. Handoff!At("match") /\ Handoff!Require(tree["trace"] = task.saw["manifest"], task)
        /\ UNCHANGED Surroundings
    BY DEF Handoff!MatchReplay, Surroundings
  <1>2. Runs(task) /\ Position(task) \in 1..55 /\ Command(Position(task), "match", Handoff!Step.on)
    BY <1>1, CommandIs
  <1>3. Position(task) = 11 \/ Position(task) = 37
    BY <1>2 DEF Command
  <1>4. CASE tree["trace"] = task.saw["manifest"]
    <2>1. Handoff!Advance(task)
      BY <1>1, <1>4 DEF Handoff!Require
    <2> QED BY <1>1, <1>2, <1>3, <2>1, Advances
  <1>5. CASE tree["trace"] # task.saw["manifest"]
    <2>1. Handoff!Refuse
      BY <1>1, <1>5 DEF Handoff!Require
    <2> QED BY <1>1, <1>2, <1>3, <1>5, <2>1, Refused
  <1> QED BY <1>4, <1>5

\* What the freeze writes as file f.
Written(f, c, saw, docs, fo) ==
    IF f = "bundle" THEN Handoff!BundleManifest(c, fo) ELSE Handoff!Document(f, c, saw, docs)

LEMMA StageDoes ==
    ASSUME TaskShape(task), Handoff!Stage
    PROVE  \E on : /\ Command(Position(task), "stage", on) /\ Position(task) \in 1..55
                   /\ tree' = tree /\ commits' = commits /\ folder' = folder /\ litter' = litter \cup {on}
                   /\ Steps(task, task', task.commit, task.saw,
                            Handoff!Extended(task.docs, on,
                                Written(on, task.commit, task.saw, task.docs, folder)))
  <1> DEFINE on == Handoff!Step.on
             docs == Handoff!Extended(task.docs, on, Written(on, task.commit, task.saw, task.docs, folder))
  <1>1. Handoff!At("stage") /\ Handoff!Advance([task EXCEPT !.docs = docs])
        /\ tree' = tree /\ commits' = commits /\ folder' = folder /\ litter' = litter \cup {on}
    BY DEF Handoff!Stage, Written
  <1>2. Runs(task) /\ Position(task) \in 1..55 /\ Command(Position(task), "stage", on)
    BY <1>1, CommandIs
  <1>3. Position(task) # 55
    BY <1>2 DEF Command
  <1>4. [task EXCEPT !.docs = docs]
          = [job |-> task.job, at |-> task.at, commit |-> task.commit, saw |-> task.saw, docs |-> docs,
             disturbed |-> task.disturbed, result |-> task.result]
    BY DEF TaskShape
  <1>5. Steps(task, task', task.commit, task.saw, docs)
    <2> HIDE DEF docs
    <2> QED BY <1>1, <1>2, <1>3, <1>4, GoesOn
  <1> HIDE DEF on
  <1> QED BY <1>1, <1>2, <1>5

LEMMA RenameDoes ==
    ASSUME TaskShape(task), Handoff!Rename
    PROVE  \E on : /\ Command(Position(task), "rename", on) /\ Position(task) \in 1..55
                   /\ tree' = tree /\ commits' = commits /\ litter' = litter \ {on}
                   /\ folder' = Handoff!Extended(folder, on, task.docs[on])
                   /\ Steps(task, task', task.commit, task.saw, task.docs)
  <1> DEFINE on == Handoff!Step.on
  <1>1. Handoff!At("rename") /\ Handoff!Advance(task) /\ tree' = tree /\ commits' = commits
        /\ litter' = litter \ {on} /\ folder' = Handoff!Extended(folder, on, task.docs[on])
    BY DEF Handoff!Rename
  <1>2. Runs(task) /\ Position(task) \in 1..55 /\ Command(Position(task), "rename", on)
    BY <1>1, CommandIs
  <1>3. Position(task) # 55
    BY <1>2 DEF Command
  <1>4. Steps(task, task', task.commit, task.saw, task.docs)
    BY <1>1, <1>2, <1>3, Advances
  <1> HIDE DEF on
  <1> QED BY <1>1, <1>2, <1>4

\* The files are the seven, and the manifest has their hashes.
Matches(fo, li) ==
    /\ DOMAIN fo = Everything /\ li = {}
    /\ \A f \in DerivedFiles : fo["bundle"].files[f] = fo[f]

LEMMA Restarted ==
    ASSUME NEW t, TaskShape(t), NEW c, NEW a, NEW b
    PROVE  [t EXCEPT !.commit = c, !.saw = a, !.docs = b]
             = [job |-> t.job, at |-> t.at, commit |-> c, saw |-> a, docs |-> b,
                disturbed |-> t.disturbed, result |-> t.result]
  <1> DEFINE u == [t EXCEPT !.commit = c]
             v == [u EXCEPT !.saw = a]
             w == [v EXCEPT !.docs = b]
  <1>1. [t EXCEPT !.commit = c, !.saw = a, !.docs = b] = w
    BY DEF TaskShape
  <1>2. u = [job |-> t.job, at |-> t.at, commit |-> c, saw |-> t.saw, docs |-> t.docs,
             disturbed |-> t.disturbed, result |-> t.result]
    BY DEF TaskShape
  <1> HIDE DEF u
  <1>3. v = [job |-> t.job, at |-> t.at, commit |-> c, saw |-> a, docs |-> t.docs,
             disturbed |-> t.disturbed, result |-> t.result]
    BY <1>2
  <1> HIDE DEF v
  <1>4. w = [job |-> t.job, at |-> t.at, commit |-> c, saw |-> a, docs |-> b,
             disturbed |-> t.disturbed, result |-> t.result]
    BY <1>3
  <1> HIDE DEF w
  <1> QED BY <1>1, <1>4

LEMMA CheckInventoryDoes ==
    ASSUME TaskShape(task), Handoff!CheckInventory
    PROVE  /\ Position(task) = 30 /\ UNCHANGED Surroundings
           /\ \/ Matches(folder, litter) /\ Steps(task, task', folder["bundle"].commit, <<>>, <<>>)
              \/ ~ Matches(folder, litter) /\ Ends(task, task', "refused")
  <1> DEFINE good == Handoff!Closed
                     /\ \A f \in Handoff!ToSet(Handoff!Derived) : folder["bundle"].files[f] = folder[f]
             c == IF Handoff!Closed THEN folder["bundle"].commit ELSE task.commit
  <1>1. Handoff!At("inventory") /\ UNCHANGED Surroundings
        /\ Handoff!Require(good, [task EXCEPT !.commit = c, !.saw = <<>>, !.docs = <<>>])
    BY DEF Handoff!CheckInventory, Surroundings
  <1>2. Runs(task) /\ Position(task) \in 1..55 /\ Command(Position(task), "inventory", Handoff!Step.on)
    BY <1>1, CommandIs
  <1>3. Position(task) = 30
    BY <1>2 DEF Command
  <1>4. good <=> Matches(folder, litter)
    BY FilesAre DEF Matches, Handoff!Closed
  <1>5. good => c = folder["bundle"].commit
    OBVIOUS
  <1> HIDE DEF good, c
  <1>6. [task EXCEPT !.commit = c, !.saw = <<>>, !.docs = <<>>]
          = [job |-> task.job, at |-> task.at, commit |-> c, saw |-> <<>>, docs |-> <<>>,
             disturbed |-> task.disturbed, result |-> task.result]
    BY Restarted
  <1>7. CASE good
    <2>1. Handoff!Advance([task EXCEPT !.commit = c, !.saw = <<>>, !.docs = <<>>])
      BY <1>1, <1>7 DEF Handoff!Require
    <2>2. Steps(task, task', c, <<>>, <<>>)
      BY <1>2, <1>3, <1>6, <2>1, GoesOn
    <2> QED BY <1>1, <1>3, <1>4, <1>5, <1>7, <2>2
  <1>8. CASE ~ good
    <2>1. Handoff!Refuse
      BY <1>1, <1>8 DEF Handoff!Require
    <2> QED BY <1>1, <1>2, <1>3, <1>4, <1>8, <2>1, Refused
  <1> QED BY <1>7, <1>8

LEMMA LoadDocumentDoes ==
    ASSUME TaskShape(task), Handoff!LoadDocument
    PROVE  \E on : /\ Command(Position(task), "load", on) /\ Position(task) \in 1..55
                   /\ UNCHANGED Surroundings
                   /\ Steps(task, task', task.commit, task.saw, Handoff!Extended(task.docs, on, folder[on]))
  <1> DEFINE on == Handoff!Step.on
             docs == Handoff!Extended(task.docs, on, folder[on])
  <1>1. Handoff!At("load") /\ Handoff!Advance([task EXCEPT !.docs = docs]) /\ UNCHANGED Surroundings
    BY DEF Handoff!LoadDocument, Surroundings
  <1>2. Runs(task) /\ Position(task) \in 1..55 /\ Command(Position(task), "load", on)
    BY <1>1, CommandIs
  <1>3. Position(task) # 55
    BY <1>2 DEF Command
  <1>4. [task EXCEPT !.docs = docs]
          = [job |-> task.job, at |-> task.at, commit |-> task.commit, saw |-> task.saw, docs |-> docs,
             disturbed |-> task.disturbed, result |-> task.result]
    BY DEF TaskShape
  <1>5. Steps(task, task', task.commit, task.saw, docs)
    <2> HIDE DEF docs
    <2> QED BY <1>1, <1>2, <1>3, <1>4, GoesOn
  <1> HIDE DEF on
  <1> QED BY <1>1, <1>2, <1>5

LEMMA DeriveDoes ==
    ASSUME TaskShape(task), Handoff!Derive
    PROVE  \E on : /\ Command(Position(task), "derive", on) /\ Position(task) \in 1..55
                   /\ UNCHANGED Surroundings
                   /\ \/ /\ task.docs[on] = Handoff!Document(on, task.commit, task.saw, task.docs)
                         /\ Steps(task, task', task.commit, task.saw, task.docs)
                      \/ /\ task.docs[on] # Handoff!Document(on, task.commit, task.saw, task.docs)
                         /\ Ends(task, task', "refused")
  <1> DEFINE on == Handoff!Step.on
             good == task.docs[on] = Handoff!Document(on, task.commit, task.saw, task.docs)
  <1>1. Handoff!At("derive") /\ Handoff!Require(good, task) /\ UNCHANGED Surroundings
    BY DEF Handoff!Derive, Handoff!Reproduces, Surroundings
  <1>2. Runs(task) /\ Position(task) \in 1..55 /\ Command(Position(task), "derive", on)
    BY <1>1, CommandIs
  <1>3. Position(task) # 55
    BY <1>2 DEF Command
  <1>4. CASE good
    <2>1. Handoff!Advance(task)
      BY <1>1, <1>4 DEF Handoff!Require
    <2>2. Steps(task, task', task.commit, task.saw, task.docs)
      BY <1>2, <1>3, <2>1, Advances
    <2> HIDE DEF on
    <2> QED BY <1>1, <1>2, <1>4, <2>2
  <1>5. CASE ~ good
    <2>1. Handoff!Refuse
      BY <1>1, <1>5 DEF Handoff!Require
    <2>2. Ends(task, task', "refused")
      BY <1>2, <2>1, Refused
    <2> HIDE DEF on
    <2> QED BY <1>1, <1>2, <1>5, <2>2
  <1> QED BY <1>4, <1>5

----------------------------------------------------------------------------
(* What is known at each position.  Position 30 begins the verification,   *)
(* which reads everything again.                                           *)

Since(p, first, again) == (first <= p /\ p < 31) \/ again <= p
Sees(held, now, x) == x \in DOMAIN held /\ held[x] = now[x]

\* The inputs as they were read are the ones of the tree.
InputsSeen(p, saw, tr) ==
    /\ Since(p, 9, 35) => Sees(saw, tr, "generators")
    /\ Since(p, 10, 36) => Sees(saw, tr, "trace")
    /\ Since(p, 11, 37) => Sees(saw, tr, "manifest")
    /\ Since(p, 19, 43) => Sees(saw, tr, "protocol")
    /\ Since(p, 21, 45) => Sees(saw, tr, "evidence")

\* The documents that were written or loaded are the ones of the directory.
DocsHeld(p, docs, fo) ==
    /\ Since(p, 14, 32) => Sees(docs, fo, "v1")
    /\ Since(p, 16, 33) => Sees(docs, fo, "v2")
    /\ Since(p, 18, 34) => Sees(docs, fo, "v3")
    /\ Since(p, 23, 42) => Sees(docs, fo, "index")
    /\ Since(p, 26, 47) => Sees(docs, fo, "plan")
    /\ Since(p, 28, 50) => Sees(docs, fo, "ledger")

\* File f is what the commit c, the inputs and the other files give.
Genuine(f, c, tr, fo) == f \in DOMAIN fo /\ fo[f] = Handoff!Document(f, c, tr, fo)

\* The documents that the verification has derived again.
DocsDerived(p, c, tr, fo) ==
    /\ 39 <= p => Genuine("v1", c, tr, fo)
    /\ 40 <= p => Genuine("v2", c, tr, fo)
    /\ 41 <= p => Genuine("v3", c, tr, fo)
    /\ 46 <= p => Genuine("index", c, tr, fo)
    /\ 49 <= p => Genuine("plan", c, tr, fo)
    /\ 51 <= p => Genuine("ledger", c, tr, fo)

\* The documents that an undisturbed freeze has written.
DocsWritten(p, c, tr, fo) ==
    /\ 14 <= p => Genuine("v1", c, tr, fo)
    /\ 16 <= p => Genuine("v2", c, tr, fo)
    /\ 18 <= p => Genuine("v3", c, tr, fo)
    /\ 23 <= p => Genuine("index", c, tr, fo)
    /\ 26 <= p => Genuine("plan", c, tr, fo)
    /\ 28 <= p => Genuine("ledger", c, tr, fo)

InputsCommitted(p, tr, cm) ==
    /\ 52 <= p => tr["protocol"] = cm["protocol"]
    /\ 53 <= p => tr["generators"] = cm["generators"]
    /\ 54 <= p => tr["trace"] = cm["trace"]
    /\ 55 <= p => tr["manifest"] = cm["manifest"]

\* The inventory was right, and the commit is the one that it names.
Inventoried(p, c, fo, li) == 31 <= p => Matches(fo, li) /\ c = fo["bundle"].commit

\* File f is staged.
Staged(f, c, tr, docs, fo, li) ==
    /\ li = {f} /\ f \in DOMAIN docs
    /\ docs[f] = Written(f, c, tr, fo, fo)

\* The file that an undisturbed freeze is writing, and its manifest.
Writes(p, c, tr, docs, fo, li) ==
    /\ 8 <= p /\ p # 13 /\ p # 15 /\ p # 17 /\ p # 22 /\ p # 25 /\ p # 27 /\ p # 29 => li = {}
    /\ p = 13 => Staged("v1", c, tr, docs, fo, li)
    /\ p = 15 => Staged("v2", c, tr, docs, fo, li)
    /\ p = 17 => Staged("v3", c, tr, docs, fo, li)
    /\ p = 22 => Staged("index", c, tr, docs, fo, li)
    /\ p = 25 => Staged("plan", c, tr, docs, fo, li)
    /\ p = 27 => Staged("ledger", c, tr, docs, fo, li)
    /\ p = 29 => Staged("bundle", c, tr, docs, fo, li)
    /\ 30 <= p => "bundle" \in DOMAIN fo /\ fo["bundle"] = Handoff!BundleManifest(c, fo)

Fresh(t) == t.job = "freeze" /\ t.disturbed = "no"

\* Nothing has changed behind the task's back that it still relies on.
Quiet(t) == Runs(t) /\ t.disturbed # "during" /\ (Position(t) > 30 \/ Fresh(t))

Knows(t, tr, cm, fo, li) ==
    LET p == Position(t)
    IN  /\ InputsSeen(p, t.saw, tr)
        /\ DocsHeld(p, t.docs, fo)
        /\ DocsDerived(p, t.commit, tr, fo)
        /\ InputsCommitted(p, tr, cm)
        /\ Inventoried(p, t.commit, fo, li)
        /\ Fresh(t) => DocsWritten(p, t.commit, tr, fo) /\ Writes(p, t.commit, tr, t.docs, fo, li)

ManifestOf(b, cs) ==
    /\ b.commit \in DOMAIN cs
    /\ b = [commit |-> b.commit, files |-> [f \in DerivedFiles |-> b.files[f]]]

Trees == [InputFiles -> Versions]

HandoffTyped(tr, cs, fo, t) ==
    /\ tr \in Trees /\ cs \in Seq(Trees)
    /\ fo = [f \in DOMAIN fo |-> fo[f]] /\ DOMAIN fo \subseteq Everything
    /\ "bundle" \in DOMAIN fo => ManifestOf(fo["bundle"], cs)
    /\ TaskShape(t)
    /\ Runs(t) /\ (t.job = "freeze" \/ Position(t) > 30) => t.commit \in DOMAIN cs
    /\ Runs(t) /\ Position(t) = 29 => "bundle" \in DOMAIN t.docs /\ ManifestOf(t.docs["bundle"], cs)

HandoffInv ==
    /\ HandoffTyped(tree, commits, folder, task)
    /\ Quiet(task) => Knows(task, tree, commits[task.commit], folder, litter)
    /\ Handoff!BoundToCommit /\ Handoff!FreezeRepairs

----------------------------------------------------------------------------

LEMMA SeesMore ==
    ASSUME NEW f, NEW x, NEW v, NEW now
    PROVE  /\ v = now[x] => Sees(Handoff!Extended(f, x, v), now, x)
           /\ \A y : y # x /\ Sees(f, now, y) => Sees(Handoff!Extended(f, x, v), now, y)
  BY DEF Sees, Handoff!Extended

\* What a document is derived from.
Ready(f, saw, docs, tr, fo) ==
    /\ f \in {"v1", "v2", "v3"} =>
          saw["generators"] = tr["generators"] /\ saw["trace"] = tr["trace"] /\ saw["manifest"] = tr["manifest"]
    /\ f = "index" =>
          /\ saw["protocol"] = tr["protocol"] /\ saw["manifest"] = tr["manifest"]
          /\ saw["evidence"] = tr["evidence"]
          /\ docs["v1"] = fo["v1"] /\ docs["v2"] = fo["v2"] /\ docs["v3"] = fo["v3"]
    /\ f = "plan" =>
          /\ saw["protocol"] = tr["protocol"] /\ docs["index"] = fo["index"]
          /\ docs["v1"] = fo["v1"] /\ docs["v2"] = fo["v2"] /\ docs["v3"] = fo["v3"]
    /\ f = "ledger" => docs["plan"] = fo["plan"] /\ docs["index"] = fo["index"]

LEMMA DocumentIs ==
    ASSUME NEW c, NEW saw, NEW docs
    PROVE  /\ \A f \in {"v1", "v2", "v3"} : Handoff!Document(f, c, saw, docs) = Handoff!Anchor(f, saw)
           /\ Handoff!Document("index", c, saw, docs) = Handoff!EvidenceIndex(c, saw, docs)
           /\ Handoff!Document("plan", c, saw, docs) = Handoff!CampaignPlan(c, saw, docs)
           /\ Handoff!Document("ledger", c, saw, docs) = Handoff!LedgerF0(docs)
  BY FilesAre DEF Handoff!Document

LEMMA DocumentAgrees ==
    ASSUME NEW f \in DerivedFiles, NEW c, NEW saw, NEW docs, NEW tr, NEW fo, Ready(f, saw, docs, tr, fo)
    PROVE  Handoff!Document(f, c, saw, docs) = Handoff!Document(f, c, tr, fo)
  <1>1. CASE f \in {"v1", "v2", "v3"}
    BY <1>1, DocumentIs DEF Ready, Handoff!Anchor
  <1> DEFINE D == [a \in {"v1", "v2", "v3"} |-> docs[a]]
             E == [a \in {"v1", "v2", "v3"} |-> fo[a]]
  <1>2. docs["v1"] = fo["v1"] /\ docs["v2"] = fo["v2"] /\ docs["v3"] = fo["v3"] => D = E
    OBVIOUS
  <1>3. CASE f = "index"
    <2>1. D = E
      BY <1>2, <1>3 DEF Ready
    <2> HIDE DEF D, E
    <2>2. /\ Handoff!EvidenceIndex(c, saw, docs)
               = [commit |-> c, protocol |-> saw["protocol"], anchors |-> D,
                  artifacts |-> <<saw["manifest"], saw["evidence"]>>]
          /\ Handoff!EvidenceIndex(c, tr, fo)
               = [commit |-> c, protocol |-> tr["protocol"], anchors |-> E,
                  artifacts |-> <<tr["manifest"], tr["evidence"]>>]
      BY FilesAre DEF Handoff!EvidenceIndex, D, E
    <2> QED BY <1>3, <2>1, <2>2, DocumentIs DEF Ready
  <1>4. CASE f = "plan"
    <2>1. D = E
      BY <1>2, <1>4 DEF Ready
    <2> HIDE DEF D, E
    <2>2. /\ Handoff!CampaignPlan(c, saw, docs)
               = [commit |-> c, protocol |-> saw["protocol"], evidence |-> docs["index"], traces |-> D]
          /\ Handoff!CampaignPlan(c, tr, fo)
               = [commit |-> c, protocol |-> tr["protocol"], evidence |-> fo["index"], traces |-> E]
      BY FilesAre DEF Handoff!CampaignPlan, D, E
    <2> QED BY <1>4, <2>1, <2>2, DocumentIs DEF Ready
  <1>5. CASE f = "ledger"
    BY <1>5, DocumentIs DEF Ready, Handoff!LedgerF0
  <1> QED BY <1>1, <1>3, <1>4, <1>5 DEF DerivedFiles

\* The tables have an entry for each step, so that one that is taken at
\* another position leaves what they say.
LEMMA TablesStay ==
    ASSUME NEW p \in 1..54, NEW saw, NEW docs, NEW c, NEW tr, NEW cm, NEW fo, NEW li
    PROVE  /\ p \notin {8, 9, 10, 18, 20, 34, 35, 36, 42, 44} /\ InputsSeen(p, saw, tr)
                => InputsSeen(p + 1, saw, tr)
           /\ p \notin {13, 15, 17, 22, 25, 27, 31, 32, 33, 41, 46, 49} /\ DocsHeld(p, docs, fo)
                => DocsHeld(p + 1, docs, fo)
           /\ p \notin {38, 39, 40, 45, 48, 50} /\ DocsDerived(p, c, tr, fo) => DocsDerived(p + 1, c, tr, fo)
           /\ p \notin {13, 15, 17, 22, 25, 27} /\ DocsWritten(p, c, tr, fo) => DocsWritten(p + 1, c, tr, fo)
           /\ p \notin {51, 52, 53, 54} /\ InputsCommitted(p, tr, cm) => InputsCommitted(p + 1, tr, cm)
           /\ p # 30 /\ Inventoried(p, c, fo, li) => Inventoried(p + 1, c, fo, li)
           /\ p \notin {7, 12, 13, 14, 15, 16, 17, 21, 22, 24, 25, 26, 27, 28, 29}
              /\ Writes(p, c, tr, docs, fo, li) => Writes(p + 1, c, tr, docs, fo, li)
  <1>1. p \notin {8, 9, 10, 18, 20, 34, 35, 36, 42, 44} /\ InputsSeen(p, saw, tr)
          => InputsSeen(p + 1, saw, tr)
    BY DEF InputsSeen, Since
  <1>2. p \notin {13, 15, 17, 22, 25, 27, 31, 32, 33, 41, 46, 49} /\ DocsHeld(p, docs, fo)
          => DocsHeld(p + 1, docs, fo)
    BY DEF DocsHeld, Since
  <1>3. p \notin {38, 39, 40, 45, 48, 50} /\ DocsDerived(p, c, tr, fo) => DocsDerived(p + 1, c, tr, fo)
    BY DEF DocsDerived
  <1>7. p \notin {13, 15, 17, 22, 25, 27} /\ DocsWritten(p, c, tr, fo) => DocsWritten(p + 1, c, tr, fo)
    BY DEF DocsWritten
  <1>4. p \notin {51, 52, 53, 54} /\ InputsCommitted(p, tr, cm) => InputsCommitted(p + 1, tr, cm)
    BY DEF InputsCommitted
  <1>5. p # 30 /\ Inventoried(p, c, fo, li) => Inventoried(p + 1, c, fo, li)
    BY DEF Inventoried
  <1>6. p \notin {7, 12, 13, 14, 15, 16, 17, 21, 22, 24, 25, 26, 27, 28, 29}
        /\ Writes(p, c, tr, docs, fo, li) => Writes(p + 1, c, tr, docs, fo, li)
    BY DEF Writes
  <1> QED BY <1>1, <1>2, <1>3, <1>4, <1>5, <1>6, <1>7

----------------------------------------------------------------------------
(* What each step leaves true.                                             *)

LEMMA TypedStep ==
    ASSUME NEW tr, NEW cs, NEW fo, NEW t, NEW u, HandoffTyped(tr, cs, fo, t), Moves(t, u, t.commit), Position(t) # 28, Position(t) # 30
    PROVE  HandoffTyped(tr, cs, fo, u)
  <1>1. Runs(t) /\ TaskShape(u) /\ u.job = t.job /\ u.commit = t.commit /\ Position(t) \in 1..54
        /\ Position(u) = Position(t) + 1
    BY DEF Moves
  <1>2. Position(u) > 30 => Position(t) > 30
    BY <1>1
  <1>3. Position(u) # 29
    BY <1>1
  <1> QED BY <1>1, <1>2, <1>3 DEF HandoffTyped

LEMMA TypedEnd ==
    ASSUME NEW tr, NEW cs, NEW fo, NEW t, NEW u, NEW result, HandoffTyped(tr, cs, fo, t),
           Ends(t, u, result), result # "none"
    PROVE  HandoffTyped(tr, cs, fo, u) /\ ~ Quiet(u)
  BY DEF HandoffTyped, Ends, Runs, Quiet

\* A task that is quiet after a step, was.
LEMMA QuietBefore ==
    ASSUME NEW t, NEW u, Moves(t, u, u.commit), Quiet(u)
    PROVE  /\ Position(t) # 30 => Quiet(t)
           /\ Fresh(t) => Quiet(t)
           /\ Fresh(u) <=> Fresh(t)
           /\ Position(t) < 30 => Fresh(t)
  <1>1. Runs(t) /\ Position(t) \in 1..54 /\ Position(u) = Position(t) + 1
        /\ u.job = t.job /\ u.disturbed = t.disturbed
    BY DEF Moves
  <1>2. Fresh(u) <=> Fresh(t)
    BY <1>1 DEF Fresh
  <1>3. u.disturbed # "during" /\ (Position(u) > 30 \/ Fresh(u))
    BY DEF Quiet
  <1>4. Position(u) > 30 /\ Position(t) # 30 => Position(t) > 30
    BY <1>1
  <1>5. Position(t) < 30 => ~ (Position(u) > 30)
    BY <1>1
  <1> QED BY <1>1, <1>2, <1>3, <1>4, <1>5 DEF Quiet

\* A task that runs on has neither failed nor finished.
LEMMA StepKeepsInv ==
    ASSUME Moves(task, task', task'.commit),
           HandoffTyped(tree, commits, folder, task)',
           Quiet(task') => Knows(task', tree', commits'[task'.commit], folder', litter')
    PROVE  HandoffInv'
  <1>1. task'.result = "none"
    BY DEF Moves, Runs
  <1>2. Handoff!BoundToCommit' /\ Handoff!FreezeRepairs'
    BY <1>1 DEF Handoff!BoundToCommit, Handoff!FreezeRepairs
  <1> QED BY <1>2 DEF HandoffInv

\* What may make a freeze refuse.
Excused ==
    \/ tree # Handoff!Last(commits) \/ tree # commits[task.commit]
    \/ tree["trace"] # tree["manifest"]
    \/ ~ Handoff!Closed /\ ~ (folder = <<>> /\ litter = {})

LEMMA RefusalKeepsInv ==
    ASSUME HandoffInv, Ends(task, task', "refused"), UNCHANGED Surroundings,
           Fresh(task) => Excused
    PROVE  HandoffInv'
  <1>1. task'.result = "refused" /\ task'.job = task.job /\ task'.disturbed = task.disturbed
        /\ task'.commit = task.commit
    BY DEF Ends
  <1>2. HandoffTyped(tree, commits, folder, task') /\ ~ Quiet(task')
    BY TypedEnd DEF HandoffInv
  <1>3. tree' = tree /\ commits' = commits /\ folder' = folder /\ litter' = litter
    BY DEF Surroundings
  <1>4. Handoff!BoundToCommit'
    BY <1>1 DEF Handoff!BoundToCommit
  <1>5. Handoff!FreezeRepairs'
    <2>1. CASE Excused
      <3>1. Excused'
        BY <1>1, <1>3, <2>1 DEF Excused, Handoff!Closed
      <3> QED BY <3>1 DEF Excused, Handoff!FreezeRepairs
    <2>2. CASE ~ Fresh(task)
      BY <1>1, <2>2 DEF Fresh, Handoff!FreezeRepairs
    <2> QED BY <2>1, <2>2
  <1> QED BY <1>2, <1>3, <1>4, <1>5 DEF HandoffInv

LEMMA CleanKeeps ==
    ASSUME HandoffInv, Handoff!CheckClean
    PROVE  HandoffInv'
  <1>1. TaskShape(task)
    BY DEF HandoffInv, HandoffTyped
  <1>2. Position(task) = 1 /\ UNCHANGED Surroundings
    BY <1>1, CheckCleanDoes
  <1>3. tree' = tree /\ commits' = commits /\ folder' = folder /\ litter' = litter
    BY <1>2 DEF Surroundings
  <1>4. CASE Steps(task, task', task.commit, task.saw, task.docs)
    <2>1. HandoffTyped(tree, commits, folder, task')
      BY <1>2, <1>4, TypedStep DEF HandoffInv, Steps
    <2>2. Position(task') = 2
      BY <1>2, <1>4 DEF Steps, Moves
    <2>3. Knows(task', tree', commits'[task'.commit], folder', litter')
      BY <2>2 DEF Knows, InputsSeen, DocsHeld, DocsDerived, DocsWritten, InputsCommitted, Inventoried, Writes, Since
    <2> QED BY <1>3, <1>4, <2>1, <2>3, StepKeepsInv DEF Steps, Moves
  <1>5. CASE tree # Handoff!Last(commits) /\ Ends(task, task', "refused")
    BY <1>2, <1>5, RefusalKeepsInv DEF Excused
  <1> QED BY <1>1, <1>4, <1>5, CheckCleanDoes

LEMMA FolderKeeps ==
    ASSUME HandoffInv, Handoff!CheckFolder
    PROVE  HandoffInv'
  <1>1. TaskShape(task)
    BY DEF HandoffInv, HandoffTyped
  <1>2. Position(task) = 7 /\ UNCHANGED Surroundings
    BY <1>1, CheckFolderDoes
  <1>3. tree' = tree /\ commits' = commits /\ folder' = folder /\ litter' = litter
    BY <1>2 DEF Surroundings
  <1>4. CASE litter = {} /\ Steps(task, task', task.commit, task.saw, task.docs)
    <2>1. HandoffTyped(tree, commits, folder, task')
      BY <1>2, <1>4, TypedStep DEF HandoffInv, Steps
    <2>2. Position(task') = 8
      BY <1>2, <1>4 DEF Steps, Moves
    <2>3. Knows(task', tree', commits'[task'.commit], folder', litter')
      BY <1>3, <1>4, <2>2
      DEF Knows, InputsSeen, DocsHeld, DocsDerived, DocsWritten, InputsCommitted, Inventoried, Writes, Since
    <2> QED BY <1>3, <1>4, <2>1, <2>3, StepKeepsInv DEF Steps, Moves
  <1>5. CASE ~ Handoff!Closed /\ ~ (folder = <<>> /\ litter = {}) /\ Ends(task, task', "refused")
    BY <1>2, <1>5, RefusalKeepsInv DEF Excused
  <1> QED BY <1>1, <1>4, <1>5, CheckFolderDoes

LEMMA ReadKeeps ==
    ASSUME HandoffInv, Handoff!ReadInput
    PROVE  HandoffInv'
  <1>1. TaskShape(task)
    BY DEF HandoffInv, HandoffTyped
  <1>2. PICK on : /\ Command(Position(task), "read", on) /\ Position(task) \in 1..55
                  /\ UNCHANGED Surroundings
                  /\ Steps(task, task', task.commit, Handoff!Extended(task.saw, on, tree[on]), task.docs)
    BY <1>1, ReadInputDoes
  <1> DEFINE p == Position(task)
             saw == Handoff!Extended(task.saw, on, tree[on])
  <1>3. tree' = tree /\ commits' = commits /\ folder' = folder /\ litter' = litter
    BY <1>2 DEF Surroundings
  <1>4. \/ (p = 8 \/ p = 34) /\ on = "generators"
        \/ (p = 9 \/ p = 35) /\ on = "trace"
        \/ (p = 10 \/ p = 36) /\ on = "manifest"
        \/ (p = 18 \/ p = 23 \/ p = 42 \/ p = 47) /\ on = "protocol"
        \/ (p = 19 \/ p = 43) /\ on = "manifest"
        \/ (p = 20 \/ p = 44) /\ on = "evidence"
    BY <1>2 DEF Command
  <1>5. p # 28 /\ p # 30 /\ p \in 1..54
    BY <1>4
  <1>6. HandoffTyped(tree, commits, folder, task')
    BY <1>2, <1>5, TypedStep DEF HandoffInv, Steps
  <1>7. /\ Position(task') = p + 1 /\ task'.saw = saw /\ task'.docs = task.docs /\ task'.commit = task.commit
    BY <1>2 DEF Steps, Moves
  <1>8. ASSUME Quiet(task')
        PROVE  Knows(task', tree, commits[task.commit], folder, litter)
    <2>1. Quiet(task) /\ (Fresh(task') <=> Fresh(task))
      BY <1>2, <1>5, <1>8, QuietBefore DEF Steps, Moves
    <2>2. Knows(task, tree, commits[task.commit], folder, litter)
      BY <2>1 DEF HandoffInv
    <2>3. InputsSeen(p, task.saw, tree)
      BY <2>2 DEF Knows
    <2>4. InputsSeen(p + 1, saw, tree)
      <3>1. Sees(saw, tree, on) /\ \A y : y # on /\ Sees(task.saw, tree, y) => Sees(saw, tree, y)
        BY SeesMore
      <3> HIDE DEF saw, p
      <3> QED BY <1>4, <2>3, <3>1 DEF InputsSeen, Since
    <2>5. /\ DocsHeld(p, task.docs, folder) => DocsHeld(p + 1, task.docs, folder)
          /\ DocsDerived(p, task.commit, tree, folder) => DocsDerived(p + 1, task.commit, tree, folder)
          /\ DocsWritten(p, task.commit, tree, folder) => DocsWritten(p + 1, task.commit, tree, folder)
          /\ InputsCommitted(p, tree, commits[task.commit])
               => InputsCommitted(p + 1, tree, commits[task.commit])
          /\ Inventoried(p, task.commit, folder, litter) => Inventoried(p + 1, task.commit, folder, litter)
          /\ Writes(p, task.commit, tree, task.docs, folder, litter)
               => Writes(p + 1, task.commit, tree, task.docs, folder, litter)
      <3>1. p \notin {13, 15, 17, 22, 25, 27, 31, 32, 33, 41, 46, 49}
            /\ p \notin {13, 15, 17, 22, 25, 27} /\ p \notin {38, 39, 40, 45, 48, 50} /\ p \notin {51, 52, 53, 54} /\ p # 30
            /\ p \notin {7, 12, 13, 14, 15, 16, 17, 21, 22, 24, 25, 26, 27, 28, 29}
        BY <1>4
      <3> QED BY <1>5, <3>1, TablesStay
    <2> HIDE DEF p, saw
    <2> QED BY <1>7, <2>1, <2>2, <2>4, <2>5 DEF Knows, p
  <1> QED BY <1>2, <1>3, <1>6, <1>7, <1>8, StepKeepsInv DEF Steps, Moves

\* What a step that reads, writes and loads nothing leaves as it was known.
LEMMA StillKnown ==
    ASSUME NEW t, NEW u, NEW tr, NEW cm, NEW fo, NEW li, Steps(t, u, t.commit, t.saw, t.docs),
           Position(t) \notin {7, 8, 9, 10, 12, 13, 14, 15, 16, 17, 18, 20, 21, 22, 24, 25, 26, 27, 28, 29, 30,
                               31, 32, 33, 34, 35, 36, 41, 42, 44, 46, 49},
           Quiet(u)
    PROVE  /\ Quiet(t)
           /\ (/\ Knows(t, tr, cm, fo, li)
               /\ Position(t) \notin {38, 39, 40, 45, 48, 50} \/ DocsDerived(Position(t) + 1, t.commit, tr, fo)
               /\ Position(t) \notin {51, 52, 53, 54} \/ InputsCommitted(Position(t) + 1, tr, cm))
              => Knows(u, tr, cm, fo, li)
  <1> DEFINE p == Position(t)
  <1>1. /\ Moves(t, u, u.commit) /\ p \in 1..54 /\ Position(u) = p + 1
        /\ u.saw = t.saw /\ u.docs = t.docs /\ u.commit = t.commit
    BY DEF Steps, Moves
  <1>2. p # 30
    OBVIOUS
  <1>3. Quiet(t) /\ (Fresh(u) <=> Fresh(t))
    BY <1>1, <1>2, QuietBefore
  <1>4. ASSUME Knows(t, tr, cm, fo, li),
               p \notin {38, 39, 40, 45, 48, 50} \/ DocsDerived(p + 1, t.commit, tr, fo),
               p \notin {51, 52, 53, 54} \/ InputsCommitted(p + 1, tr, cm)
        PROVE  Knows(u, tr, cm, fo, li)
    <2>1. /\ InputsSeen(p, t.saw, tr) /\ DocsHeld(p, t.docs, fo) /\ DocsDerived(p, t.commit, tr, fo)
          /\ InputsCommitted(p, tr, cm) /\ Inventoried(p, t.commit, fo, li)
          /\ Fresh(t) => DocsWritten(p, t.commit, tr, fo) /\ Writes(p, t.commit, tr, t.docs, fo, li)
      BY <1>4 DEF Knows
    <2>2. /\ p \notin {8, 9, 10, 18, 20, 34, 35, 36, 42, 44}
          /\ p \notin {13, 15, 17, 22, 25, 27, 31, 32, 33, 41, 46, 49}
          /\ p \notin {13, 15, 17, 22, 25, 27}
          /\ p \notin {7, 12, 13, 14, 15, 16, 17, 21, 22, 24, 25, 26, 27, 28, 29}
      OBVIOUS
    <2> HIDE DEF p
    <2>3. InputsSeen(p + 1, t.saw, tr) /\ DocsHeld(p + 1, t.docs, fo) /\ Inventoried(p + 1, t.commit, fo, li)
      BY <1>1, <1>2, <2>1, <2>2, TablesStay
    <2>4. DocsDerived(p + 1, t.commit, tr, fo) /\ InputsCommitted(p + 1, tr, cm)
      BY <1>1, <1>4, <2>1, TablesStay
    <2>5. Fresh(t) => DocsWritten(p + 1, t.commit, tr, fo) /\ Writes(p + 1, t.commit, tr, t.docs, fo, li)
      BY <1>1, <2>1, <2>2, TablesStay
    <2> QED BY <1>1, <1>3, <2>3, <2>4, <2>5 DEF Knows
  <1> QED BY <1>3, <1>4

\* A freeze that is fresh is quiet.
LEMMA FreshIsQuiet ==
    ASSUME HandoffInv, Runs(task), Fresh(task)
    PROVE  Knows(task, tree, commits[task.commit], folder, litter)
  BY DEF HandoffInv, Quiet, Fresh

LEMMA MatchKeeps ==
    ASSUME HandoffInv, Handoff!MatchReplay
    PROVE  HandoffInv'
  <1>1. TaskShape(task)
    BY DEF HandoffInv, HandoffTyped
  <1>2. (Position(task) = 11 \/ Position(task) = 37) /\ UNCHANGED Surroundings
    BY <1>1, MatchReplayDoes
  <1>3. tree' = tree /\ commits' = commits /\ folder' = folder /\ litter' = litter
    BY <1>2 DEF Surroundings
  <1>4. CASE Steps(task, task', task.commit, task.saw, task.docs)
    <2>1. HandoffTyped(tree, commits, folder, task')
      BY <1>2, <1>4, TypedStep DEF HandoffInv, Steps
    <2>2. ASSUME Quiet(task')
          PROVE  Knows(task', tree, commits[task.commit], folder, litter)
      <3>1. Position(task) \notin {38, 39, 40, 45, 48, 50} /\ Position(task) \notin {51, 52, 53, 54}
            /\ Position(task) \notin {7, 8, 9, 10, 12, 13, 14, 15, 16, 17, 18, 20, 21, 22, 24, 25, 26, 27, 28, 29,
                                      30, 31, 32, 33, 34, 35, 36, 41, 42, 44, 46, 49}
        BY <1>2
      <3>2. Quiet(task)
        BY <1>4, <2>2, <3>1, StillKnown
      <3>3. Knows(task, tree, commits[task.commit], folder, litter)
        BY <3>2 DEF HandoffInv
      <3> QED BY <1>4, <2>2, <3>1, <3>3, StillKnown
    <2>3. task'.commit = task.commit
      BY <1>4 DEF Steps, Moves
    <2> QED BY <1>3, <1>4, <2>1, <2>2, <2>3, StepKeepsInv DEF Steps, Moves
  <1>5. CASE tree["trace"] # task.saw["manifest"] /\ Ends(task, task', "refused")
    <2>1. ASSUME Fresh(task)
          PROVE  Excused
      <3>1. Knows(task, tree, commits[task.commit], folder, litter)
        BY <1>5, <2>1, FreshIsQuiet DEF Ends
      <3>2. task.saw["manifest"] = tree["manifest"]
        BY <1>2, <3>1 DEF Knows, InputsSeen, Since, Sees
      <3> QED BY <1>5, <3>2 DEF Excused
    <2> QED BY <1>2, <1>5, <2>1, RefusalKeepsInv
  <1> QED BY <1>1, <1>4, <1>5, MatchReplayDoes

LEMMA LoadKeeps ==
    ASSUME HandoffInv, Handoff!LoadDocument
    PROVE  HandoffInv'
  <1>1. TaskShape(task)
    BY DEF HandoffInv, HandoffTyped
  <1>2. PICK on : /\ Command(Position(task), "load", on) /\ Position(task) \in 1..55
                  /\ UNCHANGED Surroundings
                  /\ Steps(task, task', task.commit, task.saw, Handoff!Extended(task.docs, on, folder[on]))
    BY <1>1, LoadDocumentDoes
  <1> DEFINE p == Position(task)
             docs == Handoff!Extended(task.docs, on, folder[on])
  <1>3. tree' = tree /\ commits' = commits /\ folder' = folder /\ litter' = litter
    BY <1>2 DEF Surroundings
  <1>4. \/ p = 31 /\ on = "v1"
        \/ p = 32 /\ on = "v2"
        \/ p = 33 /\ on = "v3"
        \/ p = 41 /\ on = "index"
        \/ p = 46 /\ on = "plan"
        \/ p = 49 /\ on = "ledger"
    BY <1>2 DEF Command
  <1>5. p # 28 /\ p # 30 /\ p \in 1..54
    BY <1>4
  <1>6. HandoffTyped(tree, commits, folder, task')
    BY <1>2, <1>5, TypedStep DEF HandoffInv, Steps
  <1>7. /\ Position(task') = p + 1 /\ task'.saw = task.saw /\ task'.docs = docs /\ task'.commit = task.commit
    BY <1>2 DEF Steps, Moves
  <1>8. ASSUME Quiet(task')
        PROVE  Knows(task', tree, commits[task.commit], folder, litter)
    <2>1. Quiet(task) /\ (Fresh(task') <=> Fresh(task))
      BY <1>2, <1>5, <1>8, QuietBefore DEF Steps, Moves
    <2>2. Knows(task, tree, commits[task.commit], folder, litter)
      BY <2>1 DEF HandoffInv
    <2>3. DocsHeld(p, task.docs, folder)
      BY <2>2 DEF Knows
    <2>4. DocsHeld(p + 1, docs, folder)
      <3>1. Sees(docs, folder, on) /\ \A y : y # on /\ Sees(task.docs, folder, y) => Sees(docs, folder, y)
        BY SeesMore
      <3> HIDE DEF docs, p
      <3> QED BY <1>4, <2>3, <3>1 DEF DocsHeld, Since
    <2>5. /\ InputsSeen(p, task.saw, tree) => InputsSeen(p + 1, task.saw, tree)
          /\ DocsDerived(p, task.commit, tree, folder) => DocsDerived(p + 1, task.commit, tree, folder)
          /\ DocsWritten(p, task.commit, tree, folder) => DocsWritten(p + 1, task.commit, tree, folder)
          /\ InputsCommitted(p, tree, commits[task.commit])
               => InputsCommitted(p + 1, tree, commits[task.commit])
          /\ Inventoried(p, task.commit, folder, litter) => Inventoried(p + 1, task.commit, folder, litter)
      <3>1. p \notin {8, 9, 10, 18, 20, 34, 35, 36, 42, 44} /\ p \notin {13, 15, 17, 22, 25, 27}
            /\ p \notin {38, 39, 40, 45, 48, 50} /\ p \notin {51, 52, 53, 54} /\ p # 30
        BY <1>4
      <3> QED BY <1>5, <3>1, TablesStay
    <2>6. Writes(p, task.commit, tree, task.docs, folder, litter)
            => Writes(p + 1, task.commit, tree, docs, folder, litter)
      <3> HIDE DEF docs, p
      <3> QED BY <1>4 DEF Writes
    <2> HIDE DEF p, docs
    <2> QED BY <1>7, <2>1, <2>2, <2>4, <2>5, <2>6 DEF Knows, p
  <1> QED BY <1>2, <1>3, <1>6, <1>7, <1>8, StepKeepsInv DEF Steps, Moves

\* When a document is written or derived, what it is derived from is known.
LEMMA ReadyAt ==
    ASSUME NEW p, NEW f, NEW saw, NEW docs, NEW tr, NEW fo, InputsSeen(p, saw, tr), DocsHeld(p, docs, fo),
           \/ (p = 12 \/ p = 38) /\ f = "v1"
           \/ (p = 14 \/ p = 39) /\ f = "v2"
           \/ (p = 16 \/ p = 40) /\ f = "v3"
           \/ (p = 21 \/ p = 45) /\ f = "index"
           \/ (p = 24 \/ p = 48) /\ f = "plan"
           \/ (p = 26 \/ p = 50) /\ f = "ledger"
    PROVE  f \in DerivedFiles /\ Ready(f, saw, docs, tr, fo)
  BY DEF InputsSeen, DocsHeld, Ready, Since, Sees, DerivedFiles

LEMMA DeriveKeeps ==
    ASSUME HandoffInv, Handoff!Derive
    PROVE  HandoffInv'
  <1>1. TaskShape(task)
    BY DEF HandoffInv, HandoffTyped
  <1>2. PICK on : /\ Command(Position(task), "derive", on) /\ Position(task) \in 1..55
                  /\ UNCHANGED Surroundings
                  /\ \/ /\ task.docs[on] = Handoff!Document(on, task.commit, task.saw, task.docs)
                        /\ Steps(task, task', task.commit, task.saw, task.docs)
                     \/ /\ task.docs[on] # Handoff!Document(on, task.commit, task.saw, task.docs)
                        /\ Ends(task, task', "refused")
    BY <1>1, DeriveDoes
  <1> DEFINE p == Position(task)
             cm == commits[task.commit]
  <1>3. tree' = tree /\ commits' = commits /\ folder' = folder /\ litter' = litter
    BY <1>2 DEF Surroundings
  <1>4. \/ p = 38 /\ on = "v1"
        \/ p = 39 /\ on = "v2"
        \/ p = 40 /\ on = "v3"
        \/ p = 45 /\ on = "index"
        \/ p = 48 /\ on = "plan"
        \/ p = 50 /\ on = "ledger"
    BY <1>2 DEF Command
  <1>5. ASSUME Knows(task, tree, cm, folder, litter)
        PROVE  /\ on \in DerivedFiles /\ on \in DOMAIN folder /\ task.docs[on] = folder[on]
               /\ Handoff!Document(on, task.commit, task.saw, task.docs)
                    = Handoff!Document(on, task.commit, tree, folder)
    <2>1. InputsSeen(p, task.saw, tree) /\ DocsHeld(p, task.docs, folder)
          /\ Inventoried(p, task.commit, folder, litter)
      BY <1>5 DEF Knows
    <2> HIDE DEF p
    <2>2. on \in DerivedFiles /\ Ready(on, task.saw, task.docs, tree, folder)
      BY <1>4, <2>1, ReadyAt
    <2>3. DOMAIN folder = Everything
      BY <1>4, <2>1 DEF Inventoried, Matches
    <2>4. task.docs[on] = folder[on]
      BY <1>4, <2>1 DEF DocsHeld, Since, Sees
    <2> QED BY <2>2, <2>3, <2>4, DocumentAgrees DEF Everything
  <1>6. CASE /\ task.docs[on] = Handoff!Document(on, task.commit, task.saw, task.docs)
             /\ Steps(task, task', task.commit, task.saw, task.docs)
    <2>1. HandoffTyped(tree, commits, folder, task')
      <3>1. p # 28 /\ p # 30
        BY <1>4
      <3> QED BY <1>6, <3>1, TypedStep DEF HandoffInv, Steps
    <2>2. ASSUME Quiet(task')
          PROVE  Knows(task', tree, cm, folder, litter)
      <3>1. p \notin {51, 52, 53, 54}
            /\ p \notin {7, 8, 9, 10, 12, 13, 14, 15, 16, 17, 18, 20, 21, 22, 24, 25, 26, 27, 28, 29,
                         30, 31, 32, 33, 34, 35, 36, 41, 42, 44, 46, 49}
        BY <1>4
      <3>2. Quiet(task)
        BY <1>6, <2>2, <3>1, StillKnown
      <3>3. Knows(task, tree, cm, folder, litter)
        BY <3>2 DEF HandoffInv
      <3>4. DocsDerived(p, task.commit, tree, folder)
        BY <3>3 DEF Knows
      <3>5. Genuine(on, task.commit, tree, folder)
        BY <1>5, <1>6, <3>3 DEF Genuine
      <3>6. DocsDerived(p + 1, task.commit, tree, folder)
        <4> HIDE DEF p
        <4> QED BY <1>4, <3>4, <3>5 DEF DocsDerived
      <3> QED BY <1>6, <2>2, <3>1, <3>3, <3>6, StillKnown
    <2>3. task'.commit = task.commit
      BY <1>6 DEF Steps, Moves
    <2> QED BY <1>3, <1>6, <2>1, <2>2, <2>3, StepKeepsInv DEF Steps, Moves
  <1>7. CASE /\ task.docs[on] # Handoff!Document(on, task.commit, task.saw, task.docs)
             /\ Ends(task, task', "refused")
    <2>1. ASSUME Fresh(task)
          PROVE  FALSE
      <3>1. Knows(task, tree, cm, folder, litter)
        BY <1>7, <2>1, FreshIsQuiet DEF Ends
      <3>2. DocsWritten(p, task.commit, tree, folder)
        BY <2>1, <3>1 DEF Knows
      <3>3. Genuine(on, task.commit, tree, folder)
        <4> HIDE DEF p
        <4> QED BY <1>4, <3>2 DEF DocsWritten
      <3> QED BY <1>5, <1>7, <3>1, <3>3 DEF Genuine
    <2> QED BY <1>2, <1>7, <2>1, RefusalKeepsInv
  <1> QED BY <1>2, <1>6, <1>7

\* A manifest is one of the commit, with the hashes of the files.
LEMMA ManifestIs ==
    ASSUME NEW c, NEW fo
    PROVE  /\ Handoff!BundleManifest(c, fo).commit = c
           /\ Handoff!BundleManifest(c, fo).files = [f \in DerivedFiles |-> fo[f]]
           /\ Handoff!BundleManifest(c, fo) = [commit |-> c, files |-> [f \in DerivedFiles |-> fo[f]]]
           /\ \A cs : c \in DOMAIN cs => ManifestOf(Handoff!BundleManifest(c, fo), cs)
  <1> DEFINE b == Handoff!BundleManifest(c, fo)
  <1>1. b = [commit |-> c, files |-> [f \in DerivedFiles |-> fo[f]]]
    BY FilesAre DEF Handoff!BundleManifest
  <1> HIDE DEF b
  <1>2. b.commit = c /\ b.files = [f \in DerivedFiles |-> fo[f]]
    BY <1>1
  <1>3. [f \in DerivedFiles |-> b.files[f]] = [f \in DerivedFiles |-> fo[f]]
    BY <1>2
  <1>4. \A cs : c \in DOMAIN cs => ManifestOf(b, cs)
    BY <1>1, <1>2, <1>3 DEF ManifestOf
  <1> QED BY <1>1, <1>2, <1>4 DEF b

LEMMA StageKeeps ==
    ASSUME HandoffInv, Handoff!Stage
    PROVE  HandoffInv'
  <1>1. TaskShape(task)
    BY DEF HandoffInv, HandoffTyped
  <1>2. PICK on : /\ Command(Position(task), "stage", on) /\ Position(task) \in 1..55
                  /\ tree' = tree /\ commits' = commits /\ folder' = folder /\ litter' = litter \cup {on}
                  /\ Steps(task, task', task.commit, task.saw,
                           Handoff!Extended(task.docs, on,
                               Written(on, task.commit, task.saw, task.docs, folder)))
    BY <1>1, StageDoes
  <1> DEFINE p == Position(task)
             c == task.commit
             cm == commits[c]
             new == Written(on, c, task.saw, task.docs, folder)
             docs == Handoff!Extended(task.docs, on, new)
  <1>3. \/ p = 12 /\ on = "v1"
        \/ p = 14 /\ on = "v2"
        \/ p = 16 /\ on = "v3"
        \/ p = 21 /\ on = "index"
        \/ p = 24 /\ on = "plan"
        \/ p = 26 /\ on = "ledger"
        \/ p = 28 /\ on = "bundle"
    BY <1>2 DEF Command
  <1>4. /\ Position(task') = p + 1 /\ task'.saw = task.saw /\ task'.docs = docs /\ task'.commit = c
        /\ Moves(task, task', c) /\ TaskShape(task') /\ p \in 1..54 /\ task'.job = task.job /\ Runs(task)
    BY <1>2 DEF Steps, Moves
  <1>5. on \in DOMAIN docs /\ docs[on] = new
    <2> HIDE DEF new
    <2> QED BY DEF Handoff!Extended
  <1>6. HandoffTyped(tree, commits, folder, task')
    <2>1. CASE p # 28
      <3>1. p # 30
        BY <1>3
      <3> QED BY <1>4, <2>1, <3>1, TypedStep DEF HandoffInv
    <2>2. CASE p = 28
      <3>1. on = "bundle"
        BY <1>3, <2>2
      <3>2. new = Handoff!BundleManifest(c, folder)
        BY <3>1 DEF Written
      <3>3. task.job = "freeze"
        <4>1. task.job = "freeze" \/ task.job = "verify"
          BY <1>1, <1>4 DEF TaskShape, Runs
        <4>2. task.job = "verify" => p > 29
          BY <1>1 DEF TaskShape, Position
        <4> QED BY <2>2, <4>1, <4>2
      <3>4. c \in DOMAIN commits
        BY <1>4, <3>3 DEF HandoffInv, HandoffTyped
      <3>5. ManifestOf(new, commits)
        <4> HIDE DEF new, c
        <4> QED BY <3>2, <3>4, ManifestIs
      <3>6. "bundle" \in DOMAIN task'.docs /\ ManifestOf(task'.docs["bundle"], commits)
        BY <1>4, <1>5, <3>1, <3>5
      <3>7. HandoffTyped(tree, commits, folder, task)
        BY DEF HandoffInv
      <3> QED BY <1>4, <3>4, <3>6, <3>7 DEF HandoffTyped
    <2> QED BY <2>1, <2>2
  <1>7. ASSUME Quiet(task')
        PROVE  Knows(task', tree, cm, folder, litter')
    <2>1. Quiet(task) /\ Fresh(task) /\ Fresh(task')
      <3>1. p # 30 /\ p < 30
        BY <1>3
      <3> QED BY <1>4, <1>7, <3>1, QuietBefore
    <2>2. Knows(task, tree, cm, folder, litter)
      BY <2>1 DEF HandoffInv
    <2>3. /\ InputsSeen(p, task.saw, tree) /\ DocsHeld(p, task.docs, folder) /\ DocsDerived(p, c, tree, folder)
          /\ DocsWritten(p, c, tree, folder) /\ InputsCommitted(p, tree, cm) /\ Inventoried(p, c, folder, litter)
          /\ Writes(p, c, tree, task.docs, folder, litter)
      BY <2>1, <2>2 DEF Knows
    <2>4. /\ InputsSeen(p + 1, task.saw, tree) /\ DocsDerived(p + 1, c, tree, folder)
          /\ DocsWritten(p + 1, c, tree, folder) /\ InputsCommitted(p + 1, tree, cm)
      <3>1. p \notin {8, 9, 10, 18, 20, 34, 35, 36, 42, 44} /\ p \notin {13, 15, 17, 22, 25, 27}
            /\ p \notin {38, 39, 40, 45, 48, 50} /\ p \notin {51, 52, 53, 54}
        BY <1>3
      <3> HIDE DEF p, c, cm
      <3> QED BY <1>4, <2>3, <3>1, TablesStay
    <2>5. Inventoried(p + 1, c, folder, litter')
      <3> HIDE DEF p
      <3> QED BY <1>3 DEF Inventoried
    <2>6. DocsHeld(p + 1, docs, folder)
      <3>1. \A y : y # on /\ Sees(task.docs, folder, y) => Sees(docs, folder, y)
        BY DEF Sees, Handoff!Extended
      <3> HIDE DEF docs, p
      <3> QED BY <1>3, <2>3, <3>1 DEF DocsHeld, Since
    <2>7. new = Written(on, c, tree, folder, folder)
      <3>1. CASE on = "bundle"
        BY <3>1 DEF Written
      <3>2. CASE on # "bundle"
        <4> HIDE DEF p, c
        <4>1. on \in DerivedFiles /\ Ready(on, task.saw, task.docs, tree, folder)
          BY <1>3, <2>3, <3>2, ReadyAt
        <4>2. Handoff!Document(on, c, task.saw, task.docs) = Handoff!Document(on, c, tree, folder)
          BY <4>1, DocumentAgrees
        <4> QED BY <3>2, <4>2 DEF Written
      <3> QED BY <3>1, <3>2
    <2>8. Staged(on, c, tree, docs, folder, litter')
      <3>1. litter = {}
        <4> HIDE DEF p, c
        <4> QED BY <1>3, <2>3 DEF Writes
      <3>2. litter' = {on}
        BY <1>2, <3>1
      <3> HIDE DEF docs, new, c
      <3> QED BY <1>5, <2>7, <3>2 DEF Staged
    <2>9. Writes(p + 1, c, tree, docs, folder, litter')
      <3> HIDE DEF docs, p, c
      <3> QED BY <1>3, <2>8 DEF Writes
    <2> HIDE DEF docs, p, c, cm
    <2> QED BY <1>4, <2>1, <2>4, <2>5, <2>6, <2>9 DEF Knows
  <1> QED BY <1>2, <1>4, <1>6, <1>7, StepKeepsInv

LEMMA RenameKeeps ==
    ASSUME HandoffInv, Handoff!Rename
    PROVE  HandoffInv'
  <1>1. HandoffTyped(tree, commits, folder, task) /\ TaskShape(task)
    BY DEF HandoffInv, HandoffTyped
  <1>2. PICK on : /\ Command(Position(task), "rename", on) /\ Position(task) \in 1..55
                  /\ tree' = tree /\ commits' = commits /\ litter' = litter \ {on}
                  /\ folder' = Handoff!Extended(folder, on, task.docs[on])
                  /\ Steps(task, task', task.commit, task.saw, task.docs)
    BY <1>1, RenameDoes
  <1> DEFINE p == Position(task)
             c == task.commit
             cm == commits[c]
  <1>3. \/ p = 13 /\ on = "v1"
        \/ p = 15 /\ on = "v2"
        \/ p = 17 /\ on = "v3"
        \/ p = 22 /\ on = "index"
        \/ p = 25 /\ on = "plan"
        \/ p = 27 /\ on = "ledger"
        \/ p = 29 /\ on = "bundle"
    BY <1>2 DEF Command
  <1>4. /\ Position(task') = p + 1 /\ task'.saw = task.saw /\ task'.docs = task.docs /\ task'.commit = c
        /\ Moves(task, task', c) /\ p \in 1..54 /\ Runs(task)
    BY <1>2 DEF Steps, Moves
  <1>5. /\ DOMAIN folder' = DOMAIN folder \cup {on} /\ folder'[on] = task.docs[on]
        /\ \A y \in DOMAIN folder : y # on => folder'[y] = folder[y]
        /\ folder' = [y \in DOMAIN folder' |-> folder'[y]]
    <2> DEFINE new == task.docs[on]
               g == Handoff!Extended(folder, on, new)
    <2>1. folder' = g
      BY <1>2
    <2> HIDE DEF new
    <2>2. /\ DOMAIN g = DOMAIN folder \cup {on} /\ g[on] = new
          /\ \A y \in DOMAIN folder : y # on => g[y] = folder[y]
          /\ g = [y \in DOMAIN g |-> g[y]]
      BY DEF Handoff!Extended
    <2> HIDE DEF g
    <2> QED BY <2>1, <2>2 DEF new
  <1>6. HandoffTyped(tree, commits, folder', task')
    <2>1. HandoffTyped(tree, commits, folder, task')
      <3>1. p # 28 /\ p # 30
        BY <1>3
      <3> QED BY <1>1, <1>4, <3>1, TypedStep
    <2>2. DOMAIN folder' \subseteq Everything
      <3>1. on \in Everything
        BY <1>3 DEF Everything, DerivedFiles
      <3> QED BY <1>1, <1>5, <3>1 DEF HandoffTyped
    <2>3. ASSUME "bundle" \in DOMAIN folder'
          PROVE  ManifestOf(folder'["bundle"], commits)
      <3>1. CASE on = "bundle"
        <4>1. p = 29
          BY <1>3, <3>1
        <4>2. ManifestOf(task.docs["bundle"], commits)
          BY <1>1, <1>4, <4>1 DEF HandoffTyped
        <4> QED BY <1>5, <3>1, <4>2
      <3>2. CASE on # "bundle"
        <4>1. "bundle" \in DOMAIN folder /\ folder'["bundle"] = folder["bundle"]
          BY <1>5, <2>3, <3>2
        <4> QED BY <1>1, <4>1 DEF HandoffTyped
      <3> QED BY <3>1, <3>2
    <2> QED BY <1>5, <2>1, <2>2, <2>3 DEF HandoffTyped
  <1>7. ASSUME Quiet(task')
        PROVE  Knows(task', tree, cm, folder', litter')
    <2>1. Quiet(task) /\ Fresh(task) /\ Fresh(task')
      <3>1. p # 30 /\ p < 30
        BY <1>3
      <3> QED BY <1>4, <1>7, <3>1, QuietBefore
    <2>2. Knows(task, tree, cm, folder, litter)
      BY <2>1 DEF HandoffInv
    <2>3. /\ InputsSeen(p, task.saw, tree) /\ DocsHeld(p, task.docs, folder) /\ DocsDerived(p, c, tree, folder)
          /\ DocsWritten(p, c, tree, folder) /\ InputsCommitted(p, tree, cm) /\ Inventoried(p, c, folder, litter)
          /\ Writes(p, c, tree, task.docs, folder, litter)
      BY <2>1, <2>2 DEF Knows
    <2>4. InputsSeen(p + 1, task.saw, tree) /\ InputsCommitted(p + 1, tree, cm)
      <3>1. p \notin {8, 9, 10, 18, 20, 34, 35, 36, 42, 44} /\ p \notin {51, 52, 53, 54}
        BY <1>3
      <3> HIDE DEF p, c, cm
      <3> QED BY <1>4, <2>3, <3>1, TablesStay
    <2>5. Inventoried(p + 1, c, folder', litter') /\ DocsDerived(p + 1, c, tree, folder')
      <3> HIDE DEF p, c
      <3> QED BY <1>3 DEF Inventoried, DocsDerived
    <2>6. Staged(on, c, tree, task.docs, folder, litter)
      <3> HIDE DEF p, c
      <3> QED BY <1>3, <2>3 DEF Writes
    <2>7. litter' = {} /\ on \in DOMAIN task.docs /\ folder'[on] = Written(on, c, tree, folder, folder)
      BY <1>2, <1>5, <2>6 DEF Staged
    <2>8. DocsHeld(p + 1, task.docs, folder')
      <3>1. Sees(task.docs, folder', on)
        BY <1>5, <2>7 DEF Sees
      <3>2. /\ p >= 14 => Sees(task.docs, folder, "v1") /\ "v1" \in DOMAIN folder
            /\ p >= 16 => Sees(task.docs, folder, "v2") /\ "v2" \in DOMAIN folder
            /\ p >= 18 => Sees(task.docs, folder, "v3") /\ "v3" \in DOMAIN folder
            /\ p >= 23 => Sees(task.docs, folder, "index") /\ "index" \in DOMAIN folder
            /\ p >= 26 => Sees(task.docs, folder, "plan") /\ "plan" \in DOMAIN folder
            /\ p >= 28 => Sees(task.docs, folder, "ledger") /\ "ledger" \in DOMAIN folder
        <4> HIDE DEF p, c
        <4> QED BY <1>3, <2>3 DEF DocsHeld, DocsWritten, Genuine, Since
      <3>3. \A y \in DOMAIN folder : y # on /\ Sees(task.docs, folder, y) => Sees(task.docs, folder', y)
        BY <1>5 DEF Sees
      <3> HIDE DEF p
      <3> QED BY <1>3, <3>1, <3>2, <3>3 DEF DocsHeld, Since
    <2>9. ASSUME NEW f \in DerivedFiles, f # on, Genuine(f, c, tree, folder),
                 Ready(f, tree, folder', tree, folder)
          PROVE  Genuine(f, c, tree, folder')
      <3>1. Handoff!Document(f, c, tree, folder') = Handoff!Document(f, c, tree, folder)
        BY <2>9, DocumentAgrees
      <3> QED BY <1>5, <2>9, <3>1 DEF Genuine
    <2>10. ASSUME on # "bundle"
           PROVE  Genuine(on, c, tree, folder')
      <3>1. on \in DerivedFiles
        BY <1>3, <2>10 DEF DerivedFiles
      <3>2. Ready(on, tree, folder', tree, folder)
        <4>1. /\ p >= 14 => "v1" \in DOMAIN folder
              /\ p >= 16 => "v2" \in DOMAIN folder
              /\ p >= 18 => "v3" \in DOMAIN folder
              /\ p >= 23 => "index" \in DOMAIN folder
              /\ p >= 26 => "plan" \in DOMAIN folder
          <5> HIDE DEF p, c
          <5> QED BY <1>3, <2>3 DEF DocsWritten, Genuine
        <4> HIDE DEF p
        <4> QED BY <1>3, <1>5, <4>1 DEF Ready
      <3>3. Handoff!Document(on, c, tree, folder') = Handoff!Document(on, c, tree, folder)
        BY <3>1, <3>2, DocumentAgrees
      <3> QED BY <1>5, <2>7, <2>10, <3>3 DEF Genuine, Written
    <2>11. DocsWritten(p + 1, c, tree, folder')
      <3> DEFINE Kept(f) == Genuine(f, c, tree, folder')
      <3>1. /\ p >= 14 => Genuine("v1", c, tree, folder)
            /\ p >= 16 => Genuine("v2", c, tree, folder)
            /\ p >= 18 => Genuine("v3", c, tree, folder)
            /\ p >= 23 => Genuine("index", c, tree, folder)
            /\ p >= 26 => Genuine("plan", c, tree, folder)
            /\ p >= 28 => Genuine("ledger", c, tree, folder)
        <4> HIDE DEF p, c
        <4> QED BY <1>3, <2>3 DEF DocsWritten
      <3>9. /\ p >= 14 => "v1" \in DOMAIN folder
            /\ p >= 16 => "v2" \in DOMAIN folder
            /\ p >= 18 => "v3" \in DOMAIN folder
            /\ p >= 23 => "index" \in DOMAIN folder
            /\ p >= 26 => "plan" \in DOMAIN folder
        <4> HIDE DEF p, c
        <4> QED BY <3>1 DEF Genuine
      <3>10. (p >= 23 => p >= 14 /\ p >= 16 /\ p >= 18) /\ (p >= 26 => p >= 23) /\ (p >= 28 => p >= 26)
        <4> HIDE DEF p
        <4> QED BY <1>4
      <3>2. \A f \in {"v1", "v2", "v3"} :
               f \in DerivedFiles /\ (f # on /\ Genuine(f, c, tree, folder) => Kept(f))
        BY <2>9 DEF Ready, DerivedFiles
      <3>3. p >= 23 => Kept("index")
        <4>1. ASSUME p >= 23
              PROVE  /\ "index" # on /\ "index" \in DerivedFiles
                     /\ Ready("index", tree, folder', tree, folder)
          <5>1. on # "v1" /\ on # "v2" /\ on # "v3" /\ on # "index"
            BY <1>3, <4>1
          <5>2. "v1" \in DOMAIN folder /\ "v2" \in DOMAIN folder /\ "v3" \in DOMAIN folder
            BY <3>9, <3>10, <4>1
          <5> QED BY <1>5, <5>1, <5>2 DEF Ready, DerivedFiles
        <4> QED BY <2>9, <3>1, <4>1
      <3>4. p >= 26 => Kept("plan")
        <4>1. ASSUME p >= 26
              PROVE  /\ "plan" # on /\ "plan" \in DerivedFiles
                     /\ Ready("plan", tree, folder', tree, folder)
          <5>1. on # "v1" /\ on # "v2" /\ on # "v3" /\ on # "index" /\ on # "plan"
            BY <1>3, <4>1
          <5>2. "v1" \in DOMAIN folder /\ "v2" \in DOMAIN folder /\ "v3" \in DOMAIN folder
                /\ "index" \in DOMAIN folder
            BY <3>9, <3>10, <4>1
          <5> QED BY <1>5, <5>1, <5>2 DEF Ready, DerivedFiles
        <4> QED BY <2>9, <3>1, <4>1
      <3>5. p >= 28 => Kept("ledger")
        <4>1. ASSUME p >= 28
              PROVE  /\ "ledger" # on /\ "ledger" \in DerivedFiles
                     /\ Ready("ledger", tree, folder', tree, folder)
          <5>1. on # "index" /\ on # "plan" /\ on # "ledger"
            BY <1>3, <4>1
          <5>2. "plan" \in DOMAIN folder /\ "index" \in DOMAIN folder
            BY <3>9, <3>10, <4>1
          <5> QED BY <1>5, <5>1, <5>2 DEF Ready, DerivedFiles
        <4> QED BY <2>9, <3>1, <4>1
      <3>6. /\ p >= 14 => Kept("v1")
            /\ p >= 16 => Kept("v2")
            /\ p >= 18 => Kept("v3")
        <4>1. (p >= 14 => "v1" # on) /\ (p >= 16 => "v2" # on) /\ (p >= 18 => "v3" # on)
          BY <1>3
        <4> HIDE DEF Kept, p, c
        <4> QED BY <3>1, <3>2, <4>1
      <3>7. on # "bundle" => Kept(on)
        BY <2>10
      <3> HIDE DEF p, c
      <3>8. DocsWritten(p + 1, c, tree, folder') <=>
              /\ 14 <= p + 1 => Kept("v1")
              /\ 16 <= p + 1 => Kept("v2")
              /\ 18 <= p + 1 => Kept("v3")
              /\ 23 <= p + 1 => Kept("index")
              /\ 26 <= p + 1 => Kept("plan")
              /\ 28 <= p + 1 => Kept("ledger")
        BY DEF DocsWritten
      <3> HIDE DEF Kept
      <3> QED BY <1>3, <3>3, <3>4, <3>5, <3>6, <3>7, <3>8
    <2>12. Writes(p + 1, c, tree, task.docs, folder', litter')
      <3>1. p = 29 => "bundle" \in DOMAIN folder' /\ folder'["bundle"] = Handoff!BundleManifest(c, folder')
        <4>1. ASSUME p = 29
              PROVE  folder'["bundle"] = Handoff!BundleManifest(c, folder')
          <5>1. on = "bundle"
            BY <1>3, <4>1
          <5>2. folder'["bundle"] = Handoff!BundleManifest(c, folder)
            BY <2>7, <5>1 DEF Written
          <5>3. \A f \in DerivedFiles : f \in DOMAIN folder /\ f # on
            <6> HIDE DEF p, c
            <6> QED BY <2>3, <4>1, <5>1 DEF DocsWritten, Genuine, DerivedFiles
          <5>4. [f \in DerivedFiles |-> folder'[f]] = [f \in DerivedFiles |-> folder[f]]
            BY <1>5, <5>3
          <5> HIDE DEF c
          <5>5. /\ Handoff!BundleManifest(c, folder) = [commit |-> c, files |-> [f \in DerivedFiles |-> folder[f]]]
                /\ Handoff!BundleManifest(c, folder') = [commit |-> c, files |-> [f \in DerivedFiles |-> folder'[f]]]
            BY FilesAre DEF Handoff!BundleManifest
          <5> QED BY <5>2, <5>4, <5>5
        <4>2. p = 29 => on = "bundle"
          BY <1>3
        <4> QED BY <1>5, <4>1, <4>2
      <3>2. p < 29 => ~ (p + 1 \in {13, 15, 17, 22, 25, 27, 29}) /\ p + 1 < 30
        BY <1>3
      <3> HIDE DEF p, c
      <3> QED BY <1>3, <2>7, <3>1, <3>2 DEF Writes
    <2> HIDE DEF p, c, cm
    <2> QED BY <1>4, <2>1, <2>4, <2>5, <2>8, <2>11, <2>12 DEF Knows
  <1> QED BY <1>2, <1>4, <1>6, <1>7, StepKeepsInv

LEMMA InventoryKeeps ==
    ASSUME HandoffInv, Handoff!CheckInventory
    PROVE  HandoffInv'
  <1>1. HandoffTyped(tree, commits, folder, task) /\ TaskShape(task)
    BY DEF HandoffInv, HandoffTyped
  <1>2. Position(task) = 30 /\ UNCHANGED Surroundings
    BY <1>1, CheckInventoryDoes
  <1>3. tree' = tree /\ commits' = commits /\ folder' = folder /\ litter' = litter
    BY <1>2 DEF Surroundings
  <1>4. ASSUME Fresh(task), Runs(task)
        PROVE  /\ Matches(folder, litter) /\ folder["bundle"].commit = task.commit
               /\ DocsWritten(30, task.commit, tree, folder)
               /\ folder["bundle"] = Handoff!BundleManifest(task.commit, folder)
    <2>1. Knows(task, tree, commits[task.commit], folder, litter)
      BY <1>4, FreshIsQuiet
    <2>2. /\ DocsWritten(30, task.commit, tree, folder)
          /\ Writes(30, task.commit, tree, task.docs, folder, litter)
      BY <1>2, <1>4, <2>1 DEF Knows
    <2>3. DerivedFiles \subseteq DOMAIN folder
      BY <2>2 DEF DocsWritten, Genuine, DerivedFiles
    <2>4. /\ litter = {} /\ "bundle" \in DOMAIN folder
          /\ folder["bundle"] = Handoff!BundleManifest(task.commit, folder)
      BY <2>2 DEF Writes
    <2>5. DOMAIN folder = Everything
      BY <1>1, <2>3, <2>4 DEF HandoffTyped, Everything
    <2> DEFINE c == task.commit
    <2> HIDE DEF c
    <2>6. /\ Handoff!BundleManifest(c, folder).commit = c
          /\ Handoff!BundleManifest(c, folder).files = [f \in DerivedFiles |-> folder[f]]
      BY ManifestIs
    <2>7. \A f \in DerivedFiles : folder["bundle"].files[f] = folder[f]
      BY <2>4, <2>6 DEF c
    <2> QED BY <2>2, <2>4, <2>5, <2>6, <2>7 DEF Matches, c
  <1>5. CASE Matches(folder, litter) /\ Steps(task, task', folder["bundle"].commit, <<>>, <<>>)
    <2> DEFINE c == folder["bundle"].commit
    <2>1. /\ Position(task') = 31 /\ task'.commit = c /\ Moves(task, task', task'.commit)
          /\ TaskShape(task') /\ Runs(task)
      BY <1>2, <1>5 DEF Steps, Moves
    <2>2. HandoffTyped(tree, commits, folder, task')
      <3>1. "bundle" \in DOMAIN folder
        BY <1>5 DEF Matches, Everything
      <3>2. c \in DOMAIN commits
        BY <1>1, <3>1 DEF HandoffTyped, ManifestOf
      <3> HIDE DEF c
      <3> QED BY <1>1, <2>1, <3>2 DEF HandoffTyped
    <2>3. ASSUME Quiet(task')
          PROVE  Knows(task', tree, commits[c], folder, litter)
      <3>1. Fresh(task') <=> Fresh(task)
        BY <2>1, <2>3, QuietBefore
      <3>2. InputsSeen(31, task'.saw, tree) /\ DocsHeld(31, task'.docs, folder)
        BY DEF InputsSeen, DocsHeld, Since
      <3>3. DocsDerived(31, c, tree, folder) /\ InputsCommitted(31, tree, commits[c])
        BY DEF DocsDerived, InputsCommitted
      <3>4. Inventoried(31, c, folder, litter)
        BY <1>5 DEF Inventoried
      <3>5. ASSUME Fresh(task')
            PROVE  DocsWritten(31, c, tree, folder) /\ Writes(31, c, tree, task'.docs, folder, litter)
        <4>1. /\ c = task.commit /\ DocsWritten(30, task.commit, tree, folder)
              /\ folder["bundle"] = Handoff!BundleManifest(task.commit, folder)
          BY <1>4, <2>1, <3>1, <3>5
        <4>2. litter = {} /\ "bundle" \in DOMAIN folder
          BY <1>5 DEF Matches, Everything
        <4> HIDE DEF c
        <4> QED BY <4>1, <4>2 DEF DocsWritten, Writes
      <3> HIDE DEF c
      <3> QED BY <2>1, <3>2, <3>3, <3>4, <3>5 DEF Knows
    <2> QED BY <1>3, <2>1, <2>2, <2>3, StepKeepsInv
  <1>6. CASE ~ Matches(folder, litter) /\ Ends(task, task', "refused")
    <2>1. Runs(task)
      BY <1>6 DEF Ends
    <2> QED BY <1>2, <1>4, <1>6, <2>1, RefusalKeepsInv
  <1> QED BY <1>1, <1>5, <1>6, CheckInventoryDoes

----------------------------------------------------------------------------
(* The documents determine each other: a directory in which each one is    *)
(* what the inputs of a commit and the others give is the bundle of that   *)
(* commit.                                                                 *)

\* Table g is the part S of the directory.
PartOf(g, fo, S) == DOMAIN g = S /\ g = [y \in DOMAIN g |-> g[y]] /\ \A y \in S : g[y] = fo[y]

LEMMA PartExtends ==
    ASSUME NEW g, NEW fo, NEW S, NEW x, NEW v, PartOf(g, fo, S), v = fo[x]
    PROVE  PartOf(Handoff!Extended(g, x, v), fo, S \cup {x})
  BY DEF PartOf, Handoff!Extended

LEMMA BundleIs ==
    ASSUME NEW c, NEW fo, fo = [f \in DOMAIN fo |-> fo[f]], DOMAIN fo = Everything,
           \A f \in DerivedFiles : Genuine(f, c, commits[c], fo),
           \A f \in DerivedFiles : fo["bundle"].files[f] = fo[f],
           fo["bundle"] = [commit |-> c, files |-> [f \in DerivedFiles |-> fo["bundle"].files[f]]]
    PROVE  fo = Handoff!BundleOf(c)
  <1> DEFINE saw == commits[c]
             anchors == [a \in Handoff!ToSet(Handoff!Anchors) |-> Handoff!Anchor(a, saw)]
             indexed == Handoff!Extended(anchors, "index", Handoff!EvidenceIndex(c, saw, anchors))
             planned == Handoff!Extended(indexed, "plan", Handoff!CampaignPlan(c, saw, indexed))
             derived == Handoff!Extended(planned, "ledger", Handoff!LedgerF0(planned))
             whole == Handoff!Extended(derived, "bundle", Handoff!BundleManifest(c, derived))
             A == {"v1", "v2", "v3"}
  <1>1. Handoff!BundleOf(c) = whole
    BY DEF Handoff!BundleOf
  <1>2. \A f \in DerivedFiles : fo[f] = Handoff!Document(f, c, saw, fo)
    BY DEF Genuine
  <1>3. "index" \in DerivedFiles /\ "plan" \in DerivedFiles /\ "ledger" \in DerivedFiles /\ A \subseteq DerivedFiles
    BY DEF DerivedFiles
  <1> HIDE DEF saw
  <1>4. PartOf(anchors, fo, A)
    <2>1. \A a \in A : fo[a] = Handoff!Anchor(a, saw)
      BY <1>2, <1>3, DocumentIs
    <2>2. anchors = [a \in A |-> Handoff!Anchor(a, saw)]
      BY FilesAre
    <2> HIDE DEF anchors
    <2> QED BY <2>1, <2>2 DEF PartOf
  <1> HIDE DEF anchors
  <1>5. PartOf(indexed, fo, A \cup {"index"})
    <2>1. Ready("index", saw, anchors, saw, fo)
      BY <1>4 DEF Ready, PartOf
    <2>2. Handoff!EvidenceIndex(c, saw, anchors) = fo["index"]
      BY <1>2, <1>3, <2>1, DocumentAgrees, DocumentIs
    <2> QED BY <1>4, <2>2, PartExtends
  <1> HIDE DEF indexed
  <1>6. PartOf(planned, fo, A \cup {"index", "plan"})
    <2>1. Ready("plan", saw, indexed, saw, fo)
      BY <1>5 DEF Ready, PartOf
    <2>2. Handoff!CampaignPlan(c, saw, indexed) = fo["plan"]
      BY <1>2, <1>3, <2>1, DocumentAgrees, DocumentIs
    <2>3. PartOf(planned, fo, (A \cup {"index"}) \cup {"plan"})
      BY <1>5, <2>2, PartExtends
    <2>4. (A \cup {"index"}) \cup {"plan"} = A \cup {"index", "plan"}
      OBVIOUS
    <2> HIDE DEF planned
    <2> QED BY <2>3, <2>4
  <1> HIDE DEF planned
  <1>7. PartOf(derived, fo, DerivedFiles)
    <2>1. Ready("ledger", saw, planned, saw, fo)
      BY <1>6 DEF Ready, PartOf
    <2>2. Handoff!LedgerF0(planned) = fo["ledger"]
      BY <1>2, <1>3, <2>1, DocumentAgrees, DocumentIs
    <2>3. PartOf(derived, fo, (A \cup {"index", "plan"}) \cup {"ledger"})
      BY <1>6, <2>2, PartExtends
    <2>4. (A \cup {"index", "plan"}) \cup {"ledger"} = DerivedFiles
      BY DEF DerivedFiles
    <2> HIDE DEF derived
    <2> QED BY <2>3, <2>4
  <1> HIDE DEF derived
  <1>8. PartOf(whole, fo, Everything)
    <2>1. Handoff!BundleManifest(c, derived) = [commit |-> c, files |-> [f \in DerivedFiles |-> derived[f]]]
      BY FilesAre DEF Handoff!BundleManifest
    <2>2. [f \in DerivedFiles |-> derived[f]] = [f \in DerivedFiles |-> fo["bundle"].files[f]]
      BY <1>7 DEF PartOf
    <2>3. Handoff!BundleManifest(c, derived) = fo["bundle"]
      BY <2>1, <2>2
    <2> QED BY <1>7, <2>3, PartExtends DEF Everything
  <1> HIDE DEF whole
  <1>9. whole = fo
    <2>1. DOMAIN whole = DOMAIN fo /\ \A y \in DOMAIN whole : whole[y] = fo[y]
      BY <1>8 DEF PartOf
    <2>2. whole = [y \in DOMAIN whole |-> whole[y]]
      BY <1>8 DEF PartOf
    <2> QED BY <2>1, <2>2
  <1> QED BY <1>1, <1>9

LEMMA TreesEqual ==
    ASSUME NEW a \in Trees, NEW b \in Trees, a["protocol"] = b["protocol"], a["generators"] = b["generators"],
           a["trace"] = b["trace"], a["manifest"] = b["manifest"], a["evidence"] = b["evidence"]
    PROVE  a = b
  <1>1. \A i \in InputFiles : a[i] = b[i]
    BY DEF InputFiles
  <1> QED BY <1>1 DEF Trees

LEMMA CommittedKeeps ==
    ASSUME HandoffInv, Handoff!CheckCommitted
    PROVE  HandoffInv'
  <1>1. HandoffTyped(tree, commits, folder, task) /\ TaskShape(task)
    BY DEF HandoffInv, HandoffTyped
  <1>2. PICK on : /\ Command(Position(task), "committed", on) /\ Position(task) \in 1..55
                  /\ UNCHANGED Surroundings
                  /\ \/ /\ tree[on] = commits[task.commit][on]
                        /\ \/ Steps(task, task', task.commit, task.saw, task.docs)
                           \/ Position(task) = 55 /\ Ends(task, task', "verified")
                     \/ tree[on] # commits[task.commit][on] /\ Ends(task, task', "refused")
    BY <1>1, CheckCommittedDoes
  <1> DEFINE p == Position(task)
             c == task.commit
             cm == commits[c]
  <1>3. tree' = tree /\ commits' = commits /\ folder' = folder /\ litter' = litter
    BY <1>2 DEF Surroundings
  <1>4. \/ (p = 2 \/ p = 51) /\ on = "protocol"
        \/ (p = 3 \/ p = 52) /\ on = "generators"
        \/ (p = 4 \/ p = 53) /\ on = "trace"
        \/ (p = 5 \/ p = 54) /\ on = "manifest"
        \/ (p = 6 \/ p = 55) /\ on = "evidence"
    BY <1>2 DEF Command
  <1>5. CASE tree[on] = cm[on] /\ Steps(task, task', c, task.saw, task.docs)
    <2>1. HandoffTyped(tree, commits, folder, task')
      <3>1. p # 28 /\ p # 30
        BY <1>4
      <3> QED BY <1>1, <1>5, <3>1, TypedStep DEF Steps
    <2>2. ASSUME Quiet(task')
          PROVE  Knows(task', tree, cm, folder, litter)
      <3>1. p \notin {38, 39, 40, 45, 48, 50}
            /\ p \notin {7, 8, 9, 10, 12, 13, 14, 15, 16, 17, 18, 20, 21, 22, 24, 25, 26, 27, 28, 29,
                         30, 31, 32, 33, 34, 35, 36, 41, 42, 44, 46, 49}
        BY <1>4
      <3>2. Quiet(task)
        BY <1>5, <2>2, <3>1, StillKnown
      <3>3. Knows(task, tree, cm, folder, litter)
        BY <3>2 DEF HandoffInv
      <3>4. InputsCommitted(p, tree, cm)
        BY <3>3 DEF Knows
      <3>5. InputsCommitted(p + 1, tree, cm)
        <4> HIDE DEF p, cm
        <4> QED BY <1>4, <1>5, <3>4 DEF InputsCommitted
      <3> QED BY <1>5, <2>2, <3>1, <3>3, <3>5, StillKnown
    <2>3. task'.commit = task.commit
      BY <1>5 DEF Steps, Moves
    <2> QED BY <1>3, <1>5, <2>1, <2>2, <2>3, StepKeepsInv DEF Steps, Moves
  <1>6. CASE tree[on] = cm[on] /\ p = 55 /\ Ends(task, task', "verified")
    <2>1. HandoffTyped(tree, commits, folder, task') /\ ~ Quiet(task')
      BY <1>1, <1>6, TypedEnd
    <2>2. /\ Runs(task) /\ task'.result = "verified" /\ task'.commit = c
          /\ task'.disturbed = task.disturbed
      BY <1>6 DEF Ends
    <2>3. Handoff!FreezeRepairs'
      BY <2>2 DEF Handoff!FreezeRepairs
    <2>4. ASSUME task.disturbed # "during"
          PROVE  folder = Handoff!BundleOf(c) /\ litter = {}
      <3>1. Quiet(task)
        BY <1>6, <2>2, <2>4 DEF Quiet
      <3>2. Knows(task, tree, cm, folder, litter)
        BY <3>1 DEF HandoffInv
      <3>3. DocsDerived(55, c, tree, folder) /\ InputsCommitted(55, tree, cm) /\ Inventoried(55, c, folder, litter)
        BY <1>6, <3>2 DEF Knows
      <3>4. tree = cm
        <4>1. on = "evidence"
          BY <1>4, <1>6
        <4>2. c \in DOMAIN commits
          BY <1>1, <1>6, <2>2 DEF HandoffTyped
        <4>3. tree \in Trees /\ cm \in Trees
          BY <1>1, <4>2 DEF HandoffTyped
        <4> HIDE DEF c, cm
        <4> QED BY <1>6, <3>3, <4>1, <4>3, TreesEqual DEF InputsCommitted
      <3>5. /\ DOMAIN folder = Everything /\ litter = {} /\ c = folder["bundle"].commit
            /\ \A f \in DerivedFiles : folder["bundle"].files[f] = folder[f]
        BY <3>3 DEF Inventoried, Matches
      <3>6. \A f \in DerivedFiles : Genuine(f, c, cm, folder)
        BY <3>3, <3>4 DEF DocsDerived, DerivedFiles
      <3>7. folder["bundle"] = [commit |-> c, files |-> [f \in DerivedFiles |-> folder["bundle"].files[f]]]
        BY <1>1, <3>5 DEF HandoffTyped, ManifestOf, Everything
      <3>8. folder = [f \in DOMAIN folder |-> folder[f]]
        BY <1>1 DEF HandoffTyped
      <3>9. folder = Handoff!BundleOf(c)
        <4> HIDE DEF c
        <4> QED BY <3>5, <3>6, <3>7, <3>8, BundleIs DEF cm
      <3> QED BY <3>5, <3>9
    <2>5. Handoff!BoundToCommit'
      BY <1>3, <2>2, <2>4 DEF Handoff!BoundToCommit, Handoff!BundleOf
    <2> QED BY <1>3, <2>1, <2>3, <2>5 DEF HandoffInv
  <1>7. CASE tree[on] # cm[on] /\ Ends(task, task', "refused")
    BY <1>2, <1>7, RefusalKeepsInv DEF Excused
  <1> QED BY <1>2, <1>5, <1>6, <1>7

----------------------------------------------------------------------------
(* The surroundings.                                                       *)

\* A task that nothing else has happened to is as much use as none.
LEMMA LoudKeepsInv ==
    ASSUME HandoffTyped(tree, commits, folder, task)', task'.result = "none", ~ Quiet(task')
    PROVE  HandoffInv'
  BY DEF HandoffInv, Handoff!BoundToCommit, Handoff!FreezeRepairs

LEMMA IdleIs == TaskShape(Handoff!Idle) /\ ~ Runs(Handoff!Idle) /\ Handoff!Idle.result = "none"
  BY DEF TaskShape, Runs, Handoff!Idle

LEMMA IdleTyped ==
    ASSUME NEW tr, NEW cs, NEW fo, NEW t, HandoffTyped(tr, cs, fo, t)
    PROVE  HandoffTyped(tr, cs, fo, Handoff!Idle)
  BY IdleIs DEF HandoffTyped

LEMMA DisturbDoes ==
    ASSUME HandoffTyped(tree, commits, folder, task), Handoff!Disturb
    PROVE  HandoffTyped(tree, commits, folder, task') /\ task'.result = "none" /\ ~ Quiet(task')
  <1>1. TaskShape(task)
    BY DEF HandoffTyped
  <1>2. CASE Handoff!Running
    <2> DEFINE d == IF Handoff!Verifying THEN "during" ELSE "before"
    <2>1. task' = [task EXCEPT !.disturbed = d]
      BY <1>2 DEF Handoff!Disturb
    <2>2. Runs(task) /\ Position(task) \in 1..55 /\ (Handoff!Verifying <=> Position(task) > 29)
      BY <1>1, <1>2, StepIs
    <2>3. (d = "during" \/ d = "before") /\ (Position(task) > 29 => d = "during")
      BY <2>2
    <2> HIDE DEF d
    <2>4. task' = [job |-> task.job, at |-> task.at, commit |-> task.commit, saw |-> task.saw, docs |-> task.docs,
                   disturbed |-> d, result |-> task.result]
      BY <1>1, <2>1 DEF TaskShape
    <2>5. TaskShape(task') /\ Runs(task') /\ Position(task') = Position(task)
      BY <1>1, <2>2, <2>4 DEF TaskShape, Runs, Position
    <2>6. task'.result = "none" /\ task'.disturbed = d /\ task'.job = task.job /\ task'.commit = task.commit
          /\ task'.docs = task.docs
      BY <2>2, <2>4 DEF Runs
    <2>7. HandoffTyped(tree, commits, folder, task')
      BY <2>2, <2>5, <2>6 DEF HandoffTyped
    <2>8. ~ Quiet(task')
      <3>1. Position(task) > 30 => Position(task) > 29
        BY <2>2
      <3> QED BY <2>3, <2>5, <2>6, <3>1 DEF Quiet, Fresh
    <2> QED BY <2>6, <2>7, <2>8
  <1>3. CASE ~ Handoff!Running
    <2>1. task' = Handoff!Idle
      BY <1>3 DEF Handoff!Disturb
    <2> QED BY <2>1, IdleIs, IdleTyped DEF Quiet
  <1> QED BY <1>2, <1>3

LEMMA EditKeeps ==
    ASSUME HandoffInv, NEW i \in Handoff!ToSet(Handoff!Inputs), NEW v \in Versions, Handoff!Edit(i, v)
    PROVE  HandoffInv'
  <1>1. tree' = [tree EXCEPT ![i] = v] /\ commits' = commits /\ folder' = folder /\ Handoff!Disturb
    BY DEF Handoff!Edit
  <1>2. HandoffTyped(tree, commits, folder, task') /\ task'.result = "none" /\ ~ Quiet(task')
    BY <1>1, DisturbDoes DEF HandoffInv
  <1>3. tree' \in Trees
    BY <1>1, <1>2 DEF HandoffTyped, Trees
  <1>4. HandoffTyped(tree', commits, folder, task')
    BY <1>2, <1>3 DEF HandoffTyped
  <1> QED BY <1>1, <1>2, <1>4, LoudKeepsInv

LEMMA MergeKeeps ==
    ASSUME HandoffInv, NEW f \in Handoff!ToSet(Handoff!OutputFiles), NEW c \in DOMAIN commits, Handoff!Merge(f, c)
    PROVE  HandoffInv'
  <1>1. /\ tree' = tree /\ commits' = commits /\ Handoff!Disturb /\ f \in DOMAIN folder
        /\ folder' = [folder EXCEPT ![f] = Handoff!BundleOf(c)[f]]
    BY DEF Handoff!Merge
  <1>2. HandoffTyped(tree, commits, folder, task') /\ task'.result = "none" /\ ~ Quiet(task')
    BY <1>1, DisturbDoes DEF HandoffInv
  <1>3. ManifestOf(Handoff!BundleOf(c)["bundle"], commits)
    <2> DEFINE saw == commits[c]
               anchors == [a \in Handoff!ToSet(Handoff!Anchors) |-> Handoff!Anchor(a, saw)]
               indexed == Handoff!Extended(anchors, "index", Handoff!EvidenceIndex(c, saw, anchors))
               planned == Handoff!Extended(indexed, "plan", Handoff!CampaignPlan(c, saw, indexed))
               derived == Handoff!Extended(planned, "ledger", Handoff!LedgerF0(planned))
               hashes == Handoff!BundleManifest(c, derived)
    <2>1. Handoff!BundleOf(c) = Handoff!Extended(derived, "bundle", hashes)
      BY DEF Handoff!BundleOf
    <2> HIDE DEF derived
    <2>2. ManifestOf(hashes, commits)
      BY ManifestIs
    <2> HIDE DEF hashes
    <2>3. Handoff!Extended(derived, "bundle", hashes)["bundle"] = hashes
      BY DEF Handoff!Extended
    <2> QED BY <2>1, <2>2, <2>3
  <1> DEFINE w == Handoff!BundleOf(c)
  <1> HIDE DEF w
  <1>4. /\ DOMAIN folder' = DOMAIN folder /\ folder' = [y \in DOMAIN folder' |-> folder'[y]]
        /\ \A y \in DOMAIN folder : folder'[y] = IF y = f THEN w[f] ELSE folder[y]
    <2>1. folder' = [folder EXCEPT ![f] = w[f]]
      BY <1>1 DEF w
    <2> QED BY <2>1
  <1>5. HandoffTyped(tree, commits, folder', task')
    <2>1. ASSUME "bundle" \in DOMAIN folder'
          PROVE  ManifestOf(folder'["bundle"], commits)
      <3>1. ManifestOf(folder["bundle"], commits)
        BY <1>2, <1>4, <2>1 DEF HandoffTyped
      <3>2. folder'["bundle"] = w["bundle"] \/ folder'["bundle"] = folder["bundle"]
        BY <1>4, <2>1
      <3>3. ManifestOf(w["bundle"], commits)
        BY <1>3 DEF w
      <3> QED BY <3>1, <3>2, <3>3
    <2> QED BY <1>2, <1>4, <2>1 DEF HandoffTyped
  <1> QED BY <1>1, <1>2, <1>5, LoudKeepsInv

\* A commit keeps those before it.
LEMMA CommitAdds ==
    ASSUME NEW cs \in Seq(Trees), NEW tr \in Trees
    PROVE  /\ Append(cs, tr) \in Seq(Trees) /\ DOMAIN cs \subseteq DOMAIN Append(cs, tr)
           /\ \A c \in DOMAIN cs : Append(cs, tr)[c] = cs[c]
  OBVIOUS

LEMMA CommitKeeps ==
    ASSUME HandoffInv, Handoff!Commit
    PROVE  HandoffInv'
  <1>1. /\ commits' = Append(commits, tree) /\ tree' = tree /\ folder' = folder /\ litter' = litter
        /\ task' = IF Handoff!Running THEN task ELSE Handoff!Idle
    BY DEF Handoff!Commit
  <1>2. HandoffTyped(tree, commits, folder, task) /\ TaskShape(task) /\ tree \in Trees /\ commits \in Seq(Trees)
    BY DEF HandoffInv, HandoffTyped
  <1>3. /\ commits' \in Seq(Trees) /\ DOMAIN commits \subseteq DOMAIN commits'
        /\ \A c \in DOMAIN commits : commits'[c] = commits[c]
    BY <1>1, <1>2, CommitAdds
  <1>4. HandoffTyped(tree, commits', folder, task)
    BY <1>2, <1>3 DEF HandoffTyped, ManifestOf
  <1>5. CASE Handoff!Running
    <2>1. task' = task /\ task.result = "none"
      BY <1>1, <1>5 DEF Handoff!Running
    <2>2. ASSUME Quiet(task)
          PROVE  Knows(task, tree, commits'[task.commit], folder, litter)
      <3>1. task.commit \in DOMAIN commits
        BY <1>2, <2>2 DEF Quiet, Fresh, HandoffTyped
      <3>2. Knows(task, tree, commits[task.commit], folder, litter)
        BY <2>2 DEF HandoffInv
      <3> QED BY <1>3, <3>1, <3>2
    <2>3. Handoff!BoundToCommit' /\ Handoff!FreezeRepairs'
      BY <2>1 DEF Handoff!BoundToCommit, Handoff!FreezeRepairs
    <2> QED BY <1>1, <1>4, <2>1, <2>2, <2>3 DEF HandoffInv
  <1>6. CASE ~ Handoff!Running
    <2>1. task' = Handoff!Idle
      BY <1>1, <1>6
    <2> QED BY <1>1, <1>4, <2>1, IdleIs, IdleTyped, LoudKeepsInv DEF Quiet
  <1> QED BY <1>5, <1>6

LEMMA KillKeeps ==
    ASSUME HandoffInv, Handoff!Kill
    PROVE  HandoffInv'
  <1>1. task' = Handoff!Idle /\ tree' = tree /\ commits' = commits /\ folder' = folder
    BY DEF Handoff!Kill
  <1>2. HandoffTyped(tree, commits, folder, Handoff!Idle)
    BY IdleTyped DEF HandoffInv
  <1> QED BY <1>1, <1>2, IdleIs, LoudKeepsInv DEF Quiet

LEMMA EmptyIs == DOMAIN <<>> = {} /\ <<>> = [f \in DOMAIN <<>> |-> <<>>[f]]
  OBVIOUS

LEMMA ClearKeeps ==
    ASSUME HandoffInv, Handoff!Clear
    PROVE  HandoffInv'
  <1>1. task' = Handoff!Idle /\ tree' = tree /\ commits' = commits /\ folder' = <<>>
    BY DEF Handoff!Clear
  <1>2. HandoffTyped(tree, commits, folder, Handoff!Idle)
    BY IdleTyped DEF HandoffInv
  <1>3. HandoffTyped(tree, commits, <<>>, Handoff!Idle)
    BY <1>2, EmptyIs DEF HandoffTyped
  <1> QED BY <1>1, <1>3, IdleIs, LoudKeepsInv DEF Quiet

\* A freeze starts at the first step, a verification at the inventory.
LEMMA StartKeeps ==
    ASSUME HandoffInv, NEW job \in {"freeze", "verify"}, NEW commit \in DOMAIN commits,
           Handoff!Start(job, commit)
    PROVE  HandoffInv'
  <1> DEFINE c == IF job = "freeze" THEN commit ELSE 0
  <1>1. /\ task' = [Handoff!Idle EXCEPT !.job = job, !.at = 1, !.commit = c]
        /\ tree' = tree /\ commits' = commits /\ folder' = folder /\ litter' = litter
    BY DEF Handoff!Start
  <1>2. job = "freeze" => c = commit
    OBVIOUS
  <1> HIDE DEF c
  <1>3. task' = [job |-> job, at |-> 1, commit |-> c, saw |-> <<>>, docs |-> <<>>, disturbed |-> "no",
                 result |-> "none"]
    BY <1>1 DEF Handoff!Idle
  <1>4. TaskShape(task') /\ Position(task') = (IF job = "freeze" THEN 1 ELSE 30) /\ task'.result = "none"
    BY <1>3 DEF TaskShape, Position
  <1>5. HandoffTyped(tree, commits, folder, task')
    BY <1>2, <1>3, <1>4 DEF HandoffInv, HandoffTyped
  <1>6. CASE job = "freeze"
    <2>1. Position(task') = 1
      BY <1>4, <1>6
    <2>2. Knows(task', tree, commits[task'.commit], folder, litter)
      BY <2>1 DEF Knows, InputsSeen, DocsHeld, DocsDerived, DocsWritten, InputsCommitted, Inventoried, Writes, Since
    <2>3. Handoff!BoundToCommit' /\ Handoff!FreezeRepairs'
      BY <1>4 DEF Handoff!BoundToCommit, Handoff!FreezeRepairs
    <2> QED BY <1>1, <1>5, <2>2, <2>3 DEF HandoffInv
  <1>7. CASE job # "freeze"
    <2>1. ~ Quiet(task')
      BY <1>3, <1>4, <1>7 DEF Quiet, Fresh
    <2> QED BY <1>1, <1>4, <1>5, <2>1, LoudKeepsInv
  <1> QED BY <1>6, <1>7

LEMMA HandoffStart ==
    ASSUME Handoff!FreezeConstants, Handoff!Init
    PROVE  HandoffInv
  <1>1. /\ tree = [i \in InputFiles |-> 0] /\ commits = <<tree>> /\ folder = <<>> /\ task = Handoff!Idle
        /\ 0 \in Versions
    BY FilesAre DEF Handoff!Init, Handoff!FreezeConstants
  <1>2. tree \in Trees
    BY <1>1 DEF Trees
  <1>3. commits \in Seq(Trees)
    BY <1>1, <1>2
  <1>4. HandoffTyped(tree, commits, folder, task)
    BY <1>1, <1>2, <1>3, IdleIs, EmptyIs DEF HandoffTyped
  <1> QED BY <1>1, <1>4, IdleIs DEF HandoffInv, Quiet, Handoff!BoundToCommit, Handoff!FreezeRepairs

LEMMA HandoffStep ==
    ASSUME HandoffInv, [Handoff!Next]_handoffVars
    PROVE  HandoffInv'
  <1>1. ASSUME NEW job \in {"freeze", "verify"}, NEW c \in DOMAIN commits, Handoff!Start(job, c)
        PROVE  HandoffInv'
    BY <1>1, StartKeeps
  <1>2. CASE Handoff!CheckClean
    BY <1>2, CleanKeeps
  <1>3. CASE Handoff!CheckCommitted
    BY <1>3, CommittedKeeps
  <1>4. CASE Handoff!CheckFolder
    BY <1>4, FolderKeeps
  <1>5. CASE Handoff!ReadInput
    BY <1>5, ReadKeeps
  <1>6. CASE Handoff!MatchReplay
    BY <1>6, MatchKeeps
  <1>7. CASE Handoff!Stage
    BY <1>7, StageKeeps
  <1>8. CASE Handoff!Rename
    BY <1>8, RenameKeeps
  <1>9. CASE Handoff!CheckInventory
    BY <1>9, InventoryKeeps
  <1>10. CASE Handoff!LoadDocument
    BY <1>10, LoadKeeps
  <1>11. CASE Handoff!Derive
    BY <1>11, DeriveKeeps
  <1>12. ASSUME NEW i \in Handoff!ToSet(Handoff!Inputs), NEW v \in Versions, Handoff!Edit(i, v)
         PROVE  HandoffInv'
    BY <1>12, EditKeeps
  <1>13. ASSUME NEW f \in Handoff!ToSet(Handoff!OutputFiles), NEW c \in DOMAIN commits, Handoff!Merge(f, c)
         PROVE  HandoffInv'
    BY <1>13, MergeKeeps
  <1>14. CASE Handoff!Commit
    BY <1>14, CommitKeeps
  <1>15. CASE Handoff!Kill
    BY <1>15, KillKeeps
  <1>16. CASE Handoff!Clear
    BY <1>16, ClearKeeps
  <1>17. CASE UNCHANGED handoffVars
    BY <1>17 DEF handoffVars, HandoffInv, Handoff!BoundToCommit, Handoff!FreezeRepairs, Handoff!Closed, Handoff!BundleOf
  <1> QED BY <1>1, <1>2, <1>3, <1>4, <1>5, <1>6, <1>7, <1>8, <1>9, <1>10, <1>11, <1>12, <1>13, <1>14, <1>15,
             <1>16, <1>17 DEF Handoff!Next

LEMMA HandoffFacts ==
    ASSUME HandoffInv
    PROVE  Handoff!BoundToCommit /\ Handoff!FreezeRepairs
  BY DEF HandoffInv

----------------------------------------------------------------------------
(* The composition.  Each theorem lifts the invariant of one part: it      *)
(* holds of the part's initial state, and no other part's step disturbs    *)
(* it.                                                                     *)

\* Accelerator time is authorised and spent in the stage order only: a
\* sealed budget follows gates that all passed, and what the ledger and the
\* document hold fits the budgets (SpendLedger in campaign_gate.py).
THEOREM LedgerAuthorized == Spec => []SpendAuthorized
  <1> DEFINE I == part = "ledger" => LedgerInv
  <1>1. Ledger!GateConstants
    BY PartsAssumption
  <1>2. Init => I
    BY <1>1, LedgerFacts DEF Init
  <1>3. I /\ [Next]_vars => I'
    BY <1>1, PartStays, StepOfPart, LedgerStep
  <1>4. I => SpendAuthorized
    BY <1>1, LedgerFacts DEF SpendAuthorized
  <1> HIDE DEF I
  <1> QED BY <1>2, <1>3, <1>4, PTL DEF Spec

\* No page leaks from the fixed pool, the free list reaches every free slot
\* once, and no copy of a released handle is live again (allocator.rs).
THEOREM SlotsSound == Spec => []PagesSound
  <1> DEFINE I == part = "pages" => PagesInv
  <1>1. Pages!SlotsConstants
    BY PartsAssumption
  <1>2. Init => I
    BY <1>1, PagesStart DEF Init
  <1>3. I /\ [Next]_vars => I'
    BY <1>1, PartStays, StepOfPart, PagesStep
  <1>4. I => PagesSound
    BY <1>1, PagesFacts DEF PagesSound
  <1> HIDE DEF I
  <1> QED BY <1>2, <1>3, <1>4, PTL DEF Spec

\* While the intervals cover the effects, the campaign never stops on a
\* verdict that is not true of them (sequential_gate.py).
THEOREM StopsTrue == Spec => []VerdictsTrue
  <1> DEFINE I == part = "stopping" => StoppingInv
  <1>1. Stopping!GateDeclaration
    BY PartsAssumption
  <1>2. Init => I
    BY <1>1, StoppingStart DEF Init
  <1>3. I /\ [Next]_vars => I'
    BY <1>1, PartStays, StepOfPart, StoppingStep
  <1>4. I => VerdictsTrue
    BY <1>1, StoppingFacts DEF VerdictsTrue
  <1> HIDE DEF I
  <1> QED BY <1>2, <1>3, <1>4, PTL DEF Spec

\* A bundle that verifies is the whole output of one run of its study,
\* whatever runs were killed and whatever files were edited before; a public
\* replay that verifies is the registered window of the registered trace,
\* unless the raw file was replaced between its two readings; and a freeze
\* that fails leaves the two files as it found them.
THEOREM EvidenceWhole == Spec => []BundlesWhole
  <1> DEFINE I == (part = "bundle" => BundleInv) /\ (part = "replay" => ReplayInv)
  <1>1. Bundle!BundleConstants /\ Replay!ReplayConstants
    BY PartsAssumption
  <1>2. Init => I
    BY <1>1, BundleStart, ReplayStart DEF Init
  <1>3. I /\ [Next]_vars => I'
    BY <1>1, PartStays, StepOfPart, BundleStep, ReplayStep
  <1>4. I => BundlesWhole
    BY <1>1, BundleFacts, ReplayFacts DEF BundlesWhole
  <1> HIDE DEF I
  <1> QED BY <1>2, <1>3, <1>4, PTL DEF Spec

\* A handoff that verifies is, document by document, the one of the commit it
\* names unless something changed during the verification, and a freeze that
\* is left alone repairs a stale or mixed directory (freeze_gpu_campaign.py).
THEOREM HandoffIsBound == Spec => []HandoffBound
  <1> DEFINE I == part = "handoff" => HandoffInv
  <1>1. Handoff!FreezeConstants
    BY PartsAssumption
  <1>2. Init => I
    BY <1>1, HandoffStart DEF Init
  <1>3. I /\ [Next]_vars => I'
    BY PartStays, StepOfPart, HandoffStep
  <1>4. I => HandoffBound
    BY HandoffFacts DEF HandoffBound
  <1> HIDE DEF I
  <1> QED BY <1>2, <1>3, <1>4, PTL DEF Spec

=============================================================================
