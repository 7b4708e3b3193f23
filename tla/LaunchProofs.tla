---------------------------- MODULE LaunchProofs ----------------------------
(***************************************************************************)
(* The threshold check for every number of units, reservations and         *)
(* requests in flight, and every choice of thresholds: no sale that        *)
(* crosses the threshold goes unnoticed (an invariant inductive as it      *)
(* stands, given the types), and only a handler that another one overtook  *)
(* takes the block out of its life cycle.                                  *)
(***************************************************************************)
EXTENDS LaunchHistory, UnitLedgerProofs, FiniteSetTheorems

IInv == LaunchTypeOK /\ CrossingIsNoticed

-----------------------------------------------------------------------------

\* The quotient of a larger number is not smaller.
LEMMA DivMonotone ==
    ASSUME NEW x \in Nat, NEW y \in Nat, NEW c \in Nat, c > 0, x <= y
    PROVE  x \div c <= y \div c
OBVIOUS

LEMMA PercentIsNat == \A percent \in Thresholds : percent \in Nat
BY LaunchAssumption

LEMMA PercentType == SoldPercent \in Nat /\ SoldPercent' \in Nat
<1>1. /\ Cardinality(SoldUnits) \in Nat /\ Cardinality(SoldUnits') \in Nat
      /\ Cardinality(Units) \in Nat
  BY FS_Subset, FS_CardinalityType, LaunchAssumption DEF SoldUnits
<1>2. ASSUME NEW sold \in Nat, NEW total \in Nat, total # 0
      PROVE  (200 * sold + total) \div (2 * total) \in Nat
  <2>1. /\ 200 * sold + total \in Nat
        /\ 2 * total \in Nat /\ 2 * total > 0
    BY <1>2
  <2> QED BY <2>1
<1> QED BY <1>1, <1>2 DEF SoldPercent

\* A block whose sold units become fewer is not sold to a higher percentage.
LEMMA PercentMonotone ==
    ASSUME SoldUnits' \subseteq SoldUnits
    PROVE  SoldPercent' <= SoldPercent
<1> DEFINE sold == Cardinality(SoldUnits)
           total == Cardinality(Units)
<1>1. IsFiniteSet(SoldUnits)
  BY FS_Subset, LaunchAssumption DEF SoldUnits
<1>2. sold \in Nat /\ sold' \in Nat /\ sold' <= sold
  BY <1>1, FS_Subset, FS_CardinalityType
<1>3. total \in Nat
  BY FS_CardinalityType, LaunchAssumption
<1>4. CASE total = 0
  BY <1>4 DEF SoldPercent
<1>5. CASE total # 0
  <2>1. /\ 200 * sold + total \in Nat /\ 200 * sold' + total \in Nat
        /\ 200 * sold' + total <= 200 * sold + total
        /\ 2 * total \in Nat /\ 2 * total > 0
    BY <1>2, <1>3, <1>5
  <2>2. (200 * sold' + total) \div (2 * total) <= (200 * sold + total) \div (2 * total)
    BY <2>1, DivMonotone
  <2> QED BY <1>5, <2>2 DEF SoldPercent
<1> QED BY <1>4, <1>5

\* The check of a sale, the financing, and the transactions keep the types.
LEMMA LaunchTypeStep ==
    ASSUME LaunchTypeOK, [Next]_vars
    PROVE  LaunchTypeOK'
<1>1. [LedgerNext]_ledgerVars
  BY DEF Next, OtherSale, EditUnit, ConfirmSale, CheckFundingThreshold, ReadBlock,
         ReadUnits, WriteReached, Financing, SubmitRead, SubmitWrite, SecureRead,
         SecureWrite, CallAborts, SetThreshold, LedgerNext, vars
<1>2. LedgerTypeOK'
  BY <1>1, LedgerTypeStep DEF LaunchTypeOK
<1>3. {"EN_COMMERCIALISATION", "SEUIL_ATTEINT", "FINANCEMENT_EN_COURS",
       "EN_CONSTRUCTION"} \subseteq LaunchStatuses
  BY DEF LaunchStatuses, LaunchOrder
<1>4. launch' \in LaunchStatuses
  BY <1>3 DEF Next, OtherSale, EditUnit, ConfirmSale, CheckFundingThreshold, ReadBlock,
         ReadUnits, WriteReached, Financing, SubmitRead, SubmitWrite, SecureRead,
         SecureWrite, CallAborts, SetThreshold, LaunchTypeOK, launchVars, vars
<1>5. threshold' \in Thresholds /\ excused' \in BOOLEAN
  BY DEF Next, OtherSale, EditUnit, ConfirmSale, CheckFundingThreshold, ReadBlock,
         ReadUnits, WriteReached, Financing, SubmitRead, SubmitWrite, SecureRead,
         SecureWrite, CallAborts, SetThreshold, LaunchTypeOK, launchVars, vars
<1>6. call' \in [Handlers -> Calls \cup {Idle}]
  BY DEF Next, OtherSale, EditUnit, ConfirmSale, CheckFundingThreshold, ReadBlock,
         ReadUnits, WriteReached, Financing, SubmitRead, SubmitWrite, SecureRead,
         SecureWrite, CallAborts, SetThreshold, LaunchTypeOK, launchVars, vars,
         Calls, Idle, Goto, Finish
<1> QED
  BY <1>2, <1>4, <1>5, <1>6 DEF LaunchTypeOK

-----------------------------------------------------------------------------

\* No step leaves a crossing without a check that will see it.
LEMMA CrossingStep ==
    ASSUME IInv, [Next]_vars
    PROVE  CrossingIsNoticed'
<1> USE DEF IInv, CrossingIsNoticed
<1>1. SoldPercent \in Nat /\ threshold \in Nat
  BY PercentType, LaunchAssumption DEF LaunchTypeOK
<1>2. SoldPercent' \in Nat
  BY PercentType
<1>3. ASSUME UNCHANGED unitStatus PROVE SoldPercent' = SoldPercent
  BY <1>3 DEF SoldPercent, SoldUnits
<1>4. CASE OtherSale
  <2>1. SoldUnits' \subseteq SoldUnits
    BY <1>4 DEF OtherSale, ReserveTx, CancelTx, WriteBoth, SetStatusTx, SoldUnits,
                LaunchTypeOK, LedgerTypeOK
  <2>2. SoldPercent' <= SoldPercent
    BY <2>1, PercentMonotone
  <2> QED BY <1>1, <1>2, <1>4, <2>2 DEF OtherSale, launchVars
<1>5. ASSUME NEW u \in Units, NEW s \in EditStatuses, EditUnit(u, s)
      PROVE  CrossingIsNoticed'
  BY <1>5 DEF EditUnit
<1>6. ASSUME NEW h \in Handlers, NEW r \in Reservations, ConfirmSale(h, r)
      PROVE  CrossingIsNoticed'
  <2>1. call'[h].op = "block"
    BY <1>6 DEF ConfirmSale, Goto, LaunchTypeOK
  <2> QED BY <2>1
<1>7. ASSUME NEW h \in Handlers, ReadBlock(h)
      PROVE  CrossingIsNoticed'
  <2>1. CASE launch = "EN_COMMERCIALISATION"
    <3>1. call'[h].op = "units" /\ call'[h].percent = threshold
      BY <1>7, <2>1 DEF ReadBlock, LaunchTypeOK
    <3> QED BY <1>1, <1>7, <3>1 DEF ReadBlock
  <2>2. CASE launch # "EN_COMMERCIALISATION"
    BY <1>7, <2>2 DEF ReadBlock
  <2> QED BY <2>1, <2>2
<1>8. ASSUME NEW h \in Handlers, ReadUnits(h)
      PROVE  CrossingIsNoticed'
  <2>1. SoldPercent' = SoldPercent
    BY <1>3, <1>8 DEF ReadUnits, ledgerVars
  <2>2. CASE SoldPercent < call[h].percent
    <3>1. \A g \in Handlers \ {h} : call'[g] = call[g]
      BY <1>8, <2>2 DEF ReadUnits, Finish, LaunchTypeOK
    <3>2. call[h] \in Calls \cup {Idle} /\ call[h].op = "units"
      BY <1>8 DEF ReadUnits, LaunchTypeOK
    <3>3. call[h].percent \in Thresholds
      BY <3>2 DEF Calls, Idle
    <3>4. call[h].percent \in Nat
      BY <3>3, PercentIsNat
    <3> QED BY <1>1, <1>8, <2>1, <2>2, <3>1, <3>4 DEF ReadUnits
  <2>3. CASE ~(SoldPercent < call[h].percent)
    <3>1. call'[h].op = "reach"
      BY <1>8, <2>3 DEF ReadUnits, Goto, LaunchTypeOK
    <3> QED BY <3>1
  <2> QED BY <2>2, <2>3
<1>9. ASSUME NEW h \in Handlers, WriteReached(h) \/ SubmitWrite(h) \/ SecureWrite(h)
      PROVE  CrossingIsNoticed'
  BY <1>9 DEF WriteReached, SubmitWrite, SecureWrite
<1>10. ASSUME NEW h \in Handlers, SubmitRead(h) \/ SecureRead(h)
       PROVE  CrossingIsNoticed'
  BY <1>10 DEF SubmitRead, SecureRead
<1>11. ASSUME NEW h \in Handlers, CallAborts(h)
       PROVE  CrossingIsNoticed'
  <2>1. SoldPercent' = SoldPercent
    BY <1>3, <1>11 DEF CallAborts, ledgerVars
  <2>2. \A g \in Handlers \ {h} : call'[g] = call[g]
    BY <1>11 DEF CallAborts, Finish, LaunchTypeOK
  <2> QED BY <1>11, <2>1, <2>2 DEF CallAborts
<1>12. ASSUME NEW percent \in Thresholds, SetThreshold(percent)
       PROVE  CrossingIsNoticed'
  BY <1>12 DEF SetThreshold
<1>13. CASE UNCHANGED vars
  BY <1>3, <1>13 DEF vars, ledgerVars, launchVars
<1> QED
  BY <1>4, <1>5, <1>6, <1>7, <1>8, <1>9, <1>10, <1>11, <1>12, <1>13
     DEF Next, CheckFundingThreshold, Financing

-----------------------------------------------------------------------------

\* The invariant holds in every reachable state.
LEMMA SpecInv == Spec => []IInv
<1>1. ASSUME Init PROVE IInv
  <2>1. LedgerTypeOK
    BY <1>1, LedgerAssumption
       DEF Init, LedgerInit, LedgerTypeOK, Created, UnitStatuses, ReservationStatuses
  <2>2. "EN_COMMERCIALISATION" \in LaunchStatuses
    BY DEF LaunchStatuses, LaunchOrder
  <2>3. LaunchTypeOK
    BY <1>1, <2>1, <2>2 DEF Init, LaunchTypeOK
  <2>4. SoldUnits = {}
    BY <1>1 DEF Init, LedgerInit, SoldUnits
  <2>5. SoldPercent = 0
    <3>1. Cardinality(SoldUnits) = 0 /\ Cardinality(Units) \in Nat
      BY <2>4, FS_EmptySet, FS_CardinalityType, LaunchAssumption
    <3> DEFINE total == Cardinality(Units)
    <3>2. ASSUME total # 0 PROVE total \div (2 * total) = 0
      <4>1. total \in Nat /\ total > 0
        BY <3>1, <3>2
      <4> HIDE DEF total
      <4> QED BY <4>1
    <3>3. 200 * 0 + total = total
      BY <3>1
    <3> QED BY <3>1, <3>2, <3>3 DEF SoldPercent
  <2>6. threshold \in Nat /\ threshold >= 1
    BY <1>1, LaunchAssumption DEF Init
  <2> QED BY <2>3, <2>5, <2>6 DEF IInv, CrossingIsNoticed
<1>2. IInv /\ [Next]_vars => IInv'
  BY LaunchTypeStep, CrossingStep DEF IInv
<1> QED BY <1>1, <1>2, PTL DEF Spec

\* Type correctness of the launch service.
THEOREM LaunchType == Spec => []LaunchTypeOK
BY SpecInv, PTL DEF IInv

\* No sale that crosses the threshold goes unnoticed (checkFundingThreshold).
THEOREM NoCrossingIsMissed == Spec => []CrossingIsNoticed
BY SpecInv, PTL DEF IInv

\* Every step of the launch service is a transaction of the ledger, or leaves
\* both tables alone: the checks only read the sales.
LEMMA LedgerPart ==
    ASSUME [Next]_vars
    PROVE  [LedgerNext]_ledgerVars
<1>1. CASE OtherSale
  BY <1>1 DEF OtherSale, LedgerNext
<1>2. ASSUME NEW u \in Units, NEW s \in EditStatuses, EditUnit(u, s)
      PROVE  LedgerNext
  BY <1>2 DEF EditUnit, LedgerNext
<1>3. ASSUME NEW h \in Handlers, NEW r \in Reservations, ConfirmSale(h, r)
      PROVE  LedgerNext
  BY <1>3 DEF ConfirmSale, LedgerNext
<1>4. ASSUME NEW h \in Handlers,
             CheckFundingThreshold(h) \/ Financing(h) \/ CallAborts(h)
      PROVE  UNCHANGED ledgerVars
  BY <1>4 DEF CheckFundingThreshold, ReadBlock, ReadUnits, WriteReached,
              Financing, SubmitRead, SubmitWrite, SecureRead, SecureWrite, CallAborts
<1>5. ASSUME NEW percent \in Thresholds, SetThreshold(percent)
      PROVE  UNCHANGED ledgerVars
  BY <1>5 DEF SetThreshold
<1>6. CASE UNCHANGED vars
  BY <1>6 DEF vars
<1> QED
  BY <1>1, <1>2, <1>3, <1>4, <1>5, <1>6 DEF Next

\* The sales that a block is launched on are the ledger's: what is proved of
\* its transactions holds beside checks, financing and edits of the threshold.
THEOREM LaunchImplementsLedger == Spec => LedgerSpec
<1>1. Init => LedgerInit
  BY DEF Init
<1>2. [Next]_vars => [LedgerNext]_ledgerVars
  BY LedgerPart
<1> QED
  BY <1>1, <1>2, PTL DEF Spec, LedgerSpec

-----------------------------------------------------------------------------
(* How a block leaves its life cycle.                                      *)

\* The stage at which a handler past its check of the block has read it.
ReadAt(op) ==
    CASE op = "submit" -> "SEUIL_ATTEINT"
      [] op = "secure" -> "FINANCEMENT_EN_COURS"
      [] OTHER -> "EN_COMMERCIALISATION"

\* A handler about to write finds the block as it has read it, or has been
\* overtaken.
OvertakenInv ==
    \A h \in Handlers :
        call[h].op \in {"units", "reach", "submit", "secure"}
          => launch = ReadAt(call[h].op) \/ h \in overtaken

\* A handler goes on reading the block, on what it has read, or not at all.
LEMMA HandlerKeepsStage ==
    ASSUME LaunchTypeOK, Next, NEW h \in Handlers,
           call'[h].op \in {"units", "reach", "submit", "secure"}
    PROVE  \/ launch' = ReadAt(call'[h].op)
           \/ /\ call[h].op \in {"units", "reach", "submit", "secure"}
              /\ ReadAt(call'[h].op) = ReadAt(call[h].op)
<1> USE DEF LaunchTypeOK, Goto, Finish, Idle, ReadAt
<1>1. CASE \/ OtherSale
           \/ \E u \in Units, s \in EditStatuses : EditUnit(u, s)
           \/ \E percent \in Thresholds : SetThreshold(percent)
  BY <1>1 DEF OtherSale, EditUnit, SetThreshold, launchVars
<1>2. ASSUME NEW g \in Handlers, NEW r \in Reservations, ConfirmSale(g, r)
      PROVE  call'[h] = call[h]
  BY <1>2 DEF ConfirmSale
<1>3. ASSUME NEW g \in Handlers, ReadBlock(g)
      PROVE  call'[h] = call[h] \/ launch' = ReadAt(call'[h].op)
  BY <1>3 DEF ReadBlock
<1>4. ASSUME NEW g \in Handlers, ReadUnits(g)
      PROVE  \/ call'[h] = call[h]
             \/ call[h].op = "units" /\ call'[h].op = "reach"
  BY <1>4 DEF ReadUnits
<1>5. ASSUME NEW g \in Handlers, SubmitRead(g) \/ SecureRead(g)
      PROVE  call'[h] = call[h] \/ launch' = ReadAt(call'[h].op)
  BY <1>5 DEF SubmitRead, SecureRead
<1>6. ASSUME NEW g \in Handlers,
             WriteReached(g) \/ SubmitWrite(g) \/ SecureWrite(g) \/ CallAborts(g)
      PROVE  call'[h] = call[h]
  BY <1>6 DEF WriteReached, SubmitWrite, SecureWrite, CallAborts
<1> QED
  BY <1>1, <1>2, <1>3, <1>4, <1>5, <1>6 DEF Next, CheckFundingThreshold, Financing

\* A move of the block is remembered by all the handlers it overtakes.
LEMMA OvertakenStep ==
    ASSUME LaunchTypeOK, OvertakenInv, [Next /\ Overtakes]_historyVars
    PROVE  OvertakenInv'
<1>1. CASE UNCHANGED historyVars
  BY <1>1 DEF historyVars, vars, launchVars, OvertakenInv, ReadAt
<1>2. CASE Next /\ Overtakes
  <2> SUFFICES ASSUME NEW h \in Handlers,
                      call'[h].op \in {"units", "reach", "submit", "secure"}
               PROVE  launch' = ReadAt(call'[h].op) \/ h \in overtaken'
    BY DEF OvertakenInv, ReadAt
  <2>1. CASE launch' = ReadAt(call'[h].op)
    BY <2>1
  <2>2. CASE launch' # ReadAt(call'[h].op)
    <3>1. /\ call[h].op \in {"units", "reach", "submit", "secure"}
          /\ ReadAt(call'[h].op) = ReadAt(call[h].op)
      BY <1>2, <2>2, HandlerKeepsStage
    <3>2. h \in overtaken \/ launch' # launch
      BY <2>2, <3>1 DEF OvertakenInv
    <3>3. call[h] # Idle /\ call'[h] # Idle
      BY <3>1 DEF Idle
    <3> QED BY <1>2, <3>2, <3>3 DEF Overtakes
  <2> QED BY <2>1, <2>2
<1> QED BY <1>1, <1>2

\* The stages that follow each other, and those a block stays in.
LEMMA ForwardStages ==
    /\ \A s \in LaunchStatuses : Forward(s, s)
    /\ Forward("EN_COMMERCIALISATION", "SEUIL_ATTEINT")
    /\ Forward("SEUIL_ATTEINT", "FINANCEMENT_EN_COURS")
    /\ Forward("FINANCEMENT_EN_COURS", "EN_CONSTRUCTION")
<1>1. ASSUME NEW s \in LaunchStatuses PROVE Forward(s, s)
  <2>1. PICK n \in 1 .. 5 : s = LaunchOrder[n]
    BY DEF LaunchStatuses
  <2> QED BY <2>1 DEF Forward
<1>2. ASSUME NEW n \in 1 .. 4 PROVE Forward(LaunchOrder[n], LaunchOrder[n + 1])
  <2>1. n \in 1 .. 5 /\ n + 1 \in 1 .. 5
    OBVIOUS
  <2> QED BY <2>1 DEF Forward
<1>3. /\ LaunchOrder[1] = "EN_COMMERCIALISATION"
      /\ LaunchOrder[2] = "SEUIL_ATTEINT"
      /\ LaunchOrder[3] = "FINANCEMENT_EN_COURS"
      /\ LaunchOrder[4] = "EN_CONSTRUCTION"
  BY DEF LaunchOrder
<1>4. /\ Forward(LaunchOrder[1], LaunchOrder[2])
      /\ Forward(LaunchOrder[2], LaunchOrder[3])
      /\ Forward(LaunchOrder[3], LaunchOrder[4])
  <2>1. Forward(LaunchOrder[1], LaunchOrder[1 + 1])
    BY <1>2
  <2>2. Forward(LaunchOrder[2], LaunchOrder[2 + 1])
    BY <1>2
  <2>3. Forward(LaunchOrder[3], LaunchOrder[3 + 1])
    BY <1>2
  <2> QED BY <2>1, <2>2, <2>3
<1> QED BY <1>1, <1>3, <1>4

\* The body of OffCourseByOvertakenOnly, as a formula on one step.
OffCourseStep ==
    ~Forward(launch, launch') => \E h \in overtaken : call'[h] = Idle

\* Each of the three writes moves the block one stage forward from the stage
\* its handler has read.
LEMMA OffCourseStepHolds ==
    ASSUME LaunchTypeOK, OvertakenInv, Next
    PROVE  OffCourseStep
<1>1. ASSUME launch' = launch PROVE OffCourseStep
  BY <1>1, ForwardStages DEF OffCourseStep, LaunchTypeOK
<1>2. ASSUME NEW h \in Handlers, WriteReached(h)
      PROVE  OffCourseStep
  <2>1. call'[h] = Idle /\ launch' = "SEUIL_ATTEINT"
    BY <1>2 DEF WriteReached, Finish, LaunchTypeOK
  <2>2. launch = "EN_COMMERCIALISATION" \/ h \in overtaken
    BY <1>2 DEF WriteReached, OvertakenInv, ReadAt
  <2> QED BY <2>1, <2>2, ForwardStages DEF OffCourseStep
<1>3. ASSUME NEW h \in Handlers, SubmitWrite(h)
      PROVE  OffCourseStep
  <2>1. call'[h] = Idle /\ launch' = "FINANCEMENT_EN_COURS"
    BY <1>3 DEF SubmitWrite, Finish, LaunchTypeOK
  <2>2. launch = "SEUIL_ATTEINT" \/ h \in overtaken
    BY <1>3 DEF SubmitWrite, OvertakenInv, ReadAt
  <2> QED BY <2>1, <2>2, ForwardStages DEF OffCourseStep
<1>4. ASSUME NEW h \in Handlers, SecureWrite(h)
      PROVE  OffCourseStep
  <2>1. call'[h] = Idle /\ launch' = "EN_CONSTRUCTION"
    BY <1>4 DEF SecureWrite, Finish, LaunchTypeOK
  <2>2. launch = "FINANCEMENT_EN_COURS" \/ h \in overtaken
    BY <1>4 DEF SecureWrite, OvertakenInv, ReadAt
  <2> QED BY <2>1, <2>2, ForwardStages DEF OffCourseStep
<1>5. CASE ~ \E h \in Handlers : WriteReached(h) \/ SubmitWrite(h) \/ SecureWrite(h)
  <2>1. launch' = launch
    BY <1>5 DEF Next, OtherSale, EditUnit, ConfirmSale, CheckFundingThreshold, ReadBlock,
                ReadUnits, Financing, SubmitRead, SecureRead, CallAborts, SetThreshold,
                launchVars
  <2> QED BY <1>1, <2>1
<1> QED BY <1>2, <1>3, <1>4, <1>5

\* The history variable constrains no behaviour of the service.
LEMMA HistoryIsService == HistorySpec => Spec
<1>1. HistoryInit => Init
  BY DEF HistoryInit
<1>2. [Next /\ Overtakes]_historyVars => [Next]_vars
  BY DEF historyVars
<1> QED BY <1>1, <1>2, PTL DEF HistorySpec, Spec

\* A block leaves the life cycle drawn over LaunchService through a handler
\* that another one overtook, and through no other.
THEOREM LifeCycleLeft == HistorySpec => OffCourseByOvertakenOnly
<1>1. HistoryInit => OvertakenInv
  BY DEF HistoryInit, Init, OvertakenInv, Idle
<1>2. LaunchTypeOK /\ OvertakenInv /\ [Next /\ Overtakes]_historyVars => OvertakenInv'
  BY OvertakenStep
<1>3. LaunchTypeOK /\ OvertakenInv /\ [Next /\ Overtakes]_historyVars
          => [OffCourseStep]_historyVars
  BY OffCourseStepHolds
<1> QED
  BY <1>1, <1>2, <1>3, HistoryIsService, LaunchType, PTL
     DEF HistorySpec, OffCourseByOvertakenOnly, OffCourseStep

=============================================================================
