--------------------------- MODULE AiMeter_proofs ---------------------------
(***************************************************************************)
(* The bounds of the AI budget for every limit, any number of concurrent   *)
(* requests and any mix of tasks.                                          *)
(***************************************************************************)
EXTENDS AiMeter, FiniteSetTheorems, TLAPS

(* Past the check and not yet charged.                                     *)
Cleared(t) == IF t.kind \in CheckedFirst THEN t.pc # "check" ELSE t.pc = "charge"

InFlight(m) == {r \in DOMAIN tx : Cleared(tx[r]) /\ tx[r].month = m}

(* A request in flight may still take a call's worth of tokens: usage and  *)
(* what is reserved so stay within the bound.                              *)
Reserved ==
  HardStop => \A m \in 1..Months :
    used[m] + MaxTokens * Cardinality(InFlight(m)) <= Limit + MaxTokens * Cardinality(Reqs)

(* What a request has found in the log when it looked for its key.         *)
LookedUp(t) ==
  /\ t.began <= Len(log)
  /\ \A i \in 1..t.began : t.key # None /\ log[i].key = t.key => ~log[i].fresh

AllLookedUp == \A r \in DOMAIN tx : LookedUp(tx[r])

AInv == TypeOK /\ AllLookedUp /\ ChargedOncePerKey

-----------------------------------------------------------------------------
(* The invariant of the log holds initially, and every step keeps it.       *)
LEMMA InitInv == Init => AInv
BY MeterAssumption DEF Init, AInv, TypeOK, AllLookedUp, ChargedOncePerKey

(* A step on one request that leaves meter and log alone.                  *)
LEMMA RequestStep ==
  ASSUME AInv, UNCHANGED <<month, used, log>>, NEW r \in DOMAIN tx, NEW u \in Request,
         u.key = tx[r].key, u.began = tx[r].began, tx' = [tx EXCEPT ![r] = u]
  PROVE  AInv'
<1>1. TypeOK'
  BY DEF AInv, TypeOK
<1>2. AllLookedUp'
  BY DEF AInv, TypeOK, AllLookedUp, LookedUp
<1>3. ChargedOncePerKey'
  BY DEF AInv, ChargedOncePerKey
<1> QED BY <1>1, <1>2, <1>3 DEF AInv

LEMMA BeginInv ==
  ASSUME AInv, NEW r \in Reqs, NEW kind \in Kinds, NEW key \in Keys \cup {None},
         Begin(r, kind, key)
  PROVE  AInv'
<1> DEFINE u == [kind |-> kind, key |-> key, month |-> month, tokens |-> 0, began |-> Len(log),
                 pc |-> IF kind \in CheckedFirst THEN "check" ELSE "call"]
<1>1. u \in Request
  BY MeterAssumption DEF AInv, TypeOK, Request
<1>2. tx' = [s \in DOMAIN tx \cup {r} |-> IF s # r THEN tx[s] ELSE u]
  BY DEF Begin
<1>3. TypeOK'
  <2> HIDE DEF u
  <2> QED BY <1>1, <1>2 DEF AInv, TypeOK, Begin
<1>4. LookedUp(u)
  BY DEF Begin, Answered, LookedUp, AInv, TypeOK
<1>5. AllLookedUp'
  <2> HIDE DEF u
  <2> QED BY <1>2, <1>4 DEF AInv, AllLookedUp, LookedUp, Begin
<1>6. ChargedOncePerKey'
  BY DEF AInv, ChargedOncePerKey, Begin
<1> QED BY <1>3, <1>5, <1>6 DEF AInv

LEMMA CheckInv ==
  ASSUME AInv, NEW r \in Reqs, CheckBudget(r)
  PROVE  AInv'
<1> DEFINE u == [tx[r] EXCEPT !.pc = IF tx[r].kind \in CheckedFirst THEN "call" ELSE "charge"]
<1>1. r \in DOMAIN tx /\ tx[r] \in Request
  BY DEF CheckBudget, Open, AInv, TypeOK
<1>2. u \in Request /\ u.key = tx[r].key /\ u.began = tx[r].began
  BY <1>1 DEF Request
<1>3. tx' = [tx EXCEPT ![r] = u] /\ UNCHANGED <<month, used, log>>
  BY DEF CheckBudget
<1> HIDE DEF u
<1> QED BY <1>1, <1>2, <1>3, RequestStep

LEMMA CallInv ==
  ASSUME AInv, NEW r \in Reqs, NEW tokens \in 0..MaxTokens, CallModel(r, tokens)
  PROVE  AInv'
<1> DEFINE u == [tx[r] EXCEPT !.tokens = tokens,
                              !.month = IF tx[r].kind = "extract" THEN month ELSE @,
                              !.pc = IF tx[r].kind \in CheckedFirst THEN "charge" ELSE "check"]
<1>1. r \in DOMAIN tx /\ tx[r] \in Request /\ month \in 1..Months
  BY DEF CallModel, Open, AInv, TypeOK
<1>2. u \in Request /\ u.key = tx[r].key /\ u.began = tx[r].began
  BY <1>1 DEF Request
<1>3. tx' = [tx EXCEPT ![r] = u] /\ UNCHANGED <<month, used, log>>
  BY DEF CallModel
<1> HIDE DEF u
<1> QED BY <1>1, <1>2, <1>3, RequestStep

LEMMA CloseKeeps ==
  ASSUME AInv, NEW r \in DOMAIN tx, Close(r)
  PROVE  /\ DOMAIN tx' \subseteq Reqs /\ tx' \in [DOMAIN tx' -> Request]
         /\ \A s \in DOMAIN tx' : s \in DOMAIN tx /\ tx'[s] = tx[s]
BY DEF AInv, TypeOK, Close

(* The row a charge adds is under a key that no fresh row before its        *)
(* request's beginning has.                                                 *)
LEMMA ChargeInv ==
  ASSUME AInv, NEW r \in Reqs, Charge(r)
  PROVE  AInv'
<1> DEFINE t == tx[r]
           row == [key |-> t.key, month |-> t.month, tokens |-> t.tokens,
                   fresh |-> TRUE, began |-> t.began]
<1>1. r \in DOMAIN tx /\ t \in Request /\ LookedUp(t)
  BY DEF Charge, Open, AInv, TypeOK, AllLookedUp
<1>2. row \in LogRow
  BY <1>1 DEF Request, LogRow
<1>3. log' = log \/ log' = Append(log, row)
  BY DEF Charge
<1>4. log \in Seq(LogRow) /\ t.began \in Nat
  BY <1>1 DEF AInv, TypeOK, Request
<1>5. /\ log' \in Seq(LogRow) /\ Len(log') >= Len(log)
      /\ \A i \in 1..Len(log) : log'[i] = log[i]
  <2> HIDE DEF row
  <2> QED BY <1>2, <1>3, <1>4
<1>6. TypeOK'
  <2>1. used' \in [1..Months -> Nat]
    BY <1>1, MeterAssumption DEF Charge, AInv, TypeOK, Request
  <2> QED BY <1>1, <1>5, <2>1, CloseKeeps DEF Charge, AInv, TypeOK
<1>7. AllLookedUp'
  <2> SUFFICES ASSUME NEW s \in DOMAIN tx' PROVE LookedUp(tx[s])' /\ tx'[s] = tx[s]
    BY DEF AllLookedUp
  <2>1. s \in DOMAIN tx /\ tx'[s] = tx[s]
    BY <1>1, CloseKeeps DEF Charge
  <2>2. LookedUp(tx[s]) /\ tx[s].began \in Nat
    BY <2>1 DEF AInv, AllLookedUp, TypeOK, Request
  <2> QED BY <1>4, <1>5, <2>1, <2>2 DEF LookedUp
<1>8. ChargedOncePerKey'
  <2>1. CASE log' = log
    BY <2>1 DEF AInv, ChargedOncePerKey
  <2>2. CASE log' = Append(log, row)
    <3> SUFFICES ASSUME NEW i \in 1..Len(log'), NEW j \in 1..Len(log'), i < j,
                        log'[i].key = log'[j].key, log'[i].key # None, log'[i].fresh
                 PROVE  log'[j].began < i
      BY DEF ChargedOncePerKey
    <3>1. Len(log') = Len(log) + 1 /\ log'[Len(log) + 1] = row /\ i \in 1..Len(log)
      <4> HIDE DEF row
      <4> QED BY <2>2, <1>4, <1>2
    <3>2. CASE j = Len(log) + 1
      BY <3>1, <3>2, <1>1, <1>4, <1>5 DEF LookedUp
    <3>3. CASE j # Len(log) + 1
      BY <3>1, <3>3, <1>5 DEF AInv, ChargedOncePerKey
    <3> QED BY <3>2, <3>3
  <2> QED BY <1>3, <2>1, <2>2
<1> QED BY <1>6, <1>7, <1>8 DEF AInv

LEMMA FailInv ==
  ASSUME AInv, NEW r \in Reqs, Fail(r)
  PROVE  AInv'
<1>1. TypeOK' /\ AllLookedUp'
  BY CloseKeeps DEF Fail, AInv, TypeOK, AllLookedUp, LookedUp
<1>2. ChargedOncePerKey'
  BY DEF Fail, AInv, ChargedOncePerKey
<1> QED BY <1>1, <1>2 DEF AInv

(* Rows grow old, and are otherwise as they were.                          *)
LEMMA DayInv ==
  ASSUME AInv, NEW n \in 1..Len(log), DayPasses(n)
  PROVE  AInv'
<1>1. log \in Seq(LogRow)
  BY DEF AInv, TypeOK
<1>2. Len(log') = Len(log) /\ log' \in Seq(LogRow)
  <2>1. \A i \in 1..Len(log) : log[i] \in LogRow
    BY <1>1
  <2>2. \A row \in LogRow : [row EXCEPT !.fresh = FALSE] \in LogRow
    BY DEF LogRow
  <2>3. Len(log) \in Nat /\ log' \in [1..Len(log) -> LogRow]
    BY <1>1, <2>1, <2>2 DEF DayPasses
  <2> QED BY <2>3
<1>3. \A i \in 1..Len(log) : /\ log'[i].key = log[i].key
                             /\ log'[i].began = log[i].began
                             /\ log'[i].fresh => log[i].fresh
  BY <1>1 DEF DayPasses, LogRow
<1>4. TypeOK'
  BY <1>2 DEF AInv, TypeOK, DayPasses
<1>5. AllLookedUp'
  <2> SUFFICES ASSUME NEW s \in DOMAIN tx PROVE LookedUp(tx[s])'
    BY DEF AllLookedUp, DayPasses
  <2>1. LookedUp(tx[s]) /\ tx[s].began \in Nat /\ tx' = tx
    BY DEF AInv, AllLookedUp, TypeOK, Request, DayPasses
  <2> QED BY <2>1, <1>1, <1>2, <1>3 DEF LookedUp
<1>6. ChargedOncePerKey'
  BY <1>2, <1>3 DEF AInv, ChargedOncePerKey
<1> QED BY <1>4, <1>5, <1>6 DEF AInv

LEMMA NextInv == AInv /\ [Next]_vars => AInv'
<1> SUFFICES ASSUME AInv, [Next]_vars PROVE AInv'
  OBVIOUS
<1>1. ASSUME NEW r \in Reqs, NEW kind \in Kinds, NEW key \in Keys \cup {None}, Begin(r, kind, key)
      PROVE AInv'
  BY <1>1, BeginInv
<1>2. ASSUME NEW r \in Reqs, CheckBudget(r) PROVE AInv'
  BY <1>2, CheckInv
<1>3. ASSUME NEW r \in Reqs, NEW tokens \in 0..MaxTokens, CallModel(r, tokens) PROVE AInv'
  BY <1>3, CallInv
<1>4. ASSUME NEW r \in Reqs, Charge(r) PROVE AInv'
  BY <1>4, ChargeInv
<1>5. ASSUME NEW r \in Reqs, Fail(r) PROVE AInv'
  BY <1>5, FailInv
<1>6. ASSUME NewMonth PROVE AInv'
  BY <1>6, MeterAssumption
     DEF NewMonth, AInv, TypeOK, AllLookedUp, LookedUp, ChargedOncePerKey
<1>7. ASSUME NEW n \in 1..Len(log), DayPasses(n) PROVE AInv'
  BY <1>7, DayInv
<1>8. ASSUME UNCHANGED vars PROVE AInv'
  BY <1>8 DEF vars, AInv, TypeOK, AllLookedUp, LookedUp, ChargedOncePerKey
<1> QED BY <1>1, <1>2, <1>3, <1>4, <1>5, <1>6, <1>7, <1>8 DEF Next

(* Every reachable state of the meter, its log and the open requests is     *)
(* well typed.                                                              *)
THEOREM TypeCorrect == Spec => []TypeOK
<1>1. AInv => TypeOK
  BY DEF AInv
<1> QED BY InitInv, NextInv, <1>1, PTL DEF Spec

(* A retry within the window is charged again only if it began before the   *)
(* first attempt was charged: findIdempotentReplay for every set of keys.   *)
THEOREM OncePerKey == Spec => []ChargedOncePerKey
<1>1. AInv => ChargedOncePerKey
  BY DEF AInv
<1> QED BY InitInv, NextInv, <1>1, PTL DEF Spec

-----------------------------------------------------------------------------
(* The two facts of arithmetic the counting needs.                         *)
LEMMA OneMore ==
  ASSUME NEW k \in Nat
  PROVE  MaxTokens * (k + 1) = MaxTokens * k + MaxTokens /\ MaxTokens * k \in Nat
BY MeterAssumption

LEMMA Monotone ==
  ASSUME NEW j \in Nat, NEW k \in Nat, j <= k
  PROVE  MaxTokens * j <= MaxTokens * k
BY MeterAssumption

LEMMA FiniteFlight ==
  ASSUME TypeOK, NEW m \in 1..Months
  PROVE  /\ IsFiniteSet(InFlight(m)) /\ Cardinality(InFlight(m)) \in Nat
         /\ Cardinality(InFlight(m)) <= Cardinality(Reqs) /\ Cardinality(Reqs) \in Nat
<1>1. InFlight(m) \subseteq Reqs
  BY DEF TypeOK, InFlight
<1> QED BY <1>1, MeterAssumption, FS_Subset, FS_CardinalityType

(* The bound of one month.                                                 *)
ReservedIn(m) ==
  used[m] + MaxTokens * Cardinality(InFlight(m)) <= Limit + MaxTokens * Cardinality(Reqs)

(* A month in which nothing is charged and no request is cleared.          *)
LEMMA Fewer ==
  ASSUME TypeOK, TypeOK', NEW m \in 1..Months, ReservedIn(m), used'[m] = used[m],
         InFlight(m)' \subseteq InFlight(m)
  PROVE  ReservedIn(m)'
<1>1. Cardinality(InFlight(m)') <= Cardinality(InFlight(m))
  BY FiniteFlight, FS_Subset
<1>2. Cardinality(InFlight(m)) \in Nat /\ Cardinality(InFlight(m)') \in Nat
  BY FiniteFlight, FS_CardinalityType, FS_Subset
<1>3. MaxTokens * Cardinality(InFlight(m)') <= MaxTokens * Cardinality(InFlight(m))
  BY <1>1, <1>2, Monotone
<1>4. used[m] \in Nat
  BY DEF TypeOK
<1>5. /\ MaxTokens * Cardinality(InFlight(m)') \in Nat /\ MaxTokens * Cardinality(InFlight(m)) \in Nat
      /\ Limit + MaxTokens * Cardinality(Reqs) \in Nat
  BY <1>2, FiniteFlight, OneMore, MeterAssumption
<1> QED BY <1>3, <1>4, <1>5 DEF ReservedIn

(* A request that has seen the month's usage within the limit is cleared:  *)
(* at most every slot is in flight then.                                   *)
LEMMA JustChecked ==
  ASSUME TypeOK', NEW m \in 1..Months, used'[m] <= Limit
  PROVE  ReservedIn(m)'
<1>1. /\ Cardinality(InFlight(m)') \in Nat /\ Cardinality(InFlight(m)') <= Cardinality(Reqs)
      /\ Cardinality(Reqs) \in Nat
  <2>1. InFlight(m)' \subseteq Reqs
    BY DEF TypeOK, InFlight
  <2> QED BY <2>1, MeterAssumption, FS_Subset, FS_CardinalityType
<1>2. /\ MaxTokens * Cardinality(InFlight(m)') <= MaxTokens * Cardinality(Reqs)
      /\ MaxTokens * Cardinality(InFlight(m)') \in Nat /\ MaxTokens * Cardinality(Reqs) \in Nat
  BY <1>1, Monotone, OneMore
<1>3. used'[m] \in Nat /\ Limit \in Nat
  BY MeterAssumption DEF TypeOK
<1> QED BY <1>2, <1>3 DEF ReservedIn

(* A charge takes its request out of flight and no more than a call's      *)
(* tokens out of what was reserved for it.                                 *)
LEMMA Charged ==
  ASSUME TypeOK, TypeOK', NEW m \in 1..Months, ReservedIn(m), NEW r \in InFlight(m),
         NEW tokens \in 0..MaxTokens, used'[m] = used[m] + tokens,
         InFlight(m)' = InFlight(m) \ {r}
  PROVE  ReservedIn(m)'
<1> DEFINE k == Cardinality(InFlight(m)')
<1>1. Cardinality(InFlight(m)) = k + 1 /\ k \in Nat
  <2>1. IsFiniteSet(InFlight(m)) /\ IsFiniteSet(InFlight(m)')
    BY FiniteFlight, FS_Subset
  <2>2. k = Cardinality(InFlight(m)) - 1
    BY <2>1, FS_RemoveElement
  <2> QED BY <2>1, <2>2, FS_CardinalityType
<1>2. MaxTokens * Cardinality(InFlight(m)) = MaxTokens * k + MaxTokens /\ MaxTokens * k \in Nat
  BY <1>1, OneMore
<1>3. used[m] \in Nat /\ tokens \in Nat /\ tokens <= MaxTokens /\ MaxTokens \in Nat
  BY MeterAssumption DEF TypeOK
<1>4. Limit + MaxTokens * Cardinality(Reqs) \in Nat
  BY FiniteFlight, OneMore, MeterAssumption
<1>5. used[m] + (MaxTokens * k + MaxTokens) <= Limit + MaxTokens * Cardinality(Reqs)
  BY <1>2 DEF ReservedIn
<1>6. used'[m] + MaxTokens * k <= Limit + MaxTokens * Cardinality(Reqs)
  <2> HIDE DEF k
  <2> QED BY <1>2, <1>3, <1>4, <1>5
<1> QED BY <1>6 DEF ReservedIn

LEMMA ReservedInit == Init => Reserved
<1> SUFFICES ASSUME Init, NEW m \in 1..Months
             PROVE  used[m] + MaxTokens * Cardinality(InFlight(m)) <= Limit + MaxTokens * Cardinality(Reqs)
  BY DEF Reserved
<1>1. InFlight(m) = {} /\ used[m] = 0
  BY DEF Init, InFlight
<1>2. Cardinality(InFlight(m)) = 0 /\ MaxTokens * 0 = 0
  BY <1>1, FS_EmptySet, MeterAssumption
<1>3. Limit + MaxTokens * Cardinality(Reqs) \in Nat
  BY MeterAssumption, FS_CardinalityType, OneMore
<1> QED BY <1>1, <1>2, <1>3

LEMMA ReservedStep ==
  ASSUME TypeOK, TypeOK', Reserved, Next
  PROVE  Reserved'
<1> SUFFICES ASSUME HardStop, NEW m \in 1..Months PROVE ReservedIn(m)'
  BY DEF Reserved, ReservedIn
<1> USE DEF Cleared
<1>0. ReservedIn(m)
  BY DEF Reserved, ReservedIn
<1>1. ASSUME NEW r \in Reqs, NEW kind \in Kinds, NEW key \in Keys \cup {None}, Begin(r, kind, key)
      PROVE ReservedIn(m)'
  <2>1. InFlight(m)' \subseteq InFlight(m) /\ used'[m] = used[m]
    BY <1>1 DEF Begin, InFlight, TypeOK, Kinds, CheckedFirst
  <2> QED BY <1>0, <2>1, Fewer
<1>2. ASSUME NEW r \in Reqs, CheckBudget(r) PROVE ReservedIn(m)'
  <2>1. r \in DOMAIN tx /\ tx[r] \in Request
    BY <1>2 DEF CheckBudget, Open, TypeOK
  <2>2. CASE tx[r].month = m
    <3>1. Expected(tx[r]) \in Nat
      BY <2>1, MeterAssumption DEF Expected, Request, Kinds
    <3>2. used[m] <= Limit /\ used' = used
      BY <1>2, <2>1, <2>2, <3>1, MeterAssumption DEF CheckBudget, WithinBudget, TypeOK
    <3> QED BY <3>2, JustChecked
  <2>3. CASE tx[r].month # m
    <3>1. InFlight(m)' \subseteq InFlight(m) /\ used'[m] = used[m]
      BY <1>2, <2>1, <2>3 DEF CheckBudget, InFlight, TypeOK, Request
    <3> QED BY <1>0, <3>1, Fewer
  <2> QED BY <2>2, <2>3
<1>3. ASSUME NEW r \in Reqs, NEW tokens \in 0..MaxTokens, CallModel(r, tokens) PROVE ReservedIn(m)'
  <2>1. r \in DOMAIN tx /\ tx[r] \in Request /\ tx[r].pc = "call"
    BY <1>3 DEF CallModel, Open, TypeOK
  <2>2. /\ DOMAIN tx' = DOMAIN tx /\ \A s \in DOMAIN tx \ {r} : tx'[s] = tx[s]
        /\ tx'[r].kind = tx[r].kind
        /\ tx[r].kind # "extract" => tx'[r].month = tx[r].month
        /\ tx'[r].pc = IF tx[r].kind \in CheckedFirst THEN "charge" ELSE "check"
    BY <1>3, <2>1 DEF CallModel, Request
  <2>3. Cleared(tx'[r]) => Cleared(tx[r]) /\ tx'[r].month = tx[r].month
    BY <2>1, <2>2 DEF Cleared, CheckedFirst
  <2>4. InFlight(m)' \subseteq InFlight(m)
    BY <2>2, <2>3 DEF InFlight
  <2>5. used'[m] = used[m]
    BY <1>3 DEF CallModel
  <2> QED BY <1>0, <2>4, <2>5, Fewer
<1>4. ASSUME NEW r \in Reqs, Charge(r) PROVE ReservedIn(m)'
  <2>1. r \in DOMAIN tx /\ tx[r] \in Request /\ tx[r].pc = "charge"
    BY <1>4 DEF Charge, Open, TypeOK
  <2>2. InFlight(m)' = InFlight(m) \ {r}
    BY <1>4 DEF Charge, Close, InFlight
  <2>3. CASE tx[r].month = m
    <3>1. r \in InFlight(m) /\ tx[r].tokens \in 0..MaxTokens
      BY <2>1, <2>3 DEF InFlight, Request
    <3>2. used'[m] = used[m] + tx[r].tokens
      BY <1>4, <2>3 DEF Charge, TypeOK
    <3> QED BY <1>0, <2>2, <3>1, <3>2, Charged
  <2>4. CASE tx[r].month # m
    <3>1. used'[m] = used[m]
      BY <1>4, <2>4 DEF Charge, TypeOK
    <3> QED BY <1>0, <2>2, <3>1, Fewer
  <2> QED BY <2>3, <2>4
<1>5. ASSUME NEW r \in Reqs, Fail(r) PROVE ReservedIn(m)'
  <2>1. InFlight(m)' \subseteq InFlight(m) /\ used'[m] = used[m]
    BY <1>5 DEF Fail, Close, InFlight
  <2> QED BY <1>0, <2>1, Fewer
<1>6. ASSUME UNCHANGED <<used, tx>> PROVE ReservedIn(m)'
  <2>1. InFlight(m)' \subseteq InFlight(m) /\ used'[m] = used[m]
    BY <1>6 DEF InFlight
  <2> QED BY <1>0, <2>1, Fewer
<1> QED BY <1>1, <1>2, <1>3, <1>4, <1>5, <1>6 DEF Next, NewMonth, DayPasses

(* However many requests a month sees, its usage passes the limit by no     *)
(* more than one call of each request that can be open at once: the reach   *)
(* of the gap between enforceBudgetOrThrow and upsertUsage.                 *)
THEOREM OvershootBounded == Spec => []OvershootIsBounded
<1>1. TypeOK /\ TypeOK' /\ Reserved /\ [Next]_vars => Reserved'
  <2> SUFFICES ASSUME TypeOK, TypeOK', Reserved, [Next]_vars PROVE Reserved'
    OBVIOUS
  <2>1. CASE Next
    BY <2>1, ReservedStep
  <2>2. CASE UNCHANGED vars
    BY <2>2 DEF vars, Reserved, InFlight
  <2> QED BY <2>1, <2>2
<1>2. TypeOK /\ Reserved => OvershootIsBounded
  <2> SUFFICES ASSUME TypeOK, Reserved, HardStop, NEW m \in 1..Months
               PROVE  used[m] <= Limit + MaxTokens * Cardinality(Reqs)
    BY DEF OvershootIsBounded
  <2>1. ReservedIn(m)
    BY DEF Reserved, ReservedIn
  <2>2. used[m] \in Nat /\ MaxTokens * Cardinality(InFlight(m)) \in Nat
    BY FiniteFlight, OneMore DEF TypeOK
  <2>3. Limit + MaxTokens * Cardinality(Reqs) \in Nat
    BY FiniteFlight, OneMore, MeterAssumption
  <2> QED BY <2>1, <2>2, <2>3 DEF ReservedIn
<1> QED BY TypeCorrect, ReservedInit, <1>1, <1>2, PTL DEF Spec
-----------------------------------------------------------------------------
(* A charge extends the running totals of its month by its own tokens and  *)
(* repeats the last one of every other month.                              *)
LEMMA ChargeKeepsTotals ==
  ASSUME TypeOK, NEW m \in 1..Months, NEW total \in Totals(m), NEW r \in Reqs, Charge(r)
  PROVE  Totals(m)' # {}
<1>1. PICK t : t = tx[r]
  OBVIOUS
<1>2. PICK last : last = Len(log)
  OBVIOUS
<1>3. /\ t \in Request /\ t.tokens \in Nat /\ t.month \in 1..Months
      /\ log \in Seq(LogRow) /\ last \in Nat /\ used \in [1..Months -> Nat]
  BY <1>1, <1>2, MeterAssumption DEF Charge, Open, TypeOK, Request
<1>4. /\ total \in [0..last -> 0..used[m]] /\ total[0] = 0
      /\ \A i \in 1..last :
           total[i] = total[i - 1] + (IF log[i].month = m THEN log[i].tokens ELSE 0)
  BY <1>2 DEF Totals
<1>5. PICK more : more = IF t.month = m THEN t.tokens ELSE 0
  OBVIOUS
<1>6. more \in Nat /\ used'[m] = used[m] + more /\ used[m] \in Nat
  BY <1>1, <1>3, <1>5 DEF Charge
<1>7. CASE log' = log
  <2>1. total \in [0..last -> 0..used'[m]]
    BY <1>3, <1>4, <1>6
  <2>2. total \in Totals(m)'
    BY <1>2, <1>4, <1>7, <2>1 DEF Totals
  <2> QED BY <2>2
<1>8. CASE log' # log
  <2>1. PICK row : row = [key |-> t.key, month |-> t.month, tokens |-> t.tokens,
                          fresh |-> TRUE, began |-> t.began]
    OBVIOUS
  <2>2. log' = Append(log, row) /\ row.month = t.month /\ row.tokens = t.tokens /\ row \in LogRow
    BY <1>1, <1>3, <1>8, <2>1 DEF Charge, Request, LogRow
  <2>3. /\ Len(log') = last + 1 /\ log'[last + 1] = row
        /\ \A i \in 1..last : log'[i] = log[i]
    BY <1>2, <1>3, <2>2
  <2>4. PICK longer : longer = [i \in 0..(last + 1) |-> IF i <= last THEN total[i] ELSE total[last] + more]
    OBVIOUS
  <2>5. longer \in [0..(last + 1) -> 0..used'[m]]
    <3>1. \A i \in 0..last : total[i] \in Nat /\ total[i] <= used[m]
      BY <1>4, <1>6
    <3>2. total[last] + more \in 0..used'[m]
      BY <1>3, <1>6, <3>1
    <3>3. \A i \in 0..last : total[i] \in 0..used'[m]
      BY <1>6, <3>1
    <3> QED BY <1>3, <2>4, <3>2, <3>3
  <2>6. longer[0] = 0
    BY <1>3, <1>4, <2>4
  <2>7. ASSUME NEW i \in 1..(last + 1)
        PROVE  longer[i] = longer[i - 1] + (IF log'[i].month = m THEN log'[i].tokens ELSE 0)
    <3>1. CASE i = last + 1
      BY <1>3, <1>5, <2>2, <2>3, <2>4, <3>1
    <3>2. CASE i # last + 1
      <4>1. i \in 1..last /\ i - 1 \in 0..last /\ i \in 0..last
        BY <1>3, <3>2
      <4>2. longer[i] = total[i] /\ longer[i - 1] = total[i - 1]
        BY <1>3, <2>4, <4>1
      <4> QED BY <1>4, <2>3, <4>1, <4>2
    <3> QED BY <3>1, <3>2
  <2>8. longer \in Totals(m)'
    BY <2>3, <2>5, <2>6, <2>7 DEF Totals
  <2> QED BY <2>8
<1> QED BY <1>7, <1>8

(* For every limit and any number of concurrent requests, what the log     *)
(* speaks of is in the meter.                                              *)
THEOREM LogIsCovered == Spec => []MeterCoversLog
<1>1. Init => MeterCoversLog
  <2> SUFFICES ASSUME Init, NEW m \in 1..Months PROVE Totals(m) # {}
    BY DEF MeterCoversLog
  <2>1. Len(log) = 0 /\ used[m] = 0
    BY DEF Init
  <2>2. PICK total : total = [i \in 0..0 |-> 0]
    OBVIOUS
  <2>3. total \in [0..0 -> 0..0] /\ total[0] = 0
    BY <2>2
  <2>4. total \in Totals(m)
    BY <2>1, <2>3 DEF Totals
  <2> QED BY <2>4
<1>2. TypeOK /\ MeterCoversLog /\ [Next]_vars => MeterCoversLog'
  <2> SUFFICES ASSUME TypeOK, MeterCoversLog, [Next]_vars, NEW m \in 1..Months
               PROVE  Totals(m)' # {}
    BY DEF MeterCoversLog
  <2>1. PICK total \in Totals(m) : TRUE
    BY DEF MeterCoversLog
  <2>2. CASE UNCHANGED <<used, log>>
    BY <2>1, <2>2 DEF Totals
  <2>3. ASSUME NEW r \in Reqs, Charge(r) PROVE Totals(m)' # {}
    BY <2>1, <2>3, ChargeKeepsTotals
  <2>4. ASSUME NEW n \in 1..Len(log), DayPasses(n) PROVE Totals(m)' # {}
    <3>1. log \in Seq(LogRow) /\ used' = used /\ Len(log') = Len(log)
      BY <2>4 DEF DayPasses, TypeOK
    <3>2. \A i \in 1..Len(log) : log'[i].month = log[i].month /\ log'[i].tokens = log[i].tokens
      BY <2>4, <3>1 DEF DayPasses, LogRow
    <3>3. total \in Totals(m)'
      BY <2>1, <3>1, <3>2 DEF Totals
    <3> QED BY <3>3
  <2>5. \/ UNCHANGED <<used, log>>
        \/ \E r \in Reqs : Charge(r)
        \/ \E n \in 1..Len(log) : DayPasses(n)
    BY DEF Next, Begin, CheckBudget, CallModel, Fail, NewMonth, vars
  <2> QED BY <2>2, <2>3, <2>4, <2>5
<1> QED BY <1>1, <1>2, TypeCorrect, PTL DEF Spec
=============================================================================
