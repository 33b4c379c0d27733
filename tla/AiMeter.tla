------------------------------ MODULE AiMeter ------------------------------
(***************************************************************************)
(* The AI budget of one tenant: aiBudget.ts and the requests that spend    *)
(* from it, runAiInference (inferenceService.ts), the extraction of a      *)
(* document (routes/tenant/documents.ts) and the passport assistant        *)
(* (passportAssistant.ts).                                                 *)
(*                                                                         *)
(* All of them compare the month's usage with the limit, call the model    *)
(* and add what the call took to the meter, and they differ in the order:  *)
(*   advise    insights, negotiation advice: check, call, charge, in one   *)
(*             transaction                                                 *)
(*   assist    RFQ and supplier profile: call, then check and charge       *)
(*   extract   call, then check the tokens it took, and charge             *)
(*   passport  check, call, charge, each by itself; no log row             *)
(* The transactions are READ COMMITTED and lock nothing before the charge, *)
(* so that other requests run between any two of the three.                *)
(***************************************************************************)
EXTENDS Naturals, FiniteSets, Sequences

CONSTANTS Limit, HardStop,   \* the tenant's ai_budgets row, or its defaults
          Preflight,         \* task -> the tokens it is expected to take
          MaxTokens,         \* the most a call takes
          None,              \* no idempotency key
          Keys,              \* idempotency keys
          Reqs,              \* slots for concurrent requests
          Months,            \* bound: months that pass
          MaxLog             \* bound: no request begins with this many log rows

Kinds        == {"advise", "assist", "extract", "passport"}
CheckedFirst == {"advise", "passport"}
Keyed        == {"advise", "assist"}      \* runAiInference

ASSUME MeterAssumption ==
  /\ Limit \in Nat /\ HardStop \in BOOLEAN /\ MaxTokens \in Nat
  /\ Preflight \in [Kinds \ {"extract"} -> Nat]
  /\ None \notin Keys
  /\ IsFiniteSet(Reqs)
  /\ Months \in Nat \ {0} /\ MaxLog \in Nat

VARIABLES month,   \* the current month
          used,    \* ai_usage_meters: month -> tokens
          log,     \* reasoning_logs of charged requests, in commit order
          tx       \* slot -> the open request

vars == <<month, used, log, tx>>

(* fresh: younger than the 24 hours of AI_IDEMPOTENCY_WINDOW_MS; began is    *)
(* history: how many rows the log had when the request looked for its key.   *)
LogRow  == [key: Keys \cup {None}, month: 1..Months, tokens: 0..MaxTokens,
            fresh: BOOLEAN, began: Nat]

Request == [kind: Kinds, key: Keys \cup {None}, month: 1..Months,
            pc: {"check", "call", "charge"}, tokens: 0..MaxTokens, began: Nat]

TypeOK ==
  /\ month \in 1..Months
  /\ used \in [1..Months -> Nat]
  /\ log \in Seq(LogRow)
  /\ DOMAIN tx \subseteq Reqs /\ tx \in [DOMAIN tx -> Request]

Init ==
  /\ month = 1
  /\ used = [m \in 1..Months |-> 0]
  /\ log = << >>
  /\ tx = << >>

Open(r, pc) == r \in DOMAIN tx /\ tx[r].pc = pc

Close(r) == tx' = [s \in DOMAIN tx \ {r} |-> tx[s]]

-----------------------------------------------------------------------------
AnsweredThisMonth(kind, key) ==
  key # None /\ \E i \in 1..Len(log) : log[i].key = key /\ log[i].fresh /\ log[i].month = month

(* findIdempotentReplay: a fresh row with the key answers the request,      *)
(* whichever task wrote it.                                                 *)
Answered(kind, key) ==
  key # None /\ \E i \in 1..Len(log) : log[i].key = key /\ log[i].fresh

(* The request fixes its month; a key is looked up before anything else.    *)
(* Requests over the rate limit and answered ones leave no trace.           *)
Begin(r, kind, key) ==
  /\ r \notin DOMAIN tx
  /\ Len(log) < MaxLog
  /\ kind \notin Keyed => key = None
  /\ ~Answered(kind, key)
  /\ tx' = [s \in DOMAIN tx \cup {r} |->
              IF s # r THEN tx[s]
              ELSE [kind |-> kind, key |-> key, month |-> month, tokens |-> 0, began |-> Len(log),
                    pc |-> IF kind \in CheckedFirst THEN "check" ELSE "call"]]
  /\ UNCHANGED <<month, used, log>>

(* What enforceBudgetOrThrow adds to the usage.                             *)
Expected(t) == IF t.kind = "extract" THEN t.tokens ELSE Preflight[t.kind]

FitsAlone(t) == HardStop => Expected(t) <= Limit

WithinBudget(t) == HardStop => used[t.month] + Expected(t) <= Limit

(* loadTenantBudget, getUsage, enforceBudgetOrThrow.  A request that is over *)
(* the limit is refused: Fail.                                               *)
CheckBudget(r) ==
  /\ Open(r, "check")
  /\ WithinBudget(tx[r])
  /\ tx' = [tx EXCEPT ![r].pc = IF tx[r].kind \in CheckedFirst THEN "call" ELSE "charge"]
  /\ UNCHANGED <<month, used, log>>

(* generateContent: an error or a timeout counts as no tokens, in the       *)
(* assistant as those of the prompt.  An extraction takes its month now.    *)
CallModel(r, tokens) ==
  /\ Open(r, "call")
  /\ tx' = [tx EXCEPT ![r].tokens = tokens,
                      ![r].month = IF tx[r].kind = "extract" THEN month ELSE @,
                      ![r].pc = IF tx[r].kind \in CheckedFirst THEN "charge" ELSE "check"]
  /\ UNCHANGED <<month, used, log>>

ChargeOverwrites(r) ==
  /\ Open(r, "charge")
  /\ LET t == tx[r] IN
     /\ used' = [used EXCEPT ![t.month] = t.tokens]
     /\ log' = IF t.kind = "passport" THEN log
               ELSE Append(log, [key |-> t.key, month |-> t.month, tokens |-> t.tokens,
                                 fresh |-> TRUE, began |-> t.began])
  /\ Close(r) /\ UNCHANGED month

(* upsertUsage increments the month's row; with it, in one commit, goes the *)
(* row of the reasoning log.                                                *)
Charge(r) ==
  /\ Open(r, "charge")
  /\ LET t == tx[r] IN
     /\ used' = [used EXCEPT ![t.month] = @ + t.tokens]
     /\ log' = IF t.kind = "passport" THEN log
               ELSE Append(log, [key |-> t.key, month |-> t.month, tokens |-> t.tokens,
                                 fresh |-> TRUE, began |-> t.began])
  /\ Close(r) /\ UNCHANGED month

(* Refused, timed out or lost: the transaction is rolled back.  The charge  *)
(* of the assistant may be lost after its answer.                           *)
Fail(r) ==
  /\ r \in DOMAIN tx
  /\ Close(r) /\ UNCHANGED <<month, used, log>>

NewMonth ==
  /\ month < Months
  /\ month' = month + 1
  /\ UNCHANGED <<used, log, tx>>

(* The first n rows are older than a day; no request stays open that long.  *)
DayPasses(n) ==
  /\ \A r \in DOMAIN tx : tx[r].began >= n
  /\ log' = [i \in 1..Len(log) |-> IF i <= n THEN [log[i] EXCEPT !.fresh = FALSE] ELSE log[i]]
  /\ UNCHANGED <<month, used, tx>>

Next ==
  \/ \E r \in Reqs :
       \/ \E kind \in Kinds, key \in Keys \cup {None} : Begin(r, kind, key)
       \/ CheckBudget(r)
       \/ \E tokens \in 0..MaxTokens : CallModel(r, tokens)
       \/ Charge(r)
       \/ Fail(r)
  \/ NewMonth
  \/ \E n \in 1..Len(log) : DayPasses(n)

Spec == Init /\ [][Next]_vars

-----------------------------------------------------------------------------
(* "implements hard-stop behavior when budgets are exceeded": the check and *)
(* the charge are apart, and what slips between them is bounded.  However   *)
(* many requests a month sees, its usage passes the limit by no more than   *)
(* one call of each request that can be open at once.                       *)
OvershootIsBounded ==
  HardStop => \A m \in 1..Months : used[m] <= Limit + MaxTokens * Cardinality(Reqs)

(* The running totals of a month's log rows, none above its usage.          *)
Totals(m) ==
  {total \in [0..Len(log) -> 0..used[m]] :
     /\ total[0] = 0
     /\ \A i \in 1..Len(log) :
          total[i] = total[i - 1] + (IF log[i].month = m THEN log[i].tokens ELSE 0)}

(* "Reasoning log + audit log writes remain atomic" with the meter: all     *)
(* tokens the log rows speak of together are in the meter of their month,   *)
(* whichever charges met on the row of that month.                          *)
MeterCoversLog == \A m \in 1..Months : Totals(m) # {}

(* The idempotency window: of two requests charged under one key within it, *)
(* the later began before the earlier was charged.  A retry of an answered  *)
(* request is not charged again.                                            *)
ChargedOncePerKey ==
  \A i, j \in 1..Len(log) :
    i < j /\ log[i].key = log[j].key /\ log[i].key # None /\ log[i].fresh => log[j].began < i

=============================================================================
