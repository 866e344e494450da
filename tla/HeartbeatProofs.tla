-------------------------- MODULE HeartbeatProofs --------------------------
(***************************************************************************)
(* Proofs about the lease keeper, for any set of claims and any intervals: *)
(* a confirmed deadline is safe, no claim outlives it by more than a lease *)
(* where timers fire in time, and a responsive database loses no lease.    *)
(* Besides the deadlines of the table, two countdowns are deadlines to be: *)
(* the one a claim statement was sent with, for the rows on their way to   *)
(* the table, and the one a renewal was sent with, for the tokens it       *)
(* returned.  Both were started before PostgreSQL set the lease.           *)
(***************************************************************************)
EXTENDS Heartbeat, WellFoundedInduction, TLAPS

Countdowns ==
    /\ lease_until \in [Claims -> Nat]
    /\ deadline \in [Claims -> Int]
    /\ \A t \in Claims : lease_until[t] <= LeaseTTL
    /\ claim_left \in Nat /\ claim_left <= LeaseTTL
    /\ confirm \in Nat /\ confirm <= LeaseTTL

Sets ==
    /\ row \subseteq Claims /\ table \subseteq Claims
    /\ fetched \subseteq Claims /\ renewed \subseteq tokens
    /\ claim_pc \in {"idle", "sent"} => fetched = {}
    /\ pc \in {"top", "sleep", "snapshot", "sent"} => renewed = {}

DeadlinesAreSafe ==
    /\ ConfirmedDeadlineIsSafe
    /\ \A t \in fetched \cap row : claim_left <= lease_until[t]
    /\ \A t \in renewed \cap row : confirm <= lease_until[t]

IndInv == Countdowns /\ Sets /\ DeadlinesAreSafe

USE HeartbeatAssumption

\* The invariant holds when the worker starts.
LEMMA InitInv == Init => IndInv
  BY DEF Init, IndInv, Countdowns, Sets, DeadlinesAreSafe, ConfirmedDeadlineIsSafe

\* Time passes for every countdown alike.
LEMMA TickKeepsInv == IndInv /\ Tick => IndInv'
<1> SUFFICES ASSUME IndInv, Tick PROVE IndInv'
  OBVIOUS
<1>1. \A n \in Nat : Down(n) \in Nat /\ Down(n) <= n /\ n <= Down(n) + 1
  BY DEF Down
<1>2. \A m, n \in Nat : m <= n => Down(m) <= Down(n)
  BY DEF Down
<1>3. Countdowns'
  BY <1>1 DEF IndInv, Countdowns, Tick, Floor
<1>4. Sets'
  BY DEF IndInv, Sets, Tick
<1>5. ConfirmedDeadlineIsSafe'
  <2> SUFFICES ASSUME NEW t \in table \cap row
               PROVE  deadline'[t] <= lease_until'[t]
    BY DEF ConfirmedDeadlineIsSafe, Tick
  <2>1. t \in Claims /\ lease_until[t] \in Nat /\ deadline[t] \in Int
    BY DEF IndInv, Sets, Countdowns
  <2>2. deadline[t] <= lease_until[t]
    BY DEF IndInv, DeadlinesAreSafe, ConfirmedDeadlineIsSafe
  <2>3. lease_until'[t] = Down(lease_until[t])
    BY <2>1 DEF Tick
  <2>4. deadline'[t] = IF deadline[t] > Floor THEN deadline[t] - 1 ELSE deadline[t]
    BY <2>1 DEF Tick
  <2>5. lease_until[t] <= Down(lease_until[t]) + 1 /\ Down(lease_until[t]) \in Nat
    BY <1>1, <2>1
  <2> QED
    BY <2>1, <2>2, <2>3, <2>4, <2>5 DEF Floor
<1>6. (\A t \in fetched \cap row : claim_left <= lease_until[t])'
  BY <1>2 DEF IndInv, Sets, Countdowns, DeadlinesAreSafe, Tick
<1>7. (\A t \in renewed \cap row : confirm <= lease_until[t])'
  BY <1>2 DEF IndInv, Sets, Countdowns, DeadlinesAreSafe, Tick
<1> QED
  BY <1>3, <1>4, <1>5, <1>6, <1>7 DEF IndInv, DeadlinesAreSafe

USE DEF IndInv, Countdowns, Sets, DeadlinesAreSafe, ConfirmedDeadlineIsSafe,
        dbVars, tableVars, claimVars, beatVars

\* PostgreSQL grants LeaseTTL to rows whose tokens nothing else refers to.
LEMMA ClaimKeepsInv == ASSUME NEW S \in SUBSET Claims, IndInv, ClaimRows(S) PROVE IndInv'
<1>1. Countdowns'
  BY DEF ClaimRows
<1>2. Sets'
  BY DEF ClaimRows
<1>3. ConfirmedDeadlineIsSafe'
  BY DEF ClaimRows, Fresh
<1>4. (\A t \in fetched \cap row : claim_left <= lease_until[t])'
  BY DEF ClaimRows
<1>5. (\A t \in renewed \cap row : confirm <= lease_until[t])'
  BY DEF ClaimRows, Fresh
<1> QED
  BY <1>1, <1>2, <1>3, <1>4, <1>5

\* A claim is inserted, ends, is deleted, or loses its row.
LEMMA ClaimStepsKeepInv ==
  ASSUME IndInv, NEW t \in Claims,
         \/ InsertClaim(t) \/ Finish(t) \/ Delete(t)
         \/ GiveUpRow(t) \/ RecoverRow(t)
  PROVE  IndInv'
<1>1. CASE InsertClaim(t)
  <2>1. Countdowns' /\ Sets'
    BY <1>1 DEF InsertClaim
  <2>2. DeadlinesAreSafe'
    BY <1>1 DEF InsertClaim
  <2> QED
    BY <2>1, <2>2
<1>2. CASE Finish(t)
  BY <1>2 DEF Finish
<1>3. CASE Delete(t)
  BY <1>3 DEF Delete
<1>4. CASE GiveUpRow(t) \/ RecoverRow(t)
  BY <1>4 DEF GiveUpRow, RecoverRow, RowLeaves
<1> QED
  BY <1>1, <1>2, <1>3, <1>4

\* Steps of the heartbeat loop and of its statement.
LEMMA BeatStepsKeepInv ==
  ASSUME IndInv,
         \/ Loop \/ Renew \/ StopWork \/ StrayRenewal
         \/ \E late \in BOOLEAN : RenewalFails(late)
  PROVE  IndInv'
<1>1. CASE Sleep \/ WakeForDeadline
  BY <1>1 DEF Sleep, WakeForDeadline
<1>2. CASE WakeForRenewal
  BY <1>2 DEF WakeForRenewal
<1>3. CASE Snapshot
  BY <1>3 DEF Snapshot, ToTop
<1>4. CASE ApplyRenewal
  <2>1. Countdowns' /\ Sets'
    BY <1>4 DEF ApplyRenewal, ToTop
  <2>2. DeadlinesAreSafe'
    BY <1>4 DEF ApplyRenewal, ToTop
  <2> QED
    BY <2>1, <2>2
<1>5. CASE Renew
  <2>1. Countdowns' /\ Sets'
    BY <1>5 DEF Renew, Extend, Renewable
  <2>2. DeadlinesAreSafe'
    BY <1>5 DEF Renew, Extend, Renewable
  <2> QED
    BY <2>1, <2>2
<1>6. CASE StopWork
  BY <1>6 DEF StopWork
<1>7. CASE StrayRenewal
  BY <1>7 DEF StrayRenewal, Extend, Renewable
<1>8. CASE \E late \in BOOLEAN : RenewalFails(late)
  BY <1>8 DEF RenewalFails, ToTop
<1> QED
  BY <1>1, <1>2, <1>3, <1>4, <1>5, <1>6, <1>7, <1>8 DEF Loop

\* The invariant is inductive.
LEMMA NextKeepsInv == IndInv /\ [Next]_vars => IndInv'
<1> SUFFICES ASSUME IndInv, [Next]_vars PROVE IndInv'
  OBVIOUS
<1>1. CASE Work
  <2>1. CASE SendClaim
    BY <2>1 DEF SendClaim
  <2>2. CASE \E S \in SUBSET Claims : ClaimRows(S)
    BY <2>2, ClaimKeepsInv
  <2>3. CASE \E t \in Claims : \/ InsertClaim(t) \/ Finish(t) \/ Delete(t)
                                \/ GiveUpRow(t) \/ RecoverRow(t)
    BY <2>3, ClaimStepsKeepInv
  <2>4. CASE Loop \/ Renew \/ StopWork
    BY <2>4, BeatStepsKeepInv
  <2> QED
    BY <1>1, <2>1, <2>2, <2>3, <2>4 DEF Work
<1>2. CASE Failure
  <2>1. CASE ClaimFails
    BY <2>1 DEF ClaimFails
  <2> QED
    BY <1>2, <2>1, BeatStepsKeepInv DEF Failure
<1>3. CASE Tick
  BY <1>3, TickKeepsInv
<1>4. CASE UNCHANGED vars
  BY <1>4 DEF vars
<1> QED
  BY <1>1, <1>2, <1>3, <1>4 DEF Next

(***************************************************************************)
(* However claims, renewals, their losses and late effects interleave, a   *)
(* claim's confirmed deadline is never later than the lease its row has in *)
(* PostgreSQL (claimReadyRuns' started, heartbeatLoop's now).              *)
(***************************************************************************)
THEOREM DeadlineIsSafe == Spec => []ConfirmedDeadlineIsSafe
<1>1. IndInv => ConfirmedDeadlineIsSafe
  OBVIOUS
<1> QED
  BY <1>1, InitInv, NextKeepsInv, PTL DEF Spec

HIDE DEF IndInv, Countdowns, Sets, DeadlinesAreSafe, ConfirmedDeadlineIsSafe,
         dbVars, tableVars, claimVars, beatVars

-----------------------------------------------------------------------------
(* Type correctness.                                                       *)

\* Every nonempty set of natural numbers has a minimum.
LEMMA MinOfNats ==
  ASSUME NEW S \in SUBSET Nat, S # {}
  PROVE  Min(S) \in S /\ \A n \in S : Min(S) <= n
<1> DEFINE R == OpToRel(<, Nat)
<1>1. IsWellFoundedOn(R, Nat)
  BY NatLessThanWellFounded, Zenon
<1>2. \A m, n \in Nat : n < m => <<n, m>> \in R
  BY Zenon DEF OpToRel
<1> HIDE DEF R
<1>3. PICK m \in S : \A n \in S : <<n, m>> \notin R
  BY <1>1, WFMin, Zenon
<1>4. \A n \in S : m <= n
  <2>1. \A n \in S : ~(n < m)
    BY <1>2, <1>3, Zenon
  <2> QED
    BY <2>1
<1> QED
  BY <1>4, Zenon DEF Min

\* The timer of the loop, and the deadline of renewCtx.
LEMMA TimerIsEarliest ==
  ASSUME TypeOK
  PROVE  LET w == Min({next_renewal} \cup {deadline[t] : t \in Live}) IN
         /\ w \in 0 .. HeartbeatEvery
         /\ w <= next_renewal
         /\ \A t \in Live : w <= deadline[t]
<1> DEFINE S == {next_renewal} \cup {deadline[t] : t \in Live}
<1>1. next_renewal \in 0 .. HeartbeatEvery
  BY DEF TypeOK
<1>2. \A t \in Live : deadline[t] \in Nat
  BY DEF TypeOK, Live, Floor
<1>3. S \in SUBSET Nat /\ S # {}
  BY <1>1, <1>2
<1>4. Min(S) \in S /\ \A n \in S : Min(S) <= n
  BY <1>3, MinOfNats, Zenon
<1>5. Min(S) \in Nat /\ Min(S) <= next_renewal
  BY <1>3, <1>4
<1>6. \A t \in Live : Min(S) <= deadline[t]
  BY <1>4
<1> QED
  BY <1>1, <1>5, <1>6

LEMMA BoundIsEarliest ==
  ASSUME TypeOK
  PROVE  LET b == IF Live = {} THEN LeaseTTL ELSE Min({deadline[t] : t \in Live}) IN
         b \in 0 .. LeaseTTL /\ \A t \in Live : b <= deadline[t]
<1> DEFINE S == {deadline[t] : t \in Live}
<1>1. CASE Live = {}
  BY <1>1
<1>2. CASE Live # {}
  <2>1. \A t \in Live : deadline[t] \in Nat /\ deadline[t] <= LeaseTTL
    BY DEF TypeOK, Live, Floor
  <2>2. S \in SUBSET Nat /\ S # {}
    BY <1>2, <2>1
  <2>3. Min(S) \in S /\ \A n \in S : Min(S) <= n
    BY <2>2, MinOfNats, Zenon
  <2> QED
    BY <1>2, <2>1, <2>2, <2>3
<1> QED
  BY <1>1, <1>2

\* Every step keeps every variable in its range.
LEMMA NextKeepsTypes == TypeOK /\ IndInv /\ [Next]_vars => TypeOK'
<1> SUFFICES ASSUME TypeOK, IndInv, [Next]_vars PROVE TypeOK'
  OBVIOUS
<1> USE DEF TypeOK, Floor, dbVars, tableVars, claimVars, beatVars
<1>1. CASE SendClaim
  BY <1>1 DEF SendClaim
<1>2. ASSUME NEW S \in SUBSET Claims, ClaimRows(S) PROVE TypeOK'
  BY <1>2 DEF ClaimRows
<1>3. ASSUME NEW t \in Claims, InsertClaim(t) PROVE TypeOK'
  BY <1>3 DEF InsertClaim
<1>4. ASSUME NEW t \in Claims, Finish(t) \/ Delete(t) PROVE TypeOK'
  BY <1>4 DEF Finish, Delete
<1>5. ASSUME NEW t \in Claims, GiveUpRow(t) \/ RecoverRow(t) PROVE TypeOK'
  BY <1>5 DEF GiveUpRow, RecoverRow, RowLeaves
<1>6. CASE Sleep
  <2>1. wake' \in 0 .. HeartbeatEvery
    BY <1>6, TimerIsEarliest DEF Sleep
  <2> QED
    BY <1>6, <2>1 DEF Sleep, Expire, Overdue
<1>7. CASE WakeForDeadline
  BY <1>7 DEF WakeForDeadline
<1>8. CASE WakeForRenewal
  <2>1. bound' \in 0 .. LeaseTTL
    BY <1>8, BoundIsEarliest DEF WakeForRenewal
  <2> QED
    BY <1>8, <2>1 DEF WakeForRenewal, Expire, Overdue
<1>9. CASE Snapshot
  BY <1>9 DEF Snapshot, ToTop, IndInv, Sets
<1>10. CASE ApplyRenewal
  BY <1>10 DEF ApplyRenewal, ToTop
<1>11. CASE Renew
  BY <1>11 DEF Renew, Extend, Renewable
<1>12. CASE StopWork
  BY <1>12 DEF StopWork
<1>13. CASE ClaimFails
  BY <1>13 DEF ClaimFails
<1>14. ASSUME NEW late \in BOOLEAN, RenewalFails(late) PROVE TypeOK'
  BY <1>14 DEF RenewalFails, ToTop
<1>15. CASE StrayRenewal
  BY <1>15 DEF StrayRenewal, Extend, Renewable
<1>16. CASE Tick
  BY <1>16 DEF Tick, Down
<1>17. CASE UNCHANGED vars
  BY <1>17 DEF vars
<1> QED
  BY <1>1, <1>2, <1>3, <1>4, <1>5, <1>6, <1>7, <1>8, <1>9, <1>10, <1>11, <1>12,
     <1>13, <1>14, <1>15, <1>16, <1>17, Zenon DEF Next, Work, Failure, Loop

LEMMA InitTypes == Init => TypeOK
  BY DEF Init, TypeOK, Floor

(***************************************************************************)
(* No countdown leaves its range and no entry, context or goroutine is     *)
(* there without what it belongs to, for any intervals (leaseTable,        *)
(* heartbeatLoop).                                                         *)
(***************************************************************************)
THEOREM TypeCorrect == Spec => []TypeOK
<1> QED
  BY InitTypes, NextKeepsTypes, InitInv, NextKeepsInv, PTL DEF Spec

-----------------------------------------------------------------------------
(* A worker whose timers fire on time.                                     *)

Open == table \ cancelled

(***************************************************************************)
(* How far past its deadline an open entry can be, by where the loop is:   *)
(* asleep, it was ahead when the timer was set or came in later; in a      *)
(* renewal, the same holds for the deadline of renewCtx.                   *)
(***************************************************************************)
Lateness ==
    /\ pc = "top" => \A t \in Open : deadline[t] >= -LeaseTTL
    /\ pc = "sleep" => \A t \in Open : deadline[t] >= wake - HeartbeatEvery
    /\ pc \in {"snapshot", "sent", "reply"} =>
          \A t \in Open : deadline[t] >= bound - LeaseTTL
    /\ pc = "stopped" => claim_pc = "idle" /\ Open = {}

PromptNext == Work \/ Failure \/ (LoopIsWaiting /\ Tick)

\* Time passes while the loop waits for its timer or for renewCtx.
LEMMA PromptTick ==
  ASSUME TypeOK, Lateness, LoopIsWaiting, Tick
  PROVE  Lateness'
<1> USE DEF TypeOK, Floor
<1>1. /\ pc' = pc /\ claim_pc' = claim_pc /\ Open' = Open
      /\ \A t \in Open : t \in Claims /\ t \in table
  BY DEF Tick, Open
<1>2. \A t \in Open : deadline'[t] >= deadline[t] - 1 /\ deadline'[t] \in Int
  BY <1>1 DEF Tick
<1>3. CASE pc = "sleep"
  <2>1. wake' = wake - 1
    BY <1>3 DEF LoopIsWaiting, Tick, Down
  <2> QED
    BY <1>1, <1>2, <1>3, <2>1 DEF Lateness
<1>4. CASE pc \in {"sent", "reply"}
  <2>1. bound' = bound - 1
    BY <1>4 DEF LoopIsWaiting, Tick, Down
  <2> QED
    BY <1>1, <1>2, <1>4, <2>1 DEF Lateness
<1>5. CASE pc = "stopped"
  BY <1>1, <1>5 DEF Lateness
<1> QED
  BY <1>3, <1>4, <1>5 DEF LoopIsWaiting

\* leaseTable.expire leaves only entries ahead of their deadline open.
LEMMA ExpireLeavesLive ==
  ASSUME TypeOK, Expire, table' = table
  PROVE  Open' \subseteq Live
<1>1. ASSUME NEW t \in Open' PROVE t \in Live
  <2>1. t \in table /\ t \notin cancelled /\ t \notin Overdue
    BY <1>1 DEF Open, Expire
  <2>2. deadline[t] \in Int
    BY <2>1 DEF TypeOK, Floor
  <2> QED
    BY <2>1, <2>2 DEF Overdue, Live
<1> QED
  BY <1>1

LEMMA PromptNextKeepsLateness ==
  ASSUME TypeOK, IndInv, Lateness, [PromptNext]_vars
  PROVE  Lateness'
<1> USE DEF TypeOK, Floor, Lateness, Open, dbVars, tableVars, claimVars, beatVars
<1>1. CASE SendClaim
  BY <1>1 DEF SendClaim
<1>2. ASSUME NEW S \in SUBSET Claims, ClaimRows(S) PROVE Lateness'
  BY <1>2 DEF ClaimRows
<1>3. ASSUME NEW t \in Claims, InsertClaim(t) PROVE Lateness'
  <2>1. \A u \in Open' : u = t \/ (u \in Open /\ deadline'[u] = deadline[u])
    BY <1>3 DEF InsertClaim
  <2>2. deadline'[t] = claim_left /\ claim_left \in Nat /\ claim_pc # "idle"
    BY <1>3 DEF InsertClaim
  <2>3. UNCHANGED <<pc, wake, bound>>
    BY <1>3 DEF InsertClaim
  <2> QED
    BY <2>1, <2>2, <2>3
<1>4. ASSUME NEW t \in Claims, Finish(t) \/ Delete(t) PROVE Lateness'
  BY <1>4 DEF Finish, Delete
<1>5. ASSUME NEW t \in Claims, GiveUpRow(t) \/ RecoverRow(t) PROVE Lateness'
  BY <1>5 DEF GiveUpRow, RecoverRow, RowLeaves
<1>6. CASE Sleep
  <2>1. wake' \in 0 .. HeartbeatEvery /\ \A t \in Live : wake' <= deadline[t]
    BY <1>6, TimerIsEarliest DEF Sleep
  <2>2. Open' \subseteq Live
    BY <1>6, ExpireLeavesLive DEF Sleep
  <2>3. pc' = "sleep" /\ deadline' = deadline
    BY <1>6 DEF Sleep
  <2>4. \A t \in Open' : deadline'[t] \in Int /\ deadline'[t] >= wake' - HeartbeatEvery
    BY <2>1, <2>2, <2>3 DEF Live
  <2> QED
    BY <2>3, <2>4
<1>7. CASE WakeForDeadline
  BY <1>7 DEF WakeForDeadline
<1>8. CASE WakeForRenewal
  <2>1. bound' \in 0 .. LeaseTTL /\ \A t \in Live : bound' <= deadline[t]
    BY <1>8, BoundIsEarliest DEF WakeForRenewal
  <2>2. Open' \subseteq Live
    BY <1>8, ExpireLeavesLive DEF WakeForRenewal
  <2>3. pc' = "snapshot" /\ deadline' = deadline
    BY <1>8 DEF WakeForRenewal
  <2>4. \A t \in Open' : deadline'[t] \in Int /\ deadline'[t] >= bound' - LeaseTTL
    BY <2>1, <2>2, <2>3 DEF Live
  <2> QED
    BY <2>3, <2>4
<1>9. CASE Snapshot
  BY <1>9 DEF Snapshot, ToTop
<1>10. CASE ApplyRenewal
  BY <1>10 DEF ApplyRenewal, ToTop
<1>11. CASE Renew
  BY <1>11 DEF Renew
<1>12. CASE StopWork
  BY <1>12 DEF StopWork
<1>13. CASE ClaimFails
  BY <1>13 DEF ClaimFails
<1>14. ASSUME NEW late \in BOOLEAN, RenewalFails(late) PROVE Lateness'
  BY <1>14 DEF RenewalFails, ToTop
<1>15. CASE StrayRenewal
  BY <1>15 DEF StrayRenewal
<1>16. CASE LoopIsWaiting /\ Tick
  BY <1>16, PromptTick
<1>17. CASE UNCHANGED vars
  BY <1>17 DEF vars
<1> QED
  BY <1>1, <1>2, <1>3, <1>4, <1>5, <1>6, <1>7, <1>8, <1>9, <1>10, <1>11, <1>12,
     <1>13, <1>14, <1>15, <1>16, <1>17, Zenon DEF PromptNext, Work, Failure, Loop

(***************************************************************************)
(* A claim of a worker whose timers fire on time is cancelled at most      *)
(* LeaseTTL after its confirmed deadline, for any intervals and whatever   *)
(* fails (expire, wakeAt and the deadline of renewCtx in heartbeatLoop).   *)
(***************************************************************************)
THEOREM LatenessTheorem == PromptSpec => []LatenessIsBounded
<1> DEFINE Inv == TypeOK /\ IndInv /\ Lateness
<1>1. Init => Inv
  <2>1. Init => Lateness
    BY DEF Init, Lateness, Open
  <2> QED
    BY <2>1, InitTypes, InitInv
<1>2. Inv /\ [PromptNext]_vars => Inv'
  <2>1. [PromptNext]_vars => [Next]_vars
    BY DEF PromptNext, Next
  <2> QED
    BY <2>1, NextKeepsTypes, NextKeepsInv, PromptNextKeepsLateness
<1>3. Inv => LatenessIsBounded
  BY DEF TypeOK, Floor, Lateness, Open, LatenessIsBounded
<1>4. PromptSpec <=> Init /\ [][PromptNext]_vars
  BY DEF PromptSpec, PromptNext
<1> QED
  BY <1>1, <1>2, <1>3, <1>4, PTL

-----------------------------------------------------------------------------
(* A healthy database.                                                     *)

\* The longest time between two renewals being sent.
Cycle == IF HeartbeatEvery < Latency THEN Latency ELSE HeartbeatEvery

\* The claims that must not lose their lease.
Kept == row \cap working

Margins ==
    /\ claim_pc # "idle" => claim_left >= LeaseTTL - Latency
    /\ pc = "sleep" => wake <= next_renewal
    /\ pc \in {"top", "sleep"} =>
          \A t \in Kept : deadline[t] >= next_renewal + LeaseTTL - Latency - Cycle
    /\ pc = "snapshot" =>
          /\ confirm = LeaseTTL /\ next_renewal = HeartbeatEvery
          /\ \A t \in Kept : deadline[t] >= LeaseTTL - Latency - Cycle
    /\ pc \in {"sent", "reply"} =>
          /\ confirm >= LeaseTTL - Latency
          /\ next_renewal = 0 \/ confirm = next_renewal + LeaseTTL - HeartbeatEvery
          /\ \A t \in Kept \cap tokens : deadline[t] >= confirm - Latency - Cycle
          /\ \A t \in Kept \ tokens : deadline[t] >= confirm - Latency

Renewals ==
    /\ fetched \cap (table \cup tokens) = {}
    /\ pc \in {"top", "sleep", "snapshot"} => tokens = {}
    /\ pc = "reply" => Kept \cap tokens \subseteq renewed
    /\ pc # "stopped" => Kept \cap cancelled = {}

HealthyInv == TypeOK /\ IndInv /\ Margins /\ Renewals

HealthyNext == Work \/ (LoopIsWaiting /\ StatementsAreQuick /\ Tick)

\* A statement may take as long as the cycle leaves.
LEMMA CycleFits ==
  /\ Cycle \in Nat /\ HeartbeatEvery <= Cycle /\ Latency <= Cycle
  /\ 2 * Latency + Cycle < LeaseTTL
  BY DEF Cycle

\* A claim that must be kept is ahead of its deadline.
LEMMA KeptIsAhead ==
  ASSUME HealthyInv, pc # "stopped"
  PROVE  \A t \in Kept : deadline[t] > 0
<1> USE CycleFits DEF HealthyInv, TypeOK, Floor, Margins, Kept
<1>1. CASE pc \in {"top", "sleep"}
  BY <1>1
<1>2. CASE pc = "snapshot"
  BY <1>2
<1>3. CASE pc \in {"sent", "reply"}
  <2> SUFFICES ASSUME NEW t \in Kept PROVE deadline[t] > 0
    OBVIOUS
  <2>1. deadline[t] \in Int /\ confirm \in Nat /\ confirm >= LeaseTTL - Latency
    BY <1>3
  <2>2. deadline[t] >= confirm - Latency - Cycle
    BY <1>3, <2>1
  <2> QED
    BY <2>1, <2>2
<1> QED
  BY <1>1, <1>2, <1>3

\* The lease of a claim that must be kept is unexpired, and so is one on its way.
LEMMA HealthyInvSuffices == HealthyInv => HealthyWorkerKeepsItsLeases
<1> SUFFICES ASSUME HealthyInv, pc # "stopped", NEW t \in row \cap (fetched \cup working)
             PROVE  lease_until[t] > 0 /\ t \notin cancelled
  BY DEF HealthyWorkerKeepsItsLeases
<1> USE DEF HealthyInv, TypeOK, Floor
<1>1. CASE t \in working
  <2>1. t \in Kept /\ t \in table \cap row /\ t \in Claims
    BY <1>1 DEF Kept
  <2>2. deadline[t] > 0 /\ deadline[t] <= lease_until[t]
    BY <2>1, KeptIsAhead DEF IndInv, DeadlinesAreSafe, ConfirmedDeadlineIsSafe
  <2>3. t \notin cancelled
    BY <2>1 DEF Renewals
  <2> QED
    BY <2>1, <2>2, <2>3
<1>2. CASE t \in fetched
  <2>1. claim_left <= lease_until[t] /\ claim_pc # "idle"
    BY <1>2 DEF IndInv, DeadlinesAreSafe, Sets
  <2>2. claim_left >= LeaseTTL - Latency
    BY <2>1 DEF Margins
  <2>3. t \notin cancelled
    BY <1>2 DEF Renewals
  <2> QED
    BY <2>1, <2>2, <2>3
<1> QED
  BY <1>1, <1>2

LEMMA HealthyInit == Init => HealthyInv
<1> QED
  BY InitTypes, InitInv, CycleFits DEF Init, HealthyInv, Margins, Renewals, Kept

\* Time passes while the loop waits and no statement is late.
LEMMA HealthyTick ==
  ASSUME HealthyInv, LoopIsWaiting, StatementsAreQuick, Tick
  PROVE  Margins' /\ Renewals'
<1> USE CycleFits DEF HealthyInv, TypeOK, Floor
<1>1. UNCHANGED <<row, table, cancelled, working, claim_pc, fetched, pc, tokens, renewed>>
  BY DEF Tick
<1>2. Renewals'
  BY <1>1 DEF Renewals, Kept
<1>3. (claim_pc # "idle" => claim_left >= LeaseTTL - Latency)'
  <2>1. claim_pc # "idle" => claim_left > LeaseTTL - Latency /\ claim_left > 0
    BY DEF Margins, StatementsAreQuick
  <2>2. claim_left \in Nat /\ claim_left' = Down(claim_left)
    BY DEF Tick
  <2> QED
    BY <1>1, <2>1, <2>2 DEF Down
<1>4. Kept' = Kept /\ \A t \in Kept : t \in Claims /\ deadline'[t] \in Int
                                     /\ deadline'[t] >= deadline[t] - 1
  <2>1. Kept' = Kept /\ \A t \in Kept : t \in Claims /\ deadline[t] \in Int
    BY <1>1 DEF Kept
  <2>2. \A t \in Claims : deadline'[t] \in {deadline[t], deadline[t] - 1}
    BY DEF Tick
  <2> QED
    BY <2>1, <2>2
<1>5. CASE pc = "sleep"
  <2>1. wake' = wake - 1 /\ next_renewal' = next_renewal - 1
    <3>1. wake \in Nat /\ next_renewal \in Nat /\ wake > 0 /\ wake <= next_renewal
      BY <1>5 DEF LoopIsWaiting, Margins
    <3>2. wake' = Down(wake) /\ next_renewal' = Down(next_renewal)
      BY DEF Tick
    <3> QED
      BY <3>1, <3>2 DEF Down
  <2>2. wake' <= next_renewal'
    BY <1>5, <2>1 DEF Margins
  <2>3. ASSUME NEW t \in Kept
        PROVE  deadline'[t] >= next_renewal' + LeaseTTL - Latency - Cycle
    <3>1. deadline[t] \in Int /\ deadline[t] >= next_renewal + LeaseTTL - Latency - Cycle
      BY <1>5 DEF Margins, Kept
    <3>2. deadline'[t] \in Int /\ deadline'[t] >= deadline[t] - 1 /\ next_renewal \in Nat
      BY <1>4
    <3> QED
      BY <2>1, <3>1, <3>2
  <2>4. pc' = "sleep" /\ Kept' = Kept
    BY <1>1, <1>4, <1>5
  <2> QED
    BY <1>2, <1>3, <2>2, <2>3, <2>4 DEF Margins
<1>6. CASE pc \in {"sent", "reply"}
  <2>1. confirm' = confirm - 1 /\ confirm' >= LeaseTTL - Latency
    BY <1>6 DEF StatementsAreQuick, Tick, Down
  <2>2. (next_renewal = 0 \/ confirm = next_renewal + LeaseTTL - HeartbeatEvery)'
    <3>1. next_renewal = 0 \/ confirm = next_renewal + LeaseTTL - HeartbeatEvery
      BY <1>6 DEF Margins
    <3>2. next_renewal \in Nat /\ confirm \in Nat /\ next_renewal' = Down(next_renewal)
      BY DEF Tick
    <3> QED
      BY <2>1, <3>1, <3>2 DEF Down
  <2>3. \A t \in Kept : deadline[t] \in Int
    BY DEF Kept
  <2>a. /\ \A t \in Kept \cap tokens : deadline[t] >= confirm - Latency - Cycle
        /\ \A t \in Kept \ tokens : deadline[t] >= confirm - Latency
    BY <1>6 DEF Margins
  <2>b. confirm \in Nat /\ Latency \in Nat /\ Cycle \in Nat
    OBVIOUS
  <2> HIDE DEF Kept, TypeOK, HealthyInv
  <2>4. \A t \in Kept \cap tokens : deadline'[t] >= confirm' - Latency - Cycle
    BY <1>4, <2>1, <2>3, <2>a, <2>b
  <2>5. \A t \in Kept \ tokens : deadline'[t] >= confirm' - Latency
    BY <1>4, <2>1, <2>3, <2>a, <2>b
  <2> QED
    BY <1>1, <1>2, <1>3, <1>4, <1>6, <2>1, <2>2, <2>4, <2>5, Zenon DEF Margins
<1>7. CASE pc = "stopped"
  BY <1>1, <1>2, <1>3, <1>7 DEF Margins
<1> QED
  BY <1>5, <1>6, <1>7 DEF LoopIsWaiting

\* What a step that leaves the claims and the loop alone must show of the margins.
LEMMA MarginsFrame ==
  ASSUME Margins, (claim_pc # "idle" => claim_left >= LeaseTTL - Latency)',
         UNCHANGED <<row, working, deadline, tokens, pc, wake, next_renewal, confirm>>
  PROVE  Margins'
<1>1. Kept' = Kept
  BY DEF Kept
<1> QED
  BY <1>1 DEF Margins

\* The dispatcher's steps and the claims': a claim is inserted with most of its lease.
LEMMA HealthyClaimSteps ==
  ASSUME HealthyInv,
         \/ SendClaim
         \/ \E S \in SUBSET Claims : ClaimRows(S)
         \/ \E t \in Claims : \/ InsertClaim(t) \/ Finish(t) \/ Delete(t)
                              \/ GiveUpRow(t) \/ RecoverRow(t)
  PROVE  Margins' /\ Renewals'
<1> USE CycleFits
        DEF HealthyInv, TypeOK, Floor, Kept, dbVars, tableVars, claimVars, beatVars
<1>1. CASE SendClaim
  <2>1. UNCHANGED <<row, working, table, cancelled, deadline, fetched, tokens, renewed, pc,
                    wake, next_renewal, confirm>> /\ claim_left' = LeaseTTL
    BY <1>1 DEF SendClaim
  <2>a. claim_left' >= LeaseTTL - Latency
    BY <2>1
  <2>2. Margins'
    BY <2>1, <2>a, MarginsFrame
  <2>3. Renewals'
    BY <2>1 DEF Renewals
  <2> QED
    BY <2>2, <2>3
<1>2. ASSUME NEW S \in SUBSET Claims, ClaimRows(S) PROVE Margins' /\ Renewals'
  <2>1. /\ Kept' = Kept /\ S \cap (table \cup tokens) = {}
        /\ UNCHANGED <<table, cancelled, deadline, tokens, renewed, pc, wake, next_renewal,
                       confirm>>
    BY <1>2 DEF ClaimRows, Fresh
  <2>2. Margins'
    BY <1>2, <2>1, Zenon DEF ClaimRows, Margins
  <2>3. Renewals'
    BY <1>2, <2>1 DEF ClaimRows, Renewals
  <2> QED
    BY <2>2, <2>3
<1>3. ASSUME NEW t \in Claims, InsertClaim(t) PROVE Margins' /\ Renewals'
  <2>1. /\ t \notin table /\ t \notin tokens /\ t \notin cancelled
        /\ claim_left >= LeaseTTL - Latency
    BY <1>3, Zenon DEF InsertClaim, Renewals, Margins
  <2>2. /\ \A u \in Kept' : u = t \/ (u \in Kept /\ u # t)
        /\ deadline'[t] = claim_left
        /\ \A u \in Kept : u # t => deadline'[u] = deadline[u]
        /\ UNCHANGED <<cancelled, tokens, renewed, pc, wake, next_renewal, confirm>>
    BY <1>3 DEF InsertClaim
  <2>3. (claim_pc # "idle" => claim_left >= LeaseTTL - Latency)'
    BY <1>3, <2>1 DEF InsertClaim
  <2>4. (pc = "sleep" => wake <= next_renewal)'
    BY <2>2 DEF Margins
  <2>5. (pc \in {"top", "sleep"} =>
          \A u \in Kept : deadline[u] >= next_renewal + LeaseTTL - Latency - Cycle)'
    <3> SUFFICES ASSUME pc \in {"top", "sleep"}, NEW u \in Kept'
                 PROVE  deadline'[u] >= next_renewal + LeaseTTL - Latency - Cycle
      BY <2>2
    <3>1. CASE u = t
      BY <2>1, <2>2, <3>1
    <3>2. CASE u \in Kept /\ u # t
      BY <2>2, <3>2 DEF Margins
    <3> QED
      BY <2>2, <3>1, <3>2
  <2>6. (pc = "snapshot" =>
          /\ confirm = LeaseTTL /\ next_renewal = HeartbeatEvery
          /\ \A u \in Kept : deadline[u] >= LeaseTTL - Latency - Cycle)'
    <3> SUFFICES ASSUME pc = "snapshot"
                 PROVE  /\ confirm = LeaseTTL /\ next_renewal = HeartbeatEvery
                        /\ \A u \in Kept' : deadline'[u] >= LeaseTTL - Latency - Cycle
      BY <2>2
    <3>1. ASSUME NEW u \in Kept' PROVE deadline'[u] >= LeaseTTL - Latency - Cycle
      <4>1. CASE u = t
        BY <2>1, <2>2, <4>1
      <4>2. CASE u \in Kept /\ u # t
        BY <2>2, <4>2, Zenon DEF Margins
      <4> QED
        BY <2>2, <4>1, <4>2
    <3> QED
      BY <3>1 DEF Margins
  <2>7. (pc \in {"sent", "reply"} =>
          /\ confirm >= LeaseTTL - Latency
          /\ next_renewal = 0 \/ confirm = next_renewal + LeaseTTL - HeartbeatEvery
          /\ \A u \in Kept \cap tokens : deadline[u] >= confirm - Latency - Cycle
          /\ \A u \in Kept \ tokens : deadline[u] >= confirm - Latency)'
    <3> SUFFICES ASSUME pc \in {"sent", "reply"}
                 PROVE  /\ confirm >= LeaseTTL - Latency
                        /\ next_renewal = 0 \/ confirm = next_renewal + LeaseTTL - HeartbeatEvery
                        /\ \A u \in Kept' \cap tokens : deadline'[u] >= confirm - Latency - Cycle
                        /\ \A u \in Kept' \ tokens : deadline'[u] >= confirm - Latency
      BY <2>2, Zenon
    <3>1. ASSUME NEW u \in Kept' \cap tokens PROVE deadline'[u] >= confirm - Latency - Cycle
      BY <2>1, <2>2, <3>1, Zenon DEF Margins
    <3>2. ASSUME NEW u \in Kept' \ tokens PROVE deadline'[u] >= confirm - Latency
      <4>1. CASE u = t
        BY <2>1, <2>2, <4>1
      <4>2. CASE u \in Kept /\ u # t
        BY <2>2, <3>2, <4>2, Zenon DEF Margins
      <4> QED
        BY <2>2, <4>1, <4>2
    <3> QED
      BY <3>1, <3>2, Zenon DEF Margins
  <2>8. Renewals'
    BY <1>3, <2>1, <2>2, Zenon DEF InsertClaim, Renewals
  <2> QED
    BY <2>3, <2>4, <2>5, <2>6, <2>7, <2>8, Zenon DEF Margins
<1>4. ASSUME NEW t \in Claims,
             Finish(t) \/ Delete(t) \/ GiveUpRow(t) \/ RecoverRow(t)
      PROVE  Margins' /\ Renewals'
  <2>1. /\ Kept' \subseteq Kept /\ table' \subseteq table
        /\ \A u \in Kept' : deadline'[u] = deadline[u] /\ (u \in cancelled' => u \in cancelled)
        /\ UNCHANGED <<claim_pc, claim_left, fetched, tokens, renewed, pc, wake,
                       next_renewal, confirm>>
    BY <1>4, Zenon DEF Finish, Delete, GiveUpRow, RecoverRow, RowLeaves
  <2>2. Margins'
    BY <2>1, Zenon DEF Margins
  <2>3. Renewals'
    BY <2>1, Zenon DEF Renewals
  <2> QED
    BY <2>2, <2>3
<1> QED
  BY <1>1, <1>2, <1>3, <1>4

\* The loop's steps: what is kept is renewed before its deadline, and never expires.
LEMMA HealthyLoopSteps ==
  ASSUME HealthyInv, Loop \/ Renew \/ StopWork
  PROVE  Margins' /\ Renewals'
<1> USE CycleFits
        DEF HealthyInv, TypeOK, Floor, Kept, dbVars, tableVars, claimVars, beatVars
<1>1. pc # "stopped" => Kept \cap Overdue = {}
  BY KeptIsAhead DEF Overdue
<1>2. CASE Sleep
  <2>1. wake' <= next_renewal
    BY <1>2, TimerIsEarliest DEF Sleep
  <2>2. Margins'
    BY <1>2, <2>1, Zenon DEF Sleep, Margins
  <2>3. Renewals'
    BY <1>1, <1>2, Zenon DEF Sleep, Expire, Renewals
  <2> QED
    BY <2>2, <2>3
<1>3. CASE WakeForDeadline
  BY <1>3, Zenon DEF WakeForDeadline, Margins, Renewals
<1>4. CASE WakeForRenewal
  <2>1. Margins'
    <3>1. /\ pc = "sleep" /\ next_renewal = 0 /\ pc' = "snapshot"
          /\ confirm' = LeaseTTL /\ next_renewal' = HeartbeatEvery
          /\ UNCHANGED <<row, working, deadline, claim_pc, claim_left>>
      BY <1>4, Zenon DEF WakeForRenewal
    <3>2. \A t \in Kept : deadline[t] >= LeaseTTL - Latency - Cycle
      <4>1. \A t \in Kept : deadline[t] >= next_renewal + LeaseTTL - Latency - Cycle
        BY <3>1 DEF Margins
      <4>2. next_renewal + LeaseTTL - Latency - Cycle = LeaseTTL - Latency - Cycle
        BY <3>1
      <4> QED
        BY <4>1, <4>2
    <3>3. claim_pc' # "idle" => claim_left' >= LeaseTTL - Latency
      BY <3>1 DEF Margins
    <3> QED
      BY <3>1, <3>2, <3>3 DEF Margins
  <2>2. Renewals'
    BY <1>1, <1>4 DEF WakeForRenewal, Expire, Renewals
  <2> QED
    BY <2>1, <2>2
<1>5. CASE Snapshot
  <2>1. CASE table = cancelled
    BY <1>5, <2>1, Zenon DEF Snapshot, ToTop, Margins, Renewals
  <2>2. CASE table # cancelled
    <3>1. /\ tokens' = table \ cancelled /\ pc = "snapshot" /\ pc' = "sent"
          /\ UNCHANGED <<row, working, table, cancelled, deadline, fetched, claim_pc,
                         claim_left, next_renewal, wake, confirm, renewed>>
      BY <1>5, <2>2 DEF Snapshot
    <3>2. Kept \subseteq tokens'
      BY <3>1 DEF Renewals
    <3>3. Margins'
      <4>1. /\ confirm' = LeaseTTL /\ next_renewal' = HeartbeatEvery
            /\ \A t \in Kept : deadline'[t] >= LeaseTTL - Latency - Cycle
        BY <3>1 DEF Margins
      <4>2. claim_pc' # "idle" => claim_left' >= LeaseTTL - Latency
        BY <3>1 DEF Margins
      <4>3. confirm' >= LeaseTTL - Latency /\ confirm' = next_renewal' + LeaseTTL - HeartbeatEvery
        BY <4>1
      <4>4. Kept' = Kept
        BY <3>1
      <4> QED
        BY <3>1, <3>2, <4>1, <4>2, <4>3, <4>4 DEF Margins
    <3>4. Renewals'
      BY <3>1, <3>2 DEF Renewals
    <3> QED
      BY <3>3, <3>4
  <2> QED
    BY <2>1, <2>2
<1>6. CASE Renew
  <2>1. /\ pc = "sent" /\ pc' = "reply"
        /\ UNCHANGED <<row, working, table, cancelled, deadline, fetched, claim_pc,
                       claim_left, next_renewal, wake, confirm, tokens>>
        /\ renewed' = Renewable(tokens)
    BY <1>6 DEF Renew
  <2>2. \A t \in Kept : lease_until[t] > 0
    BY <2>1, HealthyInvSuffices DEF HealthyWorkerKeepsItsLeases
  <2>3. Margins'
    BY <2>1, Zenon DEF Margins
  <2>4. Renewals'
    BY <2>1, <2>2 DEF Renewals, Renewable
  <2> QED
    BY <2>3, <2>4
<1>7. CASE ApplyRenewal
  <2>1. /\ pc = "reply" /\ pc' = "top" /\ tokens' = {}
        /\ UNCHANGED <<row, working, table, fetched, claim_pc, claim_left, next_renewal>>
        /\ cancelled' = cancelled \cup ((table \cap tokens) \ renewed)
    BY <1>7 DEF ApplyRenewal, ToTop
  <2>2. \A t \in Kept : /\ t \in tokens => deadline'[t] = confirm
                        /\ t \notin tokens => deadline'[t] = deadline[t]
    BY <1>7, <2>1 DEF ApplyRenewal, Renewals
  <2>3. confirm >= next_renewal + LeaseTTL - Latency - Cycle
    <3>1. /\ confirm \in Nat /\ next_renewal \in Nat
          /\ confirm >= LeaseTTL - Latency
          /\ next_renewal = 0 \/ confirm = next_renewal + LeaseTTL - HeartbeatEvery
      <4>1. confirm \in Nat /\ next_renewal \in Nat
        OBVIOUS
      <4> HIDE DEF TypeOK, Kept
      <4> QED
        BY <2>1, <4>1 DEF Margins
    <3> HIDE DEF Kept, HealthyInv, TypeOK
    <3> QED
      BY <3>1
  <2>4. \A t \in Kept \ tokens : deadline[t] >= next_renewal + LeaseTTL - Latency - Cycle
    <3>1. ASSUME NEW t \in Kept \ tokens
          PROVE  deadline[t] >= next_renewal + LeaseTTL - Latency - Cycle
      <4>a. t \in Claims
        OBVIOUS
      <4>b. deadline[t] >= confirm - Latency
        BY <2>1 DEF Margins
      <4>1. deadline[t] \in Int /\ deadline[t] >= confirm - Latency
        BY <4>a, <4>b
      <4>2. confirm >= LeaseTTL - Latency
        BY <2>1 DEF Margins
      <4>3. next_renewal = 0 \/ confirm = next_renewal + LeaseTTL - HeartbeatEvery
        BY <2>1, Zenon DEF Margins
      <4> QED
        BY <4>1, <4>2, <4>3
    <3> QED
      BY <3>1
  <2>5. Margins'
    BY <2>1, <2>2, <2>3, <2>4, Zenon DEF Margins
  <2>6. Renewals'
    BY <2>1 DEF Renewals
  <2> QED
    BY <2>5, <2>6
<1>8. CASE StopWork
  BY <1>8, Zenon DEF StopWork, Margins, Renewals
<1> QED
  BY <1>2, <1>3, <1>4, <1>5, <1>6, <1>7, <1>8 DEF Loop

(***************************************************************************)
(* As long as no statement takes longer than Latency, no claim loses its   *)
(* lease, for any number of claims and any intervals with room for a late  *)
(* insertion, a cycle and a renewal: 2 * Latency + HeartbeatEvery and      *)
(* 3 * Latency below LeaseTTL.  The second is not implied by the first: a  *)
(* claim inserted while a renewal takes longer than the interval waits for *)
(* the renewal after it (heartbeatLoop).                                   *)
(***************************************************************************)
THEOREM HealthyTheorem == HealthySpec => []HealthyWorkerKeepsItsLeases
<1>1. HealthyInv /\ [HealthyNext]_vars => HealthyInv'
  <2> SUFFICES ASSUME HealthyInv, [HealthyNext]_vars PROVE HealthyInv'
    OBVIOUS
  <2>1. [Next]_vars
    BY DEF HealthyNext, Next
  <2>2. TypeOK' /\ IndInv'
    BY <2>1, NextKeepsTypes, NextKeepsInv DEF HealthyInv
  <2>3. CASE Work
    BY <2>2, <2>3, HealthyClaimSteps, HealthyLoopSteps DEF Work, HealthyInv
  <2>4. CASE LoopIsWaiting /\ StatementsAreQuick /\ Tick
    BY <2>2, <2>4, HealthyTick DEF HealthyInv
  <2>5. CASE UNCHANGED vars
    BY <2>2, <2>5, Zenon DEF vars, dbVars, tableVars, claimVars, beatVars, HealthyInv, Margins,
       Renewals, Kept
  <2> QED
    BY <2>3, <2>4, <2>5 DEF HealthyNext
<1>2. HealthySpec <=> Init /\ [][HealthyNext]_vars
  BY DEF HealthySpec, HealthyNext
<1> QED
  BY <1>1, <1>2, HealthyInit, HealthyInvSuffices, PTL

=============================================================================
