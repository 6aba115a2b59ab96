---------------------------- MODULE OutboxProofs ----------------------------
(***************************************************************************)
(* The outbox for any number of keys and instances.  Five facts carry the  *)
(* proofs: what a sender has in hand is no newer than its row (InHand), a  *)
(* row that does not decode was never leased (Untried), a success is       *)
(* reported only after one (Reports), the notice of an outcome is purged   *)
(* only when repair has stopped looking (Written), and deliveries, messages*)
(* in flight and rows to be claimed are together covered by rows written   *)
(* and mishaps (Balanced).                                                 *)
(***************************************************************************)
EXTENDS Outbox, FiniteSetTheorems, TLAPS

USE OutboxAssumption

LEMMA UpGrows ==
    ASSUME NEW n \in Nat, NEW last \in Nat
    PROVE  Up(n, last) \in Nat /\ Up(n, last) >= n /\ Up(n, last) <= n + 1
BY DEF Up

-----------------------------------------------------------------------------
(* Types.                                                                  *)

LEMMA BlankType ==
    ASSUME RowsOK, NEW k \in Keys, Blank(k), stored' \in [Keys -> BOOLEAN],
           legible' \in [Keys -> BOOLEAN], rows' \in [Keys -> Nat]
    PROVE  RowsOK'
BY DEF RowsOK, Blank, Days

LEMMA EnqueueType ==
    ASSUME RowsOK, NEW k \in Keys, Enqueue(k)
    PROVE  RowsOK'
<1>1. CASE stored[k] /\ UNCHANGED rowVars
  BY <1>1 DEF RowsOK, rowVars
<1>2. CASE /\ ~stored[k]
           /\ stored' = [stored EXCEPT ![k] = TRUE]
           /\ \E decodes \in BOOLEAN : legible' = [legible EXCEPT ![k] = decodes]
           /\ rows' = [rows EXCEPT ![k] = @ + 1]
           /\ Blank(k)
  <2>1. /\ stored' \in [Keys -> BOOLEAN] /\ legible' \in [Keys -> BOOLEAN]
        /\ rows' \in [Keys -> Nat]
    BY <1>2 DEF RowsOK
  <2>2. QED
    BY <1>2, <2>1, BlankType
<1>3. QED
  BY <1>1, <1>2 DEF Enqueue

LEMMA MishapType ==
    ASSUME mishaps \in [Keys -> Nat], NEW k \in Keys, Mishap(k)
    PROVE  mishaps' \in [Keys -> Nat]
BY DEF Mishap, Up

LEMMA TakenType ==
    ASSUME delivered \in [Keys -> Nat], NEW k \in Keys, Taken(k)
    PROVE  /\ delivered' \in [Keys -> Nat]
           /\ delivered'[k] > 0
           /\ \A j \in Keys : delivered'[j] >= delivered[j]
BY DEF Taken, Up

LEMMA KeyType ==
    ASSUME TypeOK, NEW k \in Keys, KeyStep(k)
    PROVE  TypeOK'
<1>0. JobsOK /\ RowsOK /\ mishaps \in [Keys -> Nat] /\ SendersOK
  BY DEF TypeOK
<1>1. SendersOK' /\ (delivered \in [Keys -> Nat])'
  BY <1>0 DEF TypeOK, KeyStep, Enter, Leave, Repair, PurgeSent, BackoffEnds,
              LeaseExpires, sendVars, SendersOK
<1>2. CASE Enter(k)
  <2>1. RowsOK'
    BY <1>0, <1>2, EnqueueType DEF Enter, RowsOK, rowVars
  <2>2. JobsOK' /\ mishaps' = mishaps
    BY <1>0, <1>2 DEF Enter, JobsOK, States
  <2>3. QED
    BY <1>0, <1>1, <2>1, <2>2 DEF TypeOK
<1>3. CASE Leave(k)
  BY <1>0, <1>1, <1>3 DEF Leave, TypeOK, JobsOK, RowsOK, rowVars, States
<1>4. CASE Repair(k)
  <2>1. RowsOK'
    BY <1>0, <1>4, EnqueueType DEF Repair
  <2>2. QED
    BY <1>0, <1>1, <1>4, <2>1 DEF Repair, TypeOK, JobsOK, jobVars
<1>5. CASE PurgeSent(k)
  <2>1. /\ stored' \in [Keys -> BOOLEAN] /\ legible' \in [Keys -> BOOLEAN]
        /\ rows' \in [Keys -> Nat]
    BY <1>0, <1>5 DEF PurgeSent, RowsOK
  <2>2. RowsOK'
    BY <1>0, <1>5, <2>1, BlankType DEF PurgeSent
  <2>3. QED
    BY <1>0, <1>1, <1>5, <2>2 DEF PurgeSent, TypeOK, JobsOK, jobVars
<1>6. CASE BackoffEnds(k)
  BY <1>0, <1>1, <1>6 DEF BackoffEnds, TypeOK, JobsOK, RowsOK, jobVars
<1>7. CASE LeaseExpires(k)
  <2>1. mishaps' \in [Keys -> Nat]
    BY <1>0, <1>7, MishapType DEF LeaseExpires
  <2>2. QED
    BY <1>0, <1>1, <1>7, <2>1 DEF LeaseExpires, TypeOK, JobsOK, RowsOK, jobVars
<1>8. QED
  BY <1>2, <1>3, <1>4, <1>5, <1>6, <1>7 DEF KeyStep

LEMMA SenderType ==
    ASSUME TypeOK, NEW s \in Senders, SenderStep(s) \/ Crash(s)
    PROVE  TypeOK'
<1>0. JobsOK /\ RowsOK /\ mishaps \in [Keys -> Nat] /\ SendersOK
  BY DEF TypeOK
<1>1. JobsOK'
  BY <1>0 DEF SenderStep, ClaimDue, ClaimUndecodable, Send, SendFails, MarkSent,
              MarkFailed, Crash, jobVars, JobsOK
<1>2. spc[s] # "idle" => key[s] \in Keys
  BY <1>0 DEF SendersOK
<1>3. ASSUME SenderIdle(s)
      PROVE  SendersOK'
  BY <1>0, <1>3 DEF SenderIdle, SendersOK
<1>4. CASE ClaimDue(s)
  <2>1. PICK k \in Keys :
           /\ leased' = [leased EXCEPT ![k] = TRUE]
           /\ attempts' = [attempts EXCEPT ![k] = Up(@, MaxAttempts + 1)]
           /\ key' = [key EXCEPT ![s] = k]
           /\ id' = [id EXCEPT ![s] = rows[k]]
           /\ attempt' = [attempt EXCEPT ![s] = Up(attempts[k], MaxAttempts + 1)]
    BY <1>4 DEF ClaimDue
  <2>2. Up(attempts[k], MaxAttempts + 1) \in Nat
    BY <1>0 DEF RowsOK, Up
  <2>3. RowsOK' /\ SendersOK'
    BY <1>0, <1>4, <2>1, <2>2 DEF ClaimDue, RowsOK, SendersOK
  <2>4. QED
    BY <1>1, <1>4, <2>3 DEF ClaimDue, TypeOK
<1>5. CASE Send(s) \/ SendFails(s)
  <2>1. (delivered \in [Keys -> Nat] /\ mishaps \in [Keys -> Nat])'
    BY <1>2, <1>5, MishapType, TakenType DEF Send, SendFails, TypeOK
  <2>2. RowsOK' /\ SendersOK'
    BY <1>0, <1>5 DEF Send, SendFails, RowsOK, SendersOK, rowVars
  <2>3. QED
    BY <1>1, <2>1, <2>2 DEF TypeOK
<1>6. CASE MarkSent(s) \/ MarkFailed(s)
  <2>1. RowsOK'
    <3>1. CASE MarkSent(s)
      <4>1. (leased \in [Keys -> BOOLEAN])'
        BY <1>0, <1>2, <3>1 DEF MarkSent, RowsOK
      <4>2. (sentFor \in [Keys -> Days \cup {NULL}])'
        BY <1>0, <1>2, <3>1 DEF MarkSent, RowsOK, Days
      <4>3. UNCHANGED <<rows, stored, legible, attempts, ready, dead>>
        BY <3>1 DEF MarkSent
      <4>4. QED
        BY <1>0, <4>1, <4>2, <4>3 DEF RowsOK
    <3>2. CASE MarkFailed(s)
      <4>1. (leased \in [Keys -> BOOLEAN])'
        BY <1>0, <1>2, <3>2 DEF MarkFailed, RowsOK
      <4>2. (ready \in [Keys -> BOOLEAN])'
        BY <1>0, <1>2, <3>2 DEF MarkFailed, RowsOK
      <4>3. (dead \in [Keys -> BOOLEAN])'
        BY <1>0, <1>2, <3>2 DEF MarkFailed, RowsOK
      <4>4. UNCHANGED <<rows, stored, legible, attempts, sentFor>>
        BY <3>2 DEF MarkFailed
      <4>5. QED
        BY <1>0, <4>1, <4>2, <4>3, <4>4 DEF RowsOK
    <3>3. QED
      BY <1>6, <3>1, <3>2
  <2>2. QED
    BY <1>1, <1>3, <1>6, <2>1 DEF MarkSent, MarkFailed, TypeOK
<1>7. CASE Crash(s)
  <2>1. mishaps' \in [Keys -> Nat]
    BY <1>0, <1>2, <1>7, MishapType DEF Crash
  <2>2. QED
    BY <1>0, <1>1, <1>3, <1>7, <2>1 DEF Crash, TypeOK, RowsOK, rowVars
<1>8. CASE ClaimUndecodable(s)
  BY <1>0, <1>1, <1>8 DEF ClaimUndecodable, RowsOK, SendersOK, sendVars, TypeOK
<1>9. QED
  BY <1>4, <1>5, <1>6, <1>7, <1>8 DEF SenderStep

LEMMA DayType ==
    ASSUME TypeOK, Day
    PROVE  TypeOK'
<1>0. JobsOK /\ RowsOK /\ SendersOK
  BY DEF TypeOK
<1>1. (age \in [Outcomes -> Days])'
  BY <1>0, UpGrows DEF Day, JobsOK, Days
<1>2. (sentFor \in [Keys -> Days \cup {NULL}])'
  BY <1>0, UpGrows DEF Day, RowsOK, Days
<1>3. QED
  BY <1>0, <1>1, <1>2 DEF Day, TypeOK, JobsOK, RowsOK, SendersOK, sendVars

LEMMA NextType ==
    ASSUME TypeOK, [Next]_vars
    PROVE  TypeOK'
<1>1. CASE UNCHANGED vars
  BY <1>1 DEF vars, jobVars, rowVars, sendVars, TypeOK, JobsOK, RowsOK, SendersOK
<1>2. QED
  BY <1>1, KeyType, SenderType, DayType DEF Next, Work, Faults

LEMMA InitType == Init => TypeOK
BY DEF Init, TypeOK, JobsOK, RowsOK, SendersOK, States, Days

\* Every variable keeps its type, and a sender that is not idle has a message.
THEOREM OutboxTypes == Spec => []TypeOK
<1>1. TypeOK /\ [Next]_vars => TypeOK'
  BY NextType
<1>2. QED
  BY InitType, <1>1, PTL DEF Spec

-----------------------------------------------------------------------------
(* What a sender has in hand.                                              *)

\* A sender that is about to mark its message sent has sent it.
Reports == \A s \in Senders : spc[s] = "sent" => delivered[key[s]] > 0

\* The row a sender names exists or is gone for good, and its attempts are at
\* least those the sender counted, and it decodes.
InHand ==
    \A s \in Senders :
       spc[s] # "idle" =>
          /\ id[s] <= rows[key[s]]
          /\ Found(s) => attempt[s] <= attempts[key[s]] /\ legible[key[s]]

\* A row that does not decode was never leased.
Untried == \A k \in Keys : ~legible[k] => attempts[k] = 0

\* What a step does to the row of a key: nothing InHand could notice, a new row,
\* or none.
Kept(k) ==
    /\ UNCHANGED <<rows[k], stored[k], legible[k]>>
    /\ attempts'[k] >= attempts[k]
Fresh(k) == ~stored[k] /\ rows'[k] = rows[k] + 1
Gone(k) == rows'[k] = rows[k] /\ ~stored'[k]

LEMMA EnqueueRows ==
    ASSUME RowsOK, NEW k \in Keys, Enqueue(k), NEW j \in Keys
    PROVE  Kept(j) \/ Fresh(j)
<1>1. CASE stored[k] /\ UNCHANGED rowVars
  BY <1>1 DEF RowsOK, rowVars, Kept
<1>2. CASE /\ ~stored[k]
           /\ stored' = [stored EXCEPT ![k] = TRUE]
           /\ \E decodes \in BOOLEAN : legible' = [legible EXCEPT ![k] = decodes]
           /\ rows' = [rows EXCEPT ![k] = @ + 1]
           /\ attempts' = [attempts EXCEPT ![k] = 0]
  <2>1. CASE j = k
    BY <1>2, <2>1 DEF RowsOK, Fresh
  <2>2. CASE j # k
    <3>1. UNCHANGED <<rows[j], stored[j], legible[j], attempts[j]>>
      BY <1>2, <2>2 DEF RowsOK
    <3>2. attempts[j] \in Nat
      BY DEF RowsOK
    <3>3. QED
      BY <3>1, <3>2 DEF Kept
  <2>3. QED
    BY <2>1, <2>2
<1>3. QED
  BY <1>1, <1>2 DEF Enqueue, Blank

LEMMA KeyRows ==
    ASSUME TypeOK, NEW k \in Keys, KeyStep(k), NEW j \in Keys
    PROVE  Kept(j) \/ Fresh(j) \/ Gone(j)
<1>0. RowsOK
  BY DEF TypeOK
<1>1. CASE Enter(k) \/ Repair(k)
  BY <1>0, <1>1, EnqueueRows DEF Enter, Repair, RowsOK, rowVars, Kept
<1>2. CASE PurgeSent(k)
  BY <1>0, <1>2 DEF PurgeSent, Blank, RowsOK, Kept, Gone
<1>3. CASE Leave(k) \/ BackoffEnds(k) \/ LeaseExpires(k)
  BY <1>0, <1>3 DEF Leave, BackoffEnds, LeaseExpires, RowsOK, rowVars, Kept
<1>4. QED
  BY <1>1, <1>2, <1>3 DEF KeyStep

LEMMA InHandStays ==
    ASSUME TypeOK, TypeOK', InHand, NEW s \in Senders, spc[s] # "idle",
           UNCHANGED <<key[s], id[s], attempt[s]>>,
           Kept(key[s]) \/ Fresh(key[s]) \/ Gone(key[s])
    PROVE  /\ id'[s] <= rows'[key'[s]]
           /\ Found(s)' => attempt'[s] <= attempts'[key'[s]] /\ legible'[key'[s]]
<1>1. key[s] \in Keys /\ id[s] \in Nat /\ attempt[s] \in Nat
  BY DEF TypeOK, SendersOK
<1>2. /\ rows[key[s]] \in Nat /\ rows'[key[s]] \in Nat
      /\ attempts[key[s]] \in Nat /\ attempts'[key[s]] \in Nat
  BY <1>1 DEF TypeOK, RowsOK
<1>3. /\ id[s] <= rows[key[s]]
      /\ Found(s) => attempt[s] <= attempts[key[s]] /\ legible[key[s]]
  BY DEF InHand
<1>4. QED
  BY <1>1, <1>2, <1>3 DEF Kept, Fresh, Gone, Found

LEMMA InHandKept ==
    ASSUME TypeOK, TypeOK', InHand, [Next]_vars
    PROVE  InHand'
<1>1. ASSUME NEW k \in Keys, KeyStep(k)
      PROVE  InHand'
  <2>1. UNCHANGED sendVars
    BY <1>1 DEF KeyStep, Enter, Leave, Repair, PurgeSent, BackoffEnds, LeaseExpires
  <2>2. \A s \in Senders : spc[s] # "idle" => key[s] \in Keys
    BY DEF TypeOK, SendersOK
  <2>3. QED
    BY <1>1, <2>1, <2>2, KeyRows, InHandStays DEF InHand, sendVars
<1>2. ASSUME NEW s \in Senders, SenderStep(s) \/ Crash(s)
      PROVE  InHand'
  <2>0. RowsOK /\ SendersOK /\ SendersOK'
    BY DEF TypeOK
  <2>1. \A k \in Keys : Kept(k)
    BY <1>2, <2>0 DEF SenderStep, ClaimDue, ClaimUndecodable, Send, SendFails,
                      MarkSent, MarkFailed, Crash, rowVars, RowsOK, Up, Kept
  <2>2. ASSUME NEW t \in Senders \ {s}
        PROVE  UNCHANGED <<spc[t], key[t], id[t], attempt[t]>>
    BY <1>2, <2>0, <2>2 DEF SenderStep, ClaimDue, ClaimUndecodable, Send, SendFails,
                            MarkSent, MarkFailed, Crash, SenderIdle, SendersOK,
                            sendVars
  <2>3. ASSUME NEW t \in Senders \ {s}, spc'[t] # "idle"
        PROVE  /\ id'[t] <= rows'[key'[t]]
               /\ Found(t)' => attempt'[t] <= attempts'[key'[t]] /\ legible'[key'[t]]
    <3>1. spc[t] # "idle" /\ key[t] \in Keys
      BY <2>0, <2>2, <2>3 DEF SendersOK
    <3>2. QED
      BY <2>1, <2>2, <2>3, <3>1, InHandStays
  <2>4. ASSUME spc'[s] # "idle"
        PROVE  /\ id'[s] <= rows'[key'[s]]
               /\ Found(s)' => attempt'[s] <= attempts'[key'[s]] /\ legible'[key'[s]]
    <3>1. CASE ClaimDue(s)
      <4>1. PICK k \in Keys :
               /\ legible[k]
               /\ attempts' = [attempts EXCEPT ![k] = Up(@, MaxAttempts + 1)]
               /\ key' = [key EXCEPT ![s] = k]
               /\ id' = [id EXCEPT ![s] = rows[k]]
               /\ attempt' = [attempt EXCEPT ![s] = Up(attempts[k], MaxAttempts + 1)]
        BY <3>1 DEF ClaimDue
      <4>2. /\ key'[s] = k /\ id'[s] = rows[k] /\ rows' = rows
            /\ attempt'[s] = attempts'[k] /\ legible'[k]
        BY <2>0, <3>1, <4>1 DEF ClaimDue, RowsOK, SendersOK
      <4>3. rows[k] \in Nat /\ attempts'[k] \in Nat
        BY <2>0, <4>1 DEF RowsOK, TypeOK
      <4>4. QED
        BY <4>2, <4>3
    <3>2. CASE Send(s) \/ SendFails(s)
      <4>1. spc[s] # "idle" /\ key[s] \in Keys /\ UNCHANGED <<key[s], id[s], attempt[s]>>
        BY <2>0, <3>2 DEF Send, SendFails, SendersOK
      <4>2. QED
        BY <2>1, <4>1, InHandStays
    <3>3. QED
      BY <1>2, <2>0, <2>4, <3>1, <3>2
         DEF SenderStep, ClaimUndecodable, MarkSent, MarkFailed, Crash, SenderIdle,
             SendersOK, sendVars
  <2>5. QED
    BY <2>3, <2>4 DEF InHand
<1>3. CASE Day \/ UNCHANGED vars
  BY <1>3 DEF Day, vars, rowVars, sendVars, InHand, Found
<1>4. QED
  BY <1>1, <1>2, <1>3 DEF Next, Work, Faults

-----------------------------------------------------------------------------
(* Dead letters.                                                           *)

LEMMA UntriedKept ==
    ASSUME TypeOK, Untried, [Next]_vars
    PROVE  Untried'
<1>0. RowsOK
  BY DEF TypeOK
<1>1. CASE UNCHANGED <<legible, attempts>>
  BY <1>1 DEF Untried
<1>2. ASSUME NEW k \in Keys, Blank(k),
             \E decodes \in BOOLEAN : legible' = [legible EXCEPT ![k] = decodes]
      PROVE  Untried'
  BY <1>0, <1>2 DEF Blank, Untried, RowsOK
<1>3. ASSUME NEW s \in Senders, ClaimDue(s)
      PROVE  Untried'
  BY <1>0, <1>3 DEF ClaimDue, Untried, RowsOK
<1>4. QED
  BY <1>1, <1>2, <1>3
     DEF Next, Work, Faults, KeyStep, Enter, Leave, Repair, Enqueue, PurgeSent,
         BackoffEnds, LeaseExpires, SenderStep, ClaimUndecodable, Send, SendFails,
         MarkSent, MarkFailed, Crash, Day, rowVars, vars

LEMMA DeadKept ==
    ASSUME TypeOK, TypeOK', InHand, Untried, DeadIsExhausted, [Next]_vars
    PROVE  DeadIsExhausted'
<1>0. RowsOK /\ SendersOK
  BY DEF TypeOK
<1>1. ASSUME NEW k \in Keys, KeyStep(k)
      PROVE  DeadIsExhausted'
  <2>1. CASE UNCHANGED <<legible, dead, attempts>>
    BY <2>1 DEF DeadIsExhausted
  <2>2. ASSUME Blank(k),
               \E decodes \in BOOLEAN : legible' = [legible EXCEPT ![k] = decodes]
        PROVE  DeadIsExhausted'
    BY <1>0, <2>2 DEF Blank, DeadIsExhausted, RowsOK
  <2>3. QED
    BY <1>1, <2>1, <2>2 DEF KeyStep, Enter, Leave, Repair, Enqueue, PurgeSent,
                            BackoffEnds, LeaseExpires, rowVars
<1>2. ASSUME NEW s \in Senders, SenderStep(s) \/ Crash(s)
      PROVE  DeadIsExhausted'
  <2>0. legible' = legible
    BY <1>2 DEF SenderStep, ClaimDue, ClaimUndecodable, Send, SendFails, MarkSent,
                MarkFailed, Crash, rowVars
  <2>1. CASE MarkFailed(s)
    <3>1. key[s] \in Keys /\ attempts' = attempts
      BY <1>0, <2>1 DEF MarkFailed, SendersOK
    <3>2. CASE dead' = dead
      BY <2>0, <3>1, <3>2 DEF DeadIsExhausted
    <3>3. CASE Found(s) /\ Exhausted(s) /\ dead' = [dead EXCEPT ![key[s]] = TRUE]
      <4>1. attempt[s] <= attempts[key[s]] /\ attempt[s] >= MaxAttempts /\ legible[key[s]]
        BY <2>1, <3>3 DEF InHand, Exhausted, MarkFailed
      <4>2. attempts[key[s]] >= MaxAttempts
        BY <1>0, <3>1, <4>1 DEF RowsOK, SendersOK
      <4>3. QED
        BY <1>0, <2>0, <3>1, <3>3, <4>1, <4>2 DEF DeadIsExhausted, RowsOK
    <3>4. QED
      BY <2>1, <3>2, <3>3 DEF MarkFailed
  <2>2. CASE ClaimDue(s)
    <3>1. PICK k \in Keys :
             /\ Claimable(k)
             /\ attempts' = [attempts EXCEPT ![k] = Up(@, MaxAttempts + 1)]
      BY <2>2 DEF ClaimDue
    <3>2. ~dead[k] /\ dead' = dead
      BY <2>2, <3>1 DEF ClaimDue, Claimable, Pending
    <3>3. QED
      BY <1>0, <2>0, <3>1, <3>2 DEF DeadIsExhausted, RowsOK
  <2>3. CASE ClaimUndecodable(s)
    <3>1. PICK k \in Keys : ~legible[k] /\ dead' = [dead EXCEPT ![k] = TRUE]
      BY <2>3 DEF ClaimUndecodable
    <3>2. attempts[k] = 0 /\ attempts' = attempts
      BY <2>3, <3>1 DEF ClaimUndecodable, Untried
    <3>3. QED
      BY <1>0, <2>0, <3>1, <3>2 DEF DeadIsExhausted, RowsOK
  <2>4. CASE dead' = dead /\ attempts' = attempts
    BY <2>0, <2>4 DEF DeadIsExhausted
  <2>5. QED
    BY <1>2, <2>1, <2>2, <2>3, <2>4 DEF SenderStep, Send, SendFails, MarkSent, Crash,
                                        rowVars
<1>3. CASE Day \/ UNCHANGED vars
  BY <1>3 DEF Day, vars, rowVars, DeadIsExhausted
<1>4. QED
  BY <1>1, <1>2, <1>3 DEF Next, Work, Faults

\* MarkFailed, ClaimDue: no message is given up before its last attempt, however
\* late a slow sender reports and whoever leased the row meanwhile, but for those
\* that do not decode, and these are given up without any attempt.
THEOREM NoneGivenUpEarly == Spec => []DeadIsExhausted
<1>1. Init => TypeOK /\ InHand /\ Untried /\ DeadIsExhausted
  BY InitType DEF Init, InHand, Untried, DeadIsExhausted
<1>2. TypeOK /\ InHand /\ Untried /\ DeadIsExhausted /\ [Next]_vars
         => (TypeOK /\ InHand /\ Untried /\ DeadIsExhausted)'
  BY NextType, InHandKept, UntriedKept, DeadKept
<1>3. QED
  BY <1>1, <1>2, PTL DEF Spec

-----------------------------------------------------------------------------
(* Rows marked sent.                                                       *)

LEMMA DeliveredGrows ==
    ASSUME TypeOK, [Next]_vars, NEW k \in Keys
    PROVE  delivered'[k] >= delivered[k] /\ delivered[k] \in Nat /\ delivered'[k] \in Nat
<1>1. delivered[k] \in Nat /\ delivered'[k] \in Nat
  BY NextType DEF TypeOK
<1>2. delivered' = delivered \/ \E s \in Senders : Send(s) \/ SendFails(s)
  BY DEF Next, Work, Faults, KeyStep, SenderStep, Enter, Leave, Repair, PurgeSent,
         BackoffEnds, LeaseExpires, ClaimDue, ClaimUndecodable, MarkSent, MarkFailed,
         Crash, Day, vars, sendVars
<1>3. ASSUME NEW s \in Senders, Send(s) \/ SendFails(s)
      PROVE  delivered'[k] >= delivered[k]
  <2>1. key[s] \in Keys
    BY <1>3 DEF Send, SendFails, TypeOK, SendersOK
  <2>2. delivered' = delivered \/ Taken(key[s])
    BY <1>3 DEF Send, SendFails
  <2>3. QED
    BY <1>1, <2>1, <2>2, TakenType DEF TypeOK
<1>4. QED
  BY <1>1, <1>2, <1>3

LEMMA ReportsKept ==
    ASSUME TypeOK, TypeOK', Reports, [Next]_vars
    PROVE  Reports'
<1>0. SendersOK /\ SendersOK' /\ delivered \in [Keys -> Nat]
  BY DEF TypeOK
<1>1. ASSUME NEW t \in Senders, spc[t] = "sent", key'[t] = key[t]
      PROVE  delivered'[key'[t]] > 0
  <2>1. key[t] \in Keys /\ delivered[key[t]] > 0
    BY <1>0, <1>1 DEF SendersOK, Reports
  <2>2. QED
    BY <1>1, <2>1, DeliveredGrows
<1>2. CASE UNCHANGED sendVars
  BY <1>1, <1>2 DEF Reports, sendVars
<1>3. ASSUME NEW s \in Senders, SenderStep(s) \/ Crash(s)
      PROVE  Reports'
  <2>1. ASSUME NEW t \in Senders \ {s}
        PROVE  spc'[t] = spc[t] /\ key'[t] = key[t]
    BY <1>0, <1>3, <2>1 DEF SenderStep, ClaimDue, ClaimUndecodable, Send, SendFails,
                            MarkSent, MarkFailed, Crash, SenderIdle, SendersOK,
                            sendVars
  <2>2. ASSUME spc'[s] = "sent"
        PROVE  delivered'[key'[s]] > 0
    <3>1. Send(s)
      BY <1>0, <1>3, <2>2 DEF SenderStep, ClaimDue, ClaimUndecodable, SendFails,
                              MarkSent, MarkFailed, Crash, SenderIdle, SendersOK,
                              sendVars
    <3>2. key[s] \in Keys /\ key'[s] = key[s]
      BY <1>0, <3>1 DEF Send, SendersOK
    <3>3. Taken(key[s])
      BY <3>1 DEF Send
    <3>4. QED
      BY <1>0, <3>2, <3>3, TakenType
  <2>3. QED
    BY <1>1, <2>1, <2>2 DEF Reports
<1>4. QED
  BY <1>2, <1>3 DEF Next, Work, Faults, KeyStep, Enter, Leave, Repair, PurgeSent,
                    BackoffEnds, LeaseExpires, Day, vars

LEMMA SentKept ==
    ASSUME TypeOK, TypeOK', Reports, SentIsDelivered, [Next]_vars
    PROVE  SentIsDelivered'
<1>0. RowsOK /\ SendersOK
  BY DEF TypeOK
<1>1. \A k \in Keys : sentFor'[k] = NULL \/ sentFor[k] # NULL \/ delivered'[k] > 0
  <2>1. ASSUME NEW k \in Keys, KeyStep(k)
        PROVE  \A j \in Keys : sentFor'[j] = NULL \/ sentFor[j] # NULL
    <3>1. sentFor' = sentFor \/ sentFor' = [sentFor EXCEPT ![k] = NULL]
      BY <2>1 DEF KeyStep, Enter, Leave, Repair, PurgeSent, Enqueue, Blank, BackoffEnds,
                  LeaseExpires, rowVars
    <3>2. QED
      BY <1>0, <3>1 DEF RowsOK
  <2>2. ASSUME NEW s \in Senders, MarkSent(s)
        PROVE  \A k \in Keys : sentFor'[k] = NULL \/ sentFor[k] # NULL \/ delivered'[k] > 0
    <3>1. key[s] \in Keys /\ delivered[key[s]] > 0 /\ delivered' = delivered
      BY <1>0, <2>2 DEF MarkSent, SendersOK, Reports
    <3>2. sentFor' = sentFor \/ sentFor' = [sentFor EXCEPT ![key[s]] = 0]
      BY <2>2 DEF MarkSent
    <3>3. QED
      BY <1>0, <3>1, <3>2 DEF RowsOK
  <2>3. CASE Day
    BY <1>0, <2>3 DEF Day, RowsOK
  <2>4. CASE sentFor' = sentFor
    BY <2>4
  <2>5. QED
    BY <2>1, <2>2, <2>3, <2>4
       DEF Next, Work, Faults, SenderStep, ClaimDue, ClaimUndecodable, Send,
           SendFails, MarkFailed, Crash, rowVars, vars
<1>2. QED
  BY <1>1, DeliveredGrows DEF SentIsDelivered

\* MarkSent: whatever crashes and however senders overlap, a row is marked sent
\* only if the Telegram service took the message.
THEOREM MarkedIsDelivered == Spec => []SentIsDelivered
<1>1. Init => TypeOK /\ Reports /\ SentIsDelivered
  BY InitType DEF Init, Reports, SentIsDelivered
<1>2. TypeOK /\ Reports /\ SentIsDelivered /\ [Next]_vars
         => (TypeOK /\ Reports /\ SentIsDelivered)'
  BY NextType, ReportsKept, SentKept
<1>3. QED
  BY <1>1, <1>2, PTL DEF Spec

-----------------------------------------------------------------------------
(* Purged notices.                                                         *)

\* How the row of an outcome's notice stands to the age of the job: it was sent
\* no earlier than the job ended, and once it is purged repair looks no more.
WrittenFor(k) ==
    /\ state[k] # "left"
    /\ rows[k] <= 1
    /\ stored[k] => rows[k] = 1
    /\ state[k] = "ahead" => rows[k] = 0
    /\ ~stored[k] => sentFor[k] = NULL
    /\ ~stored[k] /\ rows[k] = 1 => age[k] > Lookback
    /\ sentFor[k] # NULL => age[k] > Lookback \/ sentFor[k] <= age[k]

Written == \A k \in Outcomes : WrittenFor(k)

\* What a step leaves alone when it does not touch the row of a key.
SameFor(k) ==
    UNCHANGED <<state[k], age[k], rows[k], stored[k], sentFor[k]>>

LEMMA OutcomesAreKeys == \A k \in Outcomes : k \in Keys /\ k \notin Reviews
BY DEF Keys

LEMMA EnqueueOutcome ==
    ASSUME RowsOK, NEW k \in Keys, Enqueue(k)
    PROVE  /\ \A j \in Keys \ {k} : UNCHANGED <<rows[j], stored[j], sentFor[j]>>
           /\ \/ UNCHANGED <<rows, stored, sentFor>>
              \/ ~stored[k] /\ stored'[k] /\ rows'[k] = rows[k] + 1 /\ sentFor'[k] = NULL
<1>1. CASE stored[k] /\ UNCHANGED rowVars
  BY <1>1 DEF rowVars
<1>2. CASE ~stored[k] /\ Blank(k)
  <2>1. /\ stored' = [stored EXCEPT ![k] = TRUE]
        /\ rows' = [rows EXCEPT ![k] = @ + 1]
        /\ sentFor' = [sentFor EXCEPT ![k] = NULL]
    BY <1>2 DEF Enqueue, Blank
  <2>2. \A j \in Keys \ {k} : UNCHANGED <<rows[j], stored[j], sentFor[j]>>
    BY <2>1 DEF RowsOK
  <2>3. stored'[k] /\ rows'[k] = rows[k] + 1 /\ sentFor'[k] = NULL
    BY <2>1 DEF RowsOK
  <2>4. QED
    BY <1>2, <2>2, <2>3
<1>3. QED
  BY <1>1, <1>2 DEF Enqueue

LEMMA WrittenByKey ==
    ASSUME TypeOK, Written, NEW k \in Keys, KeyStep(k), NEW j \in Outcomes
    PROVE  WrittenFor(j)'
<1>0. RowsOK /\ JobsOK /\ j \in Keys /\ j \notin Reviews /\ WrittenFor(j)
  BY OutcomesAreKeys DEF TypeOK, Written
<1>a. rows[j] \in Nat /\ age[j] \in Nat
  BY <1>0 DEF RowsOK, JobsOK, Days
<1>1. CASE Enter(k)
  <2>1. CASE j = k
    <3>1. state'[j] = "in" /\ age' = age /\ rows[j] = 0 /\ ~stored[j]
      BY <1>0, <1>1, <2>1 DEF Enter, JobsOK, WrittenFor
    <3>2. \/ UNCHANGED <<rows, stored, sentFor>>
          \/ stored'[j] /\ rows'[j] = rows[j] + 1 /\ sentFor'[j] = NULL
      BY <1>0, <1>1, <2>1, EnqueueOutcome DEF Enter, rowVars
    <3>3. QED
      BY <1>0, <3>1, <3>2 DEF WrittenFor
  <2>2. CASE j # k
    <3>1. SameFor(j)
      BY <1>0, <1>1, <2>2, EnqueueOutcome DEF Enter, JobsOK, rowVars, SameFor
    <3>2. QED
      BY <1>0, <3>1 DEF SameFor, WrittenFor
  <2>3. QED
    BY <2>1, <2>2
<1>2. CASE Repair(k)
  <2>1. UNCHANGED <<state, age>>
    BY <1>2 DEF Repair, jobVars
  <2>2. CASE j = k
    <3>1. state[j] = "in" /\ age[j] <= Lookback
      BY <1>2, <2>2 DEF Repair, Repairable
    <3>2. \/ UNCHANGED <<rows, stored, sentFor>>
          \/ ~stored[j] /\ stored'[j] /\ rows'[j] = rows[j] + 1 /\ sentFor'[j] = NULL
      BY <1>0, <1>2, <2>2, EnqueueOutcome DEF Repair
    <3>3. ~stored[j] => rows[j] = 0
      BY <1>0, <1>a, <3>1 DEF WrittenFor
    <3>4. QED
      BY <1>0, <2>1, <3>1, <3>2, <3>3 DEF WrittenFor
  <2>3. CASE j # k
    <3>1. SameFor(j)
      BY <1>0, <1>2, <2>1, <2>3, EnqueueOutcome DEF Repair, SameFor
    <3>2. QED
      BY <1>0, <3>1 DEF SameFor, WrittenFor
  <2>4. QED
    BY <2>2, <2>3
<1>3. CASE PurgeSent(k)
  <2>1. /\ UNCHANGED <<state, age, rows>>
        /\ stored' = [stored EXCEPT ![k] = FALSE]
        /\ sentFor' = [sentFor EXCEPT ![k] = NULL]
    BY <1>3 DEF PurgeSent, Blank, jobVars
  <2>2. CASE j = k
    <3>1. age[j] > Lookback
      <4>1. sentFor[j] \in Nat /\ sentFor[j] > Retention
        BY <1>0, <1>3, <2>2 DEF PurgeSent, RowsOK, Days
      <4>2. age[j] > Lookback \/ sentFor[j] <= age[j]
        BY <1>0, <1>3, <2>2 DEF PurgeSent, WrittenFor
      <4>3. QED
        BY <1>a, <4>1, <4>2
    <3>2. ~stored'[j] /\ sentFor'[j] = NULL
      BY <1>0, <2>1, <2>2 DEF RowsOK
    <3>3. QED
      BY <1>0, <2>1, <3>1, <3>2 DEF WrittenFor
  <2>3. CASE j # k
    BY <1>0, <2>1, <2>3 DEF WrittenFor, RowsOK
  <2>4. QED
    BY <2>2, <2>3
<1>4. CASE Leave(k) \/ BackoffEnds(k) \/ LeaseExpires(k)
  <2>1. SameFor(j)
    BY <1>0, <1>4 DEF Leave, BackoffEnds, LeaseExpires, jobVars, rowVars, JobsOK, SameFor
  <2>2. QED
    BY <1>0, <2>1 DEF SameFor, WrittenFor
<1>5. QED
  BY <1>1, <1>2, <1>3, <1>4 DEF KeyStep

LEMMA WrittenByDay ==
    ASSUME TypeOK, Written, Day, NEW j \in Outcomes
    PROVE  WrittenFor(j)'
<1>0. RowsOK /\ JobsOK /\ j \in Keys /\ WrittenFor(j)
  BY OutcomesAreKeys DEF TypeOK, Written
<1>1. UNCHANGED <<state, rows, stored>>
  BY DEF Day
<1>2. age[j] \in Nat /\ rows[j] \in Nat
  BY <1>0 DEF JobsOK, RowsOK, Days
<1>3. age'[j] = IF state[j] = "in" THEN Up(age[j], Lookback + 1) ELSE age[j]
  BY DEF Day
<1>4. sentFor'[j] = IF sentFor[j] = NULL THEN NULL ELSE Up(sentFor[j], Retention + 1)
  BY <1>0 DEF Day
<1>5. age'[j] \in Nat /\ age'[j] >= age[j]
  BY <1>2, <1>3 DEF Up
<1>6. ASSUME sentFor[j] # NULL
      PROVE  age'[j] > Lookback \/ sentFor'[j] <= age'[j]
  <2>1. state[j] = "in"
    BY <1>0, <1>2, <1>6 DEF WrittenFor, JobsOK, States
  <2>2. sentFor[j] \in Nat
    BY <1>0, <1>6 DEF RowsOK, Days
  <2>3. age[j] > Lookback \/ sentFor[j] <= age[j]
    BY <1>0, <1>6 DEF WrittenFor
  <2>4. QED
    BY <1>2, <1>3, <1>4, <1>6, <2>1, <2>2, <2>3 DEF Up
<1>7. sentFor'[j] # NULL => sentFor[j] # NULL
  BY <1>4
<1>8. sentFor[j] = NULL => sentFor'[j] = NULL
  BY <1>4
<1>9. QED
  BY <1>0, <1>1, <1>2, <1>5, <1>6, <1>7, <1>8 DEF WrittenFor

LEMMA WrittenBySender ==
    ASSUME TypeOK, Written, NEW s \in Senders, SenderStep(s) \/ Crash(s),
           NEW j \in Outcomes
    PROVE  WrittenFor(j)'
<1>0. RowsOK /\ JobsOK /\ j \in Keys /\ WrittenFor(j)
  BY OutcomesAreKeys DEF TypeOK, Written
<1>1. UNCHANGED <<state, age, rows, stored>>
  BY DEF SenderStep, ClaimDue, ClaimUndecodable, Send, SendFails, MarkSent,
         MarkFailed, Crash, jobVars, rowVars
<1>2. CASE sentFor'[j] = sentFor[j]
  BY <1>0, <1>1, <1>2 DEF WrittenFor
<1>3. CASE stored[j] /\ sentFor'[j] = 0
  <2>1. age[j] \in Nat
    BY <1>0 DEF JobsOK, Days
  <2>2. QED
    BY <1>0, <1>1, <1>3, <2>1 DEF WrittenFor
<1>4. sentFor'[j] = sentFor[j] \/ (stored[j] /\ sentFor'[j] = 0)
  <2>1. CASE MarkSent(s)
    BY <1>0, <2>1 DEF MarkSent, Found, RowsOK
  <2>2. CASE sentFor' = sentFor
    BY <2>2
  <2>3. QED
    BY <2>1, <2>2 DEF SenderStep, ClaimDue, ClaimUndecodable, Send, SendFails,
                      MarkFailed, Crash, rowVars
<1>5. QED
  BY <1>2, <1>3, <1>4

LEMMA WrittenKept ==
    ASSUME TypeOK, Written, [Next]_vars
    PROVE  Written'
<1>1. CASE UNCHANGED vars
  BY <1>1 DEF vars, jobVars, rowVars, Written, WrittenFor
<1>2. QED
  BY <1>1, WrittenByKey, WrittenByDay, WrittenBySender DEF Written, Next, Work, Faults

\* outboxRetention and repairLookback: as long as the retention is longer than
\* the lookback, repair never writes the notice of an outcome a second time.
THEOREM NeverRewritten == Spec => []OutcomeWrittenOnce
<1>1. Init => TypeOK /\ Written
  BY InitType, OutcomesAreKeys DEF Init, Written, WrittenFor
<1>2. TypeOK /\ Written /\ [Next]_vars => (TypeOK /\ Written)'
  BY NextType, WrittenKept
<1>3. Written => OutcomeWrittenOnce
  <2>1. SUFFICES ASSUME Written, NEW k \in Outcomes PROVE rows[k] <= 1
    BY Zenon DEF OutcomeWrittenOnce
  <2>2. QED
    BY <2>1 DEF Written, WrittenFor
<1>4. QED
  BY <1>1, <1>2, <1>3, PTL DEF Spec

-----------------------------------------------------------------------------
(* Duplicates.                                                             *)

\* The senders that hold the message of a key and may yet be owed a delivery.
Flying(k) == {s \in Senders : spc[s] \in {"send", "failed"} /\ key[s] = k}

\* The row of a key is, or comes to be without a mishap, there to be claimed.
Holder(s, k) == Holding(s, k) /\ id[s] = rows[k]
Free(k)      == Pending(k) /\ (leased[k] => \A s \in Senders : ~Holder(s, k))
Credit(k)    == IF Free(k) THEN 1 ELSE 0

\* What was delivered, what may be on its way and what may be claimed are
\* together no more than the rows written and the mishaps counted.
BalancedFor(k) ==
    /\ IsFiniteSet(Flying(k))
    /\ delivered[k] <= MaxMishaps + 2
    /\ mishaps[k] <= MaxMishaps + 1
    /\ \/ mishaps[k] = MaxMishaps + 1
       \/ delivered[k] + Cardinality(Flying(k)) + Credit(k) <= rows[k] + mishaps[k]

Balanced == \A k \in Keys : BalancedFor(k)

\* What is stored, held or delivered was written.
WasWritten ==
    /\ \A k \in Keys : stored[k] \/ delivered[k] > 0 => rows[k] > 0
    /\ \A s \in Senders : spc[s] # "idle" => rows[key[s]] > 0

\* The ways a step can move the balance of a key: not at all, by a new row, by
\* a mishap, by a sender that lets go of the row, or by a claim.
UpDelivered(k) == delivered'[k] = Up(delivered[k], MaxMishaps + 2)
UpMishaps(k)   == mishaps'[k] = Up(mishaps[k], MaxMishaps + 1)
SameMishaps(k) == UNCHANGED mishaps[k]

Rests(k) == /\ Flying(k)' = Flying(k) /\ (Free(k)' => Free(k))
            /\ UNCHANGED <<delivered[k], rows[k]>> /\ SameMishaps(k)
Grows(k) == /\ Flying(k)' = Flying(k) /\ rows'[k] = rows[k] + 1
            /\ UNCHANGED delivered[k] /\ SameMishaps(k)
Slips(k) == /\ Flying(k)' = Flying(k) /\ UNCHANGED rows[k] /\ UpMishaps(k)
            /\ \/ UNCHANGED delivered[k]
               \/ UpDelivered(k) /\ (Free(k)' => Free(k))
Drops(k, s) == /\ s \in Flying(k) /\ Flying(k)' = Flying(k) \ {s}
               /\ UNCHANGED rows[k] /\ SameMishaps(k)
               /\ \/ UNCHANGED delivered[k]
                  \/ UpDelivered(k) /\ (Free(k)' => Free(k))
Takes(k, s) == /\ Free(k) /\ ~Free(k)' /\ Flying(k)' = Flying(k) \cup {s}
               /\ UNCHANGED <<delivered[k], rows[k]>> /\ SameMishaps(k)

LEMMA OneMoreOrLess ==
    ASSUME NEW S, NEW x, IsFiniteSet(S)
    PROVE  /\ IsFiniteSet(S \ {x}) /\ IsFiniteSet(S \cup {x})
           /\ x \in S => Cardinality(S \ {x}) = Cardinality(S) - 1
           /\ Cardinality(S \cup {x}) <= Cardinality(S) + 1
<1>1. Cardinality(S) \in Nat
  BY FS_CardinalityType
<1>2. IsFiniteSet(S \ {x}) /\ (x \in S => Cardinality(S \ {x}) = Cardinality(S) - 1)
  BY FS_RemoveElement
<1>3. IsFiniteSet(S \cup {x}) /\ Cardinality(S \cup {x}) <= Cardinality(S) + 1
  BY <1>1, FS_AddElement
<1>4. QED
  BY <1>2, <1>3

LEMMA BalanceMoves ==
    ASSUME TypeOK, TypeOK', NEW k \in Keys, BalancedFor(k),
           \/ Rests(k) \/ Grows(k) \/ Slips(k)
           \/ \E s \in Senders : Drops(k, s) \/ Takes(k, s)
    PROVE  BalancedFor(k)'
<1> DEFINE C == Cardinality(Flying(k))
           D == Cardinality(Flying(k)')
<1>1. /\ delivered[k] \in Nat /\ delivered'[k] \in Nat
      /\ mishaps[k] \in Nat /\ mishaps'[k] \in Nat
      /\ rows[k] \in Nat /\ rows'[k] \in Nat
  BY DEF TypeOK, RowsOK
<1>2. IsFiniteSet(Flying(k)) /\ C \in Nat
  BY FS_CardinalityType DEF BalancedFor
<1>3. /\ IsFiniteSet(Flying(k)') /\ D \in Nat
      /\ Rests(k) \/ Grows(k) \/ Slips(k) => D = C
      /\ \A s \in Senders : Drops(k, s) => D = C - 1
      /\ \A s \in Senders : Takes(k, s) => D <= C + 1
  <2>1. ASSUME NEW s \in Senders
        PROVE  /\ IsFiniteSet(Flying(k) \ {s}) /\ IsFiniteSet(Flying(k) \cup {s})
               /\ s \in Flying(k) => Cardinality(Flying(k) \ {s}) = C - 1
               /\ Cardinality(Flying(k) \cup {s}) <= C + 1
    BY <1>2, OneMoreOrLess
  <2>2. \/ Flying(k)' = Flying(k)
        \/ \E s \in Senders : Flying(k)' \in {Flying(k) \ {s}, Flying(k) \cup {s}}
    BY DEF Rests, Grows, Slips, Drops, Takes
  <2>3. IsFiniteSet(Flying(k)')
    BY <1>2, <2>1, <2>2
  <2>4. D \in Nat
    BY <2>3, FS_CardinalityType
  <2>5. QED
    BY <2>1, <2>3, <2>4 DEF Rests, Grows, Slips, Drops, Takes
<1>4. /\ Credit(k) \in 0 .. 1 /\ Credit(k)' \in 0 .. 1
      /\ (Free(k)' => Free(k)) => Credit(k)' <= Credit(k)
      /\ Free(k) /\ ~Free(k)' => Credit(k) = 1 /\ Credit(k)' = 0
  BY DEF Credit
<1> HIDE DEF C, D
<1>5. /\ delivered'[k] <= MaxMishaps + 2
      /\ mishaps'[k] <= MaxMishaps + 1
      /\ \/ mishaps'[k] = MaxMishaps + 1
         \/ delivered'[k] + D + Credit(k)' <= rows'[k] + mishaps'[k]
  <2>1. /\ delivered[k] <= MaxMishaps + 2
        /\ mishaps[k] <= MaxMishaps + 1
        /\ \/ mishaps[k] = MaxMishaps + 1
           \/ delivered[k] + C + Credit(k) <= rows[k] + mishaps[k]
    BY DEF BalancedFor, C
  <2>2. CASE Rests(k) \/ Grows(k)
    BY <1>1, <1>2, <1>3, <1>4, <2>1, <2>2 DEF Rests, Grows, SameMishaps
  <2>3. CASE Slips(k)
    BY <1>1, <1>2, <1>3, <1>4, <2>1, <2>3 DEF Slips, UpMishaps, UpDelivered, Up
  <2>4. ASSUME NEW s \in Senders, Drops(k, s)
        PROVE  /\ delivered'[k] <= MaxMishaps + 2
               /\ mishaps'[k] <= MaxMishaps + 1
               /\ \/ mishaps'[k] = MaxMishaps + 1
                  \/ delivered'[k] + D + Credit(k)' <= rows'[k] + mishaps'[k]
    BY <1>1, <1>2, <1>3, <1>4, <2>1, <2>4 DEF Drops, SameMishaps, UpDelivered, Up
  <2>5. ASSUME NEW s \in Senders, Takes(k, s)
        PROVE  /\ delivered'[k] <= MaxMishaps + 2
               /\ mishaps'[k] <= MaxMishaps + 1
               /\ \/ mishaps'[k] = MaxMishaps + 1
                  \/ delivered'[k] + D + Credit(k)' <= rows'[k] + mishaps'[k]
    BY <1>1, <1>2, <1>3, <1>4, <2>1, <2>5 DEF Takes, SameMishaps
  <2>6. QED
    BY <2>2, <2>3, <2>4, <2>5
<1>6. QED
  BY <1>3, <1>5 DEF BalancedFor, D

\* Nobody's holding of any message changes but that of s.
Others(s) ==
    \A t \in Senders \ {s} :
       spc'[t] = spc[t] /\ key'[t] = key[t] /\ id'[t] = id[t]

LEMMA OnlyOne ==
    ASSUME TypeOK, NEW s \in Senders, SenderStep(s) \/ Crash(s)
    PROVE  Others(s)
BY DEF TypeOK, SendersOK, SenderStep, ClaimDue, ClaimUndecodable, Send, SendFails,
       MarkSent, MarkFailed, Crash, SenderIdle, Others, sendVars

\* The holders are the same when no sender moves and no row is written.
LEMMA FreeUnmoved ==
    ASSUME NEW k \in Keys, UNCHANGED sendVars
    PROVE  /\ Flying(k)' = Flying(k)
           /\ rows'[k] = rows[k] => \A s \in Senders : Holder(s, k)' <=> Holder(s, k)
BY DEF sendVars, Flying, Holder, Holding

LEMMA BalanceByEnqueue ==
    ASSUME TypeOK, NEW k \in Keys, Enqueue(k), UNCHANGED <<delivered, mishaps, sendVars>>,
           NEW j \in Keys
    PROVE  Rests(j) \/ Grows(j)
<1>0. RowsOK /\ Flying(j)' = Flying(j)
  BY FreeUnmoved DEF TypeOK
<1>1. CASE UNCHANGED rowVars
  <2>1. Free(j)' <=> Free(j)
    BY <1>1, FreeUnmoved DEF Free, Pending, rowVars
  <2>2. QED
    BY <1>0, <1>1, <2>1 DEF Rests, SameMishaps, rowVars
<1>2. CASE /\ stored' = [stored EXCEPT ![k] = TRUE]
           /\ rows' = [rows EXCEPT ![k] = @ + 1]
           /\ Blank(k)
  <2>1. CASE j = k
    BY <1>0, <1>2, <2>1 DEF RowsOK, Grows, SameMishaps
  <2>2. CASE j # k
    <3>1. UNCHANGED <<rows[j], stored[j], leased[j], sentFor[j], dead[j]>>
      BY <1>0, <1>2, <2>2 DEF RowsOK, Blank
    <3>2. Free(j)' <=> Free(j)
      BY <3>1, FreeUnmoved DEF Free, Pending
    <3>3. QED
      BY <1>0, <3>1, <3>2 DEF Rests, SameMishaps
  <2>3. QED
    BY <2>1, <2>2
<1>3. QED
  BY <1>1, <1>2 DEF Enqueue

LEMMA BalanceByKey ==
    ASSUME TypeOK, NEW k \in Keys, KeyStep(k), NEW j \in Keys
    PROVE  Rests(j) \/ Grows(j) \/ Slips(j)
<1>0. RowsOK /\ mishaps \in [Keys -> Nat]
  BY DEF TypeOK
<1>1. UNCHANGED sendVars /\ Flying(j)' = Flying(j)
  <2>1. UNCHANGED sendVars
    BY DEF KeyStep, Enter, Leave, Repair, PurgeSent, BackoffEnds, LeaseExpires
  <2>2. QED
    BY <2>1, FreeUnmoved
<1>2. CASE Leave(k) \/ BackoffEnds(k) \/ (Enter(k) /\ UNCHANGED rowVars)
  <2>1. UNCHANGED <<rows, stored, leased, sentFor, dead, delivered, mishaps>>
    BY <1>2 DEF Leave, BackoffEnds, Enter, rowVars
  <2>2. Free(j)' <=> Free(j)
    BY <1>1, <2>1, FreeUnmoved DEF Free, Pending
  <2>3. QED
    BY <1>1, <2>1, <2>2 DEF Rests, SameMishaps
<1>3. CASE Repair(k) \/ (Enter(k) /\ Enqueue(k))
  BY <1>3, BalanceByEnqueue DEF Repair, Enter
<1>4. CASE PurgeSent(k)
  <2>1. /\ rows' = rows /\ delivered' = delivered /\ mishaps' = mishaps
        /\ stored' = [stored EXCEPT ![k] = FALSE] /\ Blank(k)
    BY <1>4 DEF PurgeSent
  <2>2. CASE j = k
    BY <1>0, <1>1, <2>1, <2>2 DEF RowsOK, Free, Pending, Rests, SameMishaps
  <2>3. CASE j # k
    <3>1. UNCHANGED <<stored[j], leased[j], sentFor[j], dead[j]>>
      BY <1>0, <2>1, <2>3 DEF RowsOK, Blank
    <3>2. Free(j)' <=> Free(j)
      BY <1>1, <2>1, <3>1, FreeUnmoved DEF Free, Pending
    <3>3. QED
      BY <1>1, <2>1, <3>2 DEF Rests, SameMishaps
  <2>4. QED
    BY <2>2, <2>3
<1>5. CASE LeaseExpires(k)
  <2>1. /\ UNCHANGED <<rows, stored, sentFor, dead, delivered>>
        /\ leased' = [leased EXCEPT ![k] = FALSE]
    BY <1>5 DEF LeaseExpires
  <2>2. CASE j = k /\ Mishap(k)
    <3>1. UpMishaps(j)
      BY <1>0, <2>2 DEF Mishap, UpMishaps
    <3>2. QED
      BY <1>1, <2>1, <3>1 DEF Slips
  <2>3. CASE j = k /\ UNCHANGED mishaps /\ ~(\E s \in Senders : Holding(s, k))
    <3>1. Free(j)' => Free(j)
      BY <2>1, <2>3 DEF Free, Pending, Holder
    <3>2. QED
      BY <1>1, <2>1, <2>3, <3>1 DEF Rests, SameMishaps
  <2>4. CASE j # k
    <3>1. leased'[j] = leased[j] /\ mishaps'[j] = mishaps[j]
      BY <1>0, <1>5, <2>1, <2>4 DEF RowsOK, LeaseExpires, Mishap
    <3>2. Free(j)' <=> Free(j)
      BY <1>1, <2>1, <3>1, FreeUnmoved DEF Free, Pending
    <3>3. QED
      BY <1>1, <2>1, <3>1, <3>2 DEF Rests, SameMishaps
  <2>5. QED
    BY <1>5, <2>2, <2>3, <2>4 DEF LeaseExpires
<1>6. QED
  BY <1>2, <1>3, <1>4, <1>5 DEF KeyStep, Enter

\* A key that is not the one s has or gets in hand.
LEMMA BalanceElsewhere ==
    ASSUME NEW s \in Senders, Others(s), NEW j \in Keys,
           spc[s] = "idle" \/ key[s] # j, spc'[s] = "idle" \/ key'[s] # j,
           UNCHANGED <<rows[j], stored[j], leased[j], sentFor[j], dead[j], delivered[j],
                       mishaps[j]>>
    PROVE  Rests(j)
<1>1. \A t \in Senders : Holder(t, j)' <=> Holder(t, j)
  BY DEF Others, Holder, Holding
<1>2. Free(j)' <=> Free(j)
  BY <1>1 DEF Free, Pending
<1>3. Flying(j)' = Flying(j)
  BY DEF Others, Flying
<1>4. QED
  BY <1>2, <1>3 DEF Rests, SameMishaps

LEMMA BalanceByClaim ==
    ASSUME TypeOK, NEW s \in Senders, ClaimDue(s), NEW j \in Keys
    PROVE  Rests(j) \/ Takes(j, s)
<1>0. RowsOK /\ SendersOK /\ Others(s)
  BY OnlyOne DEF TypeOK, SenderStep
<1>1. PICK k \in Keys :
         /\ Claimable(k)
         /\ leased' = [leased EXCEPT ![k] = TRUE]
         /\ key' = [key EXCEPT ![s] = k]
         /\ id' = [id EXCEPT ![s] = rows[k]]
  BY DEF ClaimDue
<1>2. /\ spc[s] = "idle" /\ spc'[s] = "send" /\ key'[s] = k /\ id'[s] = rows[k]
      /\ UNCHANGED <<rows, stored, sentFor, dead, delivered, mishaps>>
  BY <1>0, <1>1 DEF ClaimDue, SendersOK
<1>3. CASE j # k
  <2>1. leased'[j] = leased[j]
    BY <1>0, <1>1, <1>3 DEF RowsOK
  <2>2. QED
    BY <1>0, <1>2, <1>3, <2>1, BalanceElsewhere
<1>4. CASE j = k
  <2>1. Free(j)
    BY <1>1, <1>4 DEF Claimable, Free
  <2>2. leased'[j] /\ Holder(s, j)'
    BY <1>0, <1>1, <1>2, <1>4 DEF RowsOK, Holder, Holding
  <2>3. ~Free(j)'
    BY <2>2 DEF Free
  <2>4. Flying(j)' = Flying(j) \cup {s}
    BY <1>0, <1>2, <1>4 DEF Others, Flying
  <2>5. QED
    BY <1>2, <2>1, <2>3, <2>4 DEF Takes, SameMishaps
<1>5. QED
  BY <1>3, <1>4

LEMMA BalanceByRefusal ==
    ASSUME TypeOK, NEW s \in Senders, ClaimUndecodable(s), NEW j \in Keys
    PROVE  Rests(j)
<1>0. RowsOK /\ Flying(j)' = Flying(j)
  BY FreeUnmoved DEF TypeOK, ClaimUndecodable
<1>1. UNCHANGED <<rows, stored, leased, sentFor, delivered, mishaps, sendVars>>
  BY DEF ClaimUndecodable
<1>2. dead'[j] = dead[j] \/ dead'[j]
  BY <1>0 DEF ClaimUndecodable, RowsOK
<1>3. Free(j)' => Free(j)
  BY <1>1, <1>2, FreeUnmoved DEF Free, Pending
<1>4. QED
  BY <1>0, <1>1, <1>3 DEF Rests, SameMishaps

LEMMA BalanceBySend ==
    ASSUME TypeOK, NEW s \in Senders, Send(s) \/ SendFails(s), NEW j \in Keys
    PROVE  Rests(j) \/ Slips(j) \/ Drops(j, s)
<1>0. SendersOK /\ Others(s) /\ mishaps \in [Keys -> Nat] /\ delivered \in [Keys -> Nat]
  BY OnlyOne DEF TypeOK, SenderStep
<1>1. /\ spc[s] = "send" /\ key[s] \in Keys /\ spc'[s] \in {"sent", "failed"}
      /\ UNCHANGED <<key, id, rows, stored, leased, sentFor, dead>>
  BY <1>0 DEF Send, SendFails, SendersOK, rowVars
<1>2. Free(j)' <=> Free(j)
  <2>1. \A t \in Senders : Holder(t, j)' <=> Holder(t, j)
    BY <1>0, <1>1 DEF Others, Holder, Holding
  <2>2. QED
    BY <1>1, <2>1 DEF Free, Pending
<1>3. CASE j # key[s]
  <2>1. UNCHANGED <<delivered[j], mishaps[j]>>
    BY <1>0, <1>1, <1>3 DEF Send, SendFails, Taken, Mishap
  <2>2. QED
    BY <1>0, <1>1, <1>3, <2>1, BalanceElsewhere
<1>4. CASE j = key[s] /\ Send(s)
  <2>1. UpDelivered(j) /\ mishaps' = mishaps /\ spc'[s] = "sent"
    BY <1>0, <1>4 DEF Send, Taken, UpDelivered, SendersOK
  <2>2. s \in Flying(j) /\ Flying(j)' = Flying(j) \ {s}
    BY <1>0, <1>1, <1>4, <2>1 DEF Others, Flying
  <2>3. QED
    BY <1>1, <1>2, <2>1, <2>2 DEF Drops, SameMishaps
<1>5. CASE j = key[s] /\ SendFails(s)
  <2>1. spc'[s] = "failed"
    BY <1>0, <1>5 DEF SendFails, SendersOK
  <2>2. Flying(j)' = Flying(j)
    BY <1>0, <1>1, <2>1 DEF Others, Flying
  <2>3. \/ UpDelivered(j) /\ UpMishaps(j)
        \/ UNCHANGED <<delivered, mishaps>>
    BY <1>0, <1>5 DEF SendFails, Taken, Mishap, UpDelivered, UpMishaps
  <2>4. QED
    BY <1>1, <1>2, <2>2, <2>3 DEF Rests, Slips, SameMishaps
<1>6. QED
  BY <1>3, <1>4, <1>5

LEMMA BalanceByMark ==
    ASSUME TypeOK, NEW s \in Senders, MarkSent(s) \/ MarkFailed(s), NEW j \in Keys
    PROVE  Rests(j) \/ Drops(j, s)
<1>0. RowsOK /\ SendersOK /\ Others(s)
  BY OnlyOne DEF TypeOK, SenderStep
<1>1. /\ spc[s] # "idle" /\ key[s] \in Keys /\ spc'[s] = "idle"
      /\ UNCHANGED <<rows, stored, delivered, mishaps>>
  BY <1>0 DEF MarkSent, MarkFailed, SenderIdle, SendersOK
<1>2. CASE j # key[s]
  <2>1. UNCHANGED <<leased[j], sentFor[j], dead[j]>>
    BY <1>0, <1>1, <1>2 DEF MarkSent, MarkFailed, RowsOK
  <2>2. QED
    BY <1>0, <1>1, <1>2, <2>1, BalanceElsewhere
<1>3. CASE j = key[s] /\ MarkFailed(s)
  <2>1. s \in Flying(j) /\ Flying(j)' = Flying(j) \ {s}
    BY <1>0, <1>1, <1>3 DEF MarkFailed, Others, Flying
  <2>2. QED
    BY <1>1, <2>1 DEF Drops, SameMishaps
<1>4. CASE j = key[s] /\ MarkSent(s)
  <2>1. Flying(j)' = Flying(j)
    BY <1>0, <1>1, <1>4 DEF MarkSent, Others, Flying
  <2>2. CASE Found(s)
    <3>1. sentFor'[j] = 0
      BY <1>0, <1>4, <2>2 DEF MarkSent, RowsOK, Found, SenderIdle
    <3>2. ~Free(j)'
      BY <3>1 DEF Free, Pending
    <3>3. QED
      BY <1>1, <2>1, <3>2 DEF Rests, SameMishaps
  <2>3. CASE ~Found(s)
    <3>1. UNCHANGED <<leased, sentFor, dead>>
      BY <1>4, <2>3 DEF MarkSent
    <3>2. Free(j)' => Free(j)
      <4>1. SUFFICES ASSUME stored[j] PROVE Free(j)' => Free(j)
        BY <1>1 DEF Free, Pending
      <4>2. ~Holder(s, j)
        BY <1>4, <2>3, <4>1 DEF Holder, Found
      <4>3. \A t \in Senders \ {s} : Holder(t, j)' <=> Holder(t, j)
        BY <1>0, <1>1 DEF Others, Holder, Holding
      <4>4. QED
        BY <1>1, <3>1, <4>2, <4>3 DEF Free, Pending
    <3>3. QED
      BY <1>1, <2>1, <3>2 DEF Rests, SameMishaps
  <2>4. QED
    BY <2>2, <2>3
<1>5. QED
  BY <1>2, <1>3, <1>4

LEMMA BalanceByCrash ==
    ASSUME TypeOK, NEW s \in Senders, Crash(s), NEW j \in Keys
    PROVE  Rests(j) \/ Slips(j) \/ Drops(j, s)
<1>0. SendersOK /\ Others(s) /\ mishaps \in [Keys -> Nat]
  BY OnlyOne DEF TypeOK
<1>1. /\ spc[s] # "idle" /\ key[s] \in Keys /\ spc'[s] = "idle"
      /\ UNCHANGED <<rows, stored, leased, sentFor, dead, delivered>>
  BY <1>0 DEF Crash, SenderIdle, SendersOK, rowVars
<1>2. CASE j # key[s]
  <2>1. UNCHANGED mishaps[j]
    BY <1>0, <1>1, <1>2 DEF Crash, Mishap
  <2>2. QED
    BY <1>0, <1>1, <1>2, <2>1, BalanceElsewhere
<1>3. CASE j = key[s] /\ spc[s] = "sent"
  <2>1. UpMishaps(j)
    BY <1>0, <1>3 DEF Crash, Mishap, UpMishaps
  <2>2. Flying(j)' = Flying(j)
    BY <1>0, <1>1, <1>3 DEF Others, Flying
  <2>3. QED
    BY <1>1, <2>1, <2>2 DEF Slips
<1>4. CASE j = key[s] /\ spc[s] # "sent"
  <2>1. spc[s] \in {"send", "failed"} /\ mishaps' = mishaps
    BY <1>0, <1>1, <1>4 DEF SendersOK, Crash
  <2>2. s \in Flying(j) /\ Flying(j)' = Flying(j) \ {s}
    BY <1>0, <1>1, <1>4, <2>1 DEF Others, Flying
  <2>3. QED
    BY <1>1, <2>1, <2>2 DEF Drops, SameMishaps
<1>5. QED
  BY <1>2, <1>3, <1>4

LEMMA BalancedKept ==
    ASSUME TypeOK, TypeOK', Balanced, [Next]_vars
    PROVE  Balanced'
<1>1. SUFFICES ASSUME NEW j \in Keys PROVE BalancedFor(j)'
  BY DEF Balanced
<1>2. \/ Rests(j) \/ Grows(j) \/ Slips(j)
      \/ \E s \in Senders : Drops(j, s) \/ Takes(j, s)
  <2>1. ASSUME NEW k \in Keys, KeyStep(k)
        PROVE  Rests(j) \/ Grows(j) \/ Slips(j)
    BY <2>1, BalanceByKey
  <2>2. ASSUME NEW s \in Senders, SenderStep(s) \/ Crash(s)
        PROVE  Rests(j) \/ Slips(j) \/ Drops(j, s) \/ Takes(j, s)
    BY <2>2, BalanceByClaim, BalanceByRefusal, BalanceBySend, BalanceByMark,
       BalanceByCrash DEF SenderStep
  <2>3. CASE Day \/ UNCHANGED vars
    <3>1. UNCHANGED <<rows, stored, leased, dead, delivered, mishaps, sendVars>>
      BY <2>3 DEF Day, vars, rowVars
    <3>2. sentFor'[j] = NULL <=> sentFor[j] = NULL
      BY <2>3 DEF Day, vars, rowVars, TypeOK, RowsOK, Days, Up
    <3>3. Free(j)' <=> Free(j)
      BY <3>1, <3>2, FreeUnmoved DEF Free, Pending
    <3>4. QED
      BY <3>1, <3>3, FreeUnmoved DEF Rests, SameMishaps
  <2>4. QED
    BY <2>1, <2>2, <2>3 DEF Next, Work, Faults
<1>3. QED
  BY <1>2, BalanceMoves DEF Balanced

LEMMA WasWrittenKept ==
    ASSUME TypeOK, TypeOK', WasWritten, [Next]_vars
    PROVE  WasWritten'
<1>0. RowsOK /\ SendersOK /\ RowsOK' /\ SendersOK' /\ delivered \in [Keys -> Nat]
  BY DEF TypeOK
<1>1. ASSUME NEW k \in Keys, KeyStep(k)
      PROVE  WasWritten'
  <2>1. UNCHANGED <<sendVars, delivered>>
    BY <1>1 DEF KeyStep, Enter, Leave, Repair, PurgeSent, BackoffEnds, LeaseExpires
  <2>2. ASSUME NEW j \in Keys
        PROVE  rows'[j] >= rows[j] /\ (stored'[j] => stored[j] \/ rows'[j] > 0)
    <3>1. rows[j] \in Nat /\ rows'[j] \in Nat
      BY <1>0 DEF RowsOK
    <3>2. QED
      BY <1>1, <3>1, KeyRows DEF Kept, Fresh, Gone
  <2>3. QED
    BY <1>0, <2>1, <2>2 DEF WasWritten, RowsOK, SendersOK, sendVars
<1>2. ASSUME NEW s \in Senders, SenderStep(s) \/ Crash(s)
      PROVE  WasWritten'
  <2>1. rows' = rows /\ stored' = stored /\ Others(s)
    BY <1>2, OnlyOne DEF SenderStep, ClaimDue, ClaimUndecodable, Send, SendFails,
                         MarkSent, MarkFailed, Crash, rowVars
  <2>2. \A k \in Keys : delivered'[k] = delivered[k] \/ (spc[s] # "idle" /\ key[s] = k)
    <3>1. delivered' = delivered \/ (spc[s] = "send" /\ Taken(key[s]))
      BY <1>2 DEF SenderStep, ClaimDue, ClaimUndecodable, Send, SendFails, MarkSent,
                  MarkFailed, Crash
    <3>2. QED
      BY <1>0, <3>1 DEF Taken
  <2>3. spc'[s] # "idle" => rows[key'[s]] > 0
    <3>1. CASE ClaimDue(s)
      <4>1. PICK k \in Keys : Claimable(k) /\ key' = [key EXCEPT ![s] = k]
        BY <3>1 DEF ClaimDue
      <4>2. QED
        BY <1>0, <4>1 DEF SendersOK, Claimable, Pending, WasWritten
    <3>2. CASE ~ClaimDue(s)
      BY <1>0, <1>2, <3>2 DEF SenderStep, ClaimUndecodable, Send, SendFails, MarkSent,
                              MarkFailed, Crash, SenderIdle, SendersOK, sendVars,
                              WasWritten
    <3>3. QED
      BY <3>1, <3>2
  <2>4. QED
    BY <2>1, <2>2, <2>3 DEF WasWritten, Others
<1>3. CASE Day \/ UNCHANGED vars
  BY <1>3 DEF Day, vars, rowVars, sendVars, WasWritten
<1>4. QED
  BY <1>1, <1>2, <1>3 DEF Next, Work, Faults

\* ClaimDue: among any number of instances a message is delivered no more often
\* than it was written, but for a mishap of its own each time.
THEOREM DuplicatesHaveCauses == Spec => []DuplicatesAreMishaps
<1>1. Init => TypeOK /\ Balanced /\ WasWritten
  <2>1. ASSUME Init, NEW k \in Keys
        PROVE  BalancedFor(k)
    <3>1. Flying(k) = {} /\ ~Free(k)
      BY <2>1 DEF Init, Flying, Free, Pending
    <3>2. IsFiniteSet(Flying(k)) /\ Cardinality(Flying(k)) = 0
      BY <3>1, FS_EmptySet
    <3>3. QED
      BY <2>1, <3>1, <3>2 DEF Init, BalancedFor, Credit
  <2>2. QED
    BY <2>1, InitType DEF Balanced, WasWritten, Init
<1>2. TypeOK /\ Balanced /\ WasWritten /\ [Next]_vars
         => (TypeOK /\ Balanced /\ WasWritten)'
  BY NextType, BalancedKept, WasWrittenKept
<1>3. TypeOK /\ Balanced /\ WasWritten => DuplicatesAreMishaps
  <2>1. SUFFICES ASSUME TypeOK, WasWritten, NEW k \in Keys, BalancedFor(k)
                 PROVE  delivered[k] <= rows[k] + mishaps[k]
    BY DEF Balanced, DuplicatesAreMishaps
  <2>2. /\ delivered[k] \in Nat /\ mishaps[k] \in Nat /\ rows[k] \in Nat
        /\ Cardinality(Flying(k)) \in Nat /\ Credit(k) \in 0 .. 1
    BY <2>1, FS_CardinalityType DEF TypeOK, RowsOK, BalancedFor, Credit
  <2>3. QED
    BY <2>1, <2>2 DEF BalancedFor, WasWritten
<1>4. QED
  BY <1>1, <1>2, <1>3, PTL DEF Spec

-----------------------------------------------------------------------------
(* The promise: the outbox implements Delivery for every message.          *)

\* What Delivery sees of a message is left alone.
Quiet(k) == UNCHANGED Promise(k)!vars

Seen(k) == Quiet(k) \/ Promise(k)!Next

\* The columns Delivery looks at.
SameRow(k) ==
    /\ UNCHANGED <<rows[k], stored[k], legible[k], attempts[k], dead[k]>>
    /\ sentFor'[k] = NULL <=> sentFor[k] = NULL

LEMMA SameRowPhase ==
    ASSUME NEW k \in Keys, SameRow(k)
    PROVE  phaseOf(k)' = phaseOf(k)
BY DEF SameRow, phaseOf

LEMMA SameRowQuiet ==
    ASSUME NEW k \in Keys, SameRow(k), UNCHANGED <<delivered[k], mishaps[k]>>
    PROVE  Quiet(k)
BY SameRowPhase DEF SameRow, Quiet, Promise!vars

\* What was written has a phase that says so.
LEMMA WrittenPhase ==
    ASSUME TypeOK, NEW k \in Keys, rows[k] > 0 \/ stored[k]
    PROVE  Promise(k)!Written
BY DEF TypeOK, RowsOK, phaseOf, Promise!Written

\* A mishap that comes alone.
LEMMA LoseSeen ==
    ASSUME TypeOK, NEW k \in Keys, SameRow(k), rows[k] > 0 \/ stored[k],
           UNCHANGED delivered[k], UpMishaps(k)
    PROVE  Seen(k)
<1>1. mishaps[k] \in Nat /\ rows[k] \in Nat /\ delivered[k] \in Nat
  BY DEF TypeOK, RowsOK
<1>2. CASE mishaps'[k] = mishaps[k]
  BY <1>2, SameRowQuiet DEF Seen
<1>3. CASE mishaps'[k] = mishaps[k] + 1
  <2>1. Promise(k)!Lose
    BY <1>1, <1>3, WrittenPhase, SameRowPhase DEF SameRow, Promise!Lose
  <2>2. QED
    BY <2>1 DEF Seen, Promise!Next
<1>4. QED
  BY <1>1, <1>2, <1>3 DEF UpMishaps, Up

\* A delivery, with its answer or without.
LEMMA TakeSeen ==
    ASSUME TypeOK, DuplicatesAreMishaps', NEW k \in Keys, SameRow(k), rows[k] > 0,
           UpDelivered(k), UNCHANGED mishaps[k] \/ UpMishaps(k)
    PROVE  Seen(k)
<1>1. mishaps[k] \in Nat /\ rows[k] \in Nat /\ delivered[k] \in Nat
  BY DEF TypeOK, RowsOK
<1>2. CASE delivered'[k] = delivered[k]
  BY <1>2, LoseSeen, SameRowQuiet DEF Seen
<1>3. CASE delivered'[k] = delivered[k] + 1
  <2>1. delivered'[k] <= rows'[k] + mishaps'[k]
    BY DEF DuplicatesAreMishaps
  <2>2. CASE mishaps'[k] = mishaps[k]
    <3>1. Promise(k)!Take
      BY <1>1, <1>3, <2>1, <2>2, WrittenPhase, SameRowPhase DEF SameRow, Promise!Take
    <3>2. QED
      BY <3>1 DEF Seen, Promise!Next
  <2>3. CASE mishaps'[k] = mishaps[k] + 1
    <3>1. Promise(k)!TakeUnheard
      BY <1>1, <1>3, <2>3, WrittenPhase, SameRowPhase DEF SameRow, Promise!TakeUnheard
    <3>2. QED
      BY <3>1 DEF Seen, Promise!Next
  <2>4. QED
    BY <1>1, <2>2, <2>3 DEF UpMishaps, Up
<1>4. QED
  BY <1>1, <1>2, <1>3 DEF UpDelivered, Up

\* A row is written: the message waits, unless it is an outcome's and had its
\* row before.
LEMMA EnqueueSeen ==
    ASSUME TypeOK, OutcomeWrittenOnce', NEW k \in Keys, Enqueue(k),
           UNCHANGED <<delivered, mishaps>>, NEW j \in Keys
    PROVE  Seen(j)
<1>0. RowsOK /\ mishaps[j] \in Nat /\ delivered[j] \in Nat /\ rows[j] \in Nat
  BY DEF TypeOK, RowsOK
<1>1. CASE UNCHANGED rowVars
  BY <1>1, SameRowQuiet DEF rowVars, SameRow, Seen
<1>2. CASE /\ ~stored[k]
           /\ stored' = [stored EXCEPT ![k] = TRUE]
           /\ \E decodes \in BOOLEAN : legible' = [legible EXCEPT ![k] = decodes]
           /\ rows' = [rows EXCEPT ![k] = @ + 1]
           /\ Blank(k)
  <2>1. CASE j = k
    <3>1. /\ stored'[j] /\ ~dead'[j] /\ sentFor'[j] = NULL /\ attempts'[j] = 0
          /\ rows'[j] = rows[j] + 1 /\ legible'[j] \in BOOLEAN
      BY <1>0, <1>2, <2>1 DEF RowsOK, Blank
    <3>2. phaseOf(j)' = "waiting"
      BY <3>1 DEF phaseOf
    <3>3. phaseOf(j) = "unwritten" \/ (phaseOf(j) = "purged" /\ j \notin Outcomes)
      BY <1>0, <1>2, <2>1, <3>1 DEF phaseOf, OutcomeWrittenOnce
    <3>4. Promise(j)!Write
      BY <1>0, <3>1, <3>2, <3>3 DEF Promise!Write
    <3>5. QED
      BY <3>4 DEF Seen, Promise!Next
  <2>2. CASE j # k
    <3>1. SameRow(j)
      BY <1>0, <1>2, <2>2 DEF RowsOK, Blank, SameRow
    <3>2. QED
      BY <3>1, SameRowQuiet DEF Seen
  <2>3. QED
    BY <2>1, <2>2
<1>3. QED
  BY <1>1, <1>2 DEF Enqueue

LEMMA KeySeen ==
    ASSUME TypeOK, WasWritten, OutcomeWrittenOnce', NEW k \in Keys, KeyStep(k),
           NEW j \in Keys
    PROVE  Seen(j)
<1>0. RowsOK /\ mishaps \in [Keys -> Nat]
  BY DEF TypeOK
<1>1. CASE Repair(k) \/ (Enter(k) /\ Enqueue(k))
  BY <1>1, EnqueueSeen DEF Repair, Enter
<1>2. CASE Leave(k) \/ BackoffEnds(k) \/ (Enter(k) /\ UNCHANGED rowVars)
  BY <1>2, SameRowQuiet DEF Leave, BackoffEnds, Enter, rowVars, SameRow, Seen
<1>3. CASE PurgeSent(k)
  <2>1. /\ stored[k] /\ sentFor[k] # NULL /\ UNCHANGED <<rows, delivered, mishaps>>
        /\ stored' = [stored EXCEPT ![k] = FALSE] /\ Blank(k)
        /\ legible' = [legible EXCEPT ![k] = TRUE]
    BY <1>3 DEF PurgeSent
  <2>2. CASE j = k
    <3>1. /\ phaseOf(j) = "sent" /\ phaseOf(j)' = "purged"
          /\ attempts'[j] = 0 /\ legible'[j] = TRUE
      BY <1>0, <2>1, <2>2 DEF RowsOK, Blank, WasWritten, phaseOf
    <3>2. Promise(j)!Purge
      BY <2>1, <3>1 DEF Promise!Purge
    <3>3. QED
      BY <3>2 DEF Seen, Promise!Next
  <2>3. CASE j # k
    <3>1. SameRow(j)
      BY <1>0, <2>1, <2>3 DEF RowsOK, Blank, SameRow
    <3>2. QED
      BY <2>1, <3>1, SameRowQuiet DEF Seen
  <2>4. QED
    BY <2>1, <2>2, <2>3
<1>4. CASE LeaseExpires(k)
  <2>1. SameRow(j) /\ UNCHANGED delivered /\ stored[k]
    BY <1>4 DEF LeaseExpires, Expires, SameRow
  <2>2. CASE j = k /\ Mishap(k)
    BY <1>0, <2>1, <2>2, LoseSeen DEF Mishap, UpMishaps
  <2>3. CASE UNCHANGED mishaps[j]
    BY <2>1, <2>3, SameRowQuiet DEF Seen
  <2>4. QED
    BY <1>0, <1>4, <2>2, <2>3 DEF LeaseExpires, Mishap
<1>5. QED
  BY <1>1, <1>2, <1>3, <1>4 DEF KeyStep, Enter

\* A sender tells its row what became of the message.
LEMMA MarkSeen ==
    ASSUME TypeOK, InHand, Reports, NEW s \in Senders, MarkSent(s) \/ MarkFailed(s),
           NEW j \in Keys
    PROVE  Seen(j)
<1>0. RowsOK /\ SendersOK
  BY DEF TypeOK
<1>1. key[s] \in Keys /\ UNCHANGED <<rows, stored, legible, attempts, delivered, mishaps>>
  BY <1>0 DEF MarkSent, MarkFailed, SendersOK
<1>2. CASE SameRow(j)
  BY <1>1, <1>2, SameRowQuiet DEF Seen
<1>3. ASSUME MarkSent(s), ~SameRow(j)
      PROVE  Seen(j)
  <2>1. /\ j = key[s] /\ Found(s) /\ stored[j] /\ dead'[j] = dead[j]
        /\ sentFor[j] = NULL /\ sentFor'[j] # NULL
    BY <1>0, <1>1, <1>3 DEF MarkSent, RowsOK, Found, SameRow
  <2>2. delivered[j] > 0 /\ legible[j]
    BY <1>3, <2>1 DEF MarkSent, Reports, InHand
  <2>3. phaseOf(j) \in {"waiting", "givenup"} /\ phaseOf(j)' = "sent"
    BY <1>0, <1>1, <2>1 DEF RowsOK, phaseOf
  <2>4. Promise(j)!Settle
    BY <1>1, <2>2, <2>3 DEF Promise!Settle
  <2>5. QED
    BY <2>4 DEF Seen, Promise!Next
<1>4. ASSUME MarkFailed(s), ~SameRow(j)
      PROVE  Seen(j)
  <2>1. /\ j = key[s] /\ Found(s) /\ Exhausted(s) /\ sentFor' = sentFor
        /\ ~dead[j] /\ dead'[j]
    BY <1>0, <1>1, <1>4 DEF MarkFailed, RowsOK, SameRow
  <2>2. attempt[s] <= attempts[j] /\ attempt[s] >= MaxAttempts
    BY <1>4, <2>1 DEF MarkFailed, InHand, Exhausted
  <2>3. attempts[j] >= MaxAttempts
    BY <1>0, <2>2 DEF RowsOK, SendersOK
  <2>4. CASE sentFor[j] = NULL
    <3>1. phaseOf(j) = "waiting" /\ phaseOf(j)' = "givenup"
      BY <1>1, <2>1, <2>4 DEF Found, phaseOf
    <3>2. Promise(j)!GiveUp
      BY <1>1, <2>3, <3>1 DEF Promise!GiveUp
    <3>3. QED
      BY <3>2 DEF Seen, Promise!Next
  <2>5. CASE sentFor[j] # NULL
    <3>1. phaseOf(j)' = phaseOf(j)
      BY <1>1, <2>1, <2>5 DEF Found, phaseOf
    <3>2. QED
      BY <1>1, <3>1 DEF Seen, Quiet, Promise!vars
  <2>6. QED
    BY <2>4, <2>5
<1>5. QED
  BY <1>2, <1>3, <1>4

\* The message of a row that does not decode is given up.
LEMMA RefusalSeen ==
    ASSUME TypeOK, Untried, NEW s \in Senders, ClaimUndecodable(s), NEW j \in Keys
    PROVE  Seen(j)
<1>0. RowsOK
  BY DEF TypeOK
<1>1. PICK k \in Keys :
         Claimable(k) /\ ~legible[k] /\ dead' = [dead EXCEPT ![k] = TRUE]
  BY DEF ClaimUndecodable
<1>2. UNCHANGED <<rows, stored, legible, attempts, sentFor, delivered, mishaps>>
  BY DEF ClaimUndecodable
<1>3. CASE j = k
  <2>1. phaseOf(j) = "waiting" /\ phaseOf(j)' = "givenup"
    BY <1>0, <1>1, <1>2, <1>3 DEF RowsOK, Claimable, Pending, phaseOf
  <2>2. ~legible[j] /\ attempts[j] = 0
    BY <1>1, <1>3 DEF Untried
  <2>3. Promise(j)!Refuse
    BY <1>2, <2>1, <2>2 DEF Promise!Refuse
  <2>4. QED
    BY <2>3 DEF Seen, Promise!Next
<1>4. CASE j # k
  <2>1. SameRow(j)
    BY <1>0, <1>1, <1>2, <1>4 DEF RowsOK, SameRow
  <2>2. QED
    BY <1>2, <2>1, SameRowQuiet DEF Seen
<1>5. QED
  BY <1>3, <1>4

LEMMA SenderSeen ==
    ASSUME TypeOK, InHand, Untried, Reports, WasWritten, DuplicatesAreMishaps',
           NEW s \in Senders, SenderStep(s) \/ Crash(s), NEW j \in Keys
    PROVE  Seen(j)
<1>0. RowsOK /\ SendersOK /\ delivered \in [Keys -> Nat] /\ mishaps \in [Keys -> Nat]
  BY DEF TypeOK
<1>1. CASE ClaimDue(s)
  <2>1. PICK k \in Keys :
           /\ Claimable(k)
           /\ legible[k]
           /\ attempts' = [attempts EXCEPT ![k] = Up(@, MaxAttempts + 1)]
    BY <1>1 DEF ClaimDue
  <2>2. UNCHANGED <<rows, stored, legible, sentFor, dead, delivered, mishaps>>
    BY <1>1 DEF ClaimDue
  <2>3. CASE attempts'[j] = attempts[j]
    BY <2>2, <2>3, SameRowQuiet DEF SameRow, Seen
  <2>4. CASE j = k /\ attempts'[j] = attempts[j] + 1
    <3>1. phaseOf(j) = "waiting" /\ phaseOf(j)' = "waiting"
      BY <2>1, <2>2, <2>4 DEF Claimable, Pending, phaseOf
    <3>2. Promise(j)!Try
      BY <2>1, <2>2, <2>4, <3>1 DEF Promise!Try
    <3>3. QED
      BY <3>2 DEF Seen, Promise!Next
  <2>5. QED
    BY <1>0, <2>1, <2>3, <2>4 DEF RowsOK, Up
<1>2. CASE MarkSent(s) \/ MarkFailed(s)
  BY <1>2, MarkSeen
<1>3. CASE Send(s) \/ SendFails(s) \/ Crash(s)
  <2>1. /\ spc[s] # "idle" /\ key[s] \in Keys /\ rows[key[s]] > 0 /\ SameRow(j)
    BY <1>0, <1>3 DEF Send, SendFails, Crash, SendersOK, WasWritten, rowVars, SameRow
  <2>2. CASE j # key[s]
    <3>1. UNCHANGED <<delivered[j], mishaps[j]>>
      BY <1>0, <1>3, <2>1, <2>2 DEF Send, SendFails, Crash, Taken, Mishap
    <3>2. QED
      BY <2>1, <3>1, SameRowQuiet DEF Seen
  <2>3. CASE j = key[s]
    <3>1. \/ UNCHANGED <<delivered[j], mishaps[j]>>
          \/ UNCHANGED delivered[j] /\ UpMishaps(j)
          \/ UpDelivered(j) /\ (UNCHANGED mishaps[j] \/ UpMishaps(j))
      BY <1>0, <1>3, <2>1, <2>3
         DEF Send, SendFails, Crash, Taken, Mishap, UpDelivered, UpMishaps
    <3>2. QED
      BY <2>1, <2>3, <3>1, SameRowQuiet, LoseSeen, TakeSeen DEF Seen
  <2>4. QED
    BY <2>2, <2>3
<1>4. QED
  BY <1>1, <1>2, <1>3, RefusalSeen DEF SenderStep

\* Everything the promise rests on.
PromiseInv ==
    /\ TypeOK /\ InHand /\ Untried /\ Reports /\ WasWritten
    /\ OutcomeWrittenOnce /\ DuplicatesAreMishaps

LEMMA StepSeen ==
    ASSUME PromiseInv, PromiseInv', [Next]_vars, NEW j \in Keys
    PROVE  Seen(j)
<1>1. CASE Day \/ UNCHANGED vars
  <2>1. UNCHANGED <<rows, stored, legible, attempts, dead, delivered, mishaps>>
    BY <1>1 DEF Day, vars, rowVars
  <2>2. sentFor'[j] = NULL <=> sentFor[j] = NULL
    BY <1>1 DEF Day, vars, rowVars, PromiseInv, TypeOK, RowsOK, Days, Up
  <2>3. QED
    BY <2>1, <2>2, SameRowQuiet DEF SameRow, Seen
<1>2. QED
  BY <1>1, KeySeen, SenderSeen DEF PromiseInv, Next, Work, Faults

\* The outbox implements Delivery: for every message, any number of instances
\* and whatever fails, a row is tried, sent, given up and purged in the order
\* Delivery allows, one that does not decode is given up untried, and Telegram
\* takes a message as often as Delivery allows.
THEOREM OutboxImplements == Spec => ImplementsDelivery
<1>1. Init => \A k \in Keys : Promise(k)!Init
  <2>1. SUFFICES ASSUME Init, NEW k \in Keys
                 PROVE  Promise(k)!Init
    OBVIOUS
  <2>2. /\ ~stored[k] /\ rows[k] = 0 /\ legible[k] = TRUE /\ attempts[k] = 0
        /\ delivered[k] = 0 /\ mishaps[k] = 0
    BY <2>1 DEF Init
  <2>3. phaseOf(k) = "unwritten"
    BY <2>2 DEF phaseOf
  <2>4. QED
    BY <2>2, <2>3 DEF Promise!Init
<1>2. Spec => []PromiseInv
  <2>1. Init => TypeOK /\ InHand /\ Untried /\ Reports /\ WasWritten
    BY InitType DEF Init, InHand, Untried, Reports, WasWritten
  <2>2. TypeOK /\ InHand /\ Untried /\ Reports /\ WasWritten /\ [Next]_vars
           => (TypeOK /\ InHand /\ Untried /\ Reports /\ WasWritten)'
    BY NextType, InHandKept, UntriedKept, ReportsKept, WasWrittenKept
  <2>3. TypeOK /\ InHand /\ Untried /\ Reports /\ WasWritten /\ OutcomeWrittenOnce
           /\ DuplicatesAreMishaps => PromiseInv
    BY DEF PromiseInv
  <2>4. QED
    BY <2>1, <2>2, <2>3, NeverRewritten, DuplicatesHaveCauses, PTL DEF Spec
<1>3. PromiseInv /\ PromiseInv' /\ [Next]_vars
         => [\A k \in Keys : UNCHANGED Promise(k)!vars \/ Promise(k)!Next]_vars
  <2>1. SUFFICES ASSUME PromiseInv, PromiseInv', [Next]_vars, NEW k \in Keys
                 PROVE  UNCHANGED Promise(k)!vars \/ Promise(k)!Next
    OBVIOUS
  <2>2. Seen(k)
    BY <2>1, StepSeen
  <2>3. QED
    BY <2>2 DEF Seen, Quiet
<1>4. QED
  BY <1>1, <1>2, <1>3, PTL DEF Spec, ImplementsDelivery

-----------------------------------------------------------------------------
(* Purged requests for a review.                                           *)

\* A review is decided before the row that asked for it is old enough to be
\* purged.
DecidedInTime ==
    \A k \in Reviews : sentFor[k] # NULL /\ sentFor[k] > Retention => state[k] # "in"

\* A request is written when its job comes to the review, or by repair while
\* it is there.
AskedFor(k) ==
    /\ rows[k] <= 1
    /\ stored[k] => rows[k] = 1
    /\ state[k] = "ahead" => rows[k] = 0
    /\ ~stored[k] /\ rows[k] = 1 => state[k] = "left"

Asked == \A k \in Reviews : AskedFor(k)

LEMMA AskedByKey ==
    ASSUME TypeOK, Asked, DecidedInTime, NEW k \in Keys, KeyStep(k), NEW j \in Reviews
    PROVE  AskedFor(j)'
<1>0. RowsOK /\ JobsOK /\ j \in Keys /\ AskedFor(j) /\ rows[j] \in Nat
  BY DEF TypeOK, RowsOK, Keys, Asked
<1>1. CASE Enter(k) \/ Repair(k)
  <2>1. j # k => UNCHANGED <<state[j], rows[j], stored[j]>>
    BY <1>0, <1>1, EnqueueOutcome DEF Enter, Repair, jobVars, rowVars, JobsOK
  <2>2. CASE j = k
    <3>1. \/ UNCHANGED <<rows, stored>>
          \/ ~stored[j] /\ stored'[j] /\ rows'[j] = rows[j] + 1
      BY <1>0, <1>1, <2>2, EnqueueOutcome DEF Enter, Repair, rowVars
    <3>2. /\ state[j] \in {"ahead", "in"} /\ state'[j] = "in"
          /\ rows[j] = 1 => stored[j]
      BY <1>0, <1>1, <2>2 DEF Enter, Repair, Repairable, jobVars, JobsOK, AskedFor
    <3>3. state[j] = "ahead" => rows[j] = 0 /\ ~stored[j]
      BY <1>0 DEF AskedFor
    <3>4. QED
      BY <1>0, <3>1, <3>2, <3>3 DEF AskedFor
  <2>3. QED
    BY <1>0, <2>1, <2>2 DEF AskedFor
<1>2. CASE PurgeSent(k)
  <2>1. UNCHANGED <<state, rows>> /\ stored' = [stored EXCEPT ![k] = FALSE]
    BY <1>2 DEF PurgeSent, jobVars
  <2>2. CASE j = k
    <3>1. state[j] = "left" /\ rows[j] = 1
      BY <1>0, <1>2, <2>2 DEF PurgeSent, DecidedInTime, AskedFor, JobsOK, States
    <3>2. QED
      BY <1>0, <2>1, <2>2, <3>1 DEF AskedFor, RowsOK
  <2>3. CASE j # k
    BY <1>0, <2>1, <2>3 DEF AskedFor, RowsOK
  <2>4. QED
    BY <2>2, <2>3
<1>3. CASE Leave(k)
  <2>1. /\ UNCHANGED <<rows, stored>>
        /\ state'[j] = state[j] \/ (state[j] = "in" /\ state'[j] = "left")
    BY <1>0, <1>3 DEF Leave, rowVars, JobsOK
  <2>2. QED
    BY <1>0, <2>1 DEF AskedFor
<1>4. CASE BackoffEnds(k) \/ LeaseExpires(k)
  BY <1>0, <1>4 DEF BackoffEnds, LeaseExpires, jobVars, AskedFor
<1>5. QED
  BY <1>1, <1>2, <1>3, <1>4 DEF KeyStep

LEMMA AskedKept ==
    ASSUME TypeOK, [Next]_vars, Asked, DecidedInTime
    PROVE  Asked'
<1>1. ASSUME NEW k \in Keys, KeyStep(k)
      PROVE  Asked'
  BY <1>1, AskedByKey DEF Asked
<1>2. CASE UNCHANGED <<state, rows, stored>>
  BY <1>2 DEF Asked, AskedFor
<1>3. QED
  BY <1>1, <1>2
     DEF Next, Work, Faults, Day, SenderStep, ClaimDue, ClaimUndecodable, Send,
         SendFails, MarkSent, MarkFailed, Crash, jobVars, rowVars, vars

\* The comment on PurgeSent, and what it asks of the callers: nothing purged is
\* written again as long as reviews are decided within the retention, which is
\* what the callers do not see to (RepairNotifications).
THEOREM PurgedStaysGoneIfDecided == Spec /\ []DecidedInTime => []PurgedStaysGone
<1>1. Init => Asked
  <2>1. SUFFICES ASSUME Init, NEW k \in Reviews PROVE AskedFor(k)
    BY DEF Asked
  <2>2. rows[k] = 0 /\ ~stored[k]
    BY <2>1 DEF Init, Keys
  <2>3. QED
    BY <2>2 DEF AskedFor
<1>2. TypeOK /\ Asked /\ DecidedInTime /\ [Next]_vars => Asked'
  BY AskedKept
<1>3. Asked /\ OutcomeWrittenOnce => PurgedStaysGone
  <2>1. SUFFICES ASSUME Asked, OutcomeWrittenOnce, NEW k \in Keys PROVE rows[k] <= 1
    BY DEF PurgedStaysGone
  <2>2. QED
    BY <2>1 DEF Asked, AskedFor, OutcomeWrittenOnce, Keys
<1>4. QED
  BY <1>1, <1>2, <1>3, OutboxTypes, NeverRewritten, PTL DEF Spec
=============================================================================
