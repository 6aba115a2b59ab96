------------------------------- MODULE Outbox -------------------------------
(***************************************************************************)
(* The notification outbox, internal/outbox: rows written under a unique   *)
(* key, leased by the notification loop of any instance, sent to the       *)
(* Telegram service, retried, dead-lettered and purged; and the repair     *)
(* loop that writes the rows a crash lost.                                 *)
(*                                                                         *)
(* Two time scales.  Leases and backoffs last minutes: that one runs out   *)
(* is a step of its own, possible at any moment, also while its sender is  *)
(* merely slow.  The repair's lookback and the retention of sent rows last *)
(* days, and are counted.                                                  *)
(***************************************************************************)
EXTENDS Naturals

CONSTANTS
    Outcomes,       \* keys of notices about a terminal state, published:1
    Reviews,        \* keys of requests for a review, first-approval:1
    Senders,        \* notification loops, one per instance
    MaxAttempts,    \* maxAttempts
    Lookback,       \* repairLookback, in days
    Retention,      \* outboxRetention, in days
    MaxRows,        \* bound: how often a key is written
    MaxMishaps,     \* bound: mishaps are counted up to here
    NULL            \* SQL NULL, and an unset local

ASSUME OutboxAssumption ==
    /\ MaxAttempts \in Nat \ {0}
    /\ Lookback \in Nat
    /\ Retention \in Nat
    /\ Lookback < Retention
    /\ MaxRows \in Nat \ {0}
    /\ MaxMishaps \in Nat
    /\ Outcomes \cap Reviews = {}
    /\ NULL \notin Nat

Keys == Outcomes \cup Reviews

VARIABLES
    state,          \* the job behind a key: ahead of the state, in it, past it
    age,            \* for how many days a job has been in its terminal state
    rows,           \* how often the key was written; the id of its last row
    stored,         \* notification_outbox has a row for the key
    legible,        \* that row's payload decodes
    attempts, ready, leased, sentFor, dead,     \* the rest of it
    delivered,      \* external: how often the Telegram service took the message
    mishaps,        \* what went wrong that can make it take one twice
    spc, key, id, attempt                       \* locals of a sender

jobVars  == <<state, age>>
rowVars  == <<rows, stored, legible, attempts, ready, leased, sentFor, dead>>
sendVars == <<spc, key, id, attempt>>
vars == <<jobVars, rowVars, delivered, mishaps, sendVars>>

\* Counters stop at the last value that still matters.
Up(n, last) == IF n < last THEN n + 1 ELSE n

Days == Nat
States == {"ahead", "in", "left"}

JobsOK == state \in [Keys -> States] /\ age \in [Outcomes -> Days]

RowsOK ==
    /\ rows \in [Keys -> Nat]
    /\ stored \in [Keys -> BOOLEAN]
    /\ legible \in [Keys -> BOOLEAN]
    /\ attempts \in [Keys -> Nat]
    /\ ready \in [Keys -> BOOLEAN]
    /\ leased \in [Keys -> BOOLEAN]
    /\ sentFor \in [Keys -> Days \cup {NULL}]
    /\ dead \in [Keys -> BOOLEAN]

SendersOK ==
    /\ spc \in [Senders -> {"idle", "send", "sent", "failed"}]
    /\ key \in [Senders -> Keys \cup {NULL}]
    /\ id \in [Senders -> Nat]
    /\ attempt \in [Senders -> Nat]
    /\ \A s \in Senders : spc[s] # "idle" => key[s] \in Keys

TypeOK ==
    /\ JobsOK
    /\ RowsOK
    /\ delivered \in [Keys -> Nat]
    /\ mishaps \in [Keys -> Nat]
    /\ SendersOK

Init ==
    /\ state = [k \in Keys |-> "ahead"]
    /\ age = [k \in Outcomes |-> 0]
    /\ rows = [k \in Keys |-> 0]
    /\ stored = [k \in Keys |-> FALSE]
    /\ legible = [k \in Keys |-> TRUE]
    /\ attempts = [k \in Keys |-> 0]
    /\ ready = [k \in Keys |-> TRUE]
    /\ leased = [k \in Keys |-> FALSE]
    /\ sentFor = [k \in Keys |-> NULL]
    /\ dead = [k \in Keys |-> FALSE]
    /\ delivered = [k \in Keys |-> 0]
    /\ mishaps = [k \in Keys |-> 0]
    /\ spc = [s \in Senders |-> "idle"]
    /\ key = [s \in Senders |-> NULL]
    /\ id = [s \in Senders |-> 0]
    /\ attempt = [s \in Senders |-> 0]

-----------------------------------------------------------------------------
(* Writing rows.                                                           *)

\* The columns of a new row.  A key without a row is given them too.
Blank(k) ==
    /\ attempts' = [attempts EXCEPT ![k] = 0]
    /\ ready' = [ready EXCEPT ![k] = TRUE]
    /\ leased' = [leased EXCEPT ![k] = FALSE]
    /\ sentFor' = [sentFor EXCEPT ![k] = NULL]
    /\ dead' = [dead EXCEPT ![k] = FALSE]

\* INSERT ... ON CONFLICT (dedupe_key) DO NOTHING.  A row that another version of
\* the program wrote may not decode in this one.
Enqueue(k) ==
    \/ /\ ~stored[k]
       /\ stored' = [stored EXCEPT ![k] = TRUE]
       /\ \E decodes \in BOOLEAN : legible' = [legible EXCEPT ![k] = decodes]
       /\ rows' = [rows EXCEPT ![k] = @ + 1]
       /\ Blank(k)
    \/ stored[k] /\ UNCHANGED rowVars

\* A job enters the state a notice is about.  The notice is written next, or
\* the process dies before it can.
Enter(k) ==
    /\ state[k] = "ahead"
    /\ state' = [state EXCEPT ![k] = "in"]
    /\ Enqueue(k) \/ UNCHANGED rowVars
    /\ UNCHANGED <<age, delivered, mishaps, sendVars>>

\* The operator decides: the job waits for its review no longer.
Leave(k) ==
    /\ k \in Reviews
    /\ state[k] = "in"
    /\ state' = [state EXCEPT ![k] = "left"]
    /\ UNCHANGED <<age, rowVars, delivered, mishaps, sendVars>>

\* A defect: finished jobs are repaired however old they are.
RepairableEver(k) == state[k] = "in"

\* A defect: only the jobs that wait for a review are repaired.
RepairableReviews(k) == state[k] = "in" /\ k \in Reviews

\* The jobs RepairNotifications lists: those that wait, and those that ended
\* within the lookback.
Repairable(k) == state[k] = "in" /\ (k \in Outcomes => age[k] <= Lookback)

Repair(k) ==
    /\ Repairable(k)
    /\ rows[k] < MaxRows
    /\ Enqueue(k)
    /\ UNCHANGED <<jobVars, delivered, mishaps, sendVars>>

\* PurgeSent, with the cutoff Retention days back.
PurgeSent(k) ==
    /\ stored[k]
    /\ sentFor[k] # NULL
    /\ sentFor[k] > Retention
    /\ stored' = [stored EXCEPT ![k] = FALSE]
    /\ legible' = [legible EXCEPT ![k] = TRUE]
    /\ Blank(k)
    /\ UNCHANGED <<jobVars, rows, delivered, mishaps, sendVars>>

-----------------------------------------------------------------------------
(* Sending them.                                                           *)

Pending(k) == stored[k] /\ sentFor[k] = NULL /\ ~dead[k]

\* A defect: the lease of another instance is not looked at.
ClaimableShared(k) == Pending(k) /\ ready[k]

\* The WHERE of ClaimDue.
Claimable(k) == Pending(k) /\ ready[k] /\ ~leased[k]

\* A defect: a pass goes on although ClaimDue returned no message.
ClaimDueOrNothing(s) ==
    /\ spc[s] = "idle"
    /\ spc' = [spc EXCEPT ![s] = "send"]
    /\ UNCHANGED <<jobVars, rowVars, delivered, mishaps, key, id, attempt>>

ClaimDue(s) ==
    /\ spc[s] = "idle"
    /\ \E k \in Keys :
          /\ Claimable(k)
          /\ legible[k]
          /\ leased' = [leased EXCEPT ![k] = TRUE]
          /\ attempts' = [attempts EXCEPT ![k] = Up(@, MaxAttempts + 1)]
          /\ key' = [key EXCEPT ![s] = k]
          /\ id' = [id EXCEPT ![s] = rows[k]]
          /\ attempt' = [attempt EXCEPT ![s] = Up(attempts[k], MaxAttempts + 1)]
    /\ spc' = [spc EXCEPT ![s] = "send"]
    /\ UNCHANGED <<jobVars, rows, stored, legible, ready, sentFor, dead, delivered,
                   mishaps>>

\* The payload of the row does not decode: ClaimDue makes it a dead letter, and
\* the pass ends with an error.
ClaimUndecodable(s) ==
    /\ spc[s] = "idle"
    /\ \E k \in Keys :
          /\ Claimable(k)
          /\ ~legible[k]
          /\ dead' = [dead EXCEPT ![k] = TRUE]
    /\ UNCHANGED <<jobVars, rows, stored, legible, attempts, ready, leased, sentFor,
                   delivered, mishaps, sendVars>>

Taken(k) == delivered' = [delivered EXCEPT ![k] = Up(@, MaxMishaps + 2)]
Mishap(k) == mishaps' = [mishaps EXCEPT ![k] = Up(@, MaxMishaps + 1)]

Send(s) ==
    /\ spc[s] = "send"
    /\ Taken(key[s])
    /\ spc' = [spc EXCEPT ![s] = "sent"]
    /\ UNCHANGED <<jobVars, rowVars, mishaps, key, id, attempt>>

\* An error or a timeout.  The service may have taken the message all the same.
SendFails(s) ==
    /\ spc[s] = "send"
    /\ \/ Taken(key[s]) /\ Mishap(key[s])
       \/ UNCHANGED <<delivered, mishaps>>
    /\ spc' = [spc EXCEPT ![s] = "failed"]
    /\ UNCHANGED <<jobVars, rowVars, key, id, attempt>>

SenderIdle(s) ==
    /\ spc' = [spc EXCEPT ![s] = "idle"]
    /\ key' = [key EXCEPT ![s] = NULL]
    /\ id' = [id EXCEPT ![s] = 0]
    /\ attempt' = [attempt EXCEPT ![s] = 0]

\* A defect: the UPDATEs name the row by its key.
FoundByKey(s) == stored[key[s]]

\* The UPDATEs name the row by its id: a row that was purged is not found.
Found(s) == stored[key[s]] /\ rows[key[s]] = id[s]

MarkSent(s) ==
    /\ spc[s] = "sent"
    /\ \/ /\ Found(s)
          /\ sentFor' = [sentFor EXCEPT ![key[s]] = 0]
          /\ leased' = [leased EXCEPT ![key[s]] = FALSE]
       \/ ~Found(s) /\ UNCHANGED <<sentFor, leased>>
    /\ SenderIdle(s)
    /\ UNCHANGED <<jobVars, rows, stored, legible, attempts, ready, dead, delivered,
                   mishaps>>

\* A defect: one attempt short.
ExhaustedEarly(s) == attempt[s] + 1 >= MaxAttempts

\* The attempts are those of the sender's own claim.
Exhausted(s) == attempt[s] >= MaxAttempts

MarkFailed(s) ==
    /\ spc[s] = "failed"
    /\ \/ /\ Found(s)
          /\ leased' = [leased EXCEPT ![key[s]] = FALSE]
          /\ \/ /\ Exhausted(s)
                /\ dead' = [dead EXCEPT ![key[s]] = TRUE]
                /\ UNCHANGED ready
             \/ /\ ~Exhausted(s)
                /\ ready' = [ready EXCEPT ![key[s]] = FALSE]
                /\ UNCHANGED dead
       \/ ~Found(s) /\ UNCHANGED <<leased, dead, ready>>
    /\ SenderIdle(s)
    /\ UNCHANGED <<jobVars, rows, stored, legible, attempts, sentFor, delivered, mishaps>>

\* The backoff of MarkFailed has passed.
BackoffEnds(k) ==
    /\ stored[k]
    /\ ~ready[k]
    /\ ready' = [ready EXCEPT ![k] = TRUE]
    /\ UNCHANGED <<jobVars, rows, stored, legible, attempts, leased, sentFor, dead,
                   delivered, mishaps, sendVars>>

\* A defect: a lease is only ever given back, it never runs out.
ExpiresNever(k) == FALSE

\* locked_until has passed.
Expires(k) == stored[k] /\ leased[k]

Holding(s, k) == spc[s] # "idle" /\ key[s] = k

LeaseExpires(k) ==
    /\ Expires(k)
    /\ leased' = [leased EXCEPT ![k] = FALSE]
    /\ \/ (\E s \in Senders : Holding(s, k)) /\ Mishap(k)
       \/ ~(\E s \in Senders : Holding(s, k)) /\ UNCHANGED mishaps
    /\ UNCHANGED <<jobVars, rows, stored, legible, attempts, ready, sentFor, dead,
                   delivered, sendVars>>

\* The process dies, or the UPDATE fails and the pass ends.
Crash(s) ==
    /\ spc[s] # "idle"
    /\ \/ spc[s] = "sent" /\ Mishap(key[s])
       \/ spc[s] # "sent" /\ UNCHANGED mishaps
    /\ SenderIdle(s)
    /\ UNCHANGED <<jobVars, rowVars, delivered>>

\* A day passes.  It is assumed that not every instance is down for the whole
\* lookback: repair runs at startup and every five minutes.
Day ==
    /\ \A k \in Outcomes :
          state[k] = "in" /\ age[k] = Lookback => rows[k] > 0
    /\ age' = [k \in Outcomes |-> IF state[k] = "in" THEN Up(age[k], Lookback + 1)
                                                     ELSE age[k]]
    /\ sentFor' = [k \in Keys |-> IF sentFor[k] = NULL
                                  THEN NULL
                                  ELSE Up(sentFor[k], Retention + 1)]
    /\ UNCHANGED <<state, rows, stored, legible, attempts, ready, leased, dead,
                   delivered, mishaps, sendVars>>

SenderStep(s) ==
    \/ ClaimDue(s) \/ ClaimUndecodable(s)
    \/ Send(s) \/ SendFails(s) \/ MarkSent(s) \/ MarkFailed(s)

KeyStep(k) ==
    Enter(k) \/ Leave(k) \/ Repair(k) \/ PurgeSent(k) \/ BackoffEnds(k) \/ LeaseExpires(k)

Work ==
    \/ \E s \in Senders : SenderStep(s)
    \/ \E k \in Keys : KeyStep(k)
    \/ Day

Faults == \E s \in Senders : Crash(s)

Next == Work \/ Faults

Spec == Init /\ [][Next]_vars

\* The notification and repair loops of every instance keep ticking, leases and
\* backoffs run out, and crashes are finitely many.  Telegram owes nothing: it
\* may refuse every message.
Fairness ==
    /\ \A s \in Senders : WF_vars(SenderStep(s))
    /\ \A k \in Keys : /\ WF_vars(Repair(k))
                       /\ WF_vars(BackoffEnds(k))
                       /\ WF_vars(LeaseExpires(k))
    /\ <>[][Work]_vars

FairSpec == Spec /\ Fairness

-----------------------------------------------------------------------------
(* Properties.                                                             *)

\* How the outbox implements its promise.  A row that a late sender marked dead
\* after it was sent stays sent.
phaseOf(k) ==
    CASE stored[k] /\ sentFor[k] = NULL /\ ~dead[k] -> "waiting"
      [] stored[k] /\ sentFor[k] = NULL /\ dead[k]  -> "givenup"
      [] stored[k] /\ sentFor[k] # NULL             -> "sent"
      [] ~stored[k] /\ rows[k] > 0                  -> "purged"
      [] ~stored[k] /\ rows[k] = 0                  -> "unwritten"

Promise(k) == INSTANCE Delivery WITH
    WrittenOnce <- k \in Outcomes,
    phase <- phaseOf(k),
    legible <- legible[k],
    tries <- attempts[k],
    taken <- delivered[k],
    spare <- rows[k] + mishaps[k] - delivered[k]

\* The outbox, with its leases, slow senders, crashes, repair and purge,
\* implements Delivery for every message: each step leaves what Delivery sees
\* of it alone or is one of Delivery's.
ImplementsDelivery ==
    /\ \A k \in Keys : Promise(k)!Init
    /\ [][\A k \in Keys : UNCHANGED Promise(k)!vars \/ Promise(k)!Next]_vars

\* MarkSent: a row says it was sent only if the Telegram service took it.
SentIsDelivered == \A k \in Keys : sentFor[k] # NULL => delivered[k] > 0

\* MarkFailed: a message is given up only after all its attempts, also when a
\* slow sender reports late.  One that does not decode is given up before any.
DeadIsExhausted ==
    \A k \in Keys :
       dead[k] => IF legible[k] THEN attempts[k] >= MaxAttempts ELSE attempts[k] = 0

\* ClaimDue, "SKIP LOCKED permits multiple application instances without
\* duplicate delivery": a row is delivered once, and every delivery beyond that
\* is owed to a mishap of its own, a lost answer, a crash after the send or a
\* lease outlived.
DuplicatesAreMishaps == \A k \in Keys : delivered[k] <= rows[k] + mishaps[k]

\* The comment on outboxRetention: repair never writes the notice of a terminal
\* state again after it was purged.
OutcomeWrittenOnce == \A k \in Outcomes : rows[k] <= 1

\* The comment on PurgeSent asks the same of every key: a purged one is not
\* written, and sent, again.
PurgedStaysGone == \A k \in Keys : rows[k] <= 1

\* ClaimDue's locked_until: a row does not linger.  It is marked sent or dead,
\* also when its sender dies with the lease or after Telegram took the message.
RowIsSettled == \A k \in Keys : Pending(k) ~> ~Pending(k)

\* RepairNotifications: the outcome of a job reaches Telegram, or its row is
\* there for an operator to inspect, even if the process that should have
\* written the row died.
OutcomeIsTold ==
    \A k \in Outcomes : state[k] = "in" ~> (delivered[k] > 0 \/ dead[k])
=============================================================================
