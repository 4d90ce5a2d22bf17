------------------------------- MODULE Outbox -------------------------------
(***************************************************************************)
(* The outbox: record_with_outbox of domain_events.rs stores a message with *)
(* the change it tells of; the dispatcher of outbox_dispatcher.rs claims a  *)
(* batch under a lease, sends each message to the event bus of the Core and *)
(* then settles its row (governance.rs); the workflow scanner is the bus's  *)
(* only receiver.  Dispatcher and scanner are started and stopped on their  *)
(* own (prepare, quiesce, resume, shutdown) at any of their awaits, and the *)
(* Core may be killed: rows survive, the batch and what the bus holds do    *)
(* not.                                                                     *)
(*                                                                          *)
(* Abstractions.  A message is its created_at, all different: the clock is  *)
(* read before the transaction, so that messages may be stored in another   *)
(* order.  Of time there is what the WHERE clauses ask (ripe): whether      *)
(* available_at of a failed row or lease_until of a processing one is past. *)
(* The SELECT and the UPDATE of a settlement are one step: nothing writes   *)
(* the row in between, and a stop in between is one before it.              *)
(* A name that DurableWaits has as well is another one here: EventProofs    *)
(* extends both.                                                            *)
(***************************************************************************)
EXTENDS Integers, Sequences, FiniteSets

CONSTANTS
    Message,      \* outbox messages, by created_at
    MaxTries,     \* OUTBOX_RETRY_POLICY.max_attempts (8)
    BatchSize,    \* OUTBOX_BATCH_SIZE (50)
    BusCapacity,  \* of the broadcast channel (256)
    MaxTaskStops, \* bound: stops of the dispatcher, the scanner or the Core
    Null

ASSUME MessagesAreTimes == Message \subseteq Nat
ASSUME MessagesAreFinite == IsFiniteSet(Message)
ASSUME OutboxLimitsArePositive ==
    /\ MaxTries \in Nat \ {0} /\ BatchSize \in Nat \ {0}
    /\ BusCapacity \in Nat \ {0} /\ MaxTaskStops \in Nat
ASSUME NullIsNoOther == Null \notin Nat \cup {"sent", "nobody"}

VARIABLES
    status,     \* outbox_messages.status, "none" before the INSERT
    tried,      \* attempt_count
    owner,      \* lease_owner: the process of a worker id
    ripe,       \* available_at or lease_until is past
    process,    \* process id of the Core
    dispatcher, \* whether the dispatcher runs
    claimed,    \* the batch: what it has not settled, sent in order
    delivered,  \* outcome of the send of the first of them, Null before it
    subscribed, \* the scanner's receiver exists
    bus,        \* what this receiver has still to receive
    sends,      \* history: sends that found a receiver
    received,   \* history: messages a scanner took off the bus
    stops

rowVars == <<status, tried, owner, ripe>>
dispatcherVars == <<dispatcher, claimed, delivered>>
receiverVars == <<subscribed, bus, received>>
outboxVars == <<rowVars, process, dispatcherVars, receiverVars, sends, stops>>

Delivery == {"sent", "nobody"}

OutboxTypeOK ==
    /\ status \in [Message -> {"none", "pending", "processing", "failed",
                               "published", "dead_lettered"}]
    /\ tried \in [Message -> 0..MaxTries]
    /\ owner \in [Message -> Nat \cup {Null}]
    /\ ripe \in [Message -> BOOLEAN]
    /\ process \in Nat
    /\ dispatcher \in BOOLEAN
    /\ claimed \in SUBSET Message
    /\ delivered \in Delivery \cup {Null}
    /\ subscribed \in BOOLEAN
    /\ bus \in Seq(Message)
    /\ sends \in [Message -> Nat]
    /\ received \in SUBSET Message
    /\ stops \in 0..MaxTaskStops

OutboxInit ==
    /\ status = [m \in Message |-> "none"]
    /\ tried = [m \in Message |-> 0]
    /\ owner = [m \in Message |-> Null]
    /\ ripe = [m \in Message |-> FALSE]
    /\ process = 0
    /\ dispatcher = FALSE /\ claimed = {} /\ delivered = Null
    /\ subscribed = FALSE /\ bus = <<>> /\ received = {}
    /\ sends = [m \in Message |-> 0]
    /\ stops = 0
-----------------------------------------------------------------------------
(* The rows.                                                               *)

Record(m) ==
    /\ status[m] = "none"
    /\ status' = [status EXCEPT ![m] = "pending"]
    /\ ripe' = [ripe EXCEPT ![m] = TRUE]
    /\ UNCHANGED <<tried, owner, process, dispatcherVars, receiverVars, sends,
                   stops>>

\* The lease of a claim or the delay of a failure runs out.
Ripen(m) ==
    /\ status[m] \in {"processing", "failed"} /\ ~ripe[m]
    /\ ripe' = [ripe EXCEPT ![m] = TRUE]
    /\ UNCHANGED <<status, tried, owner, process, dispatcherVars, receiverVars,
                   sends, stops>>

\* Rows nobody may try again: claimed for the last time and never settled.
Spent == {m \in Message : /\ status[m] \in {"failed", "processing"} /\ ripe[m]
                          /\ tried[m] >= MaxTries}

\* Mutant: the rows of a lapsed lease are left out.
ClaimableFree == {m \in Message : /\ status[m] \in {"pending", "failed"}
                                  /\ ripe[m] /\ tried[m] < MaxTries}

Claimable == {m \in Message : /\ status[m] \in {"pending", "failed", "processing"}
                              /\ ripe[m] /\ tried[m] < MaxTries}

\* ORDER BY created_at LIMIT BatchSize
OldestMessages(S) == {m \in S : Cardinality({n \in S : n < m}) < BatchSize}

\* Mutant: the lease owner of an earlier claim stays.
EarlierOwner(m) == IF owner[m] = Null THEN process ELSE owner[m]

Claimant(m) == process

\* A tick: the spent rows are given up, the oldest claimable ones claimed.
ClaimBatch ==
    /\ dispatcher /\ claimed = {}
    /\ claimed' = OldestMessages(Claimable)
    /\ status' = [m \in Message |-> IF m \in Spent THEN "dead_lettered"
                                    ELSE IF m \in claimed' THEN "processing"
                                    ELSE status[m]]
    /\ owner' = [m \in Message |-> IF m \in Spent THEN Null
                                   ELSE IF m \in claimed' THEN Claimant(m)
                                   ELSE owner[m]]
    /\ tried' = [m \in Message |-> IF m \in claimed' THEN tried[m] + 1
                                   ELSE tried[m]]
    /\ ripe' = [m \in Message |-> ripe[m] /\ m \notin claimed']
    /\ UNCHANGED <<process, dispatcher, delivered, receiverVars, sends, stops>>
-----------------------------------------------------------------------------
(* The rest of the tick: each message is sent and settled.                 *)

First(m) == m \in claimed /\ \A n \in claimed : m <= n

\* A full channel overwrites its oldest message; the receiver that lags goes on
\* with the next.
Queued(m) == IF Len(bus) < BusCapacity THEN Append(bus, m)
             ELSE Append(Tail(bus), m)

Send(m) ==
    /\ First(m) /\ delivered = Null
    /\ IF subscribed
       THEN /\ delivered' = "sent"
            /\ bus' = Queued(m)
            /\ sends' = [sends EXCEPT ![m] = @ + 1]
       ELSE /\ delivered' = "nobody"
            /\ UNCHANGED <<bus, sends>>
    /\ UNCHANGED <<rowVars, process, dispatcher, claimed, subscribed, received,
                   stops>>

Held(m) == status[m] = "processing" /\ owner[m] = process

Verdict(m) == IF delivered = "sent" THEN "published"
              ELSE IF tried[m] >= MaxTries THEN "dead_lettered"
              ELSE "failed"

NextMessage(m) == claimed' = claimed \ {m} /\ delivered' = Null

Settle(m) ==
    /\ First(m) /\ delivered # Null /\ Held(m)
    /\ status' = [status EXCEPT ![m] = Verdict(m)]
    /\ owner' = [owner EXCEPT ![m] = Null]
    /\ ripe' = [ripe EXCEPT ![m] = Verdict(m) # "failed"]
    /\ NextMessage(m)
    /\ UNCHANGED <<tried, process, dispatcher, receiverVars, sends, stops>>

\* The Err of a settlement, also of a database that is locked: the row stays.
SettleFails(m) ==
    /\ First(m) /\ delivered # Null
    /\ NextMessage(m)
    /\ UNCHANGED <<rowVars, process, dispatcher, receiverVars, sends, stops>>
-----------------------------------------------------------------------------
(* The tasks of the Core.                                                  *)

Receive ==
    /\ subscribed /\ bus # <<>>
    /\ received' = received \cup {Head(bus)}
    /\ bus' = Tail(bus)
    /\ UNCHANGED <<rowVars, process, dispatcherVars, subscribed, sends, stops>>

EnsureScanner ==
    /\ ~subscribed
    /\ subscribed' = TRUE
    /\ UNCHANGED <<rowVars, process, dispatcherVars, bus, received, sends, stops>>

EnsureDispatcher ==
    /\ ~dispatcher
    /\ dispatcher' = TRUE
    /\ UNCHANGED <<rowVars, process, claimed, delivered, receiverVars, sends, stops>>

DropReceiver == subscribed' = FALSE /\ bus' = <<>> /\ UNCHANGED received

AbortDispatcher == dispatcher' = FALSE /\ claimed' = {} /\ delivered' = Null

Stopping == stops < MaxTaskStops /\ stops' = stops + 1

QuiesceScanner ==
    /\ subscribed /\ Stopping
    /\ DropReceiver
    /\ UNCHANGED <<rowVars, process, dispatcherVars, sends>>

QuiesceDispatcher ==
    /\ dispatcher /\ Stopping
    /\ AbortDispatcher
    /\ UNCHANGED <<rowVars, process, receiverVars, sends>>

\* The Core ends or is killed, and another process takes its place.
Restart ==
    /\ Stopping
    /\ process' = process + 1
    /\ AbortDispatcher /\ DropReceiver
    /\ UNCHANGED <<rowVars, sends>>
-----------------------------------------------------------------------------
OutboxNext ==
    \/ \E m \in Message :
          Record(m) \/ Ripen(m) \/ Send(m) \/ Settle(m) \/ SettleFails(m)
    \/ ClaimBatch \/ Receive
    \/ EnsureScanner \/ EnsureDispatcher
    \/ QuiesceScanner \/ QuiesceDispatcher \/ Restart

OutboxSpec == OutboxInit /\ [][OutboxNext]_outboxVars

\* The dispatcher's loop goes on while its task runs, and time passes.  Nothing
\* is assumed of the scanner, of settlements that fail, or of who starts and
\* stops the two tasks.
Loop == \E m \in Message : Send(m) \/ Settle(m) \/ SettleFails(m)

OutboxFairness ==
    /\ WF_outboxVars(ClaimBatch) /\ WF_outboxVars(Loop)
    /\ \A m \in Message : WF_outboxVars(Ripen(m))

LiveSpec == OutboxSpec /\ OutboxFairness
-----------------------------------------------------------------------------
(* Properties.                                                             *)

Settled(m) == status[m] \in {"published", "dead_lettered"}

\* What the dispatcher has still to send or settle is leased to this process,
\* although the lease may have run out meanwhile and the dispatcher may be a
\* replacement under the same worker id: no settlement meets the Err "the lease
\* does not belong to this worker".
BatchIsHeld == \A m \in claimed : Held(m)

\* A published message has been handed to a receiver, and a message is handed over
\* once per attempt at most: the duplicates a stop between the send and the
\* settlement leaves are bounded by attempt_count.
SendsAreAccounted ==
    \A m \in Message : /\ status[m] = "published" => sends[m] > 0
                       /\ sends[m] <= tried[m]

\* A message is given up after the last attempt only, wherever stops fall: by the
\* settlement of a failed send, or by the claim that finds a lapsed last lease.
GivenUpAfterLastTry ==
    \A m \in Message : status[m] = "dead_lettered" => tried[m] = MaxTries

\* Rows, batch and bus never contradict each other, whatever is stopped between
\* the claim of a batch and the last of its settlements.
DeliveryIsAccounted == BatchIsHeld /\ SendsAreAccounted /\ GivenUpAfterLastTry

\* What is published or given up stays so and is not sent again.
SettledForGood ==
    [][\A m \in Message : status[m] \in {"published", "dead_lettered"} =>
          status'[m] = status[m] /\ sends'[m] = sends[m]]_outboxVars

\* Every recorded message is published or given up, if only the dispatcher is left
\* running in the end: neither lapsed leases of earlier tasks, nor younger messages,
\* nor a bus without a receiver keep it in between for ever.
RecordedIsSettled ==
    \A m \in Message : <>[]dispatcher /\ <>(status[m] = "pending") => <>Settled(m)

\* Said of the integration test and not so: a publication is confirmed only once
\* the subscriber has received the message (here: has received it or is going to).
PublishedIsReceived ==
    \A m \in Message : status[m] = "published" =>
        m \in received \/ \E i \in 1..Len(bus) : bus[i] = m
=============================================================================
