---------------------------- MODULE DigestDelivery ----------------------------
(***************************************************************************)
(* The email deliveries of one Coaching Digest: delivery n carries the     *)
(* digest as published after n regenerations.  A sender - the task that    *)
(* published, or the redrive of a tick on any cell - claims a delivery     *)
(* record, reads the preference, hands the email to the provider under an  *)
(* idempotency key and finishes the record.  A sender may die anywhere,    *)
(* the provider's answer may be lost, and the provider's webhooks report   *)
(* bounces and complaints at any time.                                     *)
(*                                                                         *)
(* Time is kept as ages: how long ago a record was first claimed, last     *)
(* claimed, a key accepted, and how long ago a sender took its `now`.      *)
(***************************************************************************)
EXTENDS Integers, FiniteSets

CONSTANTS
    Sender,            \* tasks that deliver digests
    Email, NoEmail,    \* verified addresses; no address
    MaxRegenerations,  \* bound on the digest's regeneration_count
    MaxMessages,       \* bound on the messages the provider accepts per delivery
    ClaimTtl,          \* DELIVERY_CLAIM_TTL
    RetryHorizon,      \* DELIVERY_RETRY_HORIZON
    HandOffLimit,      \* how long a delivery lives after its sender took `now`
    KeyRetention       \* how long the provider remembers an idempotency key

ASSUME EmailAssumption == NoEmail \notin Email
ASSUME BoundAssumption == MaxRegenerations \in Nat /\ MaxMessages \in Nat \ {0}
ASSUME TimeAssumption ==
    /\ ClaimTtl \in Nat \ {0} /\ RetryHorizon \in Nat /\ ClaimTtl < RetryHorizon
    /\ HandOffLimit \in Nat /\ KeyRetention \in Nat
    /\ RetryHorizon + HandOffLimit <= KeyRetention

Delivery == 0..MaxRegenerations
NotYet == -1                  \* no digest; delivery not derived yet

VARIABLES
    preference,   \* the EmailPreference document
    published,    \* regeneration_count of the stored digest, or NotYet
    record,       \* record[d]: the DeliveryRecord of delivery d
    key,          \* key[d]: the provider's memory of the idempotency key of d
    messages,     \* the messages the provider accepted
    suppressions, \* messages with an EmailSuppressionRecord
    bounced,      \* history: messages whose webhook has arrived
    sender        \* sender[s]: where sender s is

vars == <<preference, published, record, key, messages, suppressions, bounced, sender>>
storeVars == <<published, record>>
providerVars == <<key, messages>>
webhookVars == <<suppressions, bounced>>

Address == Email \cup {NoEmail}
Serial == 0..MaxMessages
Settled == {"sent", "notSubscribed", "rejected", "expired"}
RecordCap == RetryHorizon + HandOffLimit
ClaimCap == ClaimTtl + HandOffLimit

Message == [delivery : Delivery, serial : 1..MaxMessages, recipient : Email]
Preference == [email : Address, enabled : BOOLEAN, suppressed : Address]
Record == [status : {"absent", "pending"} \cup Settled,
           firstAge : 0..RecordCap, claimAge : 0..ClaimCap,
           recipient : Address, serial : Serial]
Key == [serial : Serial, recipient : Address, age : 0..KeyRetention]
SenderState ==
    [pc : {"idle", "read", "claim", "reread", "compose", "send", "finish"},
     archived : Delivery \cup {NotYet}, delivering : Delivery \cup {NotYet},
     age : 0..HandOffLimit, recipient : Address, serial : Serial,
     outcome : {"none"} \cup Settled]

NoRecord == [status |-> "absent", firstAge |-> 0, claimAge |-> 0,
             recipient |-> NoEmail, serial |-> 0]
NoKey == [serial |-> 0, recipient |-> NoEmail, age |-> 0]
Idle == [pc |-> "idle", archived |-> NotYet, delivering |-> NotYet, age |-> 0,
         recipient |-> NoEmail, serial |-> 0, outcome |-> "none"]

TypeOK ==
    /\ preference \in Preference
    /\ published \in Delivery \cup {NotYet}
    /\ record \in [Delivery -> Record]
    /\ key \in [Delivery -> Key]
    /\ messages \subseteq Message
    /\ suppressions \subseteq messages /\ bounced \subseteq messages
    /\ sender \in [Sender -> SenderState]

Init ==
    /\ preference = [email |-> NoEmail, enabled |-> TRUE, suppressed |-> NoEmail]
    /\ published = NotYet
    /\ record = [d \in Delivery |-> NoRecord]
    /\ key = [d \in Delivery |-> NoKey]
    /\ messages = {} /\ suppressions = {} /\ bounced = {}
    /\ sender = [s \in Sender |-> Idle]

-----------------------------------------------------------------------------
(* The Player signs in with a verified address, and edits the preference.  *)

ObserveVerifiedEmail(a) ==
    /\ preference' = [preference EXCEPT !.email = a]
    /\ UNCHANGED <<storeVars, providerVars, webhookVars, sender>>

SetEnabled(a, enabled) ==     \* from the dashboard, or an unsubscribe link
    /\ preference' = [preference EXCEPT !.email = a, !.enabled = enabled]
    /\ UNCHANGED <<storeVars, providerVars, webhookVars, sender>>

CanReceiveEnabled ==     \* mutant: only the switch is looked at
    preference.enabled
CanReceive ==
    /\ preference.enabled
    /\ preference.email # NoEmail /\ preference.suppressed # preference.email

-----------------------------------------------------------------------------
(* Time passes only while every delivery is within its limit.              *)

Older(age, cap) == IF age < cap THEN age + 1 ELSE age

TimePasses ==
    /\ \A s \in Sender : sender[s].pc # "idle" => sender[s].age < HandOffLimit
    /\ record' = [d \in Delivery |->
           [record[d] EXCEPT !.firstAge = Older(record[d].firstAge, RecordCap),
                             !.claimAge = Older(record[d].claimAge, ClaimCap)]]
    /\ key' = [d \in Delivery |-> [key[d] EXCEPT !.age = Older(key[d].age, KeyRetention)]]
    /\ sender' = [s \in Sender |->
           IF sender[s].pc = "idle" THEN sender[s]
           ELSE [sender[s] EXCEPT !.age = sender[s].age + 1]]
    /\ UNCHANGED <<preference, published, messages, webhookVars>>

-----------------------------------------------------------------------------
(* finish_reviewed_run_at and redrive_digest_email.                        *)

Set(s, state) == sender' = [sender EXCEPT ![s] = state]

Fail(s) ==               \* the cell dies, or a store request fails
    /\ sender[s].pc # "idle" /\ Set(s, Idle)
    /\ UNCHANGED <<preference, storeVars, providerVars, webhookVars>>

PublishRun(s) ==         \* the Run publishes, or already was published
    /\ sender[s].pc = "idle"
    /\ \E n \in Delivery :
           /\ n > published \/ (n = 0 /\ published = 0)
           /\ published' = n
    /\ Set(s, [Idle EXCEPT !.pc = "read"])
    /\ UNCHANGED <<preference, record, providerVars, webhookVars>>

ReadDigest(s) ==
    /\ sender[s].pc = "read"
    /\ Set(s, [sender[s] EXCEPT !.pc = "claim", !.archived = published,
                                !.delivering = published])
    /\ UNCHANGED <<preference, storeVars, providerVars, webhookVars>>

Redrive(s) ==            \* archive() lists the digest
    /\ sender[s].pc = "idle" /\ published # NotYet
    /\ Set(s, [Idle EXCEPT !.pc = "claim", !.archived = published])
    /\ UNCHANGED <<preference, storeVars, providerVars, webhookVars>>

Settle(r, outcome, recipient, serial) ==
    [r EXCEPT !.status = outcome, !.recipient = recipient, !.serial = serial]

RetryForever(r, lag) == FALSE      \* mutant: no retry horizon
RetryWindowExpired(r, lag) == r.firstAge - lag >= RetryHorizon
Recoverable(r, lag) == r.claimAge - lag >= ClaimTtl

Claim(s) ==              \* claimed_at is the `now` the sender took earlier
    LET d == sender[s].archived
        lag == sender[s].age
        granted == [sender[s] EXCEPT
                       !.pc = IF sender[s].delivering = NotYet THEN "reread" ELSE "compose"]
    IN  /\ sender[s].pc = "claim"
        /\ \/ /\ record[d].status = "absent"
              /\ record' = [record EXCEPT ![d] = [NoRecord EXCEPT
                     !.status = "pending", !.firstAge = lag, !.claimAge = lag]]
              /\ Set(s, granted)
           \/ /\ record[d].status = "pending" /\ RetryWindowExpired(record[d], lag)
              /\ record' = [record EXCEPT ![d] = Settle(record[d], "expired", NoEmail, 0)]
              /\ Set(s, Idle)
           \/ /\ record[d].status = "pending" /\ ~RetryWindowExpired(record[d], lag)
              /\ Recoverable(record[d], lag)
              /\ record' = [record EXCEPT ![d].claimAge = lag]
              /\ Set(s, granted)
           \/ /\ \/ record[d].status \in Settled
                 \/ /\ record[d].status = "pending" /\ ~RetryWindowExpired(record[d], lag)
                    /\ ~Recoverable(record[d], lag)
              /\ Set(s, Idle)
              /\ UNCHANGED record
        /\ UNCHANGED <<preference, published, providerVars, webhookVars>>

RereadDigest(s) ==       \* redrive reads the digest again after its claim
    /\ sender[s].pc = "reread"
    /\ Set(s, [sender[s] EXCEPT !.pc = "compose", !.delivering = published])
    /\ UNCHANGED <<preference, storeVars, providerVars, webhookVars>>

Compose(s) ==            \* deliver_claimed_digest_as reads the preference
    /\ sender[s].pc = "compose"
    /\ Set(s, IF CanReceive
              THEN [sender[s] EXCEPT !.pc = "send", !.recipient = preference.email]
              ELSE [sender[s] EXCEPT !.pc = "finish", !.outcome = "notSubscribed"])
    /\ UNCHANGED <<preference, storeVars, providerVars, webhookVars>>

(* The provider: a request under a key it remembers is the message it      *)
(* already accepted, and a conflict when its content differs.              *)
Remembered(d) == key[d].serial # 0 /\ key[d].age < KeyRetention

Answered(s, serial) ==   \* the receipt arrives, or is lost: Retryable
    \/ Set(s, [sender[s] EXCEPT !.pc = "finish", !.outcome = "sent", !.serial = serial])
    \/ Set(s, Idle)

Accept(s) ==
    LET d == sender[s].delivering
        serial == key[d].serial + 1
    IN  /\ sender[s].pc = "send" /\ ~Remembered(d) /\ serial <= MaxMessages
        /\ messages' = messages \cup
               {[delivery |-> d, serial |-> serial, recipient |-> sender[s].recipient]}
        /\ key' = [key EXCEPT ![d] =
               [serial |-> serial, recipient |-> sender[s].recipient, age |-> 0]]
        /\ Answered(s, serial)
        /\ UNCHANGED <<preference, storeVars, webhookVars>>

Repeat(s) ==
    LET d == sender[s].delivering
    IN  /\ sender[s].pc = "send" /\ Remembered(d)
        /\ key[d].recipient = sender[s].recipient /\ Answered(s, key[d].serial)
        /\ UNCHANGED <<preference, storeVars, providerVars, webhookVars>>

Refuse(s) ==             \* Rejected; a Retryable answer leaves it Pending
    /\ sender[s].pc = "send"
    /\ \/ Set(s, [sender[s] EXCEPT !.pc = "finish", !.outcome = "rejected"])
       \/ Set(s, Idle)
    /\ UNCHANGED <<preference, storeVars, providerVars, webhookVars>>

HandOff(s) == Accept(s) \/ Repeat(s) \/ Refuse(s)

FinishAnyClaim(s) ==     \* mutant: neither status nor claimed_at is compared
    LET d == sender[s].delivering
    IN  /\ sender[s].pc = "finish"
        /\ record' = IF record[d].status = "absent" THEN record
                     ELSE [record EXCEPT ![d] = Settle(record[d], sender[s].outcome,
                                                sender[s].recipient, sender[s].serial)]
        /\ Set(s, Idle)
        /\ UNCHANGED <<preference, published, providerVars, webhookVars>>
FinishArchived(s) ==     \* mutant: the claimed record is finished, not the sent one
    LET d == sender[s].archived
    IN  /\ sender[s].pc = "finish"
        /\ record' = IF record[d].status = "pending"
                     THEN [record EXCEPT ![d] = Settle(record[d], sender[s].outcome,
                                                sender[s].recipient, sender[s].serial)]
                     ELSE record
        /\ Set(s, Idle)
        /\ UNCHANGED <<preference, published, providerVars, webhookVars>>
Finish(s) ==             \* only the claim it was granted is finished
    LET d == sender[s].delivering
        state == sender[s]
        mine == record[d].status = "pending" /\ record[d].claimAge = state.age
    IN  /\ state.pc = "finish"
        /\ record' = IF ~mine THEN record
                     ELSE [record EXCEPT ![d] =
                              IF state.outcome = "sent"
                              THEN Settle(record[d], "sent", state.recipient, state.serial)
                              ELSE Settle(record[d], state.outcome, NoEmail, 0)]
        /\ Set(s, Idle)
        /\ UNCHANGED <<preference, published, providerVars, webhookVars>>

-----------------------------------------------------------------------------
(* ingest_webhook: a bounce or complaint about an accepted message.        *)

ValidDeliveryId(d) == d = 0          \* daily-YYYY-MM-DD, without an ordinal

MatchesSent(m) ==
    LET r == record[m.delivery]
    IN  r.status = "sent" /\ r.recipient = m.recipient /\ r.serial = m.serial

IngestWebhook(m) ==
    LET recorded == ValidDeliveryId(m.delivery) /\ MatchesSent(m) /\ m \notin suppressions
    IN  /\ bounced' = bounced \cup {m}
        /\ suppressions' = IF recorded THEN suppressions \cup {m} ELSE suppressions
        /\ preference' = IF recorded /\ preference.email = m.recipient
                         THEN [preference EXCEPT !.suppressed = m.recipient]
                         ELSE preference
        /\ UNCHANGED <<storeVars, providerVars, sender>>

-----------------------------------------------------------------------------
SenderStep(s) ==
    \/ ReadDigest(s) \/ RereadDigest(s) \/ Compose(s) \/ HandOff(s) \/ Finish(s)

Next ==
    \/ \E a \in Address : ObserveVerifiedEmail(a)
    \/ \E a \in Email, enabled \in BOOLEAN : SetEnabled(a, enabled)
    \/ TimePasses
    \/ \E s \in Sender :
           PublishRun(s) \/ Redrive(s) \/ Claim(s) \/ SenderStep(s) \/ Fail(s)
    \/ \E m \in messages : IngestWebhook(m)

Spec == Init /\ [][Next]_vars

(* Every tick redrives the archive, whatever else is sent; a sender does   *)
(* not die at its claim for ever; time passes.                             *)
Fairness ==
    /\ WF_vars(TimePasses)
    /\ \A s \in Sender :
           SF_vars(Redrive(s)) /\ SF_vars(Claim(s)) /\ WF_vars(SenderStep(s))

FairSpec == Spec /\ Fairness

-----------------------------------------------------------------------------
(* The Player is sent the digest as first published at most once, whatever *)
(* receipts were lost and however often the claim was recovered: the last  *)
(* attempt falls inside the provider's memory of the key (delivery.rs      *)
(* DELIVERY_RETRY_HORIZON).                                                *)
OriginalSentOnce ==
    \A m, n \in messages : m.delivery = 0 /\ n.delivery = 0 => m = n

(* A settled delivery is final: neither the late answer of a holder that   *)
(* was overtaken nor another claim changes it (store.rs finish, claim).    *)
SettledIsFinal ==
    [][\A d \in Delivery : record[d].status \in Settled =>
          /\ record'[d].status = record[d].status
          /\ record'[d].recipient = record[d].recipient
          /\ record'[d].serial = record[d].serial]_vars

(* A record that says Sent names a message the provider accepted, to that  *)
(* recipient: the one its webhooks will be about (store.rs matches_sent).  *)
SentRecordsNameMessages ==
    \A d \in Delivery : record[d].status = "sent" =>
        [delivery |-> d, serial |-> record[d].serial,
         recipient |-> record[d].recipient] \in messages

(* A delivery that was claimed is settled in the end, unless a rebuilt     *)
(* digest took its place (lifecycle.rs redrive_digest_email; store.rs      *)
(* RetryWindowExpired).                                                    *)
PendingIsSettled ==
    \A d \in Delivery : record[d].status = "pending" ~>
        record[d].status \in Settled \/ published > d

(* Every email handed to the provider is handed off under a delivery       *)
(* record that claims it ("delivery document creation is the single send   *)
(* claim", delivery.rs).                                                   *)
SendsAreClaimed ==
    \A s \in Sender : sender[s].pc = "send" => record[sender[s].delivering].status # "absent"

(* A bounce or complaint about a delivery that is recorded Sent suppresses *)
(* its address ("only bounces and complaints suppress recurring digest     *)
(* email", delivery.rs).                                                   *)
RecordedBouncesSuppress ==
    [][\A m \in bounced' \ bounced : MatchesSent(m) /\ preference.email = m.recipient =>
          preference'.suppressed = m.recipient]_vars

-----------------------------------------------------------------------------
(* The inductive invariant behind OriginalSentOnce and                     *)
(* SentRecordsNameMessages.                                                *)

Held == {"reread", "compose", "send", "finish"}       \* claimed, not finished
Derived == {"compose", "send", "finish"}              \* delivery id at hand

WellFormed(state, latest, accepted) ==
    /\ state.pc # "idle" => latest # NotYet
    /\ state.pc \in Held \cup {"claim"} =>
           state.archived # NotYet /\ state.archived <= latest
    /\ state.delivering # NotYet => state.archived <= state.delivering
    /\ state.pc \in Derived => state.delivering # NotYet
    /\ state.pc = "send" => state.recipient # NoEmail
    /\ state.pc = "finish" => state.outcome # "none"
    /\ state.pc = "finish" /\ state.outcome = "sent" =>
           [delivery |-> state.delivering, serial |-> state.serial,
            recipient |-> state.recipient] \in accepted

SenderWellFormed == \A s \in Sender : WellFormed(sender[s], published, messages)

(* A claim is only granted inside the retry horizon of its record.         *)
ClaimsAreInHorizon ==
    \A s \in Sender : sender[s].pc \in Held =>
        LET r == record[sender[s].archived]
        IN  r.status # "absent" /\ r.firstAge - sender[s].age < RetryHorizon

KeysNameMessages ==
    \A d \in Delivery : key[d].serial # 0 =>
        [delivery |-> d, serial |-> key[d].serial, recipient |-> key[d].recipient] \in messages

(* The key of the original delivery is no older than its record, as long   *)
(* as the record's age is known.                                           *)
OriginalKey ==
    /\ \A m \in messages : m.delivery = 0 =>
           key[0].serial = 1 /\ m.serial = 1 /\ m.recipient = key[0].recipient
    /\ key[0].serial # 0 =>
           /\ record[0].status # "absent"
           /\ key[0].age <= record[0].firstAge \/ record[0].firstAge = RecordCap

IInv ==
    /\ TypeOK
    /\ SenderWellFormed
    /\ ClaimsAreInHorizon
    /\ KeysNameMessages
    /\ SentRecordsNameMessages
    /\ OriginalKey

=============================================================================
