------------------------ MODULE DigestDeliveryProofs ------------------------
(***************************************************************************)
(* Proofs about DigestDelivery for every number of senders, addresses and  *)
(* regenerations, and every choice of claim TTL, horizon, hand-off limit   *)
(* and key retention that TimeAssumption allows.                           *)
(***************************************************************************)
EXTENDS DigestDelivery, TLAPS

LEMMA TimeFacts ==
    /\ ClaimTtl \in Nat \ {0} /\ RetryHorizon \in Nat /\ HandOffLimit \in Nat
    /\ KeyRetention \in Nat /\ RetryHorizon + HandOffLimit <= KeyRetention
    /\ RecordCap \in Nat /\ ClaimCap \in Nat
    /\ RecordCap = RetryHorizon + HandOffLimit /\ ClaimCap = ClaimTtl + HandOffLimit
    /\ HandOffLimit <= RecordCap /\ HandOffLimit <= ClaimCap
    /\ 0 \in Delivery /\ Delivery \subseteq Nat /\ 0 \in Serial /\ NotYet \notin Delivery
    /\ MaxMessages \in Nat \ {0}
  BY TimeAssumption, BoundAssumption DEF RecordCap, ClaimCap, Delivery, Serial, NotYet

LEMMA OlderType ==
    ASSUME NEW cap \in Nat, NEW age \in 0..cap
    PROVE  /\ Older(age, cap) \in 0..cap /\ age <= Older(age, cap)
           /\ Older(age, cap) <= age + 1
           /\ age < cap => Older(age, cap) = age + 1
           /\ age = cap => Older(age, cap) = cap
BY DEF Older

LEMMA ConstantTypes == Idle \in SenderState /\ NoRecord \in Record /\ NoKey \in Key
  BY TimeFacts, TimeAssumption
  DEF Idle, SenderState, NoRecord, Record, NoKey, Key, Address, NotYet

(* Every field of a sender's, a record's and a key's type.                 *)
LEMMA SenderFields ==
    ASSUME TypeOK, NEW s \in Sender
    PROVE  /\ sender[s].archived \in Delivery \cup {NotYet}
           /\ sender[s].delivering \in Delivery \cup {NotYet}
           /\ sender[s].age \in 0..HandOffLimit /\ sender[s].age \in Nat
           /\ sender[s].recipient \in Address /\ sender[s].serial \in Serial
           /\ sender[s].outcome \in {"none"} \cup Settled
           /\ sender[s] \in SenderState
BY DEF TypeOK, SenderState

LEMMA RecordFields ==
    ASSUME TypeOK, NEW d \in Delivery
    PROVE  /\ record[d] \in Record /\ key[d] \in Key
           /\ record[d].firstAge \in 0..RecordCap /\ record[d].claimAge \in 0..ClaimCap
           /\ record[d].recipient \in Address /\ record[d].serial \in Serial
           /\ key[d].serial \in Serial /\ key[d].recipient \in Address
           /\ key[d].age \in 0..KeyRetention
           /\ record[d].firstAge \in Nat /\ record[d].claimAge \in Nat
           /\ key[d].serial \in Nat /\ key[d].age \in Nat
BY DEF TypeOK, Record, Key, Serial

-----------------------------------------------------------------------------
LEMMA InitIsTyped == Init => TypeOK
<1> SUFFICES ASSUME Init PROVE TypeOK
  OBVIOUS
<1>1. preference \in Preference
  BY DEF Init, Preference, Address
<1> QED BY <1>1, ConstantTypes DEF Init, TypeOK

LEMMA TypeStep == TypeOK /\ SenderWellFormed /\ [Next]_vars => TypeOK'
<1> SUFFICES ASSUME TypeOK, SenderWellFormed, [Next]_vars PROVE TypeOK'
  OBVIOUS
<1> USE ConstantTypes DEF TypeOK
<1>1. ASSUME NEW a \in Address, ObserveVerifiedEmail(a)
      PROVE  TypeOK'
  BY <1>1 DEF ObserveVerifiedEmail, Preference, storeVars, providerVars, webhookVars
<1>2. ASSUME NEW a \in Email, NEW b \in BOOLEAN, SetEnabled(a, b)
      PROVE  TypeOK'
  <2>1. [preference EXCEPT !.email = a, !.enabled = b] \in Preference
    BY DEF Preference, Address
  <2> QED BY <1>2, <2>1 DEF SetEnabled, storeVars, providerVars, webhookVars
<1>3. CASE TimePasses
  <2>1. ASSUME NEW d \in Delivery
        PROVE  [record[d] EXCEPT !.firstAge = Older(record[d].firstAge, RecordCap),
                                 !.claimAge = Older(record[d].claimAge, ClaimCap)] \in Record
    <3>1. /\ Older(record[d].firstAge, RecordCap) \in 0..RecordCap
          /\ Older(record[d].claimAge, ClaimCap) \in 0..ClaimCap
      BY RecordFields, OlderType, TimeFacts
    <3> QED BY <3>1, RecordFields DEF Record
  <2>2. ASSUME NEW d \in Delivery
        PROVE  [key[d] EXCEPT !.age = Older(key[d].age, KeyRetention)] \in Key
    <3>1. Older(key[d].age, KeyRetention) \in 0..KeyRetention
      BY RecordFields, OlderType, TimeFacts
    <3> QED BY <3>1, RecordFields DEF Key
  <2>3. ASSUME NEW s \in Sender, sender[s].pc # "idle"
        PROVE  [sender[s] EXCEPT !.age = sender[s].age + 1] \in SenderState
    <3>1. sender[s].age + 1 \in 0..HandOffLimit
      <4>1. sender[s].age \in 0..HandOffLimit
        BY SenderFields
      <4>2. sender[s].age < HandOffLimit
        BY <1>3, <2>3 DEF TimePasses
      <4> QED BY <4>1, <4>2, TimeFacts
    <3> QED BY <3>1, SenderFields DEF SenderState
  <2>4. record' \in [Delivery -> Record] /\ key' \in [Delivery -> Key]
    BY <1>3, <2>1, <2>2 DEF TimePasses
  <2>5. sender' \in [Sender -> SenderState]
    BY <1>3, <2>3 DEF TimePasses
  <2> QED BY <1>3, <2>4, <2>5 DEF TimePasses, webhookVars
<1>4. ASSUME NEW s \in Sender, Fail(s)
      PROVE  TypeOK'
  BY <1>4 DEF Fail, Set, storeVars, providerVars, webhookVars
<1>5. ASSUME NEW s \in Sender, PublishRun(s)
      PROVE  TypeOK'
  <2>1. [Idle EXCEPT !.pc = "read"] \in SenderState
    BY DEF SenderState
  <2> QED BY <1>5, <2>1 DEF PublishRun, Set, providerVars, webhookVars
<1>6. ASSUME NEW s \in Sender, ReadDigest(s) \/ Redrive(s) \/ RereadDigest(s)
      PROVE  TypeOK'
  <2>1. \E state \in SenderState : sender' = [sender EXCEPT ![s] = state]
    BY <1>6, SenderFields DEF ReadDigest, Redrive, RereadDigest, Set, SenderState
  <2> QED BY <1>6, <2>1 DEF ReadDigest, Redrive, RereadDigest, storeVars, providerVars,
                            webhookVars
<1>7. ASSUME NEW s \in Sender, Claim(s)
      PROVE  TypeOK'
  <2> DEFINE d == sender[s].archived
             granted == [sender[s] EXCEPT
                 !.pc = IF sender[s].delivering = NotYet THEN "reread" ELSE "compose"]
  <2>1. d \in Delivery
    BY <1>7, SenderFields DEF Claim, SenderWellFormed, WellFormed
  <2>2. granted \in SenderState
    BY SenderFields DEF SenderState
  <2>3. sender' \in [Sender -> SenderState]
    BY <1>7, <2>2 DEF Claim, Set
  <2>4. sender[s].age \in 0..RecordCap /\ sender[s].age \in 0..ClaimCap
    BY SenderFields, TimeFacts
  <2>5. /\ [NoRecord EXCEPT !.status = "pending", !.firstAge = sender[s].age,
                            !.claimAge = sender[s].age] \in Record
        /\ [record[d] EXCEPT !.claimAge = sender[s].age] \in Record
        /\ Settle(record[d], "expired", NoEmail, 0) \in Record
    BY <2>1, <2>4, RecordFields, TimeFacts DEF Record, Settle, Settled, Address
  <2>6. record' \in [Delivery -> Record]
    BY <1>7, <2>1, <2>5 DEF Claim
  <2> QED BY <1>7, <2>3, <2>6 DEF Claim, providerVars, webhookVars
<1>8. ASSUME NEW s \in Sender, Compose(s)
      PROVE  TypeOK'
  <2>1. \E state \in SenderState : sender' = [sender EXCEPT ![s] = state]
    <3>1. preference.email \in Address
      BY DEF Preference
    <3> QED BY <1>8, <3>1, SenderFields DEF Compose, Set, SenderState, Settled
  <2> QED BY <1>8, <2>1 DEF Compose, storeVars, providerVars, webhookVars
<1>9. ASSUME NEW s \in Sender, NEW serial \in Serial, Answered(s, serial)
      PROVE  sender' \in [Sender -> SenderState]
  <2>1. [sender[s] EXCEPT !.pc = "finish", !.outcome = "sent", !.serial = serial]
            \in SenderState
    BY SenderFields DEF SenderState, Settled
  <2> QED BY <1>9, <2>1 DEF Answered, Set
<1>10. ASSUME NEW s \in Sender, Accept(s)
       PROVE  TypeOK'
  <2> DEFINE d == sender[s].delivering
             serial == key[d].serial + 1
  <2>1. d \in Delivery /\ sender[s].recipient \in Email
    BY <1>10, SenderFields DEF Accept, SenderWellFormed, WellFormed, Derived, Address
  <2>2. serial \in 1..MaxMessages /\ serial \in Serial
    <3>1. key[d].serial \in Nat
      BY <2>1, RecordFields
    <3>2. serial <= MaxMessages
      BY <1>10 DEF Accept
    <3> QED BY <3>1, <3>2, TimeFacts DEF Serial
  <2>3. sender' \in [Sender -> SenderState]
    BY <1>9, <1>10, <2>2 DEF Accept
  <2>4. messages' \subseteq Message /\ messages \subseteq messages'
    BY <1>10, <2>1, <2>2 DEF Accept, Message
  <2>5. key' \in [Delivery -> Key]
    BY <1>10, <2>1, <2>2, TimeFacts DEF Accept, Key, Address
  <2> QED BY <1>10, <2>3, <2>4, <2>5 DEF Accept, storeVars, webhookVars
<1>11. ASSUME NEW s \in Sender, Repeat(s) \/ Refuse(s)
       PROVE  TypeOK'
  <2>1. sender' \in [Sender -> SenderState]
    <3>1. CASE Repeat(s)
      <4>1. sender[s].delivering \in Delivery
        BY <3>1, SenderFields DEF Repeat, SenderWellFormed, WellFormed, Derived
      <4> QED BY <1>9, <3>1, <4>1, RecordFields DEF Repeat
    <3>2. CASE Refuse(s)
      <4>1. [sender[s] EXCEPT !.pc = "finish", !.outcome = "rejected"] \in SenderState
        BY SenderFields DEF SenderState, Settled
      <4> QED BY <3>2, <4>1 DEF Refuse, Set
    <3> QED BY <1>11, <3>1, <3>2
  <2> QED BY <1>11, <2>1 DEF Repeat, Refuse, storeVars, providerVars, webhookVars
<1>12. ASSUME NEW s \in Sender, Finish(s)
       PROVE  TypeOK'
  <2> DEFINE d == sender[s].delivering
  <2>1. d \in Delivery /\ sender[s].outcome \in Settled
    BY <1>12, SenderFields DEF Finish, SenderWellFormed, WellFormed, Derived
  <2>2. /\ Settle(record[d], "sent", sender[s].recipient, sender[s].serial) \in Record
        /\ Settle(record[d], sender[s].outcome, NoEmail, 0) \in Record
    BY <2>1, RecordFields, SenderFields, TimeFacts DEF Settle, Record, Settled, Address
  <2>3. record' \in [Delivery -> Record]
    BY <1>12, <2>1, <2>2 DEF Finish
  <2> QED BY <1>12, <2>3 DEF Finish, Set, providerVars, webhookVars
<1>13. ASSUME NEW m \in messages, IngestWebhook(m)
       PROVE  TypeOK'
  <2>1. preference' \in Preference
    BY <1>13, Zenon DEF IngestWebhook, Preference, Address, Message
  <2> QED BY <1>13, <2>1 DEF IngestWebhook, storeVars, providerVars
<1>14. CASE UNCHANGED vars
  BY <1>14 DEF vars
<1> QED BY <1>1, <1>2, <1>3, <1>4, <1>5, <1>6, <1>7, <1>8, <1>10, <1>11, <1>12, <1>13, <1>14
        DEF Next, SenderStep, HandOff

-----------------------------------------------------------------------------
(* Which steps change a record, a key or a sender.                         *)
LEMMA RecordSteps ==
    ASSUME [Next]_vars
    PROVE  record' = record \/ TimePasses \/ \E s \in Sender : Claim(s) \/ Finish(s)
BY DEF Next, vars, SenderStep, HandOff, ObserveVerifiedEmail, SetEnabled, PublishRun, Redrive,
       Fail, ReadDigest, RereadDigest, Compose, Accept, Repeat, Refuse, IngestWebhook, storeVars

LEMMA KeySteps ==
    ASSUME [Next]_vars
    PROVE  \/ key' = key /\ messages' = messages
           \/ TimePasses
           \/ \E s \in Sender : Accept(s)
BY DEF Next, vars, SenderStep, HandOff, ObserveVerifiedEmail, SetEnabled, PublishRun, Redrive,
       Fail, ReadDigest, RereadDigest, Compose, Claim, Finish, Repeat, Refuse, IngestWebhook,
       providerVars

LEMMA SenderSteps ==
    ASSUME TypeOK, [Next]_vars, NEW t \in Sender
    PROVE  \/ sender'[t] = sender[t]
           \/ TimePasses
           \/ PublishRun(t) \/ Redrive(t) \/ Claim(t) \/ SenderStep(t)
           \/ sender'[t] = Idle
<1>1. ASSUME NEW s \in Sender,
             PublishRun(s) \/ Redrive(s) \/ Claim(s) \/ SenderStep(s) \/ Fail(s), s # t
      PROVE  sender'[t] = sender[t]
  BY <1>1 DEF TypeOK, SenderStep, HandOff, PublishRun, Redrive, Claim, Fail, ReadDigest,
              RereadDigest, Compose, Accept, Repeat, Refuse, Answered, Finish, Set
<1>2. ASSUME Fail(t) PROVE sender'[t] = Idle
  BY <1>2 DEF TypeOK, Fail, Set
<1>3. ASSUME \/ \E a \in Address : ObserveVerifiedEmail(a)
             \/ \E a \in Email, enabled \in BOOLEAN : SetEnabled(a, enabled)
             \/ \E m \in messages : IngestWebhook(m)
             \/ UNCHANGED vars
      PROVE  sender' = sender
  BY <1>3 DEF ObserveVerifiedEmail, SetEnabled, IngestWebhook, vars
<1> QED BY <1>1, <1>2, <1>3 DEF Next

LEMMA IdleFields ==
    ASSUME NEW n
    PROVE  /\ Idle.pc = "idle" /\ [Idle EXCEPT !.pc = "read"].pc = "read"
           /\ [Idle EXCEPT !.pc = "claim", !.archived = n].pc = "claim"
BY DEF Idle

LEMMA SetEffect ==
    ASSUME TypeOK, NEW s \in Sender, NEW state, Set(s, state)
    PROVE  sender'[s] = state
BY DEF Set, TypeOK

(* What a claim does to its sender, and to a record.                       *)
LEMMA ClaimSteps ==
    ASSUME TypeOK, NEW s \in Sender, Claim(s)
    PROVE  \/ /\ sender'[s] = Idle
              /\ \/ record' = record
                 \/ /\ record[sender[s].archived].status = "pending"
                    /\ record' = [record EXCEPT ![sender[s].archived] =
                          Settle(record[sender[s].archived], "expired", NoEmail, 0)]
           \/ /\ sender[s].pc = "claim"
              /\ sender'[s] = [sender[s] EXCEPT
                     !.pc = IF sender[s].delivering = NotYet THEN "reread" ELSE "compose"]
              /\ \/ /\ record[sender[s].archived].status = "absent"
                    /\ record' = [record EXCEPT ![sender[s].archived] =
                          [NoRecord EXCEPT !.status = "pending",
                              !.firstAge = sender[s].age, !.claimAge = sender[s].age]]
                 \/ /\ record[sender[s].archived].status = "pending"
                    /\ ~RetryWindowExpired(record[sender[s].archived], sender[s].age)
                    /\ record' = [record EXCEPT ![sender[s].archived].claimAge = sender[s].age]
<1> DEFINE granted == [sender[s] EXCEPT
                !.pc = IF sender[s].delivering = NotYet THEN "reread" ELSE "compose"]
<1>1. Set(s, granted) => sender'[s] = granted
  BY SetEffect
<1>2. Set(s, Idle) => sender'[s] = Idle
  BY SetEffect
<1> QED BY <1>1, <1>2 DEF Claim

LEMMA Growth ==
    ASSUME TypeOK, [Next]_vars
    PROVE  published <= published' /\ messages \subseteq messages'
<1>1. messages \subseteq messages'
  BY KeySteps DEF TimePasses, Accept
<1>2. published \in Int
  BY TimeFacts DEF TypeOK, NotYet
<1>3. \/ published' = published
      \/ \E s \in Sender : PublishRun(s)
  BY DEF Next, vars, SenderStep, HandOff, ObserveVerifiedEmail, SetEnabled, TimePasses, Redrive,
         Fail, ReadDigest, RereadDigest, Compose, Claim, Accept, Repeat, Refuse, Finish,
         IngestWebhook, storeVars
<1>4. published <= published'
  BY <1>2, <1>3, TimeFacts DEF PublishRun
<1> QED BY <1>1, <1>4

(* A record, once created, is kept, and only time moves its age.           *)
LEMMA RecordsPersist ==
    ASSUME TypeOK, SenderWellFormed, [Next]_vars, NEW d \in Delivery,
           record[d].status # "absent"
    PROVE  /\ record'[d].status # "absent"
           /\ TimePasses \/ record'[d].firstAge = record[d].firstAge
<1>1. CASE record' = record
  BY <1>1
<1>2. CASE TimePasses
  BY <1>2, RecordFields DEF TimePasses, Record
<1>3. ASSUME NEW s \in Sender, Claim(s)
      PROVE  record'[d].status # "absent" /\ record'[d].firstAge = record[d].firstAge
  <2> DEFINE e == sender[s].archived
  <2>1. record \in [Delivery -> Record]
    BY DEF TypeOK
  <2>2. \/ record' = record
        \/ record[e].status = "absent"
           /\ \E r : record' = [record EXCEPT ![e] = r]
        \/ record' = [record EXCEPT ![e] = Settle(record[e], "expired", NoEmail, 0)]
        \/ record[e].status = "pending" /\ record' = [record EXCEPT ![e].claimAge = sender[s].age]
    BY <1>3 DEF Claim
  <2>3. Settle(record[d], "expired", NoEmail, 0).status = "expired"
        /\ Settle(record[d], "expired", NoEmail, 0).firstAge = record[d].firstAge
    BY RecordFields DEF Settle, Record
  <2>4. [record[d] EXCEPT !.claimAge = sender[s].age].status = record[d].status
        /\ [record[d] EXCEPT !.claimAge = sender[s].age].firstAge = record[d].firstAge
    BY RecordFields DEF Record
  <2> QED BY <2>1, <2>2, <2>3, <2>4
<1>4. ASSUME NEW s \in Sender, Finish(s)
      PROVE  record'[d].status # "absent" /\ record'[d].firstAge = record[d].firstAge
  <2>1. sender[s].outcome \in Settled
    BY <1>4, SenderFields DEF Finish, SenderWellFormed, WellFormed
  <2> QED BY <1>4, <2>1, RecordFields, SenderFields DEF Finish, Settle, Settled, TypeOK, Record
<1> QED BY <1>1, <1>2, <1>3, <1>4, RecordSteps

-----------------------------------------------------------------------------
LEMMA WellFormedStep ==
    ASSUME TypeOK, SenderWellFormed, KeysNameMessages, [Next]_vars
    PROVE  SenderWellFormed'
<1> SUFFICES ASSUME NEW t \in Sender
             PROVE  WellFormed(sender'[t], published', messages')
  BY DEF SenderWellFormed
<1> DEFINE old == sender[t]
<1>1. /\ published \in Delivery \cup {NotYet} /\ published \in Int /\ published' \in Int
      /\ published <= published' /\ messages \subseteq messages' /\ NotYet = -1
  <2>1. TypeOK'
    BY TypeStep
  <2>2. published \in Delivery \cup {NotYet} /\ published' \in Delivery \cup {NotYet}
    BY <2>1 DEF TypeOK
  <2> QED BY <2>2, Growth, TimeFacts DEF NotYet
<1>2. /\ old.archived \in Int /\ old.delivering \in Int /\ old \in SenderState
      /\ WellFormed(old, published, messages)
  <2>1. Delivery \cup {NotYet} \subseteq Int
    BY TimeFacts DEF NotYet
  <2>2. old \in SenderState /\ old.archived \in Delivery \cup {NotYet}
        /\ old.delivering \in Delivery \cup {NotYet}
    BY SenderFields
  <2> QED BY <2>1, <2>2 DEF SenderWellFormed
<1>3. /\ published # NotYet => published' # NotYet
      /\ old.archived <= published => old.archived <= published'
  BY <1>1, <1>2, TimeFacts DEF TypeOK
<1>4. WellFormed(old, published', messages')
  BY <1>1, <1>2, <1>3 DEF WellFormed
<1>5. CASE sender'[t] = sender[t]
  BY <1>4, <1>5
<1>6. CASE TimePasses
  <2>1. sender'[t] = old \/ sender'[t] = [old EXCEPT !.age = old.age + 1]
    BY <1>6 DEF TimePasses
  <2> QED BY <1>4, <2>1, <1>2 DEF WellFormed, SenderState
<1>7. WellFormed(Idle, published', messages')
  BY <1>1 DEF WellFormed, Idle, Held, Derived
<1>8. CASE PublishRun(t)
  <2>1. sender'[t] = [Idle EXCEPT !.pc = "read"]
    BY <1>8 DEF PublishRun, Set, TypeOK
  <2>2. published' # NotYet
    BY <1>8, TimeFacts DEF PublishRun
  <2> QED BY <2>1, <2>2 DEF WellFormed, Idle, Held, Derived
<1>9. CASE Redrive(t)
  <2>1. sender'[t] = [Idle EXCEPT !.pc = "claim", !.archived = published]
    BY <1>9 DEF Redrive, Set, TypeOK
  <2>2. published # NotYet
    BY <1>9 DEF Redrive
  <2> QED BY <1>1, <1>3, <2>1, <2>2 DEF WellFormed, Idle, Held, Derived
<1>10. CASE Claim(t)
  <2>1. \/ sender'[t] = Idle
        \/ /\ old.pc = "claim"
           /\ sender'[t] = [old EXCEPT
                 !.pc = IF old.delivering = NotYet THEN "reread" ELSE "compose"]
    BY <1>10, ClaimSteps
  <2> QED BY <1>2, <1>4, <1>7, <2>1 DEF WellFormed, SenderState, Held, Derived
<1>11. CASE ReadDigest(t)
  <2>1. old.pc = "read" /\ sender'[t] = [old EXCEPT !.pc = "claim", !.archived = published,
                                             !.delivering = published]
    BY <1>11 DEF ReadDigest, Set, TypeOK
  <2> QED BY <1>1, <1>2, <1>3, <2>1 DEF WellFormed, SenderState, Held, Derived
<1>12. CASE RereadDigest(t)
  <2>1. old.pc = "reread"
        /\ sender'[t] = [old EXCEPT !.pc = "compose", !.delivering = published]
    BY <1>12 DEF RereadDigest, Set, TypeOK
  <2> QED BY <1>1, <1>2, <1>3, <1>4, <2>1 DEF WellFormed, SenderState, Held, Derived
<1>13. CASE Compose(t)
  <2>1. /\ old.pc = "compose"
        /\ \/ sender'[t] = [old EXCEPT !.pc = "finish", !.outcome = "notSubscribed"]
           \/ /\ preference.email # NoEmail
              /\ sender'[t] = [old EXCEPT !.pc = "send", !.recipient = preference.email]
    BY <1>13 DEF Compose, Set, TypeOK, CanReceive
  <2> QED BY <1>2, <1>4, <2>1 DEF WellFormed, SenderState, Held, Derived
<1>14. CASE HandOff(t)
  <2>1. ASSUME NEW serial, Answered(t, serial), old.pc = "send",
               [delivery |-> old.delivering, serial |-> serial, recipient |-> old.recipient]
                   \in messages'
        PROVE  WellFormed(sender'[t], published', messages')
    <3>1. sender'[t] = Idle
          \/ sender'[t] = [old EXCEPT !.pc = "finish", !.outcome = "sent", !.serial = serial]
      BY <2>1 DEF Answered, Set, TypeOK
    <3> QED BY <1>2, <1>4, <1>7, <2>1, <3>1 DEF WellFormed, SenderState, Held, Derived
  <2>2. CASE Accept(t)
    <3> DEFINE serial == key[old.delivering].serial + 1
    <3>1. [delivery |-> old.delivering, serial |-> serial, recipient |-> old.recipient]
              \in messages'
      BY <2>2 DEF Accept
    <3>2. Answered(t, serial) /\ old.pc = "send"
      BY <2>2 DEF Accept
    <3> HIDE DEF serial
    <3> QED BY <2>1, <3>1, <3>2
  <2>3. CASE Repeat(t)
    <3> DEFINE serial == key[old.delivering].serial
    <3>1. [delivery |-> old.delivering, serial |-> serial, recipient |-> old.recipient]
              \in messages'
      <4>1. Remembered(old.delivering) /\ key[old.delivering].recipient = old.recipient
            /\ messages' = messages /\ old.pc = "send"
        BY <2>3 DEF Repeat, providerVars
      <4>2. old.delivering \in Delivery
        BY <1>2, <4>1, SenderFields DEF WellFormed, Derived
      <4> QED BY <4>1, <4>2 DEF Remembered, KeysNameMessages
    <3>2. Answered(t, serial) /\ old.pc = "send"
      BY <2>3 DEF Repeat
    <3> HIDE DEF serial
    <3> QED BY <2>1, <3>1, <3>2
  <2>4. CASE Refuse(t)
    <3>1. old.pc = "send"
          /\ (sender'[t] = Idle
              \/ sender'[t] = [old EXCEPT !.pc = "finish", !.outcome = "rejected"])
      BY <2>4 DEF Refuse, Set, TypeOK
    <3> QED BY <1>2, <1>4, <1>7, <3>1 DEF WellFormed, SenderState, Held, Derived
  <2> QED BY <1>14, <2>2, <2>3, <2>4 DEF HandOff
<1>15. CASE Finish(t)
  BY <1>7, <1>15 DEF Finish, Set, TypeOK
<1> QED BY <1>5, <1>6, <1>7, <1>8, <1>9, <1>10, <1>11, <1>12, <1>13, <1>14, <1>15, SenderSteps
        DEF SenderStep

LEMMA HorizonStep ==
    ASSUME TypeOK, SenderWellFormed, ClaimsAreInHorizon, [Next]_vars
    PROVE  ClaimsAreInHorizon'
<1> SUFFICES ASSUME NEW t \in Sender, sender'[t].pc \in Held
             PROVE  /\ record'[sender'[t].archived].status # "absent"
                    /\ record'[sender'[t].archived].firstAge - sender'[t].age < RetryHorizon
  BY DEF ClaimsAreInHorizon
<1> DEFINE old == sender[t]  new == sender'[t]  d == old.archived
<1>1. ASSUME old.pc \in Held
      PROVE  /\ d \in Delivery /\ record[d].status # "absent"
             /\ record[d].firstAge \in 0..RecordCap
             /\ old.age \in Nat /\ record[d].firstAge - old.age < RetryHorizon
  <2>1. d \in Delivery
    BY <1>1, SenderFields DEF SenderWellFormed, WellFormed
  <2> QED BY <1>1, <2>1, SenderFields, RecordFields DEF ClaimsAreInHorizon
<1>2. ASSUME old.pc \in Held, new.archived = d, new.age = old.age, ~TimePasses
      PROVE  record'[d].status # "absent" /\ record'[d].firstAge - new.age < RetryHorizon
  BY <1>1, <1>2, RecordsPersist
<1>3. CASE TimePasses
  <2>1. new.archived = d /\ old.pc \in Held /\ new.age = old.age + 1
    BY <1>3, SenderFields DEF TimePasses, SenderState, Held
  <2>2. record'[d].status # "absent" /\ record'[d].firstAge = Older(record[d].firstAge, RecordCap)
    BY <1>1, <1>3, <2>1, RecordFields DEF TimePasses, Record
  <2>3. record'[d].firstAge <= record[d].firstAge + 1 /\ record'[d].firstAge \in Int
    <3>1. /\ Older(record[d].firstAge, RecordCap) \in 0..RecordCap
          /\ Older(record[d].firstAge, RecordCap) <= record[d].firstAge + 1
      BY <1>1, <2>1, OlderType, TimeFacts
    <3> QED BY <2>2, <3>1, TimeFacts
  <2>4. record[d].firstAge \in Int /\ old.age \in Int
    BY <1>1, <2>1, TimeFacts
  <2>5. record'[d].firstAge - (old.age + 1) < RetryHorizon
    BY <1>1, <2>1, <2>3, <2>4, TimeFacts
  <2> QED BY <2>1, <2>2, <2>5
<1>4. CASE Claim(t)
  <2>1. new.archived = d /\ new.age = old.age /\ old.pc = "claim" /\ new.pc # "idle"
    BY <1>4, SenderFields DEF Claim, Set, TypeOK, SenderState, Idle, Held
  <2>2. d \in Delivery
    BY <2>1, SenderFields DEF SenderWellFormed, WellFormed
  <2>3. \/ record'[d] = [NoRecord EXCEPT !.status = "pending", !.firstAge = old.age,
                                         !.claimAge = old.age]
        \/ /\ record[d].status = "pending" /\ ~RetryWindowExpired(record[d], old.age)
           /\ record'[d] = [record[d] EXCEPT !.claimAge = old.age]
    <3>1. record \in [Delivery -> Record] /\ new # Idle
      BY <2>1 DEF TypeOK, Idle
    <3>2. \/ record' = [record EXCEPT ![d] = [NoRecord EXCEPT
                  !.status = "pending", !.firstAge = old.age, !.claimAge = old.age]]
          \/ /\ record[d].status = "pending" /\ ~RetryWindowExpired(record[d], old.age)
             /\ record' = [record EXCEPT ![d].claimAge = old.age]
      BY <1>4, <3>1, ClaimSteps
    <3> QED BY <2>2, <3>1, <3>2
  <2>4. old.age \in Nat /\ record[d].firstAge \in Nat /\ RetryHorizon > 0
    BY <2>2, SenderFields, RecordFields, TimeAssumption
  <2>5. CASE record'[d] = [NoRecord EXCEPT !.status = "pending", !.firstAge = old.age,
                                           !.claimAge = old.age]
    <3>1. record'[d].status = "pending" /\ record'[d].firstAge = old.age
      BY <2>5 DEF NoRecord
    <3> QED BY <2>1, <2>4, <3>1
  <2>6. CASE /\ record[d].status = "pending" /\ ~RetryWindowExpired(record[d], old.age)
             /\ record'[d] = [record[d] EXCEPT !.claimAge = old.age]
    <3>1. record'[d].status = "pending" /\ record'[d].firstAge = record[d].firstAge
      BY <2>2, <2>6, RecordFields DEF Record
    <3> QED BY <2>1, <2>4, <2>6, <3>1, TimeFacts DEF RetryWindowExpired
  <2> QED BY <2>3, <2>5, <2>6
<1>5. ASSUME new = old \/ SenderStep(t), ~TimePasses
      PROVE  old.pc \in Held /\ new.archived = d /\ new.age = old.age
  <2>1. CASE new = old
    BY <2>1
  <2>2. CASE ReadDigest(t)
    BY <2>2, SenderFields DEF ReadDigest, Set, TypeOK, SenderState, Held
  <2>3. CASE RereadDigest(t) \/ Compose(t)
    <3>1. /\ old.pc \in {"reread", "compose"}
          /\ \/ new = [old EXCEPT !.pc = "compose", !.delivering = published]
             \/ new = [old EXCEPT !.pc = "send", !.recipient = preference.email]
             \/ new = [old EXCEPT !.pc = "finish", !.outcome = "notSubscribed"]
      BY <2>3, SetEffect DEF RereadDigest, Compose
    <3>2. /\ [old EXCEPT !.pc = "compose", !.delivering = published].archived = d
          /\ [old EXCEPT !.pc = "compose", !.delivering = published].age = old.age
      BY SenderFields DEF SenderState
    <3>3. /\ [old EXCEPT !.pc = "send", !.recipient = preference.email].archived = d
          /\ [old EXCEPT !.pc = "send", !.recipient = preference.email].age = old.age
      BY SenderFields DEF SenderState
    <3>4. /\ [old EXCEPT !.pc = "finish", !.outcome = "notSubscribed"].archived = d
          /\ [old EXCEPT !.pc = "finish", !.outcome = "notSubscribed"].age = old.age
      BY SenderFields DEF SenderState
    <3> QED BY <3>1, <3>2, <3>3, <3>4 DEF Held
  <2>4. ASSUME NEW serial, Answered(t, serial), old.pc = "send"
        PROVE  old.pc \in Held /\ new.archived = d /\ new.age = old.age
    <3>1. new = Idle \/ new = [old EXCEPT !.pc = "finish", !.outcome = "sent", !.serial = serial]
      BY <2>4, SetEffect DEF Answered
    <3>2. /\ [old EXCEPT !.pc = "finish", !.outcome = "sent", !.serial = serial].archived = d
          /\ [old EXCEPT !.pc = "finish", !.outcome = "sent", !.serial = serial].age = old.age
      BY SenderFields DEF SenderState
    <3> QED BY <2>4, <3>1, <3>2, IdleFields DEF Held
  <2>5. CASE Accept(t) \/ Repeat(t)
    BY <2>4, <2>5 DEF Accept, Repeat
  <2>6. CASE Refuse(t)
    <3>1. /\ old.pc = "send"
          /\ new = Idle \/ new = [old EXCEPT !.pc = "finish", !.outcome = "rejected"]
      BY <2>6, SetEffect DEF Refuse
    <3>2. /\ [old EXCEPT !.pc = "finish", !.outcome = "rejected"].archived = d
          /\ [old EXCEPT !.pc = "finish", !.outcome = "rejected"].age = old.age
      BY SenderFields DEF SenderState
    <3> QED BY <3>1, <3>2, IdleFields DEF Held
  <2>7. CASE Finish(t)
    <3>1. new = Idle
      BY <2>7, SetEffect DEF Finish
    <3> QED BY <3>1, IdleFields DEF Held
  <2> QED BY <1>5, <2>1, <2>2, <2>3, <2>5, <2>6, <2>7 DEF SenderStep, HandOff
<1>6. ASSUME PublishRun(t) \/ Redrive(t) \/ new = Idle
      PROVE  FALSE
  <2>1. \/ new = Idle \/ new = [Idle EXCEPT !.pc = "read"]
        \/ new = [Idle EXCEPT !.pc = "claim", !.archived = published]
    BY <1>6, SetEffect DEF PublishRun, Redrive
  <2> QED BY <2>1, IdleFields DEF Held
<1> QED BY <1>2, <1>3, <1>4, <1>5, <1>6, SenderSteps

LEMMA KeyNamesStep ==
    ASSUME TypeOK, SenderWellFormed, KeysNameMessages, [Next]_vars
    PROVE  KeysNameMessages'
<1>1. CASE key' = key /\ messages' = messages
  BY <1>1 DEF KeysNameMessages
<1>2. CASE TimePasses
  BY <1>2, RecordFields DEF TimePasses, KeysNameMessages, Key
<1>3. ASSUME NEW s \in Sender, Accept(s) PROVE KeysNameMessages'
  BY <1>3 DEF Accept, KeysNameMessages, TypeOK
<1> QED BY <1>1, <1>2, <1>3, KeySteps

LEMMA SentRecordsStep ==
    ASSUME TypeOK, SenderWellFormed, SentRecordsNameMessages, [Next]_vars
    PROVE  SentRecordsNameMessages'
<1> SUFFICES ASSUME NEW d \in Delivery, record'[d].status = "sent"
             PROVE  [delivery |-> d, serial |-> record'[d].serial,
                     recipient |-> record'[d].recipient] \in messages
  BY Growth DEF SentRecordsNameMessages
<1>1. CASE record' = record
  BY <1>1 DEF SentRecordsNameMessages
<1>2. CASE TimePasses
  BY <1>2, RecordFields DEF TimePasses, SentRecordsNameMessages, Record
<1>3. ASSUME NEW s \in Sender, Claim(s) PROVE record'[d] = record[d]
  <2> DEFINE e == sender[s].archived  age == sender[s].age
  <2>1. /\ [NoRecord EXCEPT !.status = "pending", !.firstAge = age, !.claimAge = age].status
              = "pending"
        /\ Settle(record[d], "expired", NoEmail, 0).status = "expired"
        /\ [record[d] EXCEPT !.claimAge = age].status = record[d].status
    BY RecordFields DEF NoRecord, Settle, Record
  <2>2. \/ record' = record
        \/ record' = [record EXCEPT ![e] = Settle(record[e], "expired", NoEmail, 0)]
        \/ record' = [record EXCEPT ![e] = [NoRecord EXCEPT
                          !.status = "pending", !.firstAge = age, !.claimAge = age]]
        \/ record[e].status = "pending" /\ record' = [record EXCEPT ![e].claimAge = age]
    BY <1>3, ClaimSteps
  <2> QED BY <2>1, <2>2 DEF TypeOK
<1>4. ASSUME NEW s \in Sender, Finish(s), record'[d] # record[d]
      PROVE  [delivery |-> d, serial |-> record'[d].serial,
              recipient |-> record'[d].recipient] \in messages
  <2>1. d = sender[s].delivering /\ sender[s].outcome \in Settled /\ sender[s].pc = "finish"
    BY <1>4, SenderFields DEF Finish, SenderWellFormed, WellFormed, TypeOK
  <2>2. sender[s].outcome = "sent"
        /\ record'[d] = Settle(record[d], "sent", sender[s].recipient, sender[s].serial)
    BY <1>4, <2>1, RecordFields DEF Finish, Settle, TypeOK, Record
  <2> QED BY <2>1, <2>2, RecordFields DEF Settle, Record, SenderWellFormed, WellFormed
<1> QED BY <1>1, <1>2, <1>3, <1>4, RecordSteps DEF SentRecordsNameMessages

(* No second message is accepted for the original delivery: its sender's   *)
(* claim is young enough that the provider still remembers the key.        *)
LEMMA OriginalIsRemembered ==
    ASSUME TypeOK, SenderWellFormed, ClaimsAreInHorizon, OriginalKey,
           NEW s \in Sender, sender[s].pc = "send", sender[s].delivering = 0
    PROVE  /\ record[0].status # "absent"
           /\ key[0].serial # 0 => Remembered(0)
<1> DEFINE old == sender[s]
<1>1. old.archived = 0
  <2>1. old.archived # NotYet /\ old.archived <= 0
    <3>1. WellFormed(old, published, messages) /\ old.pc = "send" /\ old.delivering = 0
      BY DEF SenderWellFormed
    <3> QED BY <3>1 DEF WellFormed, Held, NotYet
  <2> QED BY <2>1, SenderFields DEF Delivery, NotYet
<1>2. record[0].status # "absent" /\ record[0].firstAge - old.age < RetryHorizon
  BY <1>1 DEF ClaimsAreInHorizon, Held
<1>3. /\ old.age \in Nat /\ old.age <= HandOffLimit
      /\ record[0].firstAge \in Nat /\ key[0].age \in Nat
  BY SenderFields, RecordFields, TimeFacts
<1>4. record[0].firstAge < RecordCap
  BY <1>2, <1>3, TimeFacts
<1>5. ASSUME key[0].serial # 0 PROVE key[0].age < KeyRetention
  <2>1. key[0].age <= record[0].firstAge
    BY <1>4, <1>5, <1>3, TimeFacts DEF OriginalKey
  <2> QED BY <2>1, <1>3, <1>4, TimeFacts
<1> QED BY <1>2, <1>5 DEF Remembered

LEMMA OriginalKeyStep ==
    ASSUME TypeOK, SenderWellFormed, ClaimsAreInHorizon, OriginalKey, [Next]_vars
    PROVE  OriginalKey'
<1>1. CASE TimePasses
  <2>1. /\ key'[0].serial = key[0].serial /\ key'[0].recipient = key[0].recipient
        /\ key'[0].age = Older(key[0].age, KeyRetention) /\ messages' = messages
        /\ record'[0].status = record[0].status
        /\ record'[0].firstAge = Older(record[0].firstAge, RecordCap)
    BY <1>1, RecordFields, TimeFacts DEF TimePasses, Key, Record
  <2>2. ASSUME key[0].serial # 0
        PROVE  key'[0].age <= record'[0].firstAge \/ record'[0].firstAge = RecordCap
    <3>1. key[0].age <= record[0].firstAge \/ record[0].firstAge = RecordCap
      BY <2>2 DEF OriginalKey
    <3> QED BY <2>1, <3>1, RecordFields, TimeFacts DEF Older
  <2> QED BY <2>1, <2>2 DEF OriginalKey
<1>2. CASE key' = key /\ messages' = messages /\ ~TimePasses
  <2>1. key[0].serial # 0 =>
            record'[0].status # "absent" /\ record'[0].firstAge = record[0].firstAge
    BY <1>2, RecordsPersist, TimeFacts DEF OriginalKey
  <2> QED BY <1>2, <2>1 DEF OriginalKey
<1>3. ASSUME NEW s \in Sender, Accept(s)
      PROVE  OriginalKey'
  <2> DEFINE d == sender[s].delivering
             m == [delivery |-> d, serial |-> key[d].serial + 1,
                   recipient |-> sender[s].recipient]
  <2>1. /\ sender[s].pc = "send" /\ ~Remembered(d) /\ record' = record
        /\ messages' = messages \cup {m}
        /\ key' = [key EXCEPT ![d] = [serial |-> key[d].serial + 1,
                       recipient |-> sender[s].recipient, age |-> 0]]
    BY <1>3 DEF Accept, storeVars
  <2>2. CASE d = 0
    <3>1. key[0].serial = 0 /\ record[0].status # "absent"
      BY <2>1, <2>2, OriginalIsRemembered
    <3>2. key'[0] = [serial |-> 1, recipient |-> sender[s].recipient, age |-> 0]
      BY <2>1, <2>2, <3>1, TimeFacts DEF TypeOK
    <3>3. \A n \in messages : n.delivery # 0
      BY <3>1 DEF OriginalKey
    <3>4. m = [delivery |-> 0, serial |-> 1, recipient |-> sender[s].recipient]
      BY <2>2, <3>1
    <3>5. 0 <= record[0].firstAge
      BY RecordFields, TimeFacts
    <3> QED BY <2>1, <3>1, <3>2, <3>3, <3>4, <3>5 DEF OriginalKey
  <2>3. CASE d # 0
    <3>1. key'[0] = key[0]
      BY <2>1, <2>3, TimeFacts DEF TypeOK
    <3>2. m.delivery # 0
      BY <2>3
    <3> HIDE DEF m
    <3> QED BY <2>1, <3>1, <3>2 DEF OriginalKey
  <2> QED BY <2>2, <2>3
<1> QED BY <1>1, <1>2, <1>3, KeySteps

-----------------------------------------------------------------------------
LEMMA IInvHolds == Spec => []IInv
<1>1. Init => IInv
  <2> SUFFICES ASSUME Init PROVE IInv
    OBVIOUS
  <2>1. \A d \in Delivery : record[d].status = "absent" /\ key[d].serial = 0
    BY DEF Init, NoRecord, NoKey
  <2>2. SenderWellFormed
    BY TimeFacts DEF Init, SenderWellFormed, WellFormed, Idle, Held, Derived
  <2>3. ClaimsAreInHorizon
    BY IdleFields DEF Init, ClaimsAreInHorizon, Held
  <2>4. KeysNameMessages /\ SentRecordsNameMessages
    BY <2>1 DEF KeysNameMessages, SentRecordsNameMessages
  <2>5. OriginalKey
    BY <2>1, TimeFacts DEF Init, OriginalKey
  <2> QED BY InitIsTyped, <2>2, <2>3, <2>4, <2>5 DEF IInv
<1>2. IInv /\ [Next]_vars => IInv'
  BY TypeStep, WellFormedStep, HorizonStep, KeyNamesStep, SentRecordsStep, OriginalKeyStep
  DEF IInv
<1> QED BY <1>1, <1>2, PTL DEF Spec

(* Every variable keeps its type (DeliveryRecord, EmailPreference).        *)
THEOREM DeliveryTypeCorrect == Spec => []TypeOK
  BY IInvHolds, PTL DEF IInv

(* The digest as first published is accepted by the provider at most once, *)
(* for any number of senders and any TTLs whose horizon and hand-off fit   *)
(* in the provider's memory (delivery.rs DELIVERY_RETRY_HORIZON).          *)
THEOREM OriginalSentOnceHolds == Spec => []OriginalSentOnce
<1>1. IInv => OriginalSentOnce
  <2> SUFFICES ASSUME IInv, NEW m \in messages, NEW n \in messages,
                      m.delivery = 0, n.delivery = 0
               PROVE  m = n
    BY DEF OriginalSentOnce
  <2>1. m \in Message /\ n \in Message
    BY DEF IInv, TypeOK
  <2>2. m.serial = n.serial /\ m.recipient = n.recipient
    BY DEF IInv, OriginalKey
  <2> QED BY <2>1, <2>2 DEF Message
<1> QED BY <1>1, IInvHolds, PTL

(* A record says Sent only of a message the provider accepted (store.rs    *)
(* finish).                                                                *)
THEOREM SentRecordsHold == Spec => []SentRecordsNameMessages
  BY IInvHolds, PTL DEF IInv

(* No step changes a settled record (store.rs claim, finish).              *)
THEOREM SettledIsFinalHolds == Spec => SettledIsFinal
<1> DEFINE Final(d) ==
        record[d].status \in Settled =>
            /\ record'[d].status = record[d].status
            /\ record'[d].recipient = record[d].recipient
            /\ record'[d].serial = record[d].serial
<1>1. ASSUME IInv, [Next]_vars, NEW d \in Delivery, record[d].status \in Settled
      PROVE  Final(d)
  <2>1. CASE record' = record
    BY <2>1
  <2>2. CASE TimePasses
    <3>1. TypeOK
      BY <1>1 DEF IInv
    <3>2. /\ record'[d].status = record[d].status
          /\ record'[d].recipient = record[d].recipient
          /\ record'[d].serial = record[d].serial
      BY <2>2, <3>1, RecordFields DEF TimePasses, Record
    <3> QED BY <3>2
  <2>3. ASSUME NEW s \in Sender, Claim(s)
        PROVE  record'[d] = record[d]
    BY <1>1, <2>3, ClaimSteps DEF IInv, TypeOK, Settled
  <2>4. ASSUME NEW s \in Sender, Finish(s)
        PROVE  record'[d] = record[d]
    BY <1>1, <2>4 DEF Finish, IInv, TypeOK, Settled
  <2>5. \/ record' = record \/ TimePasses
        \/ \E s \in Sender : Claim(s) \/ Finish(s)
    BY <1>1, RecordSteps
  <2> QED BY <2>1, <2>2, <2>3, <2>4, <2>5
<1>2. IInv /\ [Next]_vars => [\A d \in Delivery : Final(d)]_vars
  BY <1>1
<1> QED BY <1>2, IInvHolds, PTL DEF Spec, SettledIsFinal

=============================================================================
