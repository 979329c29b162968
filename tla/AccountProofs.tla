---------------------------- MODULE AccountProofs -----------------------------
(***************************************************************************)
(* Proofs about what lets a Player in and out, for any number of requests, *)
(* Players, calls, runs, hours and failures.  BetaAccess: access is earned *)
(* by an invitation that was never revoked, the request agrees with its    *)
(* invitation, and one call delivers at a time.  AccountDeletion: the      *)
(* marker claims no step that was not done, and the markers keep the Player*)
(* out as long as a token may be valid.                                    *)
(***************************************************************************)
EXTENDS AccountDeletion, BetaAccess, TLAPS

-----------------------------------------------------------------------------
(* Beta access.                                                            *)
(* What the properties need of the fields that they do not mention.        *)
AdminOK(a) ==
    /\ ~Stage(a, "idle") => For(a) \in Request
    /\ Stage(a, "deliver") => sends[For(a)] < invitation[For(a)].attempt
InvitationOK(q) ==
    /\ invitation[q].status = "none" =>
           invitation[q].delivery = "none" /\ invitation[q].attempt = 0
    /\ invitation[q].status = "redeemed" => invitation[q].redeemedBy \in Player
    /\ request[q].access = "active" => invitation[q].status = "redeemed"
    /\ q \in revoked => invitation[q].status \in {"revoked", "redeemed"}

BetaInv ==
    /\ BetaTypeOK /\ AccessAgrees /\ SendersHoldTheirAttempt
    /\ \A a \in Admin : AdminOK(a)
    /\ \A q \in Request : InvitationOK(q)

LEMMA BetaInitInv == BetaInit => BetaInv
<1> SUFFICES ASSUME BetaInit PROVE BetaInv
  OBVIOUS
<1>1. BetaTypeOK
  BY DEF BetaInit, BetaTypeOK, NoRequest, NoInvitation, Resting, InvitationStatus,
         AdminState, Delivery
<1>2. AccessAgrees
  BY DEF BetaInit, AccessAgrees, GrantsAreEarned, RequestsRepeatInvitations,
         NoRequest, NoInvitation
<1>3. SendersHoldTheirAttempt
  BY DEF BetaInit, SendersHoldTheirAttempt, Delivering, Resting, NoInvitation
<1>4. (\A a \in Admin : AdminOK(a)) /\ \A q \in Request : InvitationOK(q)
  BY DEF BetaInit, AdminOK, InvitationOK, Stage, Resting, NoInvitation, NoRequest
<1> QED BY <1>1, <1>2, <1>3, <1>4 DEF BetaInv

-----------------------------------------------------------------------------
(* Steps that write to no invitation and no grant.                         *)
LEMMA SubmitKeeps ==
    ASSUME BetaInv, NEW q \in Request, Submit(q) PROVE BetaInv'
<1>1. BetaTypeOK'
  BY DEF BetaInv, BetaTypeOK, Submit
<1>2. request' = [request EXCEPT ![q].status = "pending"] /\ invitation[q].status = "none"
  BY DEF BetaInv, AccessAgrees, RequestsRepeatInvitations, Submit
<1>3. AccessAgrees'
  BY <1>2 DEF BetaInv, BetaTypeOK, AccessAgrees, GrantsAreEarned, RequestsRepeatInvitations, Submit
<1>4. SendersHoldTheirAttempt' /\ \A a \in Admin : AdminOK(a)'
  BY DEF BetaInv, SendersHoldTheirAttempt, Delivering, AdminOK, Stage, For, Submit
<1>5. ASSUME NEW r \in Request PROVE InvitationOK(r)'
  BY <1>2 DEF BetaInv, BetaTypeOK, InvitationOK, Submit
<1> QED BY <1>1, <1>3, <1>4, <1>5 DEF BetaInv

(* A call that rests, or is at a stage before it delivers.                 *)
Waits(state) ==
    /\ state.pc \in {"idle", "commit", "begin"}
    /\ state.pc # "idle" => state.request \in Request

LEMMA AdminStepKeeps ==
    ASSUME BetaInv, NEW a \in Admin, NEW state, Waits(state), state \in AdminState,
           admin' = [admin EXCEPT ![a] = state],
           UNCHANGED <<request, invitation, grant, candidate, sends, revoked, gone>>
    PROVE  BetaInv'
<1>1. BetaTypeOK'
  BY DEF BetaInv, BetaTypeOK
<1>2. /\ admin'[a] = state
      /\ \A b \in Admin : b # a => admin'[b] = admin[b]
  BY DEF BetaInv, BetaTypeOK
<1>3. AccessAgrees'
  BY DEF BetaInv, AccessAgrees, GrantsAreEarned, RequestsRepeatInvitations
<1>4. SendersHoldTheirAttempt'
  BY <1>2 DEF BetaInv, Waits, SendersHoldTheirAttempt, Delivering, For
<1>5. ASSUME NEW b \in Admin PROVE AdminOK(b)'
  BY <1>2 DEF BetaInv, Waits, AdminOK, Stage, For
<1>6. ASSUME NEW q \in Request PROVE InvitationOK(q)'
  BY DEF BetaInv, InvitationOK
<1> QED BY <1>1, <1>3, <1>4, <1>5, <1>6 DEF BetaInv

LEMMA RestKeeps ==
    ASSUME BetaInv, NEW a \in Admin, Rest(a),
           UNCHANGED <<request, invitation, grant, candidate, sends, revoked, gone>>
    PROVE  BetaInv'
<1>1. /\ Waits(Resting) /\ Resting \in AdminState
      /\ admin' = [admin EXCEPT ![a] = Resting]
  BY DEF Waits, Resting, Rest, AdminState, Delivery
<1> QED BY <1>1, AdminStepKeeps

LEMMA StartGrantKeeps ==
    ASSUME BetaInv, NEW a \in Admin, NEW q \in Request, StartGrant(a, q) PROVE BetaInv'
<1> DEFINE state == [admin[a] EXCEPT !.pc = "commit", !.request = q]
<1>1. /\ Waits(state) /\ state \in AdminState
      /\ admin' = [admin EXCEPT ![a] = state]
  BY DEF BetaInv, BetaTypeOK, AdminState, StartGrant, Waits
<1> QED BY <1>1, AdminStepKeeps DEF StartGrant

LEMMA StartRetryKeeps ==
    ASSUME BetaInv, NEW a \in Admin, NEW q \in Request, StartRetry(a, q) PROVE BetaInv'
<1> DEFINE state == [admin[a] EXCEPT !.pc = "begin", !.request = q,
                                     !.attempt = invitation[q].attempt]
<1>1. /\ Waits(state) /\ state \in AdminState
      /\ admin' = [admin EXCEPT ![a] = state]
  BY DEF BetaInv, BetaTypeOK, AdminState, StartRetry, Waits
<1> QED BY <1>1, AdminStepKeeps DEF StartRetry

LEMMA PresentCodeKeeps ==
    ASSUME BetaInv, NEW p \in Player, NEW q \in Request, PresentCode(p, q) PROVE BetaInv'
<1>1. BetaTypeOK'
  BY DEF BetaInv, BetaTypeOK, PresentCode
<1>2. AccessAgrees' /\ SendersHoldTheirAttempt'
  BY DEF BetaInv, AccessAgrees, GrantsAreEarned, RequestsRepeatInvitations,
         SendersHoldTheirAttempt, Delivering, For, PresentCode
<1>3. (\A a \in Admin : AdminOK(a)') /\ \A r \in Request : InvitationOK(r)'
  BY DEF BetaInv, AdminOK, Stage, For, InvitationOK, PresentCode
<1> QED BY <1>1, <1>2, <1>3 DEF BetaInv

-----------------------------------------------------------------------------
(* Deliveries: a call takes the attempt that nobody delivers, and gives it *)
(* back with its outcome.                                                  *)
LEMMA CommitGrantKeeps ==
    ASSUME BetaInv, NEW a \in Admin, CommitGrant(a) PROVE BetaInv'
<1> DEFINE q == For(a)
<1>1. CASE request[q].status = "granted"
  BY <1>1, RestKeeps DEF CommitGrant
<1>2. CASE request[q].status # "granted"
  <2>1. q \in Request
    BY DEF BetaInv, AdminOK, Stage, CommitGrant
  <2>2. /\ invitation[q].status = "none" /\ request[q].access # "active" /\ q \notin revoked
        /\ invitation[q].attempt = 0 /\ invitation[q].delivery = "none"
        /\ \A b \in Admin : Delivering(b) => For(b) # q
    BY <1>2, <2>1 DEF BetaInv, AccessAgrees, RequestsRepeatInvitations, InvitationOK,
                      SendersHoldTheirAttempt, BetaTypeOK
  <2>3. /\ request' = [request EXCEPT ![q].status = "granted", ![q].invitation = "issued",
                                      ![q].delivery = "pending"]
        /\ invitation' = [invitation EXCEPT ![q] = [status |-> "issued", delivery |-> "pending",
                                                    attempt |-> 1, redeemedBy |-> Nobody]]
        /\ admin' = [admin EXCEPT ![a].pc = "deliver", ![a].attempt = 1]
        /\ UNCHANGED <<grant, candidate, sends, revoked, gone>>
    BY <1>2 DEF CommitGrant
  <2>4. BetaTypeOK'
    <3>1. [admin[a] EXCEPT !.pc = "deliver", !.attempt = 1] \in AdminState
      BY DEF BetaInv, BetaTypeOK, AdminState
    <3>2. admin' \in [Admin -> AdminState]
      BY <2>3, <3>1 DEF BetaInv, BetaTypeOK
    <3>3. [request[q] EXCEPT !.status = "granted", !.invitation = "issued",
                             !.delivery = "pending"] \in
              [status : {"absent", "pending", "granted"}, invitation : InvitationStatus,
               delivery : Delivery, access : {"none", "active", "revoked"}]
      <4> HIDE DEF q
      <4>1. request[q] \in [status : {"absent", "pending", "granted"},
                            invitation : InvitationStatus, delivery : Delivery,
                            access : {"none", "active", "revoked"}]
        BY <2>1 DEF BetaInv, BetaTypeOK
      <4>2. "issued" \in InvitationStatus /\ "pending" \in Delivery
        BY DEF InvitationStatus, Delivery
      <4> QED BY <4>1, <4>2
    <3>4. request' \in [Request -> [status : {"absent", "pending", "granted"},
                                    invitation : InvitationStatus, delivery : Delivery,
                                    access : {"none", "active", "revoked"}]]
      BY <2>3, <3>3 DEF BetaInv, BetaTypeOK
    <3>5. invitation' \in [Request -> [status : InvitationStatus, delivery : Delivery,
                                       attempt : Nat, redeemedBy : Player \cup {Nobody}]]
      BY <2>3 DEF BetaInv, BetaTypeOK, InvitationStatus, Delivery
    <3> QED BY <2>3, <3>2, <3>4, <3>5 DEF BetaInv, BetaTypeOK
  <2>5. GrantsAreEarned'
    BY <2>1, <2>2, <2>3 DEF BetaInv, BetaTypeOK, AccessAgrees, GrantsAreEarned
  <2>6. RequestsRepeatInvitations'
    BY <2>1, <2>3 DEF BetaInv, BetaTypeOK, AccessAgrees, RequestsRepeatInvitations
  <2>7. SendersHoldTheirAttempt'
    BY <2>1, <2>2, <2>3 DEF BetaInv, BetaTypeOK, SendersHoldTheirAttempt, Delivering, For
  <2>8. ASSUME NEW b \in Admin PROVE AdminOK(b)'
    BY <2>1, <2>2, <2>3 DEF BetaInv, BetaTypeOK, AdminOK, Stage, For, SendersHoldTheirAttempt,
                            Delivering
  <2>9. ASSUME NEW r \in Request PROVE InvitationOK(r)'
    BY <2>1, <2>2, <2>3 DEF BetaInv, BetaTypeOK, InvitationOK
  <2> QED BY <2>4, <2>5, <2>6, <2>7, <2>8, <2>9 DEF BetaInv, AccessAgrees
<1> QED BY <1>1, <1>2

LEMMA BeginRetryKeeps ==
    ASSUME BetaInv, NEW a \in Admin, BeginRetry(a) PROVE BetaInv'
<1> DEFINE q == For(a)
<1>1. CASE ~Retryable(q) \/ invitation[q].attempt # admin[a].attempt
  BY <1>1, RestKeeps DEF BeginRetry
<1>2. CASE Retryable(q) /\ invitation[q].attempt = admin[a].attempt
  <2>1. q \in Request
    BY DEF BetaInv, AdminOK, Stage, BeginRetry
  <2>2. \A b \in Admin : Delivering(b) => For(b) # q
    BY <1>2 DEF BetaInv, SendersHoldTheirAttempt, Retryable
  <2>3. /\ request' = [request EXCEPT ![q].delivery = "pending"]
        /\ invitation' = [invitation EXCEPT ![q].delivery = "pending", ![q].attempt = @ + 1]
        /\ admin' = [admin EXCEPT ![a].pc = "deliver", ![a].attempt = @ + 1]
        /\ UNCHANGED <<grant, candidate, sends, revoked, gone>>
    BY <1>2 DEF BeginRetry
  <2>4. BetaTypeOK'
    BY <2>1, <2>3 DEF BetaInv, BetaTypeOK, Delivery
  <2>5. GrantsAreEarned' /\ RequestsRepeatInvitations'
    BY <2>1, <2>3 DEF BetaInv, BetaTypeOK, AccessAgrees, GrantsAreEarned,
                      RequestsRepeatInvitations
  <2>6. SendersHoldTheirAttempt'
    <3>1. \A b \in Admin : (Delivering(b)' => b = a \/ Delivering(b)) /\ For(b)' = For(b)
      BY <2>3 DEF BetaInv, BetaTypeOK, Delivering, For
    <3> QED BY <1>2, <2>1, <2>2, <2>3, <3>1
            DEF BetaInv, BetaTypeOK, SendersHoldTheirAttempt, Delivering, For
  <2>7. ASSUME NEW b \in Admin PROVE AdminOK(b)'
    BY <2>1, <2>2, <2>3 DEF BetaInv, BetaTypeOK, AdminOK, Stage, For, SendersHoldTheirAttempt,
                            Delivering
  <2>8. ASSUME NEW r \in Request PROVE InvitationOK(r)'
    BY <1>2, <2>1, <2>3 DEF BetaInv, BetaTypeOK, InvitationOK, Retryable
  <2> QED BY <2>4, <2>5, <2>6, <2>7, <2>8 DEF BetaInv, AccessAgrees
<1> QED BY <1>1, <1>2

LEMMA DeliverKeeps ==
    ASSUME BetaInv, NEW a \in Admin, Deliver(a) PROVE BetaInv'
<1> DEFINE q == For(a)
<1>1. q \in Request /\ sends[q] < invitation[q].attempt /\ Delivering(a)
  BY DEF BetaInv, AdminOK, Stage, Deliver, Delivering
<1>2. PICK outcome \in {"sent", "failed", "failedForGood"} :
          /\ admin' = [admin EXCEPT ![a].pc = "record", ![a].outcome = outcome]
          /\ sends' = [sends EXCEPT ![q] = @ + 1]
          /\ UNCHANGED <<request, invitation, grant, candidate, revoked, gone>>
  BY DEF Deliver
<1>3. \A b \in Admin : b # a /\ Delivering(b) => For(b) # q
  BY <1>1 DEF BetaInv, SendersHoldTheirAttempt
<1>4. BetaTypeOK'
  <2>1. [admin[a] EXCEPT !.pc = "record", !.outcome = outcome] \in AdminState
    BY DEF BetaInv, BetaTypeOK, AdminState, Delivery
  <2> QED BY <1>1, <1>2, <2>1 DEF BetaInv, BetaTypeOK
<1>5. AccessAgrees'
  BY <1>2 DEF BetaInv, AccessAgrees, GrantsAreEarned, RequestsRepeatInvitations
<1>6. SendersHoldTheirAttempt'
  <2>1. \A b \in Admin : /\ For(b)' = For(b) /\ admin'[b].attempt = admin[b].attempt
                         /\ Delivering(b)' = Delivering(b)
    BY <1>1, <1>2 DEF BetaInv, BetaTypeOK, Delivering, For
  <2> QED BY <1>1, <1>2, <2>1 DEF BetaInv, BetaTypeOK, SendersHoldTheirAttempt
<1>7. ASSUME NEW b \in Admin PROVE AdminOK(b)'
  BY <1>1, <1>2, <1>3 DEF BetaInv, BetaTypeOK, AdminOK, Stage, For, Delivering
<1>8. ASSUME NEW r \in Request PROVE InvitationOK(r)'
  BY <1>2 DEF BetaInv, InvitationOK
<1> QED BY <1>4, <1>5, <1>6, <1>7, <1>8 DEF BetaInv

LEMMA RecordDeliveryKeeps ==
    ASSUME BetaInv, NEW a \in Admin, RecordDelivery(a) PROVE BetaInv'
<1> DEFINE q == For(a)
           outcome == admin[a].outcome
<1>1. /\ q \in Request /\ Delivering(a) /\ outcome \in Delivery
      /\ invitation[q].attempt = admin[a].attempt /\ invitation[q].delivery = "pending"
      /\ request[q].invitation = invitation[q].status
  BY DEF BetaInv, BetaTypeOK, AdminState, AdminOK, Stage, RecordDelivery, Delivering,
         SendersHoldTheirAttempt, AccessAgrees, RequestsRepeatInvitations
<1>2. /\ request' = [request EXCEPT ![q].invitation = invitation[q].status,
                                    ![q].delivery = outcome]
      /\ invitation' = [invitation EXCEPT ![q].status = invitation[q].status,
                                          ![q].delivery = outcome]
      /\ admin' = [admin EXCEPT ![a] = Resting]
      /\ UNCHANGED <<grant, candidate, sends, revoked, gone>>
  BY <1>1 DEF RecordDelivery, Both, Rest
<1> HIDE DEF outcome
<1>3. \A b \in Admin : Delivering(b)' => b # a /\ Delivering(b) /\ admin'[b] = admin[b]
  BY <1>2 DEF BetaInv, BetaTypeOK, Delivering, Resting
<1>4. BetaTypeOK'
  <2>1. Resting \in AdminState
    BY DEF Resting, AdminState, Delivery
  <2>2. /\ admin' \in [Admin -> AdminState]
        /\ [request[q] EXCEPT !.invitation = invitation[q].status, !.delivery = outcome] \in
               [status : {"absent", "pending", "granted"}, invitation : InvitationStatus,
                delivery : Delivery, access : {"none", "active", "revoked"}]
        /\ [invitation[q] EXCEPT !.status = invitation[q].status, !.delivery = outcome] \in
               [status : InvitationStatus, delivery : Delivery, attempt : Nat,
                redeemedBy : Player \cup {Nobody}]
    BY <1>1, <1>2, <2>1 DEF BetaInv, BetaTypeOK
  <2> QED BY <1>2, <2>2 DEF BetaInv, BetaTypeOK
<1>5. AccessAgrees'
  BY <1>1, <1>2 DEF BetaInv, BetaTypeOK, AccessAgrees, GrantsAreEarned, RequestsRepeatInvitations
<1>6. SendersHoldTheirAttempt'
  <2>1. \A b \in Admin : Delivering(b)' => For(b)' = For(b) /\ For(b) # q
    BY <1>1, <1>3 DEF BetaInv, SendersHoldTheirAttempt, For
  <2>2. /\ \A r \in Request : invitation'[r].attempt = invitation[r].attempt
        /\ \A r \in Request : r # q => invitation'[r] = invitation[r]
    BY <1>2 DEF BetaInv, BetaTypeOK
  <2>3. \A b, c \in Admin : Delivering(b)' /\ Delivering(c)' /\ For(b)' = For(c)' => b = c
    BY <1>3, <2>1 DEF BetaInv, SendersHoldTheirAttempt
  <2>4. ASSUME NEW b \in Admin, Delivering(b)'
        PROVE  /\ invitation'[For(b)'].attempt = admin'[b].attempt
               /\ invitation'[For(b)'].delivery = "pending"
    <3>1. For(b) \in Request
      BY <1>3, <2>4 DEF BetaInv, AdminOK, Stage, Delivering
    <3> QED BY <1>3, <2>1, <2>2, <2>4, <3>1 DEF BetaInv, SendersHoldTheirAttempt
  <2> QED BY <1>2, <2>2, <2>3, <2>4 DEF BetaInv, SendersHoldTheirAttempt, For
<1>7. ASSUME NEW b \in Admin PROVE AdminOK(b)'
  BY <1>1, <1>2, <1>3 DEF BetaInv, BetaTypeOK, AdminOK, Stage, For, Delivering, Resting
<1>8. ASSUME NEW r \in Request PROVE InvitationOK(r)'
  BY <1>1, <1>2 DEF BetaInv, BetaTypeOK, InvitationOK, AccessAgrees, RequestsRepeatInvitations,
                    SendersHoldTheirAttempt
<1> QED BY <1>4, <1>5, <1>6, <1>7, <1>8 DEF BetaInv

-----------------------------------------------------------------------------
(* Redemptions and revocations: neither an attempt nor a delivery changes. *)
LEMMA SendersUndisturbed ==
    ASSUME BetaInv, UNCHANGED <<admin, sends>>,
           \A q \in Request : /\ invitation'[q].attempt = invitation[q].attempt
                              /\ invitation'[q].delivery = invitation[q].delivery
    PROVE  SendersHoldTheirAttempt' /\ \A a \in Admin : AdminOK(a)'
<1>1. \A a \in Admin : Delivering(a) => For(a) \in Request
  BY DEF BetaInv, AdminOK, Stage, Delivering
<1>2. SendersHoldTheirAttempt'
  BY <1>1 DEF BetaInv, SendersHoldTheirAttempt, Delivering, For
<1>3. ASSUME NEW a \in Admin PROVE AdminOK(a)'
  BY <1>1 DEF BetaInv, AdminOK, Stage, For
<1> QED BY <1>2, <1>3

LEMMA RevokeInvitationKeeps ==
    ASSUME BetaInv, NEW q \in Request, RevokeInvitation(q) PROVE BetaInv'
<1>1. /\ invitation[q].status = "issued"
      /\ request' = [request EXCEPT ![q].invitation = "revoked",
                                    ![q].delivery = invitation[q].delivery]
      /\ invitation' = [invitation EXCEPT ![q].status = "revoked",
                                          ![q].delivery = invitation[q].delivery]
      /\ revoked' = revoked \cup {q}
      /\ UNCHANGED <<grant, admin, candidate, sends, gone>>
  BY DEF RevokeInvitation, Both
<1>2. BetaTypeOK'
  <2>1. /\ [request[q] EXCEPT !.invitation = "revoked", !.delivery = invitation[q].delivery] \in
               [status : {"absent", "pending", "granted"}, invitation : InvitationStatus,
                delivery : Delivery, access : {"none", "active", "revoked"}]
        /\ [invitation[q] EXCEPT !.status = "revoked", !.delivery = invitation[q].delivery] \in
               [status : InvitationStatus, delivery : Delivery, attempt : Nat,
                redeemedBy : Player \cup {Nobody}]
    BY DEF BetaInv, BetaTypeOK, InvitationStatus
  <2> QED BY <1>1, <2>1 DEF BetaInv, BetaTypeOK
<1>3. GrantsAreEarned'      \* an issued invitation granted nothing
  BY <1>1 DEF BetaInv, BetaTypeOK, AccessAgrees, GrantsAreEarned
<1>4. RequestsRepeatInvitations'
  BY <1>1 DEF BetaInv, BetaTypeOK, AccessAgrees, RequestsRepeatInvitations
<1>5. ASSUME NEW r \in Request PROVE InvitationOK(r)'
  BY <1>1 DEF BetaInv, BetaTypeOK, InvitationOK
<1>6. SendersHoldTheirAttempt' /\ \A a \in Admin : AdminOK(a)'
  BY <1>1, SendersUndisturbed DEF BetaInv, BetaTypeOK
<1> QED BY <1>2, <1>3, <1>4, <1>5, <1>6 DEF BetaInv, AccessAgrees

LEMMA RevokeAccessKeeps ==
    ASSUME BetaInv, NEW q \in Request, RevokeAccess(q) PROVE BetaInv'
<1> DEFINE p == invitation[q].redeemedBy
<1>1. /\ request[q].invitation = "redeemed" /\ request[q].access = "active"
      /\ grant[p] \in {q, Nobody}
      /\ request' = [request EXCEPT ![q].access = "revoked"]
      /\ grant' = [grant EXCEPT ![p] = Nobody]
      /\ revoked' = revoked \cup {q}
      /\ UNCHANGED <<invitation, admin, candidate, sends, gone>>
  BY DEF RevokeAccess
<1>2. invitation[q].status = "redeemed" /\ p \in Player
  BY <1>1 DEF BetaInv, InvitationOK
<1>3. BetaTypeOK'
  BY <1>1 DEF BetaInv, BetaTypeOK
<1>4. GrantsAreEarned'      \* only the Player that redeemed it is granted by it
  BY <1>1, <1>2, BetaAssumption DEF BetaInv, BetaTypeOK, AccessAgrees, GrantsAreEarned
<1>5. RequestsRepeatInvitations'
  BY <1>1 DEF BetaInv, BetaTypeOK, AccessAgrees, RequestsRepeatInvitations
<1>6. ASSUME NEW r \in Request PROVE InvitationOK(r)'
  BY <1>1, <1>2 DEF BetaInv, BetaTypeOK, InvitationOK
<1>7. SendersHoldTheirAttempt' /\ \A a \in Admin : AdminOK(a)'
  BY <1>1, SendersUndisturbed
<1> QED BY <1>3, <1>4, <1>5, <1>6, <1>7 DEF BetaInv, AccessAgrees

LEMMA CommitRedemptionKeeps ==
    ASSUME BetaInv, NEW p \in Player, CommitRedemption(p) PROVE BetaInv'
<1> DEFINE q == candidate[p]
<1>1. q \in Request
  BY DEF BetaInv, BetaTypeOK, CommitRedemption
<1>2. CASE ~Redeemable(p, q)
  <2>1. /\ candidate' = [candidate EXCEPT ![p] = Nobody]
        /\ UNCHANGED <<request, invitation, grant, admin, sends, revoked, gone>>
    BY <1>2 DEF CommitRedemption
  <2>2. BetaTypeOK'
    BY <2>1 DEF BetaInv, BetaTypeOK
  <2>3. AccessAgrees' /\ \A r \in Request : InvitationOK(r)'
    BY <2>1 DEF BetaInv, AccessAgrees, GrantsAreEarned, RequestsRepeatInvitations, InvitationOK
  <2>4. SendersHoldTheirAttempt' /\ \A a \in Admin : AdminOK(a)'
    BY <2>1, SendersUndisturbed
  <2> QED BY <2>2, <2>3, <2>4 DEF BetaInv
<1>3. CASE Redeemable(p, q)
  <2>1. /\ invitation[q].status = "issued" /\ grant[p] = Nobody
        /\ request' = [request EXCEPT ![q].invitation = "redeemed", ![q].access = "active"]
        /\ invitation' = [invitation EXCEPT ![q].status = "redeemed", ![q].redeemedBy = p]
        /\ grant' = [grant EXCEPT ![p] = q]
        /\ candidate' = [candidate EXCEPT ![p] = Nobody]
        /\ UNCHANGED <<admin, sends, revoked, gone>>
    BY <1>3 DEF CommitRedemption, Redeemable
  <2> HIDE DEF q
  <2>2. /\ q \notin revoked
        /\ \A other \in Player : grant[other] # q
    BY <1>1, <2>1, BetaAssumption DEF BetaInv, InvitationOK, AccessAgrees, GrantsAreEarned
  <2>3. BetaTypeOK'
    <3>1. [request[q] EXCEPT !.invitation = "redeemed", !.access = "active"] \in
              [status : {"absent", "pending", "granted"}, invitation : InvitationStatus,
               delivery : Delivery, access : {"none", "active", "revoked"}]
      BY <1>1 DEF BetaInv, BetaTypeOK, InvitationStatus
    <3>2. [invitation[q] EXCEPT !.status = "redeemed", !.redeemedBy = p] \in
              [status : InvitationStatus, delivery : Delivery, attempt : Nat,
               redeemedBy : Player \cup {Nobody}]
      BY <1>1 DEF BetaInv, BetaTypeOK, InvitationStatus
    <3> QED BY <1>1, <2>1, <3>1, <3>2 DEF BetaInv, BetaTypeOK
  <2>4. GrantsAreEarned'      \* no other invitation is active for p
    <3>1. ASSUME NEW other \in Player, grant'[other] # Nobody
          PROVE  /\ invitation'[grant'[other]].status = "redeemed"
                 /\ invitation'[grant'[other]].redeemedBy = other
                 /\ request'[grant'[other]].access = "active"
                 /\ grant'[other] \notin revoked'
      <4>1. CASE other = p
        BY <1>1, <2>1, <2>2, <4>1 DEF BetaInv, BetaTypeOK
      <4>2. CASE other # p
        BY <1>1, <2>1, <2>2, <3>1, <4>2
           DEF BetaInv, BetaTypeOK, AccessAgrees, GrantsAreEarned
      <4> QED BY <4>1, <4>2
    <3>2. ASSUME NEW r \in Request, request'[r].access = "active"
          PROVE  \/ invitation'[r].redeemedBy \in gone'
                 \/ grant'[invitation'[r].redeemedBy] = r
      <4>1. CASE r = q
        BY <1>1, <2>1, <4>1 DEF BetaInv, BetaTypeOK
      <4>2. CASE r # q
        BY <2>1, <3>2, <4>2, BetaAssumption
           DEF BetaInv, BetaTypeOK, AccessAgrees, GrantsAreEarned
      <4> QED BY <4>1, <4>2
    <3> QED BY <3>1, <3>2 DEF GrantsAreEarned
  <2>5. RequestsRepeatInvitations'
    BY <1>1, <2>1 DEF BetaInv, BetaTypeOK, AccessAgrees, RequestsRepeatInvitations
  <2>6. ASSUME NEW r \in Request PROVE InvitationOK(r)'
    BY <1>1, <2>1, <2>2 DEF BetaInv, BetaTypeOK, InvitationOK
  <2>7. SendersHoldTheirAttempt' /\ \A a \in Admin : AdminOK(a)'
    BY <1>1, <2>1, SendersUndisturbed DEF BetaInv, BetaTypeOK
  <2> QED BY <2>3, <2>4, <2>5, <2>6, <2>7 DEF BetaInv, AccessAgrees
<1> QED BY <1>2, <1>3

LEMMA AccountDeletedKeeps ==
    ASSUME BetaInv, NEW p \in Player, AccountDeleted(p) PROVE BetaInv'
<1>1. /\ gone' = gone \cup {p} /\ grant' = [grant EXCEPT ![p] = Nobody]
      /\ UNCHANGED <<request, invitation, admin, candidate, sends, revoked>>
  BY DEF AccountDeleted
<1>2. BetaTypeOK'
  BY <1>1 DEF BetaInv, BetaTypeOK, AccountDeleted
<1>3. AccessAgrees'
  BY <1>1 DEF BetaInv, BetaTypeOK, AccessAgrees, GrantsAreEarned, RequestsRepeatInvitations
<1>4. SendersHoldTheirAttempt' /\ \A a \in Admin : AdminOK(a)'
  BY <1>1, SendersUndisturbed
<1>5. ASSUME NEW q \in Request PROVE InvitationOK(q)'
  BY <1>1 DEF BetaInv, InvitationOK
<1> QED BY <1>2, <1>3, <1>4, <1>5 DEF BetaInv

-----------------------------------------------------------------------------
LEMMA BetaStep == BetaInv /\ [BetaNext]_betaVars => BetaInv'
<1> SUFFICES ASSUME BetaInv, [BetaNext]_betaVars PROVE BetaInv'
  OBVIOUS
<1>1. ASSUME NEW q \in Request, Submit(q) \/ RevokeInvitation(q) \/ RevokeAccess(q)
      PROVE  BetaInv'
  BY <1>1, SubmitKeeps, RevokeInvitationKeeps, RevokeAccessKeeps
<1>2. ASSUME NEW a \in Admin, NEW q \in Request, StartGrant(a, q) \/ StartRetry(a, q)
      PROVE  BetaInv'
  BY <1>2, StartGrantKeeps, StartRetryKeeps
<1>3. ASSUME NEW a \in Admin,
             CommitGrant(a) \/ BeginRetry(a) \/ Deliver(a) \/ RecordDelivery(a) \/ AdminDies(a)
      PROVE  BetaInv'
  BY <1>3, CommitGrantKeeps, BeginRetryKeeps, DeliverKeeps, RecordDeliveryKeeps, RestKeeps
     DEF AdminDies
<1>4. ASSUME NEW p \in Player, NEW q \in Request, PresentCode(p, q)
      PROVE  BetaInv'
  BY <1>4, PresentCodeKeeps
<1>5. ASSUME NEW p \in Player, CommitRedemption(p) \/ AccountDeleted(p)
      PROVE  BetaInv'
  BY <1>5, CommitRedemptionKeeps, AccountDeletedKeeps
<1>6. CASE UNCHANGED betaVars
  BY <1>6 DEF BetaInv, BetaTypeOK, AccessAgrees, GrantsAreEarned, RequestsRepeatInvitations,
              SendersHoldTheirAttempt, Delivering, For, AdminOK, Stage, InvitationOK, betaVars
<1> QED BY <1>1, <1>2, <1>3, <1>4, <1>5, <1>6 DEF BetaNext

LEMMA BetaInvHolds == BetaSpec => []BetaInv
BY BetaInitInv, BetaStep, PTL DEF BetaSpec

(* A Player has access by one invitation that they redeemed and that was   *)
(* never revoked, and every request agrees with its invitation, whatever   *)
(* administrators and Players do between the transactions of each other.   *)
THEOREM BetaAccessAgrees == BetaSpec => []AccessAgrees
BY BetaInvHolds, PTL DEF BetaInv

(* One call delivers an invitation at a time, under the attempt that the   *)
(* database names, whatever calls died before it.                          *)
THEOREM BetaSendersHoldTheirAttempt == BetaSpec => []SendersHoldTheirAttempt
BY BetaInvHolds, PTL DEF BetaInv

-----------------------------------------------------------------------------
(* Account deletion.                                                       *)
USE DEF MarkersWritten, CapturesWithdrawn, ApplicationDataDeleted, OAuthGrantsRevoked,
        FirebaseTokensRevoked, FirebaseIdentityDeleted, Phase, Environment

(* A marker is to be purged only when every token is invalid.              *)
OutlivesTokens(purgeAt) == purgeAt # 0 => IdentityGone /\ tokensEnd < purgeAt

MarkerOK(e) ==
    /\ marker[e] \in Marker
    /\ marker[e] # NoMarker => marker[e].phase \in Phase
    /\ OutlivesTokens(marker[e].purgeAt)
    /\ stepsDone # {} /\ TokensValid => marker[e] # NoMarker

(* What a run goes by was done, also the step that it records; and once it *)
(* is past a marker, the marker is there as long as tokens are.            *)
RunState == [pc : RunPC, phase : 0..FirebaseIdentityDeleted, purgeAt : Nat]
RunOK(r) ==
    LET run == sagaRun[r]
    IN  /\ run \in RunState
        /\ \A p \in CapturesWithdrawn..run.phase : p \in stepsDone
        /\ run.pc = "staging" => run.phase \in Phase
        /\ run.pc = "work" => run.phase \in MarkersWritten..FirebaseTokensRevoked
        /\ run.pc = "record" => /\ run.phase \in MarkersWritten..OAuthGrantsRevoked
                                /\ run.phase + 1 \in stepsDone
        /\ run.pc \in {"complete", "completeStaging", "completeProduction"} => IdentityGone
        /\ run.pc \in {"completeStaging", "completeProduction"} => run.purgeAt # 0
        /\ OutlivesTokens(run.purgeAt)
        /\ TokensValid =>
              /\ run.pc = "staging" => marker["production"] # NoMarker
              /\ run.pc \in {"work", "record", "complete", "completeStaging",
                             "completeProduction"} =>
                     \A e \in Environment : marker[e] # NoMarker

Progress ==
    /\ hour \in Nat /\ failures \in Nat /\ tokensEnd \in Nat
    /\ stepsDone \in SUBSET Phase
    /\ IdentityGone => tokensEnd <= hour + 1
    /\ MarkerIsTrue

DeletionInv ==
    /\ Progress
    /\ marker = [e \in Environment |-> marker[e]] /\ \A e \in Environment : MarkerOK(e)
    /\ sagaRun = [r \in Runner |-> sagaRun[r]] /\ \A r \in Runner : RunOK(r)

-----------------------------------------------------------------------------
LEMMA DeletionInitInv == DeletionInit => DeletionInv
<1> SUFFICES ASSUME DeletionInit PROVE DeletionInv
  OBVIOUS
<1>1. Progress
  BY DEF DeletionInit, Progress, MarkerIsTrue, IdentityGone, NoMarker
<1>2. ASSUME NEW e \in Environment PROVE MarkerOK(e)
  BY DEF DeletionInit, MarkerOK, Marker, NoMarker, OutlivesTokens
<1>3. ASSUME NEW r \in Runner PROVE RunOK(r)
  BY DEF DeletionInit, RunOK, RunState, RunPC, NotRunning, OutlivesTokens
<1> QED BY <1>1, <1>2, <1>3 DEF DeletionInit, DeletionInv

(* What only grows, from which a run that takes no step is still right.    *)
Onward ==
    /\ stepsDone \subseteq stepsDone'
    /\ IdentityGone => tokensEnd' = tokensEnd
    /\ TokensValid' => TokensValid
    /\ \A e \in Environment : TokensValid' /\ marker[e] # NoMarker => marker'[e] # NoMarker

LEMMA OutlivesOnward ==
    ASSUME Onward, NEW purgeAt, OutlivesTokens(purgeAt)
    PROVE  OutlivesTokens(purgeAt)'
BY DEF Onward, OutlivesTokens, IdentityGone

LEMMA RunOnward ==
    ASSUME Onward, NEW r \in Runner, RunOK(r), sagaRun'[r] = sagaRun[r]
    PROVE  RunOK(r)'
<1>1. OutlivesTokens(sagaRun[r].purgeAt)'
  BY DEF RunOK, Onward, OutlivesTokens, IdentityGone
<1> QED BY <1>1 DEF RunOK, Onward, IdentityGone

(* A step of run r is right if it is for r, the markers and the progress.  *)
LEMMA StepKeeps ==
    ASSUME DeletionInv, NEW r \in Runner, NEW run,
           Onward, sagaRun' = [sagaRun EXCEPT ![r] = run], RunOK(r)',
           Progress', marker' = [e \in Environment |-> marker'[e]],
           \A e \in Environment : MarkerOK(e)'
    PROVE  DeletionInv'
<1>1. ASSUME NEW s \in Runner PROVE RunOK(s)'
  <2>1. CASE s = r
    BY <2>1
  <2>2. CASE s # r
    BY <2>2, RunOnward DEF DeletionInv
  <2> QED BY <2>1, <2>2
<1>2. sagaRun' = [s \in Runner |-> sagaRun'[s]]
  BY DEF DeletionInv
<1> QED BY <1>1, <1>2 DEF DeletionInv

(* So is a step of r that leaves all but the run alone.                    *)
LEMMA QuietStepKeeps ==
    ASSUME DeletionInv, NEW r \in Runner, NEW run,
           sagaRun' = [sagaRun EXCEPT ![r] = run], RunOK(r)',
           failures' \in Nat, UNCHANGED <<hour, marker, outside>>
    PROVE  DeletionInv'
<1>1. Onward
  BY DEF Onward, outside, TokensValid, IdentityGone
<1>2. Progress'
  BY DEF DeletionInv, Progress, outside, IdentityGone, MarkerIsTrue
<1>3. ASSUME NEW e \in Environment PROVE MarkerOK(e)'
  BY DEF DeletionInv, MarkerOK, outside, TokensValid, IdentityGone, OutlivesTokens
<1>4. marker' = [e \in Environment |-> marker'[e]]
  BY DEF DeletionInv
<1> QED BY <1>1, <1>2, <1>3, <1>4, StepKeeps

(* A run that ends goes by nothing.                                        *)
LEMMA RestIsOK ==
    ASSUME NEW r \in Runner, sagaRun'[r] = NotRunning
    PROVE  RunOK(r)'
BY DEF RunOK, RunState, RunPC, NotRunning, OutlivesTokens

-----------------------------------------------------------------------------
(* Both exits of Continue: the next step, or the end.                      *)
LEMMA ContinueIsOK ==
    ASSUME DeletionInv, NEW r \in Runner, NEW m, Continue(r, m),
           m.phase \in Phase, m.purgeAt \in Nat,
           \A p \in CapturesWithdrawn..m.phase : p \in stepsDone',
           OutlivesTokens(m.purgeAt)',
           TokensValid' => \A e \in Environment : marker'[e] # NoMarker
    PROVE  /\ RunOK(r)'
           /\ \E run : sagaRun' = [sagaRun EXCEPT ![r] = run]
<1>1. CASE m.phase = FirebaseIdentityDeleted
  BY <1>1, RestIsOK DEF DeletionInv, Continue, Ends
<1>2. CASE m.phase # FirebaseIdentityDeleted
  <2>1. /\ sagaRun'[r] = [pc |-> "work", phase |-> m.phase, purgeAt |-> m.purgeAt]
        /\ \E run : sagaRun' = [sagaRun EXCEPT ![r] = run]
    BY <1>2 DEF DeletionInv, Continue, GoesBy
  <2>2. RunOK(r)'
    BY <1>2, <2>1 DEF RunOK, RunState, RunPC, OutlivesTokens
  <2> QED BY <2>1, <2>2
<1> QED BY <1>1, <1>2

LEMMA HourKeeps == ASSUME DeletionInv, Hour PROVE DeletionInv'
<1>1. Onward
  BY DEF DeletionInv, Progress, Hour, Onward, outside, TokensValid, IdentityGone
<1>2. Progress'
  BY DEF DeletionInv, Progress, Hour, outside, IdentityGone, MarkerIsTrue
<1>3. ASSUME NEW e \in Environment PROVE MarkerOK(e)'
  BY <1>1 DEF DeletionInv, MarkerOK, Hour, Onward, outside, IdentityGone, OutlivesTokens
<1>4. ASSUME NEW r \in Runner PROVE RunOK(r)'
  BY <1>1, RunOnward DEF DeletionInv, Hour
<1> QED BY <1>2, <1>3, <1>4 DEF DeletionInv, Hour

LEMMA RequestDeletionKeeps ==
    ASSUME DeletionInv, NEW r \in Runner, RequestDeletion(r) PROVE DeletionInv'
<1>1. sagaRun'[r] = [sagaRun[r] EXCEPT !.pc = "production"]
  BY DEF DeletionInv, RequestDeletion, Proceeds
<1>2. RunOK(r)'
  BY <1>1 DEF DeletionInv, RequestDeletion, RunOK, RunState, RunPC, outside, OutlivesTokens,
              IdentityGone
<1> QED BY <1>2, QuietStepKeeps DEF DeletionInv, Progress, RequestDeletion, Proceeds

LEMMA ResumeIncompleteKeeps ==
    ASSUME DeletionInv, NEW r \in Runner, ResumeIncomplete(r) PROVE DeletionInv'
<1>1. sagaRun'[r] = [sagaRun[r] EXCEPT !.pc = "production"]
  BY DEF DeletionInv, ResumeIncomplete, Proceeds
<1>2. RunOK(r)'
  BY <1>1 DEF DeletionInv, ResumeIncomplete, RunOK, RunState, RunPC, outside, OutlivesTokens,
              IdentityGone
<1> QED BY <1>2, QuietStepKeeps DEF DeletionInv, Progress, ResumeIncomplete, Proceeds

LEMMA EnsureProductionMarkerKeeps ==
    ASSUME DeletionInv, NEW r \in Runner, EnsureProductionMarker(r) PROVE DeletionInv'
<1> DEFINE m == IF marker["production"] = NoMarker
                THEN [phase |-> MarkersWritten, purgeAt |-> 0] ELSE marker["production"]
<1>1. /\ marker' = [marker EXCEPT !["production"] = m]
      /\ sagaRun' = [sagaRun EXCEPT ![r] =
             [pc |-> "staging", phase |-> m.phase, purgeAt |-> m.purgeAt]]
      /\ UNCHANGED <<hour, stepsDone, tokensEnd, failures>>
  BY DEF EnsureProductionMarker, GoesBy, outside
<1>2. /\ m \in Marker /\ m.phase \in Phase /\ OutlivesTokens(m.purgeAt)
      /\ m # NoMarker /\ \A p \in CapturesWithdrawn..m.phase : p \in stepsDone
  BY DEF DeletionInv, Progress, MarkerOK, MarkerIsTrue, Marker, NoMarker, OutlivesTokens
<1> HIDE DEF m
<1>3. Onward
  BY <1>1, <1>2 DEF DeletionInv, Onward, TokensValid, IdentityGone
<1>4. marker'["production"] = m /\ marker'["staging"] = marker["staging"]
  BY <1>1 DEF DeletionInv
<1>5. Progress'
  BY <1>1, <1>2, <1>4 DEF DeletionInv, Progress, MarkerIsTrue, IdentityGone
<1>6. ASSUME NEW e \in Environment PROVE MarkerOK(e)'
  BY <1>1, <1>2, <1>4 DEF DeletionInv, MarkerOK, OutlivesTokens, IdentityGone, TokensValid
<1>7. RunOK(r)'
  <2>1. sagaRun'[r] = [pc |-> "staging", phase |-> m.phase, purgeAt |-> m.purgeAt]
    BY <1>1 DEF DeletionInv
  <2> QED BY <1>1, <1>2, <1>4, <2>1
          DEF RunOK, RunState, RunPC, Marker, OutlivesTokens, IdentityGone
<1>8. marker' = [e \in Environment |-> marker'[e]]
  BY <1>1 DEF DeletionInv
<1> QED BY <1>1, <1>3, <1>5, <1>6, <1>7, <1>8, StepKeeps

LEMMA EnsureStagingMarkerKeeps ==
    ASSUME DeletionInv, NEW r \in Runner, EnsureStagingMarker(r) PROVE DeletionInv'
<1> DEFINE m == [phase |-> sagaRun[r].phase, purgeAt |-> sagaRun[r].purgeAt]
<1>1. /\ RunAt(r, "staging") /\ Continue(r, m)
      /\ marker' = IF marker["staging"] = NoMarker
                   THEN [marker EXCEPT !["staging"] = m] ELSE marker
      /\ UNCHANGED <<hour, stepsDone, tokensEnd, failures>>
  BY DEF EnsureStagingMarker, outside
<1>2. /\ m \in Marker /\ m.phase \in Phase /\ m.purgeAt \in Nat /\ OutlivesTokens(m.purgeAt)
      /\ m # NoMarker /\ \A p \in CapturesWithdrawn..m.phase : p \in stepsDone
      /\ TokensValid => marker["production"] # NoMarker
  BY <1>1 DEF DeletionInv, RunOK, RunState, RunAt, Marker, NoMarker
<1> HIDE DEF m
<1>3. /\ marker'["staging"] = (IF marker["staging"] = NoMarker THEN m ELSE marker["staging"])
      /\ marker'["production"] = marker["production"]
      /\ marker' = [e \in Environment |-> marker'[e]]
  BY <1>1 DEF DeletionInv
<1>4. Onward
  BY <1>1, <1>2, <1>3 DEF DeletionInv, Onward, TokensValid, IdentityGone
<1>5. Progress'
  BY <1>1, <1>3 DEF DeletionInv, Progress, MarkerIsTrue, IdentityGone
<1>6. ASSUME NEW e \in Environment PROVE MarkerOK(e)'
  BY <1>1, <1>2, <1>3 DEF DeletionInv, MarkerOK, OutlivesTokens, IdentityGone, TokensValid
<1>7. TokensValid' => \A e \in Environment : marker'[e] # NoMarker
  BY <1>1, <1>2, <1>3 DEF TokensValid, IdentityGone
<1>8. RunOK(r)' /\ \E run : sagaRun' = [sagaRun EXCEPT ![r] = run]
  BY <1>1, <1>2, <1>4, <1>7, ContinueIsOK DEF OutlivesTokens, IdentityGone
<1> QED BY <1>3, <1>4, <1>5, <1>6, <1>8, StepKeeps

LEMMA WorkKeeps ==
    ASSUME DeletionInv, NEW r \in Runner, Work(r) PROVE DeletionInv'
<1> DEFINE pc == IF Step(r) = FirebaseIdentityDeleted THEN "complete" ELSE "record"
<1>1. /\ RunAt(r, "work")
      /\ stepsDone' = stepsDone \cup {Step(r)}
      /\ tokensEnd' = (IF Step(r) = FirebaseIdentityDeleted /\ ~IdentityGone
                       THEN hour + 1 ELSE tokensEnd)
      /\ sagaRun' = [sagaRun EXCEPT ![r] = [sagaRun[r] EXCEPT !.pc = pc]]
      /\ UNCHANGED <<hour, marker, failures>>
  BY DEF DeletionInv, Work, Proceeds
<1>2. /\ Step(r) = sagaRun[r].phase + 1 /\ Step(r) \in CapturesWithdrawn..FirebaseIdentityDeleted
      /\ \A p \in CapturesWithdrawn..sagaRun[r].phase : p \in stepsDone
      /\ TokensValid => \A e \in Environment : marker[e] # NoMarker
  BY <1>1 DEF DeletionInv, RunOK, RunAt, Step
<1>3. /\ IdentityGone' => /\ CapturesWithdrawn..FirebaseTokensRevoked \subseteq stepsDone
                          /\ tokensEnd' <= hour' + 1
      /\ IdentityGone => IdentityGone' /\ tokensEnd' = tokensEnd
  <2>1. CASE IdentityGone
    BY <1>1, <2>1 DEF DeletionInv, Progress, MarkerIsTrue, IdentityGone
  <2>2. CASE ~IdentityGone /\ Step(r) = FirebaseIdentityDeleted
    <3>1. sagaRun[r].phase = FirebaseTokensRevoked
      BY <1>2, <2>2 DEF DeletionInv, RunOK, RunState
    <3> QED BY <1>1, <1>2, <2>2, <3>1 DEF DeletionInv, Progress
  <2>3. CASE ~IdentityGone /\ Step(r) # FirebaseIdentityDeleted
    BY <1>1, <1>2, <2>3 DEF IdentityGone
  <2> QED BY <2>1, <2>2, <2>3
<1>4. Onward
  BY <1>1, <1>3 DEF Onward, TokensValid
<1>5. Progress'
  BY <1>1, <1>2, <1>3 DEF DeletionInv, Progress, MarkerIsTrue
<1>6. ASSUME NEW e \in Environment PROVE MarkerOK(e)'
  BY <1>1, <1>2, <1>3, <1>4 DEF DeletionInv, MarkerOK, OutlivesTokens, Onward
<1>7. RunOK(r)'
  <2>1. sagaRun'[r] = [sagaRun[r] EXCEPT !.pc = pc]
    BY <1>1 DEF DeletionInv
  <2>2. pc = "complete" => IdentityGone'
    <3>1. pc = "complete" => Step(r) = FirebaseIdentityDeleted
      OBVIOUS
    <3> QED BY <1>1, <3>1 DEF IdentityGone
  <2>3. pc = "record" => sagaRun[r].phase \in MarkersWritten..OAuthGrantsRevoked
    <3>1. pc = "record" => Step(r) # FirebaseIdentityDeleted
      OBVIOUS
    <3>2. sagaRun[r].phase \in Nat
      BY DEF DeletionInv, RunOK, RunState
    <3> QED BY <1>2, <3>1, <3>2
  <2>4. OutlivesTokens(sagaRun[r].purgeAt)'
    BY <1>1, <1>3, <2>1 DEF DeletionInv, RunOK, RunState, OutlivesTokens
  <2> QED BY <1>1, <1>2, <1>4, <2>1, <2>2, <2>3, <2>4
          DEF DeletionInv, RunOK, RunState, RunPC, RunAt, Onward
<1>8. marker' = [e \in Environment |-> marker'[e]]
  BY <1>1 DEF DeletionInv
<1> QED BY <1>1, <1>4, <1>5, <1>6, <1>7, <1>8, StepKeeps

LEMMA AdvanceKeeps ==
    ASSUME DeletionInv, NEW r \in Runner, Advance(r) PROVE DeletionInv'
<1> DEFINE m == [marker["production"] EXCEPT !.phase = IF @ >= Step(r) THEN @ ELSE Step(r)]
<1>1. /\ RunAt(r, "record") /\ marker["production"] # NoMarker /\ Continue(r, m)
      /\ marker' = [marker EXCEPT !["production"] = m]
      /\ UNCHANGED <<hour, stepsDone, tokensEnd, failures>>
  BY DEF Advance, outside
<1>2. /\ marker["production"] \in Marker /\ marker["production"].phase \in Phase
      /\ Step(r) \in Phase /\ \A p \in CapturesWithdrawn..Step(r) : p \in stepsDone
  BY <1>1 DEF DeletionInv, MarkerOK, RunOK, RunState, RunAt, Step
<1>3. /\ m \in Marker /\ m.phase \in Phase /\ m.purgeAt \in Nat /\ OutlivesTokens(m.purgeAt)
      /\ m # NoMarker /\ \A p \in CapturesWithdrawn..m.phase : p \in stepsDone
  BY <1>2 DEF DeletionInv, Progress, MarkerOK, MarkerIsTrue, Marker, NoMarker
<1> HIDE DEF m
<1>4. /\ marker'["production"] = m /\ marker'["staging"] = marker["staging"]
      /\ marker' = [e \in Environment |-> marker'[e]]
  BY <1>1 DEF DeletionInv
<1>5. Onward
  BY <1>1, <1>3, <1>4 DEF Onward, TokensValid, IdentityGone
<1>6. Progress'
  BY <1>1, <1>3, <1>4 DEF DeletionInv, Progress, MarkerIsTrue, IdentityGone
<1>7. ASSUME NEW e \in Environment PROVE MarkerOK(e)'
  BY <1>1, <1>3, <1>4 DEF DeletionInv, MarkerOK, OutlivesTokens, IdentityGone, TokensValid
<1>8. TokensValid' => \A e \in Environment : marker'[e] # NoMarker
  BY <1>1, <1>3, <1>4 DEF DeletionInv, RunOK, RunAt, TokensValid, IdentityGone
<1>9. RunOK(r)' /\ \E run : sagaRun' = [sagaRun EXCEPT ![r] = run]
  BY <1>1, <1>3, <1>8, ContinueIsOK DEF OutlivesTokens, IdentityGone
<1> QED BY <1>4, <1>5, <1>6, <1>7, <1>9, StepKeeps

(* A marker that is completed is purged after the last token.              *)
LEMMA CompletedIsOK ==
    ASSUME DeletionInv, IdentityGone, NEW e \in Environment, marker[e] # NoMarker,
           NEW purgeAt \in Nat, purgeAt # 0, OutlivesTokens(purgeAt),
           marker' = [marker EXCEPT ![e] = Completed(marker[e], purgeAt)],
           UNCHANGED <<hour, stepsDone, tokensEnd, failures>>
    PROVE  /\ Onward /\ Progress' /\ \A d \in Environment : MarkerOK(d)'
           /\ marker' = [d \in Environment |-> marker'[d]]
<1>1. /\ marker'[e] = Completed(marker[e], purgeAt)
      /\ \A d \in Environment : d # e => marker'[d] = marker[d]
      /\ marker' = [d \in Environment |-> marker'[d]]
  BY DEF DeletionInv
<1>2. /\ Completed(marker[e], purgeAt) \in Marker
      /\ Completed(marker[e], purgeAt).phase = FirebaseIdentityDeleted
      /\ Completed(marker[e], purgeAt) # NoMarker
      /\ OutlivesTokens(Completed(marker[e], purgeAt).purgeAt)
  BY DEF DeletionInv, MarkerOK, Completed, Marker, NoMarker
<1>3. Onward
  BY <1>1, <1>2 DEF Onward, TokensValid, IdentityGone
<1>4. Progress'
  BY <1>1, <1>2 DEF DeletionInv, Progress, MarkerIsTrue, IdentityGone
<1>5. ASSUME NEW d \in Environment PROVE MarkerOK(d)'
  BY <1>1, <1>2 DEF DeletionInv, MarkerOK, OutlivesTokens, IdentityGone, TokensValid
<1> QED BY <1>1, <1>3, <1>4, <1>5

LEMMA ReadClockKeeps ==      \* the identity is gone, and its tokens within an hour
    ASSUME DeletionInv, NEW r \in Runner, ReadClock(r) PROVE DeletionInv'
<1>1. /\ RunAt(r, "complete")
      /\ sagaRun' = [sagaRun EXCEPT ![r] =
             [sagaRun[r] EXCEPT !.pc = "completeStaging", !.purgeAt = hour + 2]]
      /\ UNCHANGED <<hour, marker, stepsDone, tokensEnd, failures>>
  BY DEF DeletionInv, ReadClock, outside
<1>2. IdentityGone /\ hour + 2 \in Nat /\ hour + 2 # 0 /\ OutlivesTokens(hour + 2)
  BY <1>1 DEF DeletionInv, Progress, RunOK, RunAt, OutlivesTokens
<1>3. RunOK(r)'
  <2>1. sagaRun'[r] = [sagaRun[r] EXCEPT !.pc = "completeStaging", !.purgeAt = hour + 2]
    BY <1>1 DEF DeletionInv
  <2> QED BY <1>1, <1>2, <2>1
          DEF DeletionInv, RunOK, RunState, RunPC, RunAt, OutlivesTokens, IdentityGone, TokensValid
<1> QED BY <1>1, <1>3, QuietStepKeeps DEF DeletionInv, Progress, outside

LEMMA CompleteStagingKeeps ==
    ASSUME DeletionInv, NEW r \in Runner, CompleteStaging(r) PROVE DeletionInv'
<1>1. /\ RunAt(r, "completeStaging") /\ marker["staging"] # NoMarker
      /\ marker' = [marker EXCEPT !["staging"] =
             Completed(marker["staging"], sagaRun[r].purgeAt)]
      /\ sagaRun' = [sagaRun EXCEPT ![r] = [sagaRun[r] EXCEPT !.pc = "completeProduction"]]
      /\ UNCHANGED <<hour, stepsDone, tokensEnd, failures>>
  BY DEF DeletionInv, CompleteStaging, Proceeds, outside
<1>2. /\ IdentityGone /\ sagaRun[r].purgeAt \in Nat /\ sagaRun[r].purgeAt # 0
      /\ OutlivesTokens(sagaRun[r].purgeAt)
  BY <1>1 DEF DeletionInv, RunOK, RunState, RunAt
<1>3. /\ Onward /\ Progress' /\ \A e \in Environment : MarkerOK(e)'
      /\ marker' = [e \in Environment |-> marker'[e]]
  BY <1>1, <1>2, CompletedIsOK
<1>4. RunOK(r)'
  <2>1. sagaRun'[r] = [sagaRun[r] EXCEPT !.pc = "completeProduction"]
    BY <1>1 DEF DeletionInv
  <2> QED BY <1>1, <1>2, <1>3, <2>1
          DEF DeletionInv, RunOK, RunState, RunPC, RunAt, Onward, OutlivesTokens, IdentityGone
<1> QED BY <1>1, <1>3, <1>4, StepKeeps

LEMMA CompleteProductionKeeps ==
    ASSUME DeletionInv, NEW r \in Runner, CompleteProduction(r) PROVE DeletionInv'
<1>1. /\ RunAt(r, "completeProduction") /\ marker["production"] # NoMarker
      /\ marker' = [marker EXCEPT !["production"] =
             Completed(marker["production"], sagaRun[r].purgeAt)]
      /\ sagaRun' = [sagaRun EXCEPT ![r] = NotRunning]
      /\ UNCHANGED <<hour, stepsDone, tokensEnd, failures>>
  BY DEF DeletionInv, CompleteProduction, Ends, outside
<1>2. /\ IdentityGone /\ sagaRun[r].purgeAt \in Nat /\ sagaRun[r].purgeAt # 0
      /\ OutlivesTokens(sagaRun[r].purgeAt)
  BY <1>1 DEF DeletionInv, RunOK, RunState, RunAt
<1>3. /\ Onward /\ Progress' /\ \A e \in Environment : MarkerOK(e)'
      /\ marker' = [e \in Environment |-> marker'[e]]
  BY <1>1, <1>2, CompletedIsOK
<1>4. RunOK(r)'
  BY <1>1, RestIsOK DEF DeletionInv
<1> QED BY <1>1, <1>3, <1>4, StepKeeps

LEMMA RunErrsKeeps ==
    ASSUME DeletionInv, NEW r \in Runner, RunErrs(r) PROVE DeletionInv'
<1>1. RunOK(r)'
  BY RestIsOK DEF DeletionInv, RunErrs, Ends
<1> QED BY <1>1, QuietStepKeeps DEF DeletionInv, Progress, RunErrs, Ends

LEMMA RunFailsKeeps ==
    ASSUME DeletionInv, NEW r \in Runner, RunFails(r) PROVE DeletionInv'
<1>1. RunOK(r)'
  BY RestIsOK DEF DeletionInv, RunFails, Ends
<1> QED BY <1>1, QuietStepKeeps DEF DeletionInv, Progress, RunFails, Ends

LEMMA PurgeMarkerKeeps ==
    ASSUME DeletionInv, NEW e \in Environment, PurgeMarker(e) PROVE DeletionInv'
<1>1. /\ marker' = [marker EXCEPT ![e] = NoMarker]
      /\ UNCHANGED <<hour, sagaRun, stepsDone, tokensEnd, failures>>
  BY DEF PurgeMarker, outside
<1>2. ~TokensValid'     \* the purge is due only then
  BY <1>1 DEF DeletionInv, Progress, MarkerOK, Marker, OutlivesTokens, PurgeMarker, Purged,
              TokensValid, IdentityGone
<1>3. /\ marker'[e] = NoMarker
      /\ \A d \in Environment : d # e => marker'[d] = marker[d]
      /\ marker' = [d \in Environment |-> marker'[d]]
  BY <1>1 DEF DeletionInv
<1>4. Onward
  BY <1>1, <1>2 DEF Onward
<1>5. Progress'
  BY <1>1, <1>3 DEF DeletionInv, Progress, MarkerIsTrue, IdentityGone, NoMarker
<1>6. ASSUME NEW d \in Environment PROVE MarkerOK(d)'
  BY <1>1, <1>2, <1>3 DEF DeletionInv, MarkerOK, OutlivesTokens, IdentityGone, NoMarker, Marker
<1>7. ASSUME NEW r \in Runner PROVE RunOK(r)'
  BY <1>1, <1>4, RunOnward DEF DeletionInv
<1> QED BY <1>1, <1>3, <1>5, <1>6, <1>7 DEF DeletionInv

-----------------------------------------------------------------------------
LEMMA DeletionStep == DeletionInv /\ [DeletionNext]_sagaVars => DeletionInv'
<1> SUFFICES ASSUME DeletionInv, [DeletionNext]_sagaVars PROVE DeletionInv'
  OBVIOUS
<1>1. CASE Hour
  BY <1>1, HourKeeps
<1>2. ASSUME NEW r \in Runner, RequestDeletion(r) \/ SagaStep(r) \/ RunFails(r)
      PROVE  DeletionInv'
  BY <1>2, RequestDeletionKeeps, RunFailsKeeps, ResumeIncompleteKeeps,
     EnsureProductionMarkerKeeps, EnsureStagingMarkerKeeps, WorkKeeps, AdvanceKeeps,
     ReadClockKeeps, CompleteStagingKeeps, CompleteProductionKeeps, RunErrsKeeps DEF SagaStep
<1>3. CASE \E e \in Environment : PurgeMarker(e)
  BY <1>3, PurgeMarkerKeeps
<1>4. CASE UNCHANGED sagaVars
  BY <1>4 DEF DeletionInv, Progress, MarkerIsTrue, MarkerOK, RunOK, OutlivesTokens, IdentityGone,
              TokensValid, sagaVars, outside
<1> QED BY <1>1, <1>2, <1>3, <1>4 DEF DeletionNext

LEMMA DeletionInvImplies == DeletionInv => DeletionTypeOK /\ DeletionInOrder
<1> SUFFICES ASSUME DeletionInv PROVE DeletionTypeOK /\ DeletionInOrder
  OBVIOUS
<1>1. DeletionTypeOK
  BY DEF DeletionInv, Progress, MarkerOK, RunOK, RunState, DeletionTypeOK
<1>2. MarkerIsTrue
  BY DEF DeletionInv, Progress
<1>3. NobodyLetIn
  BY DEF DeletionInv, Progress, MarkerOK, OutlivesTokens, NobodyLetIn, LetsIn, Purged, TokensValid,
         Marker
<1> QED BY <1>1, <1>2, <1>3 DEF DeletionInOrder

(* The variables of a deletion keep their types, whatever runs race,       *)
(* fail or find the marker purged.                                         *)
THEOREM DeletionTypesHold == DeletionSpec => []DeletionTypeOK
<1>1. DeletionSpec => []DeletionInv
  BY DeletionInitInv, DeletionStep, PTL DEF DeletionSpec
<1> QED BY <1>1, DeletionInvImplies, PTL

(* A deletion goes in order, whatever runs resume it side by side: the     *)
(* marker claims no step that was not done, the identity goes last, and    *)
(* from the first step to the last valid token both markers keep the       *)
(* Player out (ensure_player_active).                                      *)
THEOREM DeletionGoesInOrder == DeletionSpec => []DeletionInOrder
<1>1. DeletionSpec => []DeletionInv
  BY DeletionInitInv, DeletionStep, PTL DEF DeletionSpec
<1> QED BY <1>1, DeletionInvImplies, PTL

===============================================================================
