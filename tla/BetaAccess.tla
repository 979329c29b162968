------------------------------- MODULE BetaAccess -------------------------------
(***************************************************************************)
(* Beta access: a request for an address is granted by an administrator    *)
(* with an invitation, which is emailed, and which one Player redeems for  *)
(* a grant.  The request repeats what its invitation says; every operation *)
(* is a transaction over the documents it names, between which other       *)
(* operations run.                                                         *)
(***************************************************************************)
EXTENDS Players, Integers

CONSTANTS
    Request,       \* requests, each for an address of its own
    VerifiedFor,   \* VerifiedFor[p]: requests whose address Player p may sign in with
    Nobody,        \* no Player, and no request
    Admin,         \* calls of grant and retry_delivery
    MaxAttempts    \* bound: attempts to deliver an invitation

ASSUME BetaAssumption ==
    /\ VerifiedFor \in [Player -> SUBSET Request]
    /\ Nobody \notin Player /\ Nobody \notin Request
    /\ MaxAttempts \in Nat \ {0}

VARIABLES
    request,       \* request[q]: the request, with what it repeats of its invitation
    invitation,    \* invitation[q]: the invitation to request q
    grant,         \* grant[p]: the request whose invitation grants access to Player p
    admin,         \* admin[a]: where call a is
    candidate,     \* candidate[p]: the invitation that Player p is about to redeem
    sends,         \* history: how often the invitation to q was handed to the provider
    revoked,       \* history: requests whose invitation or access was revoked
    gone           \* Players whose account was deleted

betaVars == <<request, invitation, grant, admin, candidate, sends, revoked, gone>>

InvitationStatus == {"none", "issued", "revoked", "redeemed"}
Delivery == {"none", "pending", "sent", "failed", "failedForGood"}
AdminState ==
    [pc : {"idle", "commit", "begin", "deliver", "record"},
     request : Request \cup {Nobody}, attempt : Nat, outcome : Delivery]
BetaTypeOK ==
    /\ request \in [Request -> [status : {"absent", "pending", "granted"},
                                invitation : InvitationStatus, delivery : Delivery,
                                access : {"none", "active", "revoked"}]]
    /\ invitation \in [Request -> [status : InvitationStatus, delivery : Delivery,
                                   attempt : Nat, redeemedBy : Player \cup {Nobody}]]
    /\ grant \in [Player -> Request \cup {Nobody}]
    /\ admin \in [Admin -> AdminState]
    /\ candidate \in [Player -> Request \cup {Nobody}]
    /\ sends \in [Request -> Nat]
    /\ revoked \in SUBSET Request /\ gone \in SUBSET Player

NoRequest == [status |-> "absent", invitation |-> "none", delivery |-> "none", access |-> "none"]
NoInvitation == [status |-> "none", delivery |-> "none", attempt |-> 0, redeemedBy |-> Nobody]
Resting == [pc |-> "idle", request |-> Nobody, attempt |-> 0, outcome |-> "none"]

BetaInit ==
    /\ request = [q \in Request |-> NoRequest]
    /\ invitation = [q \in Request |-> NoInvitation]
    /\ grant = [p \in Player |-> Nobody]
    /\ admin = [a \in Admin |-> Resting]
    /\ candidate = [p \in Player |-> Nobody]
    /\ sends = [q \in Request |-> 0]
    /\ revoked = {} /\ gone = {}

-----------------------------------------------------------------------------
Stage(a, pc) == admin[a].pc = pc
Rest(a) == admin' = [admin EXCEPT ![a] = Resting]
For(a) == admin[a].request

(* One transaction writes what an invitation says to both documents.       *)
Both(q, status, delivery) ==
    /\ request' = [request EXCEPT ![q].invitation = status, ![q].delivery = delivery]
    /\ invitation' = [invitation EXCEPT ![q].status = status, ![q].delivery = delivery]

Submit(q) ==
    /\ request[q].status = "absent"
    /\ request' = [request EXCEPT ![q].status = "pending"]
    /\ UNCHANGED <<invitation, grant, admin, candidate, sends, revoked, gone>>

StartGrant(a, q) ==
    /\ Stage(a, "idle") /\ request[q].status = "pending"
    /\ admin' = [admin EXCEPT ![a].pc = "commit", ![a].request = q]
    /\ UNCHANGED <<request, invitation, grant, candidate, sends, revoked, gone>>

CommitGrant(a) ==        \* unless another call granted it
    LET q == For(a)
    IN  /\ Stage(a, "commit")
        /\ IF request[q].status = "granted"
           THEN Rest(a) /\ UNCHANGED <<request, invitation>>
           ELSE /\ request' = [request EXCEPT ![q].status = "granted",
                       ![q].invitation = "issued", ![q].delivery = "pending"]
                /\ invitation' = [invitation EXCEPT ![q] =
                       [status |-> "issued", delivery |-> "pending",
                        attempt |-> 1, redeemedBy |-> Nobody]]
                /\ admin' = [admin EXCEPT ![a].pc = "deliver", ![a].attempt = 1]
        /\ UNCHANGED <<grant, candidate, sends, revoked, gone>>

Retryable(q) == invitation[q].status = "issued" /\ invitation[q].delivery = "failed"

StartRetry(a, q) ==
    /\ Stage(a, "idle") /\ Retryable(q) /\ invitation[q].attempt < MaxAttempts
    /\ admin' = [admin EXCEPT ![a].pc = "begin", ![a].request = q,
                              ![a].attempt = invitation[q].attempt]
    /\ UNCHANGED <<request, invitation, grant, candidate, sends, revoked, gone>>

BeginRetryUnchecked(a) ==    \* mutant: the attempt that was read is not compared
    LET q == For(a)
    IN  /\ Stage(a, "begin")
        /\ IF ~Retryable(q)
           THEN Rest(a) /\ UNCHANGED <<request, invitation>>
           ELSE /\ request' = [request EXCEPT ![q].delivery = "pending"]
                /\ invitation' = [invitation EXCEPT ![q].delivery = "pending",
                                      ![q].attempt = admin[a].attempt + 1]
                /\ admin' = [admin EXCEPT ![a].pc = "deliver", ![a].attempt = @ + 1]
        /\ UNCHANGED <<grant, candidate, sends, revoked, gone>>
BeginRetry(a) ==
    LET q == For(a)
    IN  /\ Stage(a, "begin")
        /\ IF ~Retryable(q) \/ invitation[q].attempt # admin[a].attempt
           THEN Rest(a) /\ UNCHANGED <<request, invitation>>
           ELSE /\ request' = [request EXCEPT ![q].delivery = "pending"]
                /\ invitation' = [invitation EXCEPT ![q].delivery = "pending", ![q].attempt = @ + 1]
                /\ admin' = [admin EXCEPT ![a].pc = "deliver", ![a].attempt = @ + 1]
        /\ UNCHANGED <<grant, candidate, sends, revoked, gone>>

Deliver(a) ==            \* what the provider answered may not be what it did
    /\ Stage(a, "deliver")
    /\ sends' = [sends EXCEPT ![For(a)] = @ + 1]
    /\ \E outcome \in {"sent", "failed", "failedForGood"} :
           admin' = [admin EXCEPT ![a].pc = "record", ![a].outcome = outcome]
    /\ UNCHANGED <<request, invitation, grant, candidate, revoked, gone>>

RecordDelivery(a) ==
    LET q == For(a)
    IN  /\ Stage(a, "record")
        /\ IF invitation[q].attempt = admin[a].attempt /\ invitation[q].delivery = "pending"
           THEN Both(q, invitation[q].status, admin[a].outcome)
           ELSE UNCHANGED <<request, invitation>>
        /\ Rest(a)
        /\ UNCHANGED <<grant, candidate, sends, revoked, gone>>

AdminDies(a) ==          \* the call is dropped, or its outcome is not known to it
    /\ ~Stage(a, "idle") /\ Rest(a)
    /\ UNCHANGED <<request, invitation, grant, candidate, sends, revoked, gone>>

-----------------------------------------------------------------------------
RevokeInvitation(q) ==
    /\ invitation[q].status = "issued"
    /\ Both(q, "revoked", invitation[q].delivery)
    /\ revoked' = revoked \cup {q}
    /\ UNCHANGED <<grant, admin, candidate, sends, gone>>

RevokeAccess(q) ==       \* not when the grant is another invitation's
    LET p == invitation[q].redeemedBy
    IN  /\ request[q].invitation = "redeemed" /\ request[q].access = "active"
        /\ grant[p] \in {q, Nobody}
        /\ request' = [request EXCEPT ![q].access = "revoked"]
        /\ grant' = [grant EXCEPT ![p] = Nobody]
        /\ revoked' = revoked \cup {q}
        /\ UNCHANGED <<invitation, admin, candidate, sends, gone>>

(* The code came with an email; the address is the one signed in with.     *)
PresentCode(p, q) ==
    /\ candidate[p] = Nobody /\ p \notin gone
    /\ q \in VerifiedFor[p] /\ sends[q] > 0 /\ invitation[q].status = "issued"
    /\ candidate' = [candidate EXCEPT ![p] = q]
    /\ UNCHANGED <<request, invitation, grant, admin, sends, revoked, gone>>

RedeemableGrant(p, q) == grant[p] = Nobody   \* mutant: the status is the one that was read
Redeemable(p, q) == invitation[q].status = "issued" /\ grant[p] = Nobody
CommitRedemption(p) ==
    LET q == candidate[p]
    IN  /\ q # Nobody
        /\ candidate' = [candidate EXCEPT ![p] = Nobody]
        /\ IF Redeemable(p, q)
           THEN /\ request' = [request EXCEPT ![q].invitation = "redeemed", ![q].access = "active"]
                /\ invitation' = [invitation EXCEPT ![q].status = "redeemed", ![q].redeemedBy = p]
                /\ grant' = [grant EXCEPT ![p] = q]
           ELSE UNCHANGED <<request, invitation, grant>>
        /\ UNCHANGED <<admin, sends, revoked, gone>>

AccountDeleted(p) ==     \* the grant goes; a redemption under way is not stopped
    /\ p \notin gone
    /\ gone' = gone \cup {p}
    /\ grant' = [grant EXCEPT ![p] = Nobody]
    /\ UNCHANGED <<request, invitation, admin, candidate, sends, revoked>>

BetaNext ==
    \/ \E q \in Request : Submit(q) \/ RevokeInvitation(q) \/ RevokeAccess(q)
    \/ \E a \in Admin :
          \/ \E q \in Request : StartGrant(a, q) \/ StartRetry(a, q)
          \/ CommitGrant(a) \/ BeginRetry(a) \/ Deliver(a) \/ RecordDelivery(a) \/ AdminDies(a)
    \/ \E p \in Player :
          \/ \E q \in Request : PresentCode(p, q)
          \/ CommitRedemption(p) \/ AccountDeleted(p)

BetaSpec == BetaInit /\ [][BetaNext]_betaVars

-----------------------------------------------------------------------------
(* A Player has access by one invitation that they redeemed and that was   *)
(* never revoked, whatever raced with the redemption; what was revoked     *)
(* never grants access again; and an Active access is one its Player has.  *)
GrantsAreEarned ==
    /\ \A p \in Player : grant[p] # Nobody =>
           /\ invitation[grant[p]].status = "redeemed"
           /\ invitation[grant[p]].redeemedBy = p
           /\ request[grant[p]].access = "active"
           /\ grant[p] \notin revoked
    /\ \A q \in Request : request[q].access = "active" =>
           \/ invitation[q].redeemedBy \in gone
           \/ grant[invitation[q].redeemedBy] = q

(* What a request repeats is what its invitation says, so that no later    *)
(* transaction refuses the pair as an invalid record.                      *)
RequestsRepeatInvitations ==
    \A q \in Request :
        /\ request[q].invitation = invitation[q].status
        /\ request[q].delivery = invitation[q].delivery
        /\ request[q].status = "granted" <=> invitation[q].status # "none"

AccessAgrees == GrantsAreEarned /\ RequestsRepeatInvitations

(* Two calls never deliver one invitation at once, an attempt is handed to *)
(* the provider once, and whoever delivers can record what came of it.     *)
Delivering(a) == admin[a].pc \in {"deliver", "record"}
SendersHoldTheirAttempt ==
    /\ \A a, b \in Admin :
           Delivering(a) /\ Delivering(b) /\ For(a) = For(b) => a = b
    /\ \A a \in Admin : Delivering(a) =>
           /\ invitation[For(a)].attempt = admin[a].attempt
           /\ invitation[For(a)].delivery = "pending"
    /\ \A q \in Request : sends[q] <= invitation[q].attempt

===============================================================================
