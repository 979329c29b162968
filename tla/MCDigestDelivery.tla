--------------------------- MODULE MCDigestDelivery ---------------------------
(* Small instances of DigestDelivery.                                      *)
EXTENDS DigestDelivery, TLC

Senders == Permutations(Sender)

=============================================================================
