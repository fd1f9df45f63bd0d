-------------------------- MODULE MCWebhookIngress --------------------------
(* Small instances of WebhookIngress: a batch of two messages, a message   *)
(* under a nonce and a webhook with a key.                                 *)
EXTENDS WebhookIngress

CONSTANTS h1, h2, m1, m2, m3, n1, w1

Batch(ids) == [route |-> "batch", nonce |-> NoKey, ids |-> ids]
UnderNonce == [route |-> "nonce", nonce |-> n1, ids |-> <<m3>>]
Webhook == [route |-> "webhook", nonce |-> NoKey, ids |-> <<w1>>]

SendersTogether ==
    {{Batch(<<m1, m2>>)}, {Batch(<<m1>>), Webhook}, {UnderNonce}}
=============================================================================
