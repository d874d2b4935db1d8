----------------------------- MODULE MCWebhooks -----------------------------
(* A small instance of WebhookDelivery for TLC: an endpoint that is signed *)
(* for with its own secret, and headers with other parts around that.      *)
EXTENDS WebhookDelivery, Sequences

CONSTANTS d1

AroundTwoSeconds == {-5, -4, 4, 5, 6}

Part(key, value) == [key |-> key, value |-> value]
SignedAt == Time("digits", 0)
Signed(secret, hex) == Part("v1", Signature(Hmac(secret, SignedAt, "raw"), hex))
T == Part("t", SignedAt)

(* As AOA signs; with another v1 first; with parts no SDK knows; in        *)
(* capitals; with another endpoint's secret; with a t that is no number;   *)
(* cut off after t; without t.                                            *)
SentHeaders == {
  <<T, Signed("secret", "lower")>>,
  <<Signed("other", "lower"), T, Signed("secret", "lower")>>,
  <<Part("v0", NoTime), Part("NoSeparator", NoTime), T,
    Signed("secret", "lower")>>,
  <<T, Signed("secret", "upper")>>,
  <<T, Signed("other", "lower")>>,
  <<Part("t", Time("words", 0)), Signed("secret", "lower")>>,
  <<T>>,
  <<Signed("secret", "lower")>> }
=============================================================================
