----------------------------- MODULE MCResponses -----------------------------
(* A small instance of Responses for TLC.                                  *)
EXTENDS Responses

WordOfTest == 262144
FiveSeconds == 5 * Second

Num(n) == Field("number", n)
Secs(n) == Num(n * Second)
Date(n) == Field("date", n)
Soon == Field("words", 0)

(* Seconds, fractions, below zero, more than the clients accept, than a    *)
(* Duration holds, than an int holds; dates on a second, just past one, a  *)
(* millisecond past one, in the past, so late that the next second, or the *)
(* date itself, is more than a Duration holds; what is no number.          *)
RetryAfters == {Nothing, Secs(2), Secs(6), Secs(14), Num(15000),
  Secs(-1), Num(2000000000), Date(20000), Date(20005), Date(20010), Date(-30005),
  Date(131000), Date(300000),
  Soon, Field("nan", 0), Field("infinity", 0),
  Field("overflow", 0)}
Resets == {<<>>, <<Secs(3)>>, <<Secs(-2)>>, <<Num(5000)>>, <<Num(-200000)>>,
           <<Field("infinity", 0)>>}

Param(key, value) == [key |-> key, value |-> value]
Headers(policy, state, limit, remaining, retryAfter) ==
  [policy |-> policy, state |-> state, limit |-> limit, remaining |-> remaining,
   retryAfter |-> retryAfter]
NoHeaders == Headers(<<>>, <<>>, Nothing, Nothing, Nothing)
WaitHeaders(t, retryAfter) ==
  Headers(<<>>, IF t = <<>> THEN <<>> ELSE <<Param("t", t[1])>>, Nothing, Nothing,
          retryAfter)
RetryAfterOnly == {WaitHeaders(<<>>, retryAfter) : retryAfter \in RetryAfters}
Waits == RetryAfterOnly \union
  {WaitHeaders(t, retryAfter) : t \in Resets,
     retryAfter \in {Nothing, Secs(2), Field("nan", 0)}}
(* Both sets, a key that comes twice, a set that says nothing.             *)
Quotas ==
  {Headers(<<Param("q", q), Param("w", Secs(60))>>, <<Param("r", Secs(9)), Param("r", r)>>,
           limit, Secs(8), Nothing) :
     q \in {Secs(60), Field("nan", 0)}, r \in {Secs(59), Field("blank", 0)},
     limit \in {Secs(50), Field("overflow", 0)}}

Form(form) == [form |-> form]
Error(code, message, hint) ==
  [form |-> "error", code |-> code, message |-> message, hint |-> hint]
Bodies == {Form(form) : form \in {"empty", "text", "string", "null", "list", "data", "other"}}
            \union {Error("conflict", message, hint) :
                      message \in {"text", "absent", "number"},
                      hint \in {"text", "null", "number"}}
            \union {Error(code, "text", "null") : code \in {"", "absent", "null", "number"}}

Reply(status, headers, body) == [status |-> status, headers |-> headers, body |-> body]
RateLimited == Error("rate_limited", "text", "absent")
AllReplies ==
  {Reply(429, h, RateLimited) : h \in Waits}
    \union {Reply(200, h, Form("data")) : h \in RetryAfterOnly \union Quotas}
    \union {Reply(status, NoHeaders, body) : status \in {200, 409}, body \in Bodies}
    \union {Reply(429, NoHeaders, Form("text"))}
=============================================================================
