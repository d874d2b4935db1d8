--------------------------- MODULE WebhookSignature ---------------------------
(***************************************************************************)
(* verifyWebhookSignature of the three SDKs (webhooks.ts, webhooks.go,     *)
(* webhooks.py): is AOA-Signature a fresh signature of the raw body?       *)
(* HMAC-SHA256 is an injective function of secret, timestamp and body.     *)
(* A header is the sequence of its comma-separated parts, each a key with  *)
(* its value; a part without "=" has the key NoSeparator.                  *)
(***************************************************************************)
EXTENDS Integers, FiniteSetsExt

CONSTANTS TicksPerSecond, \* the receiver's clock is finer than a second
          Tolerance       \* toleranceSeconds, 300 by default

ASSUME SignatureAssumption == TicksPerSecond \in Nat \ {0} /\ Tolerance \in Nat

Sdks == {"ts", "go", "python"}
Absent == "absent"

(* t is ASCII digits (ParseInt of Go takes a sign too; AOA writes none).   *)
Time(text, second) == [text |-> text, second |-> second]
NoTime == Time("none", 0)

(* v1 is hex: either case for hexToBytes and hex.DecodeString, lower case  *)
(* only where Python compares it with hexdigest().                         *)
HexTexts(sdk) == IF sdk = "python" THEN {"lower"} ELSE {"lower", "upper"}

Hmac(secret, time, body) == [secret |-> secret, time |-> time, body |-> body]
Signature(hmac, hex) == [hmac |-> hmac, hex |-> hex]

PartsWith(header, key) == {i \in DOMAIN header : header[i].key = key}
Timestamp(header) ==
  IF PartsWith(header, "t") = {} THEN NoTime
                                 ELSE header[Max(PartsWith(header, "t"))].value
Signatures(header) == {header[i].value : i \in PartsWith(header, "v1")}

Distance(a, b) == IF a < b THEN b - a ELSE a - b

(* Mutant: a signature from ahead of the receiver's clock is fresh.        *)
AgeOfPast(sdk, now, second) ==
  IF now < second * TicksPerSecond THEN 0
  ELSE Distance(now, second * TicksPerSecond)

(* In ticks. TypeScript and Python drop the fraction of the clock first.   *)
Age(sdk, now, second) ==
  LET signed == second * TicksPerSecond
      whole == (now \div TicksPerSecond) * TicksPerSecond
  IN Distance(IF sdk = "go" THEN now ELSE whole, signed)

Verify(sdk, header, body, secret, now) ==
  LET time == Timestamp(header) IN
    /\ secret # Absent
    /\ time.text = "digits"
    /\ Age(sdk, now, time.second) <= Tolerance * TicksPerSecond
    /\ \E signature \in Signatures(header) :
         /\ signature.hex \in HexTexts(sdk)
         /\ signature.hmac = Hmac(secret, time, body)
=============================================================================
