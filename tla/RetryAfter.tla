----------------------------- MODULE RetryAfter -----------------------------
(***************************************************************************)
(* The Retry-After header of a 429: parseRetryAfter of pia.go, and the     *)
(* pause Run of tunnel.go makes of it.  A time.Duration is a signed        *)
(* integer, and the product of the seconds and time.Second wraps around.   *)
(***************************************************************************)
EXTENDS Integers

CONSTANTS
  MaxInt,          \* of a Duration and of an int, 2^63 - 1
  Second,          \* time.Second, 10^9
  RateLimitFloor   \* rateLimitFloor, five minutes

ASSUME RetryAfterAssumption ==
  MaxInt \in Nat /\ Second \in 1 .. MaxInt /\ RateLimitFloor \in 1 .. MaxInt

\* A header: absent or unreadable, delta-seconds (a number Atoi reads), or a
\* date, ahead of now by a Duration (time.Until saturates).
Nothing == [form |-> "nothing", n |-> 0]
Header  == {Nothing} \cup [form : {"seconds", "date"}, n : -MaxInt - 1 .. MaxInt]

VARIABLE header

Wrap(x) == ((x + MaxInt + 1) % (2 * (MaxInt + 1))) - (MaxInt + 1)

\* time.Duration(secs) * time.Second.
Times(secs) == Wrap(secs * Second)

\* Numbers that are not positive are not dates either.
ParseRetryAfter(h) ==
  IF h.n > 0 /\ h.form # "nothing"
    THEN IF h.form = "seconds" THEN Times(h.n) ELSE h.n
    ELSE 0

\* The delay of Run after a RateLimitError.
Delay_Positive(h) ==
  LET asked == ParseRetryAfter(h) IN IF asked # 0 THEN asked ELSE RateLimitFloor
Delay(h) ==
  LET asked == ParseRetryAfter(h)
  IN  IF asked < RateLimitFloor THEN RateLimitFloor ELSE asked

RetryInit == header = Nothing

AnotherHeader ==
  /\ header = Nothing
  /\ header' \in Header

RetrySpec == RetryInit /\ [][AnotherHeader]_header

\* What the header asks for, in the integers.
Requested(h) == IF h.form = "seconds" THEN h.n * Second ELSE h.n

\* tunnel.go:141: the pause after a 429 is never below the floor, and never
\* longer than what PIA asked for and the floor, also when the product
\* overflows; it honors the header whenever the product does not.
CooldownBounds ==
  LET wanted == IF Requested(header) < RateLimitFloor THEN RateLimitFloor
                                                     ELSE Requested(header)
  IN  /\ Delay(header) \in RateLimitFloor .. wanted
      /\ wanted <= MaxInt => Delay(header) = wanted
=============================================================================
