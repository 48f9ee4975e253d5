--------------------------- MODULE PollTimeoutsProofs ---------------------------
(***************************************************************************)
(* The two properties of PollTimeouts for every resolution of the clocks,    *)
(* every width of the int and every set of deadlines.  The heart of it is    *)
(* one lemma about getPollTimeout: cutting off a fraction of a microsecond   *)
(* and rounding up to a millisecond move the end of the poll by less than    *)
(* one of either, and the cast to int changes nothing that fits.             *)
(***************************************************************************)
EXTENDS PollTimeouts, TLAPS

\* What division and remainder are for a positive divisor that is not a numeral.
LEMMA Quotient ==
    ASSUME NEW a \in Nat, NEW b \in Nat \ {0}
    PROVE  /\ a \div b \in Nat
           /\ (a \div b) * b <= a
           /\ a < (a \div b) * b + b
<1>. DEFINE q == a \div b
<1>1. q \in Int /\ a % b \in 0..b - 1 /\ a = b * q + (a % b)
  BY SMT
<1>2. b * q = q * b
  BY <1>1
<1>3. q >= 0
  BY <1>1
<1>. QED
  BY <1>1, <1>2, <1>3

LEMMA SmallRemainder ==
    ASSUME NEW b \in Nat \ {0}, NEW a \in 0..b - 1
    PROVE  a % b = a
  BY SMT

LEMMA Scaled ==
    ASSUME NEW a \in Int, NEW b \in Int, NEW c \in Nat \ {0}
    PROVE  /\ a <= b => a * c <= b * c
           /\ a * c < b * c + c => a <= b
<1>1. a <= b => a * c <= b * c
  BY SMT
<1>2. a >= b + 1 => a * c >= b * c + c
  BY SMT
<1>. QED
  BY <1>1, <1>2

LEMMA Products ==
    ASSUME NEW a \in Int, NEW b \in Int
    PROVE  a * b \in Int /\ (a >= 0 /\ b >= 0 => a * b >= 0)
<1>1. a * b \in Int
  BY SMT
<1>2. a >= 0 /\ b >= 0 => a * b >= 0
  BY SMT
<1>. QED
  BY <1>1, <1>2

\* Rounding up to a multiple is less than one of them too much.
LEMMA Ceiling ==
    ASSUME NEW a \in Nat, NEW b \in Nat \ {0}
    PROVE  LET n == (a + b - 1) \div b
           IN  n \in Nat /\ a <= n * b /\ n * b < a + b
<1>. DEFINE n == (a + b - 1) \div b
<1>1. a + b - 1 \in Nat
  OBVIOUS
<1>2. n \in Nat /\ n * b <= a + b - 1 /\ a + b - 1 < n * b + b
  BY <1>1, Quotient
<1>3. n * b \in Nat
  BY <1>2
<1>. QED
  BY <1>2, <1>3

-----------------------------------------------------------------------------
(* The conversion.                                                          *)

\* The cast to int is into an int, and leaves alone what fits.
LEMMA CastToInt ==
    /\ \A n \in Int : AsInt(n) \in -(MaxInt + 1)..MaxInt
    /\ \A n \in 0..MaxInt : AsInt(n) = n
<1>. DEFINE w == 2 * (MaxInt + 1)
<1>1. MaxInt \in Nat /\ w \in Nat \ {0}
  BY ClockAssumption
<1>2. ASSUME NEW n \in Int PROVE AsInt(n) \in -(MaxInt + 1)..MaxInt
  <2>1. (n + MaxInt + 1) % w \in 0..w - 1
    BY <1>1
  <2>. QED
    BY <1>1, <2>1 DEF AsInt
<1>3. ASSUME NEW n \in 0..MaxInt PROVE AsInt(n) = n
  <2>1. n + MaxInt + 1 \in 0..w - 1
    BY <1>1
  <2>2. (n + MaxInt + 1) % w = n + MaxInt + 1
    BY <1>1, <2>1, SmallRemainder
  <2>. QED
    BY <1>1, <2>2 DEF AsInt
<1>. QED
  BY <1>2, <1>3

\* The time left in microseconds, less than one of them too short.
LEMMA TimeLeft ==
    ASSUME NEW d \in Nat, NEW t \in Nat
    PROVE  LET r == RelativeTimeout(d, t)
           IN  /\ r \in Nat
               /\ d * NsPerUs <= t => r = 0
               /\ d * NsPerUs > t => /\ r * NsPerUs <= d * NsPerUs - t
                                     /\ d * NsPerUs - t < r * NsPerUs + NsPerUs
<1>1. NsPerUs \in Nat \ {0} /\ d * NsPerUs \in Nat
  BY ClockAssumption
<1>2. d # Infinite
  BY DEF Infinite
<1>3. CASE d * NsPerUs <= t
  BY <1>1, <1>2, <1>3 DEF RelativeTimeout
<1>4. CASE d * NsPerUs > t
  <2>1. d # 0
    BY <1>1, <1>4
  <2>2. d * NsPerUs - t \in Nat
    BY <1>1, <1>4
  <2>3. RelativeTimeout(d, t) = (d * NsPerUs - t) \div NsPerUs
    BY <1>2, <1>4, <2>1 DEF RelativeTimeout
  <2>. QED
    BY <1>1, <1>4, <2>2, <2>3, Quotient
<1>. QED
  BY <1>1, <1>3, <1>4

\* getPollTimeout of a deadline that fits: nothing to wait for if it is over, and
\* otherwise the poll ends less than a microsecond before and a millisecond after.
LEMMA PollTimeoutIsRight ==
    ASSUME NEW d \in Nat, NEW t \in Nat,
           d * NsPerUs - t <= MaxInt * UsPerMs * NsPerUs
    PROVE  LET n == PollTimeout(d, t)
           IN  /\ n \in 0..MaxInt
               /\ d * NsPerUs <= t => n = 0
               /\ d * NsPerUs - t < n * UsPerMs * NsPerUs + NsPerUs
               /\ d * NsPerUs > t =>
                    n * UsPerMs * NsPerUs < d * NsPerUs - t + UsPerMs * NsPerUs
<1>. DEFINE r == RelativeTimeout(d, t)
            n == (r + UsPerMs - 1) \div UsPerMs
            left == d * NsPerUs - t
<1>1. /\ NsPerUs \in Nat \ {0} /\ UsPerMs \in Nat \ {0} /\ MaxInt \in Nat
      /\ left \in Int /\ d * NsPerUs \in Nat
  BY ClockAssumption
<1>2. /\ r \in Nat
      /\ left <= 0 => r = 0
      /\ left > 0 => r * NsPerUs <= left /\ left < r * NsPerUs + NsPerUs
  BY <1>1, TimeLeft
<1>3. n \in Nat /\ r <= n * UsPerMs /\ n * UsPerMs < r + UsPerMs
  BY <1>1, <1>2, Ceiling
<1>. HIDE DEF r, n
<1>4. n * UsPerMs \in Nat /\ MaxInt * UsPerMs \in Nat /\ r * NsPerUs \in Nat
  BY <1>1, <1>2, <1>3, Products
<1>5. r * NsPerUs <= n * UsPerMs * NsPerUs
  BY <1>1, <1>2, <1>3, <1>4, Scaled
<1>6. n * UsPerMs * NsPerUs <= (r + UsPerMs - 1) * NsPerUs
  <2>1. n * UsPerMs <= r + UsPerMs - 1 /\ r + UsPerMs - 1 \in Int
    BY <1>1, <1>2, <1>3, <1>4
  <2>. QED
    BY <1>1, <1>4, <2>1, Scaled
<1>7. (r + UsPerMs - 1) * NsPerUs = r * NsPerUs + UsPerMs * NsPerUs - NsPerUs
  BY <1>1, <1>2
<1>8. r <= MaxInt * UsPerMs
  <2>1. CASE left <= 0
    BY <1>2, <1>4, <2>1
  <2>2. CASE left > 0
    <3>1. r * NsPerUs <= MaxInt * UsPerMs * NsPerUs
      BY <1>1, <1>2, <1>4, <2>2
    <3>. QED
      BY <1>1, <1>2, <1>4, <3>1, Scaled
  <2>. QED
    BY <1>1, <2>1, <2>2
<1>9. n <= MaxInt
  BY <1>1, <1>2, <1>3, <1>4, <1>8, Scaled
<1>10. PollTimeout(d, t) = n
  <2>1. r # Infinite
    BY <1>2 DEF Infinite
  <2>2. AsInt(n) = n
    BY <1>1, <1>3, <1>9, CastToInt
  <2>. QED
    BY <2>1, <2>2 DEF PollTimeout, r, n
<1>11. left <= 0 => n = 0
  <2>. SUFFICES ASSUME left <= 0 PROVE n = 0
    OBVIOUS
  <2>1. n * UsPerMs < 0 * UsPerMs + UsPerMs
    BY <1>1, <1>2, <1>3
  <2>2. n <= 0
    BY <1>1, <1>3, <2>1, Scaled
  <2>. QED
    BY <1>3, <2>2
<1>12. n * UsPerMs * NsPerUs \in Nat /\ UsPerMs * NsPerUs \in Nat
  BY <1>1, <1>3
<1>13. left < n * UsPerMs * NsPerUs + NsPerUs
  BY <1>1, <1>2, <1>4, <1>5, <1>12
<1>14. left > 0 => n * UsPerMs * NsPerUs < left + UsPerMs * NsPerUs
  BY <1>1, <1>2, <1>4, <1>6, <1>7, <1>12
<1>. QED
  BY <1>1, <1>3, <1>9, <1>10, <1>11, <1>13, <1>14

LEMMA PollTimeoutType ==
    ASSUME NEW d \in Nat \cup {Infinite}, NEW t \in Nat
    PROVE  /\ PollTimeout(d, t) \in -(MaxInt + 1)..MaxInt
           /\ d = Infinite => PollTimeout(d, t) = -1
<1>. DEFINE r == RelativeTimeout(d, t)
<1>1. NsPerUs \in Nat \ {0} /\ UsPerMs \in Nat \ {0} /\ MaxInt \in Nat
  BY ClockAssumption
<1>2. CASE d = Infinite
  BY <1>1, <1>2 DEF RelativeTimeout, PollTimeout
<1>3. CASE d \in Nat
  <2>1. r \in Nat
    BY <1>3, TimeLeft
  <2>2. r # Infinite /\ d # Infinite
    BY <1>3, <2>1 DEF Infinite
  <2>3. (r + UsPerMs - 1) \div UsPerMs \in Int
    BY <1>1, <2>1
  <2>. QED
    BY <2>2, <2>3, CastToInt DEF PollTimeout
<1>. QED
  BY <1>2, <1>3

-----------------------------------------------------------------------------
(* The loop.                                                                *)

\* From the conversion on, the argument is that of the deadline and the time at
\* which it was read; the poll is entered later, and has had its time when it
\* gives up.
Converted ==
    /\ stage # "process" => ms = PollTimeout(deadline, read)
    /\ stage \in {"polling", "expired"} => read <= entered
    /\ stage = "expired" => ms >= 0 /\ clock >= Ends

IInv == TypeOK /\ Converted

LEMMA InitIInv == Init => IInv
  BY ClockAssumption DEF Init, IInv, TypeOK, Converted, Infinite

LEMMA EndsIsANumber == TypeOK => Ends \in Int
<1>. SUFFICES ASSUME TypeOK PROVE Ends \in Int
  OBVIOUS
<1>1. ms \in Int /\ entered \in Int /\ UsPerMs \in Int /\ NsPerUs \in Int
  BY ClockAssumption DEF TypeOK
<1>2. ms * UsPerMs * NsPerUs \in Int
  BY <1>1, Products
<1>. QED
  BY <1>1, <1>2 DEF Ends

LEMMA StepIInv == IInv /\ [Next]_vars => IInv'
<1>. SUFFICES ASSUME IInv, [Next]_vars PROVE IInv'
  OBVIOUS
<1>. USE DEF IInv, TypeOK, Converted
<1>1. MaxClock \in Nat /\ MaxInt \in Nat /\ clock \in Nat /\ Ends \in Int
  BY ClockAssumption, EndsIsANumber
<1>2. CASE Tick
  <2>1. Ends' = Ends
    BY <1>2 DEF Tick, Ends
  <2>. QED
    BY <1>1, <1>2, <2>1 DEF Tick
<1>3. CASE GetPollTimeout
  <2>1. deadline' \in Nat \cup {Infinite}
    BY <1>3, ClockAssumption DEF GetPollTimeout
  <2>2. PollTimeout(deadline', clock) \in -(MaxInt + 1)..MaxInt
    BY <1>1, <2>1, PollTimeoutType
  <2>. QED
    BY <1>1, <1>3, <2>2 DEF GetPollTimeout
<1>4. CASE EnterPoll
  BY <1>1, <1>4 DEF EnterPoll
<1>5. CASE PollTimesOut
  <2>1. Ends' = Ends
    BY <1>5 DEF PollTimesOut, Ends
  <2>. QED
    BY <1>1, <1>5, <2>1 DEF PollTimesOut
<1>6. CASE PollReturns
  BY <1>1, <1>6 DEF PollReturns
<1>7. CASE Process
  BY <1>1, <1>7 DEF Process
<1>8. CASE UNCHANGED vars
  <2>1. Ends' = Ends
    BY <1>8 DEF vars, Ends
  <2>. QED
    BY <1>8, <2>1 DEF vars
<1>. QED
  BY <1>2, <1>3, <1>4, <1>5, <1>6, <1>7, <1>8 DEF Next

LEMMA Numbers ==
    IInv => /\ clock \in Nat /\ read \in Nat /\ entered \in Nat /\ ms \in Int
            /\ deadline \in Nat \cup {Infinite}
            /\ NsPerUs \in Nat \ {0} /\ UsPerMs \in Nat /\ MaxInt \in Nat
            /\ deadline * NsPerUs \in Int /\ UsPerMs * NsPerUs \in Int
            /\ ms * UsPerMs * NsPerUs \in Int
<1>. SUFFICES ASSUME IInv PROVE /\ clock \in Nat /\ read \in Nat /\ entered \in Nat
                                /\ ms \in Int /\ deadline \in Nat \cup {Infinite}
                                /\ deadline * NsPerUs \in Int /\ UsPerMs * NsPerUs \in Int
                                /\ ms * UsPerMs * NsPerUs \in Int
  BY ClockAssumption
<1>1. /\ clock \in Nat /\ read \in Nat /\ entered \in Nat
      /\ ms \in Int /\ deadline \in Nat \cup {Infinite}
  BY ClockAssumption DEF IInv, TypeOK
<1>2. deadline \in Int /\ NsPerUs \in Int /\ UsPerMs \in Int
  BY <1>1, ClockAssumption DEF Infinite
<1>. QED
  BY <1>1, <1>2, Products

\* The variables have their types; the argument of poll() is an int
\* (PollData::getPollTimeout).
THEOREM TypesOK == Spec => []TypeOK
<1>1. IInv => TypeOK
  BY DEF IInv
<1>. QED
  BY <1>1, InitIInv, StepIInv, PTL DEF Spec

\* No poll gives up early, whatever the clocks and however long the loop was
\* preempted (getRelativeTimeout and getPollTimeout).
THEOREM PollsAreNeverEarly == Spec => []NeverEarly
<1>1. IInv => NeverEarly
  <2>. SUFFICES ASSUME IInv, stage = "expired", Fits
                PROVE  clock + NsPerUs > deadline * NsPerUs
    BY DEF NeverEarly
  <2>1. /\ clock \in Nat /\ read \in Nat /\ entered \in Nat
        /\ deadline \in Nat \cup {Infinite} /\ NsPerUs \in Nat \ {0}
        /\ deadline * NsPerUs \in Int /\ ms * UsPerMs * NsPerUs \in Int
    BY Numbers
  <2>2. CASE deadline = Infinite
    <3>1. deadline * NsPerUs = -NsPerUs
      BY <2>1, <2>2 DEF Infinite
    <3>. QED
      BY <2>1, <3>1
  <2>3. CASE deadline \in Nat
    <3>1. deadline * NsPerUs - read < ms * UsPerMs * NsPerUs + NsPerUs
      BY <2>1, <2>3, PollTimeoutIsRight DEF IInv, Converted, Fits
    <3>2. read <= entered /\ clock >= entered + ms * UsPerMs * NsPerUs
      BY DEF IInv, Converted, Ends
    <3>. QED
      BY <2>1, <3>1, <3>2
  <2>. QED
    BY <2>1, <2>2, <2>3
<1>. QED
  BY <1>1, InitIInv, StepIInv, PTL DEF Spec

\* No poll waits for ever in spite of a deadline, or more than a millisecond for
\* nothing (getRelativeTimeout and getPollTimeout).
THEOREM PollsAreNeverLate == Spec => []NeverLate
<1>1. IInv => NeverLate
  <2>. SUFFICES ASSUME IInv, stage = "polling" PROVE NeverLate
    BY DEF NeverLate
  <2>1. /\ read \in Nat /\ entered \in Nat /\ MaxInt \in Nat
        /\ deadline \in Nat \cup {Infinite}
        /\ deadline * NsPerUs \in Int /\ ms * UsPerMs * NsPerUs \in Int
        /\ UsPerMs * NsPerUs \in Int
        /\ ms = PollTimeout(deadline, read)
    BY Numbers DEF IInv, Converted
  <2>2. deadline = Infinite => ms = -1
    BY <2>1, PollTimeoutType
  <2>3. ASSUME deadline # Infinite, Fits
        PROVE  /\ ms >= 0
               /\ deadline * NsPerUs <= read => ms = 0
               /\ deadline * NsPerUs > read =>
                    Ends < deadline * NsPerUs + UsPerMs * NsPerUs + (entered - read)
    <3>1. /\ ms \in 0..MaxInt
          /\ deadline * NsPerUs <= read => ms = 0
          /\ deadline * NsPerUs > read =>
                ms * UsPerMs * NsPerUs < deadline * NsPerUs - read + UsPerMs * NsPerUs
      BY <2>1, <2>3, PollTimeoutIsRight DEF Fits
    <3>. QED
      BY <2>1, <3>1 DEF Ends
  <2>. QED
    BY <2>2, <2>3 DEF NeverLate
<1>. QED
  BY <1>1, InitIInv, StepIInv, PTL DEF Spec
=============================================================================
