----------------------------- MODULE ZeckStream -----------------------------
(***************************************************************************)
(* The Fibonacci-coded stream (coding/src/zeckendorf.rs), with integers of *)
(* ZeckBits bits for 64.  A buffer is a sequence of bits, always a whole   *)
(* number of bytes; bit j of the code is buf[j + 1].                       *)
(***************************************************************************)
EXTENDS Integers, Sequences, SequencesExt

CONSTANTS ZeckBits,   \* width of an integer
          Value,      \* the values pushed, below the largest integer
          MaxPushes   \* bound: values in a stream

VARIABLES buf, bits,  \* the stream
          pushed,     \* the values pushed
          flipped     \* the index of the bit damaged on the way, -1 for none

zeckVars == <<buf, bits, pushed, flipped>>

ZeckMax == 2^ZeckBits - 1

RECURSIVE Grow(_)
Grow(f) == IF Last(f) > ZeckMax \div 2 THEN f
           ELSE Grow(Append(f, (Last(f) + f[Len(f) - 1]) % 2^ZeckBits))

fib_table == Grow(<<1, 2>>)

WholeBytes(n) == 8 * ((n + 7) \div 8)

Pad(b, n) == b \o [i \in 1..(n - Len(b)) |-> 0]

bit_at(b, i) == IF i >= Len(b) THEN 0 ELSE b[i + 1]

\* Mutant: the greedy decomposition goes up from the smallest number.
Digits_up(n, hi) ==
  FoldLeft(LAMBDA acc, i : IF fib_table[i] <= acc.rem
                           THEN [rem |-> acc.rem - fib_table[i], out |-> Append(acc.out, 1)]
                           ELSE [acc EXCEPT !.out = Append(@, 0)],
           [rem |-> n, out |-> <<>>], [i \in 1..hi |-> i]).out

\* The greedy decomposition, from the largest number down.
Digits(n, hi) ==
  FoldLeft(LAMBDA acc, i : IF fib_table[i] <= acc.rem
                           THEN [rem |-> acc.rem - fib_table[i], out |-> <<1>> \o acc.out]
                           ELSE [acc EXCEPT !.out = <<0>> \o @],
           [rem |-> n, out |-> <<>>], [i \in 1..hi |-> hi + 1 - i]).out

zeck_encode(n) ==
  LET hi == Len(SelectSeq(fib_table, LAMBDA f : f <= n))
  IN Pad(Append(Digits(n, hi), 1), WholeBytes(hi + 1))

codeword_nbits(cw) == CHOOSE n \in 0..Len(cw) : (n = 0 \/ cw[n] = 1) /\ \A j \in (n + 1)..Len(cw) : cw[j] = 0

-----------------------------------------------------------------------------
ZeckInit == buf = <<>> /\ bits = 0 /\ pushed = <<>> /\ flipped = -1

EndOf(cw) == bits + codeword_nbits(cw)

push(n) ==
  /\ flipped = -1 /\ Len(pushed) < MaxPushes
  /\ LET cw    == zeck_encode(n + 1)
         nbits == codeword_nbits(cw)
         wide  == Pad(buf, WholeBytes(bits + nbits))
     IN /\ buf' = [i \in DOMAIN wide |->
                     IF i \in (bits + 1)..(bits + nbits) /\ cw[i - bits] = 1 THEN 1 ELSE wide[i]]
        /\ bits' = EndOf(cw)
  /\ pushed' = Append(pushed, n)
  /\ UNCHANGED flipped

\* One bit arrives wrong.
Flip(i) ==
  /\ flipped = -1
  /\ buf' = [buf EXCEPT ![i + 1] = 1 - @]
  /\ flipped' = i
  /\ UNCHANGED <<bits, pushed>>

ZeckNext ==
  \/ \E n \in Value : push(n)
  \/ \E i \in 0..(bits - 1) : Flip(i)

ZeckSpec == ZeckInit /\ [][ZeckNext]_zeckVars
-----------------------------------------------------------------------------
\* The first 11 at start or later: the index of its second bit, -1 for none.
Terminator(b, start) ==
  LET at == {i \in start..(Len(b) - 1) : bit_at(b, i) = 1 /\ bit_at(b, i + 1) = 1}
  IN IF at = {} THEN -1 ELSE 1 + (CHOOSE i \in at : \A j \in at : i <= j)

\* decode_at: the value of the codeword at start and the bits it takes, <<>>
\* for none.
decode_at(b, start) ==
  LET term  == Terminator(b, start)
      terms == [j \in 1..(term - start) |->
                  IF bit_at(b, start + j - 1) # 0 /\ j <= Len(fib_table) THEN fib_table[j] ELSE 0]
  IN IF term = -1 THEN <<>>
     ELSE <<FoldLeft(LAMBDA v, f : (v + f) % 2^ZeckBits, 0, terms), term + 1 - start>>

\* decode_all, with the bit each value starts at.  A damaged codeword may sum
\* to 0; a release build then wraps around.
RECURSIVE DecodeFrom(_, _)
DecodeFrom(b, i) ==
  LET d == decode_at(b, i)
  IN IF d = <<>> THEN <<>> ELSE <<[at |-> i, v |-> (d[1] - 1) % 2^ZeckBits]>> \o DecodeFrom(b, i + d[2])

decode_all(b) == [n \in DOMAIN DecodeFrom(b, 0) |-> DecodeFrom(b, 0)[n].v]
-----------------------------------------------------------------------------
\* Where the codeword of value number n begins.
StartOf(n) == FoldLeft(LAMBDA s, v : s + codeword_nbits(zeck_encode(v + 1)), 0, SubSeq(pushed, 1, n - 1))

\* The decoder stays in step: decode_all gives back what was pushed, codewords
\* that start in the middle of a byte, padding and the value 0 included; and
\* after a damaged bit it is back in step at the end of the first whole codeword
\* with a zero in it (every value but 0), and reads all later values at their
\* places.
StaysInStep ==
  /\ flipped = -1 => decode_all(buf) = pushed
  /\ flipped # -1 =>
       \A n \in DOMAIN pushed :
         pushed[n] > 0 /\ StartOf(n) > flipped
           => \A m \in (n + 1)..Len(pushed) :
                [at |-> StartOf(m), v |-> pushed[m]] \in ToSet(DecodeFrom(buf, 0))
=============================================================================
