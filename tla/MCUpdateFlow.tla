----------------------------- MODULE MCUpdateFlow -----------------------------
(* Digits of three bits, so that the flags of a compressed key are its first *)
(* digit, as they are the top three bits of its first byte.  The hashes mix  *)
(* every digit with its position; zero, all ones and leading zeros occur.    *)
EXTENDS UpdateFlow

Mix(s, m) ==
  LET h[i \in 0..Len(s)] == IF i = 0 THEN Len(s) ELSE (31 * h[i - 1] + s[i] + 1) % m
  IN  h[Len(s)]

\* The value of a bound variable is computed once, that of an argument is not.
MCSha(s) ==
  CHOOSE digits \in {Digits(v, 8) : v \in {Mix(t, 16777213) : t \in {s}}} : TRUE

MCPoseidon(s) == Mix(s, 65521)

Mixed(s, k) == <<0>> \o [i \in 1..11 |-> (s[1 + ((i + k) % Len(s))] + k * i) % 8]

MCCurveY(x, sign) == Mixed(x, 3 + sign)

MCSignature(m) ==
  [x0 |-> Mixed(m, 0), x1 |-> Mixed(m, 1),
   y0 |-> Mixed(m, 2), y1 |-> Mixed(m, 3)]

MCHeaderSlots == <<8, 29, 39>>

\* Two keys that differ in their flag only, one with a small x.
MCKeys ==
  LET x == <<0>> \o [i \in 1..11 |-> i % 8]
  IN  {[x |-> x, sign |-> 0], [x |-> x, sign |-> 1],
       [x |-> [i \in 1..12 |-> IF i > 10 THEN 7 ELSE 0], sign |-> 1]}

Serve(n, parent, absent) ==
  [payload |-> [block_number |-> n, block_hash |-> Sha(<<n>>),
                rest |-> Sha(<<n, 1>>)],
   parent_root |-> parent, absent |-> absent]

MCServed == {Serve(0, Zeros(8), 0), Serve(7, [i \in 1..8 |-> 7], 5),
             Serve(8, [i \in 1..8 |-> i - 1], 3), Serve(63, [i \in 1..8 |-> 8 - i], 1)}
===============================================================================
