------------------------------ MODULE Doubles -------------------------------
(***************************************************************************)
(* Floating-point numbers with a given number of bits in the significand   *)
(* (std::from_chars in src/json/json.cpp and static_cast<double>): which   *)
(* of them stands for an integer.  Their exponents have no bounds here.    *)
(***************************************************************************)
EXTENDS Integers

Abs(n) == IF n < 0 THEN -n ELSE n

\* e bits of h do not fit
Binade(h, precision, e) ==
  /\ Abs(h) < 2 ^ (precision + e)
  /\ e = 0 \/ Abs(h) >= 2 ^ (precision + e - 1)

\* The distance of the doubles around h
Ulp(h, precision) == 2 ^ (CHOOSE e \in 0 .. Abs(h) : Binade(h, precision, e))

\* Round to nearest, ties to even
Nearest(h, precision) ==
  LET ulp == Ulp(h, precision)
      below == ulp * (h \div ulp)
  IN  IF 2 * (h - below) < ulp \/ (2 * (h - below) = ulp /\ (h \div ulp) % 2 = 0)
        THEN below
        ELSE below + ulp
=============================================================================
