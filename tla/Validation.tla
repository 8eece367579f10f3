----------------------------- MODULE Validation -----------------------------
(***************************************************************************)
(* The check digit of an ISBN-13 (EstISBN13Valide), on the thirteen digits *)
(* left when NormaliserISBN has taken dashes and spaces away.  Positions   *)
(* are counted from 0, as the bytes of the string.                         *)
(***************************************************************************)
EXTENDS Integers, TLAPS

Chiffres == 0..9
Positions == 0..12
Codes == [Positions -> Chiffres]      \* motifChiffres13

Poids(i) == IF i % 2 = 0 THEN 1 ELSE 3

(* The loop over the first twelve digits, with the weights Poids(0) to       *)
(* Poids(11)                                                                 *)
Trio(c, n) == c[n] + c[n + 2] + c[n + 4]
Somme(c) == (Trio(c, 0) + Trio(c, 6)) + 3 * (Trio(c, 1) + Trio(c, 7))

CleAttendue(c) == (10 - (Somme(c) % 10)) % 10

EstISBN13Valide(c) == CleAttendue(c) = c[12]

(* The rule of the standard: the weighted sum of all the digits is a         *)
(* multiple of ten.                                                          *)
Total(c) == Somme(c) + Poids(12) * c[12]
RegleISBN(c) == Total(c) % 10 = 0

Permutes(c, i) == [c EXCEPT ![i] = c[i + 1], ![i + 1] = c[i]]

-----------------------------------------------------------------------------

Trios == {0, 1, 6, 7}

(* The sums of a code are natural numbers; the last digit weighs one.        *)
LEMMA SommeNaturelle ==
  ASSUME NEW c \in Codes
  PROVE  /\ \A n \in Trios : Trio(c, n) \in Nat
         /\ Somme(c) \in Nat /\ Total(c) \in Nat
         /\ Total(c) = Somme(c) + c[12] /\ c[12] \in 0..9
<1>1. \A i \in Positions : c[i] \in 0..9
  BY DEF Codes, Chiffres
<1>2. c[12] \in 0..9
  BY <1>1 DEF Positions
<1>3. ASSUME NEW n \in Trios
      PROVE  Trio(c, n) \in Nat
  <2>1. n \in Positions /\ n + 2 \in Positions /\ n + 4 \in Positions
    BY DEF Trios, Positions
  <2>2. c[n] \in 0..9 /\ c[n + 2] \in 0..9 /\ c[n + 4] \in 0..9
    BY <1>1, <2>1
  <2> QED BY <2>2 DEF Trio
<1>4. Trio(c, 0) \in Nat /\ Trio(c, 1) \in Nat /\ Trio(c, 6) \in Nat /\ Trio(c, 7) \in Nat
  BY <1>3 DEF Trios
<1>5. Somme(c) \in Nat
  BY <1>4 DEF Somme
<1>6. Poids(12) = 1
  BY DEF Poids
<1> QED BY <1>2, <1>3, <1>5, <1>6 DEF Total

(* A digit changed counts in its own trio and in no other.                   *)
LEMMA TrioChange ==
  ASSUME NEW c \in Codes, NEW i \in Positions, NEW x \in Chiffres, NEW n \in Trios
  PROVE  Trio([c EXCEPT ![i] = x], n) =
           Trio(c, n) + (IF i \in {n, n + 2, n + 4} THEN x - c[i] ELSE 0)
<1> DEFINE f == [c EXCEPT ![i] = x]
<1>1. \A j \in Positions : c[j] \in 0..9 /\ f[j] = IF j = i THEN x ELSE c[j]
  BY DEF Codes, Chiffres
<1>2. n \in Positions /\ n + 2 \in Positions /\ n + 4 \in Positions
  BY DEF Trios, Positions
<1> SUFFICES Trio(f, n) = Trio(c, n) + (IF i \in {n, n + 2, n + 4} THEN x - c[i] ELSE 0)
  OBVIOUS
<1> HIDE DEF f
<1>3. /\ c[n] \in 0..9 /\ f[n] = IF n = i THEN x ELSE c[n]
      /\ c[n + 2] \in 0..9 /\ f[n + 2] = IF n + 2 = i THEN x ELSE c[n + 2]
      /\ c[n + 4] \in 0..9 /\ f[n + 4] = IF n + 4 = i THEN x ELSE c[n + 4]
  BY <1>1, <1>2
<1>4. x \in 0..9 /\ n \in Int /\ i \in Int
  BY DEF Chiffres, Trios, Positions
<1>5. CASE i = n
  BY <1>3, <1>4, <1>5 DEF Trio
<1>6. CASE i = n + 2
  BY <1>3, <1>4, <1>6 DEF Trio
<1>7. CASE i = n + 4
  BY <1>3, <1>4, <1>7 DEF Trio
<1>8. CASE i \notin {n, n + 2, n + 4}
  BY <1>3, <1>4, <1>8 DEF Trio
<1> QED BY <1>5, <1>6, <1>7, <1>8

(* A digit changed counts with its weight.                                   *)
LEMMA ChiffreChange ==
  ASSUME NEW c \in Codes, NEW i \in Positions, NEW x \in Chiffres
  PROVE  /\ [c EXCEPT ![i] = x] \in Codes
         /\ Total([c EXCEPT ![i] = x]) = Total(c) + Poids(i) * (x - c[i])
<1> DEFINE f == [c EXCEPT ![i] = x]
           Ajout(n) == IF i \in {n, n + 2, n + 4} THEN x - c[i] ELSE 0
<1>1. f \in Codes /\ x \in 0..9 /\ c[i] \in 0..9
  BY DEF Codes, Chiffres
<1>2. f[12] = c[12] + IF i = 12 THEN x - c[i] ELSE 0
  BY <1>1 DEF Codes, Positions, Chiffres
<1>3. \A n \in Trios : Trio(f, n) = Trio(c, n) + Ajout(n)
  BY TrioChange
<1> SUFFICES Total(f) = Total(c) + Poids(i) * (x - c[i])
  BY <1>1
<1> HIDE DEF f
<1>4. /\ \A n \in Trios : Trio(c, n) \in Nat
      /\ Total(c) = Somme(c) + c[12] /\ c[12] \in 0..9
      /\ Total(f) = Somme(f) + f[12]
  BY <1>1, SommeNaturelle
<1>5. /\ Trio(f, 0) = Trio(c, 0) + Ajout(0) /\ Trio(f, 1) = Trio(c, 1) + Ajout(1)
      /\ Trio(f, 6) = Trio(c, 6) + Ajout(6) /\ Trio(f, 7) = Trio(c, 7) + Ajout(7)
      /\ Trio(c, 0) \in Nat /\ Trio(c, 1) \in Nat
      /\ Trio(c, 6) \in Nat /\ Trio(c, 7) \in Nat
  BY <1>3, <1>4 DEF Trios
<1>6. CASE i \in {0, 2, 4}
  <2>1. Poids(i) = 1 /\ Ajout(0) = x - c[i] /\ Ajout(1) = 0 /\ Ajout(6) = 0 /\ Ajout(7) = 0
    BY <1>6 DEF Poids
  <2> QED BY <1>1, <1>2, <1>4, <1>5, <1>6, <2>1 DEF Somme
<1>7. CASE i \in {6, 8, 10}
  <2>1. Poids(i) = 1 /\ Ajout(0) = 0 /\ Ajout(1) = 0 /\ Ajout(6) = x - c[i] /\ Ajout(7) = 0
    BY <1>7 DEF Poids
  <2> QED BY <1>1, <1>2, <1>4, <1>5, <1>7, <2>1 DEF Somme
<1>8. CASE i \in {1, 3, 5}
  <2>1. Poids(i) = 3 /\ Ajout(0) = 0 /\ Ajout(1) = x - c[i] /\ Ajout(6) = 0 /\ Ajout(7) = 0
    BY <1>8 DEF Poids
  <2> QED BY <1>1, <1>2, <1>4, <1>5, <1>8, <2>1 DEF Somme
<1>9. CASE i \in {7, 9, 11}
  <2>1. Poids(i) = 3 /\ Ajout(0) = 0 /\ Ajout(1) = 0 /\ Ajout(6) = 0 /\ Ajout(7) = x - c[i]
    BY <1>9 DEF Poids
  <2>2. f[12] = c[12] /\ Trio(f, 7) = Trio(c, 7) + (x - c[i])
    BY <1>2, <1>4, <1>5, <1>9, <2>1
  <2>3. Trio(f, 0) = Trio(c, 0) /\ Trio(f, 1) = Trio(c, 1) /\ Trio(f, 6) = Trio(c, 6)
    BY <1>5, <2>1
  <2> HIDE DEF Ajout
  <2> QED BY <1>1, <1>4, <1>5, <2>1, <2>2, <2>3 DEF Somme
<1>10. CASE i = 12
  <2>1. Poids(i) = 1 /\ Ajout(0) = 0 /\ Ajout(1) = 0 /\ Ajout(6) = 0 /\ Ajout(7) = 0
    BY <1>10 DEF Poids
  <2> QED BY <1>1, <1>2, <1>4, <1>5, <1>10, <2>1 DEF Somme
<1> QED BY <1>6, <1>7, <1>8, <1>9, <1>10 DEF Positions

(* EstISBN13Valide computes the key from the others; the standard tests the  *)
(* sum of all: they accept the same codes.                                   *)
THEOREM CleConforme ==
  ASSUME NEW c \in Codes
  PROVE  EstISBN13Valide(c) <=> RegleISBN(c)
<1>1. Somme(c) \in Nat /\ Total(c) = Somme(c) + c[12] /\ c[12] \in 0..9
  BY SommeNaturelle
<1>2. ASSUME NEW s \in Nat, NEW k \in 0..9
      PROVE  (10 - (s % 10)) % 10 = k <=> (s + k) % 10 = 0
  BY SMT
<1> QED BY <1>1, <1>2 DEF EstISBN13Valide, CleAttendue, RegleISBN

(* One wrong digit, wherever it is, never passes ("Verifier cette cle        *)
(* detecte la plupart des fautes de frappe").                                *)
THEOREM ChiffreFauxDetecte ==
  ASSUME NEW c \in Codes, NEW i \in Positions, NEW x \in Chiffres,
         x # c[i], EstISBN13Valide(c)
  PROVE  ~EstISBN13Valide([c EXCEPT ![i] = x])
<1> DEFINE f == [c EXCEPT ![i] = x]
<1>1. f \in Codes /\ Total(f) = Total(c) + Poids(i) * (x - c[i])
  BY ChiffreChange
<1>2. Total(c) \in Nat /\ Total(c) % 10 = 0
  BY SommeNaturelle, CleConforme DEF RegleISBN
<1>3. Poids(i) \in {1, 3}
  BY DEF Poids
<1>4. x \in 0..9 /\ c[i] \in 0..9
  BY DEF Codes, Chiffres
<1>5. ASSUME NEW t \in Nat, NEW y \in 0..9, NEW z \in 0..9, NEW p \in {1, 3},
             y # z, t % 10 = 0
      PROVE  (t + p * (y - z)) % 10 # 0
  <2>1. CASE p = 1
    BY <1>5, <2>1
  <2>2. CASE p = 3
    BY <1>5, <2>2
  <2> QED BY <2>1, <2>2
<1> HIDE DEF f
<1>6. Total(f) % 10 # 0
  BY <1>1, <1>2, <1>3, <1>4, <1>5
<1> QED BY <1>1, <1>6, CleConforme DEF RegleISBN, f

(* Two neighbours exchanged are found out, unless they differ by five: the   *)
(* limit of "la plupart".                                                    *)
THEOREM PermutationDetectee ==
  ASSUME NEW c \in Codes, NEW i \in 0..11, EstISBN13Valide(c)
  PROVE  EstISBN13Valide(Permutes(c, i)) <=> (c[i + 1] - c[i]) % 5 = 0
<1> DEFINE g == [c EXCEPT ![i] = c[i + 1]]
           f == Permutes(c, i)
<1>1. i \in Positions /\ i + 1 \in Positions /\ i + 1 # i
  BY DEF Positions
<1>2. c[i] \in 0..9 /\ c[i + 1] \in 0..9
  BY <1>1 DEF Codes, Chiffres
<1>3. g \in Codes /\ Total(g) = Total(c) + Poids(i) * (c[i + 1] - c[i])
  BY <1>1, <1>2, ChiffreChange DEF Chiffres
<1>4. f = [g EXCEPT ![i + 1] = c[i]]
  BY <1>1 DEF Permutes, Codes
<1>5. g[i + 1] = c[i + 1]
  BY <1>1 DEF Codes
<1> HIDE DEF g, f
<1>6. f \in Codes /\ Total(f) = Total(g) + Poids(i + 1) * (c[i] - c[i + 1])
  BY <1>1, <1>2, <1>3, <1>4, <1>5, ChiffreChange DEF Chiffres
<1>7. Total(c) \in Nat /\ Total(c) % 10 = 0
  BY SommeNaturelle, CleConforme DEF RegleISBN
<1>8. ASSUME NEW t \in Nat, NEW y \in 0..9, NEW z \in 0..9, t % 10 = 0
      PROVE  /\ ((t + 1 * (y - z)) + 3 * (z - y)) % 10 = 0 <=> (y - z) % 5 = 0
             /\ ((t + 3 * (y - z)) + 1 * (z - y)) % 10 = 0 <=> (y - z) % 5 = 0
  BY <1>8
<1>9. CASE i % 2 = 0
  <2>1. Poids(i) = 1 /\ Poids(i + 1) = 3
    BY <1>9 DEF Poids
  <2>2. Total(f) = (Total(c) + 1 * (c[i + 1] - c[i])) + 3 * (c[i] - c[i + 1])
    BY <1>3, <1>6, <2>1
  <2>3. ((Total(c) + 1 * (c[i + 1] - c[i])) + 3 * (c[i] - c[i + 1])) % 10 = 0
          <=> (c[i + 1] - c[i]) % 5 = 0
    BY <1>2, <1>7, <1>8, Zenon
  <2>4. Total(f) % 10 = 0 <=> (c[i + 1] - c[i]) % 5 = 0
    BY <2>2, <2>3, Zenon
  <2> QED BY <1>6, <2>4, CleConforme DEF RegleISBN, f
<1>10. CASE i % 2 # 0
  <2>1. Poids(i) = 3 /\ Poids(i + 1) = 1
    BY <1>10 DEF Poids
  <2>2. Total(f) = (Total(c) + 3 * (c[i + 1] - c[i])) + 1 * (c[i] - c[i + 1])
    BY <1>3, <1>6, <2>1
  <2>3. ((Total(c) + 3 * (c[i + 1] - c[i])) + 1 * (c[i] - c[i + 1])) % 10 = 0
          <=> (c[i + 1] - c[i]) % 5 = 0
    BY <1>2, <1>7, <1>8, Zenon
  <2>4. Total(f) % 10 = 0 <=> (c[i + 1] - c[i]) % 5 = 0
    BY <2>2, <2>3, Zenon
  <2> QED BY <1>6, <2>4, CleConforme DEF RegleISBN, f
<1> QED BY <1>9, <1>10

=============================================================================
