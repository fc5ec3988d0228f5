------------------------ MODULE VariableValues_proofs ------------------------
(***************************************************************************)
(* Theorems about VariableValues, for every configuration, memory, number  *)
(* of values of a byte and bound on the messages under way.                *)
(***************************************************************************)
EXTENDS VariableValues, SequenceLemmas, FiniteSetTheorems, TLAPS

-----------------------------------------------------------------------------
(* Division.                                                               *)

LEMMA Products ==
    ASSUME NEW a \in Nat, NEW b \in Nat
    PROVE  /\ a * b \in Nat
           /\ a # 0 /\ b # 0 => a * b # 0 /\ b <= a * b
  OBVIOUS

LEMMA Division ==
    ASSUME NEW b \in Nat \ {0}, NEW x \in Int
    PROVE  /\ x \div b \in Int /\ x % b \in 0 .. b - 1
           /\ b * (x \div b) + (x % b) = x
  <1>1. x \div b \in Int /\ x % b \in 0 .. b - 1
    OBVIOUS
  <1>2. PICK q \in Int, r \in Int : q = x \div b /\ r = x % b
    BY <1>1
  <1>3. r = x - b * q /\ b * q \in Int
    BY <1>2
  <1>4. b * q + r = x
    BY <1>3
  <1> QED BY <1>1, <1>2, <1>4, Zenon

LEMMA Distance ==
    ASSUME NEW m \in Int, NEW n \in Int, m < n
    PROVE  \E d \in Nat \ {0} : n = m + d
  <1>1. n - m \in Nat \ {0} /\ n = m + (n - m)
    OBVIOUS
  <1> QED BY <1>1

\* There is one quotient and one remainder only.
LEMMA DivisionUnique ==
    ASSUME NEW b \in Nat \ {0}, NEW p \in Int, NEW q \in Int,
           NEW r \in 0 .. b - 1, NEW s \in 0 .. b - 1, b * p + r = b * q + s
    PROVE  p = q /\ r = s
  <1>1. ASSUME NEW m \in Int, NEW n \in Int, NEW k \in 0 .. b - 1, NEW l \in 0 .. b - 1,
               m < n
        PROVE  b * m + k < b * n + l
    <2>1. PICK d \in Nat \ {0} : n = m + d
      BY <1>1, Distance
    <2>2. b * n = b * m + b * d
      BY <2>1
    <2>3. b * d \in Nat /\ b <= d * b /\ b * d = d * b
      BY Products
    <2>4. b * m \in Int
      OBVIOUS
    <2> HIDE <2>1
    <2> QED BY <2>2, <2>3, <2>4
  <1>2. p = q
    BY <1>1
  <1>3. b * p \in Int
    OBVIOUS
  <1> QED BY <1>2, <1>3

\* Dividing by a product is dividing twice, and the remainder is made of two.
LEMMA DivisionTwice ==
    ASSUME NEW a \in Nat \ {0}, NEW b \in Nat \ {0}, NEW x \in Int
    PROVE  /\ b * a \in Nat \ {0}
           /\ x \div (b * a) = (x \div a) \div b
           /\ x % (b * a) = (x % a) + ((x \div a) % b) * a
  <1> DEFINE p == x \div a
             r == x % a
             q == p \div b
             s == p % b
             c == b * a
  <1>1. p \in Int /\ r \in 0 .. a - 1 /\ a * p + r = x
    BY Division
  <1>2. q \in Int /\ s \in 0 .. b - 1 /\ b * q + s = p
    BY <1>1, Division
  <1>3. c \in Nat \ {0} /\ c = a * b
    BY Products
  <1>4. x \div c \in Int /\ x % c \in 0 .. c - 1 /\ c * (x \div c) + (x % c) = x
    BY <1>3, Division
  <1> HIDE DEF p, q, r, s
  <1>5. c * q + (s * a + r) = x
    <2>1. a * p = a * (b * q) + a * s
      BY <1>1, <1>2
    <2>2. a * (b * q) = c * q
      BY <1>2
    <2> QED BY <2>1, <2>2, <1>1, <1>2
  <1>6. s * a + r \in 0 .. c - 1
    <2>1. PICK t \in Nat : b = s + 1 + t
      <3>1. b - 1 - s \in Nat /\ b = s + 1 + (b - 1 - s)
        BY <1>2
      <3> QED BY <3>1
    <2>2. c = s * a + a + t * a
      BY <2>1, <1>2
    <2>3. s * a \in Nat /\ t * a \in Nat
      BY <1>2, Products
    <2> HIDE DEF c
    <2> QED BY <2>2, <2>3, <1>1, <1>3
  <1>7. q = x \div c /\ s * a + r = x % c
    <2> DEFINE u == x \div c
               v == x % c
               w == s * a + r
    <2> HIDE DEF u, v, w
    <2>1. c * q + w = c * u + v
      BY <1>4, <1>5, Zenon DEF u, v, w
    <2>3. u \in Int /\ v \in 0 .. c - 1 /\ w \in 0 .. c - 1
      BY <1>4, <1>6, Zenon DEF u, v, w
    <2> HIDE DEF c
    <2>2. q = u /\ w = v
      BY <2>1, <2>3, <1>2, <1>3, DivisionUnique
    <2> QED BY <2>2 DEF u, v, w
  <1>8. s * a + r = r + s * a
    BY <1>1, <1>2
  <1> QED BY <1>3, <1>7, <1>8 DEF p, q, r, s
-----------------------------------------------------------------------------
(* The places of the bytes, and a value cut in bytes and put together.     *)

\* Each place counts Byte times the one before.
LEMMA Places ==
    /\ Place[0] = 1
    /\ \A i \in 1 .. 4 : Place[i] = Byte * Place[i - 1]
    /\ \A i \in 0 .. 4 : Place[i] \in Nat \ {0}
  <1> DEFINE step == [i \in 1 .. 4 |-> [p \in Nat \ {0} |-> Byte * p]]
  <1>1. step \in [1 .. 4 -> [Nat \ {0} -> Nat \ {0}]]
    <2>1. \A p \in Nat \ {0} : Byte * p \in Nat \ {0}
      BY ByteAssumption, Products
    <2> QED BY <2>1
  <1>2. PICK f \in [0 .. 4 -> Nat \ {0}] : Iterates(f, 1, step, 4)
    <2>1. 1 \in Nat \ {0} /\ 4 \in Nat
      OBVIOUS
    <2> HIDE DEF step
    <2> QED BY <1>1, <2>1, Recursion, Zenon
  <1>3. f = [i \in 0 .. 4 |-> IF i = 0 THEN 1 ELSE Byte * f[i - 1]]
    <2>1. f = [i \in 0 .. 4 |-> IF i = 0 THEN 1 ELSE step[i][f[i - 1]]]
      BY <1>2 DEF Iterates
    <2>2. \A i \in 1 .. 4 : step[i][f[i - 1]] = Byte * f[i - 1]
      OBVIOUS
    <2> QED BY <2>1, <2>2
  <1>4. Place = [i \in 0 .. 4 |-> IF i = 0 THEN 1 ELSE Byte * Place[i - 1]]
    <2>1. \E g : g = [i \in 0 .. 4 |-> IF i = 0 THEN 1 ELSE Byte * g[i - 1]]
      BY <1>3, Zenon
    <2> QED BY <2>1, Zenon DEF Place
  <1>5. Place[0] = 1
    BY <1>4
  <1>6. \A i \in 1 .. 4 : Place[i] = Byte * Place[i - 1]
    BY <1>4
  <1>7. \A i \in 0 .. 4 : Place[i] \in Nat \ {0}
    <2>1. \A p \in Nat \ {0} : Byte * p \in Nat \ {0}
      BY ByteAssumption, Products
    <2>2. Place[1] \in Nat \ {0}
      BY <1>5, <1>6, <2>1
    <2>3. Place[2] \in Nat \ {0}
      BY <2>2, <1>6, <2>1
    <2>4. Place[3] \in Nat \ {0}
      BY <2>3, <1>6, <2>1
    <2>5. Place[4] \in Nat \ {0}
      BY <2>4, <1>6, <2>1
    <2>6. \A i \in 0 .. 4 : i = 0 \/ i = 1 \/ i = 2 \/ i = 3 \/ i = 4
      OBVIOUS
    <2> QED BY <1>5, <2>2, <2>3, <2>4, <2>5, <2>6
  <1> QED BY <1>5, <1>6, <1>7

\* The lengths of the types, and how many values they have.
LEMMA Lengths ==
    ASSUME NEW type \in Types
    PROVE  /\ Length(type) \in {1, 2, 4}
           /\ Modulus(type) \in Nat \ {0}
  <1>1. Length(type) \in {1, 2, 4}
    BY DEF Length, Types
  <1>2. \A n \in {1, 2, 4} : n \in 0 .. 4
    OBVIOUS
  <1> QED BY <1>1, <1>2, Places DEF Modulus

\* One more place: the remainder gets one more byte.
LEMMA OneMorePlace ==
    ASSUME NEW x \in Int, NEW i \in 1 .. 4
    PROVE  x % Place[i] = (x % Place[i - 1]) + ((x \div Place[i - 1]) % Byte) * Place[i - 1]
  <1>1. i - 1 \in 0 .. 4
    OBVIOUS
  <1>2. Place[i - 1] \in Nat \ {0} /\ Place[i] = Byte * Place[i - 1] /\ Byte \in Nat \ {0}
    BY <1>1, Places, ByteAssumption
  <1> QED BY <1>2, DivisionTwice

\* The sums that Number makes.
Sums(bytes, f) ==
    f = [i \in 0 .. Len(bytes) |-> IF i = 0 THEN 0 ELSE f[i - 1] + bytes[i] * Place[i - 1]]

\* Number is the last of the sums.
LEMMA NumberIs ==
    ASSUME NEW bytes \in Seq(0 .. Byte - 1), Len(bytes) <= 4
    PROVE  \E f \in [0 .. Len(bytes) -> Nat] : Sums(bytes, f) /\ Number(bytes) = f[Len(bytes)]
  <1> DEFINE n == Len(bytes)
             step == [i \in 1 .. n |-> [s \in Nat |-> s + bytes[i] * Place[i - 1]]]
  <1>1. n \in Nat /\ n <= 4
    OBVIOUS
  <1>2. \A i \in 1 .. n : bytes[i] * Place[i - 1] \in Nat
    <2> SUFFICES ASSUME NEW i \in 1 .. n PROVE bytes[i] * Place[i - 1] \in Nat
      OBVIOUS
    <2>1. i - 1 \in 0 .. 4 /\ bytes[i] \in Nat
      BY ByteAssumption
    <2> QED BY <2>1, Places, Products
  <1>3. step \in [1 .. n -> [Nat -> Nat]]
    BY <1>2
  <1>4. PICK f \in [0 .. n -> Nat] : Iterates(f, 0, step, n)
    <2> HIDE DEF step, n
    <2> QED BY <1>1, <1>3, Recursion
  <1>5. Sums(bytes, f)
    <2>1. f = [i \in 0 .. n |-> IF i = 0 THEN 0 ELSE step[i][f[i - 1]]]
      BY <1>4 DEF Iterates
    <2>2. \A i \in 1 .. n : step[i][f[i - 1]] = f[i - 1] + bytes[i] * Place[i - 1]
      OBVIOUS
    <2> HIDE DEF step
    <2>3. ASSUME NEW i \in 0 .. n
          PROVE  (IF i = 0 THEN 0 ELSE step[i][f[i - 1]])
                   = (IF i = 0 THEN 0 ELSE f[i - 1] + bytes[i] * Place[i - 1])
      <3>1. CASE i = 0
        BY <3>1
      <3>2. CASE i # 0
        <4>1. i \in 1 .. n
          BY <3>2, <1>1
        <4> QED BY <3>2, <4>1, <2>2
      <3> QED BY <3>1, <3>2
    <2> QED BY <2>1, <2>3, Zenon DEF Sums
  <1>6. \A g : Sums(bytes, g) => g = f
    <2> SUFFICES ASSUME NEW g, Sums(bytes, g) PROVE g = f
      OBVIOUS
    <2> DEFINE T == {m \in Nat : m <= n => g[m] = f[m]}
    <2>1. 0 \in T
      BY <1>5, <1>1 DEF Sums
    <2>2. ASSUME NEW m \in Nat, m \in T PROVE m + 1 \in T
      BY <1>5, <1>1, <2>2 DEF Sums
    <2>3. \A m \in 0 .. n : g[m] = f[m]
      <3>1. Nat \subseteq T
        <4> HIDE DEF T
        <4> QED BY <2>1, <2>2, NatSetInduction
      <3> QED BY <3>1, <1>1
    <2>4. g = [m \in 0 .. n |-> g[m]]
      BY DEF Sums
    <2> QED BY <2>3, <2>4
  <1>7. Number(bytes) = f[n]
    <2> DEFINE upTo == CHOOSE g : Sums(bytes, g)
    <2>1. Number(bytes) = upTo[n]
      BY Zenon DEF Number, Sums
    <2>2. Sums(bytes, upTo)
      <3> HIDE DEF Sums
      <3> QED BY <1>5
    <2>3. upTo = f
      <3> HIDE DEF upTo
      <3> QED BY <2>2, <1>6, Zenon
    <2> QED BY <2>1, <2>3
  <1> QED BY <1>5, <1>7

\* A value cut in bytes, and put together again: what is left of it by its type.
LEMMA NumberOfValue ==
    ASSUME NEW type \in Types, NEW x \in Int
    PROVE  /\ ToBytes(type, <<x>>) \in Seq(0 .. Byte - 1)
           /\ Len(ToBytes(type, <<x>>)) = Length(type)
           /\ Number(ToBytes(type, <<x>>)) = x % Modulus(type)
  <1> DEFINE n == Length(type)
             bytes == ToBytes(type, <<x>>)
  <1>1. n \in Nat /\ n <= 4 /\ n \in 1 .. 4
    BY Lengths
  <1>2. ToInt(<<x>>) = x
    BY DEF ToInt, Invalid
  <1>3. bytes = [i \in 1 .. n |-> (x \div Place[i - 1]) % Byte]
    BY <1>2 DEF ToBytes
  <1>4. \A i \in 1 .. n : (x \div Place[i - 1]) % Byte \in 0 .. Byte - 1
    <2> SUFFICES ASSUME NEW i \in 1 .. n PROVE (x \div Place[i - 1]) % Byte \in 0 .. Byte - 1
      OBVIOUS
    <2>1. Place[i - 1] \in Nat \ {0} /\ Byte \in Nat \ {0}
      BY <1>1, Places, ByteAssumption
    <2>2. x \div Place[i - 1] \in Int
      BY <2>1, Division
    <2> QED BY <2>1, <2>2, Division
  <1> HIDE DEF n, bytes
  <1>5. bytes \in Seq(0 .. Byte - 1) /\ Len(bytes) = n
    BY <1>1, <1>3, <1>4
  <1>6. PICK f \in [0 .. Len(bytes) -> Nat] : Sums(bytes, f) /\ Number(bytes) = f[Len(bytes)]
    BY <1>1, <1>5, NumberIs
  <1>7. f[0] = 0 /\ \A i \in 1 .. n : f[i] = f[i - 1] + bytes[i] * Place[i - 1]
    BY <1>1, <1>5, <1>6 DEF Sums
  <1> DEFINE T == {m \in Nat : m <= n => f[m] = x % Place[m]}
  <1>8. 0 \in T
    <2>1. x % 1 = 0
      OBVIOUS
    <2> QED BY <1>7, <2>1, Places
  <1>9. ASSUME NEW m \in Nat, m \in T PROVE m + 1 \in T
    <2> SUFFICES ASSUME m + 1 <= n PROVE f[m + 1] = x % Place[m + 1]
      OBVIOUS
    <2>1. m + 1 \in 1 .. 4 /\ m + 1 \in 1 .. n /\ (m + 1) - 1 = m /\ m <= n
      BY <1>1
    <2>2. f[m + 1] = f[m] + bytes[m + 1] * Place[m]
      BY <1>7, <2>1
    <2>3. bytes[m + 1] = (x \div Place[m]) % Byte
      BY <1>3, <2>1
    <2>4. x % Place[m + 1] = (x % Place[m]) + ((x \div Place[m]) % Byte) * Place[m]
      BY <2>1, OneMorePlace
    <2>5. f[m] = x % Place[m]
      BY <1>9, <2>1
    <2> QED BY <2>2, <2>3, <2>4, <2>5, Zenon
  <1>10. n \in T
    <2>1. Nat \subseteq T
      <3> HIDE DEF T
      <3> QED BY <1>8, <1>9, NatSetInduction
    <2> QED BY <2>1, <1>1
  <1>11. Number(bytes) = x % Modulus(type)
    BY <1>1, <1>5, <1>6, <1>10 DEF Modulus, n
  <1> QED BY <1>5, <1>11 DEF n, bytes

\* Bytes make a number that fits.
LEMMA NumberFits ==
    ASSUME NEW type \in Types, NEW bytes \in Seq(0 .. Byte - 1), Len(bytes) = Length(type)
    PROVE  Number(bytes) \in 0 .. Modulus(type) - 1
  <1> DEFINE n == Length(type)
  <1>1. n \in Nat /\ n <= 4 /\ n \in 1 .. 4
    BY Lengths
  <1> HIDE DEF n
  <1>2. PICK f \in [0 .. Len(bytes) -> Nat] : Sums(bytes, f) /\ Number(bytes) = f[Len(bytes)]
    BY <1>1, NumberIs DEF n
  <1>3. f[0] = 0 /\ \A i \in 1 .. n : f[i] = f[i - 1] + bytes[i] * Place[i - 1]
    BY <1>1, <1>2 DEF Sums, n
  <1> DEFINE T == {m \in Nat : m <= n => f[m] \in Nat /\ f[m] + 1 <= Place[m]}
  <1>4. 0 \in T
    BY <1>3, Places
  <1>5. ASSUME NEW m \in Nat, m \in T PROVE m + 1 \in T
    <2> SUFFICES ASSUME m + 1 <= n PROVE f[m + 1] \in Nat /\ f[m + 1] + 1 <= Place[m + 1]
      OBVIOUS
    <2>1. m + 1 \in 1 .. 4 /\ m + 1 \in 1 .. n /\ (m + 1) - 1 = m /\ m <= n /\ m \in 0 .. 4
      BY <1>1
    <2>2. PICK p \in Nat \ {0} : p = Place[m]
      BY <2>1, Places
    <2>3. PICK b \in 0 .. Byte - 1 : b = bytes[m + 1]
      BY <2>1 DEF n
    <2>4. f[m + 1] = f[m] + b * p /\ Place[m + 1] = Byte * p
      BY <1>3, <2>1, <2>2, <2>3, Places
    <2>5. PICK t \in Nat : Byte = b + 1 + t
      <3>1. Byte - 1 - b \in Nat /\ Byte = b + 1 + (Byte - 1 - b)
        BY ByteAssumption
      <3> QED BY <3>1
    <2>6. Byte * p = b * p + p + t * p
      BY <2>5, <2>2
    <2>7. PICK u \in Nat, w \in Nat : u = b * p /\ w = t * p
      <3>1. b * p \in Nat /\ t * p \in Nat
        BY Products
      <3> QED BY <3>1
    <2>8. f[m] \in Nat /\ f[m] + 1 <= p
      BY <1>5, <2>1, <2>2
    <2>9. f[m + 1] = f[m] + u /\ Place[m + 1] = u + p + w
      BY <2>4, <2>6, <2>7
    <2> QED BY <2>8, <2>9
  <1>6. n \in T
    <2>1. Nat \subseteq T
      <3> HIDE DEF T
      <3> QED BY <1>4, <1>5, NatSetInduction
    <2> QED BY <2>1, <1>1
  <1>7. Number(bytes) = f[n] /\ Modulus(type) = Place[n] /\ Place[n] \in Nat
    BY <1>1, <1>2, Places DEF Modulus, n
  <1> QED BY <1>1, <1>6, <1>7

LEMMA Multiples ==
    ASSUME NEW b \in Nat \ {0}, NEW y \in Int
    PROVE  /\ \A q \in Int : b * q = y => y % b = 0
           /\ y % b = 0 => \E q \in Int : b * q = y
  <1>1. y \div b \in Int /\ y % b \in 0 .. b - 1 /\ b * (y \div b) + (y % b) = y
    BY Division
  <1>2. ASSUME NEW q \in Int, b * q = y PROVE y % b = 0
    <2>1. PICK p \in Int, r \in 0 .. b - 1 : p = y \div b /\ r = y % b
      BY <1>1
    <2>2. b * p + r = b * q + 0 /\ 0 \in 0 .. b - 1
      BY <1>1, <1>2, <2>1
    <2>3. r = 0
      BY <2>2, DivisionUnique
    <2> QED BY <2>1, <2>3
  <1>3. ASSUME y % b = 0 PROVE b * (y \div b) = y
    <2>1. PICK p \in Int, r \in 0 .. b - 1 : p = y \div b /\ r = y % b
      BY <1>1
    <2>2. b * p + r = y /\ r = 0
      BY <1>1, <1>3, <2>1
    <2> QED BY <2>1, <2>2
  <1> QED BY <1>1, <1>2, <1>3

\* Bytes read as a type make a value of the type, equal to their number modulo its size,
\* and there is only one such value.
LEMMA FromBytesIs ==
    ASSUME NEW type \in Types, NEW bytes \in Seq(0 .. Byte - 1), Len(bytes) = Length(type)
    PROVE  \E y \in TypeRange(type) :
             /\ FromBytes(type, bytes) = <<y>>
             /\ y = Number(bytes) \/ y = Number(bytes) - Modulus(type)
  <1>1. PICK n \in 0 .. Modulus(type) - 1 : n = Number(bytes)
    BY NumberFits
  <1>2. PICK m \in Nat \ {0} : m = Modulus(type)
    BY Lengths
  <1>3. n \notin TypeRange(type) => n - m \in TypeRange(type)
    BY <1>1, <1>2, SMTT(30) DEF TypeRange
  <1>4. FromBytes(type, bytes) = <<IF n \in TypeRange(type) THEN n ELSE n - m>>
    BY <1>1, <1>2, Zenon DEF FromBytes
  <1>5. CASE n \in TypeRange(type)
    BY <1>1, <1>4, <1>5
  <1>6. CASE n \notin TypeRange(type)
    BY <1>1, <1>2, <1>3, <1>4, <1>6
  <1> QED BY <1>5, <1>6

LEMMA OneOfEach ==
    ASSUME NEW type \in Types, NEW x \in Int, NEW y \in TypeRange(type), NEW z \in TypeRange(type),
           (y - x) % Modulus(type) = 0, (z - x) % Modulus(type) = 0
    PROVE  y = z
  <1>1. PICK m \in Nat \ {0} : m = Modulus(type)
    BY Lengths
  <1>2. y \in Int /\ z \in Int /\ y - z <= m - 1 /\ z - y <= m - 1
    BY <1>1 DEF TypeRange
  <1> DEFINE d == y - x
             e == z - x
  <1>8. d \in Int /\ e \in Int /\ d % m = 0 /\ e % m = 0
    BY <1>1, <1>2
  <1>9. d - e = y - z
    BY <1>2
  <1> HIDE DEF d, e
  <1>3. PICK p \in Int : m * p = d
    BY <1>8, Multiples
  <1>4. PICK q \in Int : m * q = e
    BY <1>8, Multiples
  <1>5. m * p \in Int /\ m * q \in Int /\ 0 \in 0 .. m - 1
    OBVIOUS
  <1>6. CASE y <= z
    <2>1. PICK c \in 0 .. m - 1 : c = z - y
      BY <1>2, <1>6
    <2>2. m * p + c = m * q + 0
      BY <2>1, <1>2, <1>3, <1>4, <1>5, <1>8, <1>9
    <2>3. c = 0
      BY <2>2, <1>5, DivisionUnique
    <2> QED BY <2>1, <2>3, <1>2
  <1>7. CASE z <= y
    <2>1. PICK c \in 0 .. m - 1 : c = y - z
      BY <1>2, <1>7
    <2>2. m * q + c = m * p + 0
      BY <2>1, <1>2, <1>3, <1>4, <1>5, <1>8, <1>9
    <2>3. c = 0
      BY <2>2, <1>5, DivisionUnique
    <2> QED BY <2>1, <2>3, <1>2
  <1> QED BY <1>2, <1>6, <1>7

\* What the module gives back of a value it was given: the value as the type holds it.
LEMMA RoundTrip ==
    ASSUME NEW type \in Types, NEW x \in Int
    PROVE  FromBytes(type, ToBytes(type, <<x>>)) = <<Wrapped(type, x)>>
  <1> DEFINE bytes == ToBytes(type, <<x>>)
  <1>1. bytes \in Seq(0 .. Byte - 1) /\ Len(bytes) = Length(type)
        /\ Number(bytes) = x % Modulus(type)
    BY NumberOfValue
  <1> HIDE DEF bytes
  <1>2. PICK y \in TypeRange(type) :
             /\ FromBytes(type, bytes) = <<y>>
             /\ y = Number(bytes) \/ y = Number(bytes) - Modulus(type)
    BY <1>1, FromBytesIs
  <1>3. PICK m \in Nat \ {0} : m = Modulus(type)
    BY Lengths
  <1>4. y \in Int
    BY <1>3 DEF TypeRange
  <1>5. PICK q \in Int, r \in 0 .. m - 1 : r = x % m /\ m * q + r = x
    BY Division
  <1>6. m * (-q) = -(m * q) /\ m * (-q - 1) = -(m * q) - m /\ m * q \in Int
        /\ -q \in Int /\ -q - 1 \in Int
    OBVIOUS
  <1>7. m * (-q) = y - x \/ m * (-q - 1) = y - x
    <2>1. y = r \/ y = r - m
      BY <1>1, <1>2, <1>3, <1>5
    <2> QED BY <2>1, <1>5, <1>6
  <1>8. (y - x) % m = 0
    <2>1. PICK d \in Int : d = y - x
      BY <1>4
    <2>2. \E k \in Int : m * k = d
      BY <1>6, <1>7, <2>1
    <2>3. d % m = 0
      BY <2>2, Multiples
    <2> QED BY <2>1, <2>3
  <1>9. Wrapped(type, x) = y
    <2>1. Wrapped(type, x) \in TypeRange(type) /\ (Wrapped(type, x) - x) % Modulus(type) = 0
      BY <1>3, <1>8, Zenon DEF Wrapped
    <2> QED BY <2>1, <1>3, <1>8, OneOfEach
  <1> QED BY <1>2, <1>9 DEF bytes
-----------------------------------------------------------------------------
(* The messages, and what is true of a value the user set last.            *)

Lens == {1, 2, 4}

\* What is in the handler's queue, and what comes back.
Sent ==
    {m \in [kind : {"request", "write"}, mem : {"ram", "eeprom"}, offset : Nat, len : Lens,
            data : Seq(0 .. Byte - 1), fresh : BOOLEAN] : m.kind = "write" => Len(m.data) = m.len}
Answered ==
    {m \in [kind : {"answer"}, mem : {"ram", "eeprom"}, offset : Nat, len : Lens,
            data : Seq(0 .. Byte - 1), fresh : BOOLEAN] : Len(m.data) = m.len}

Memories == [0 .. MemorySize - 1 -> 0 .. Byte - 1]

Typed ==
    /\ value \in [Vars -> QVariants]
    /\ sliders \subseteq Vars
    /\ position \in [Vars -> SliderRange]
    /\ scheduleList \in Seq(Vars)
    /\ sendQueue \in Seq(Sent) /\ answers \in Seq(Answered)
    /\ InFlight <= MaxInFlight
    /\ memory \in Memories
    /\ lastSet \in [Vars -> SUBSET Int]
    /\ \A v \in Vars : lastSet[v] = {} \/ \E x \in Int : lastSet[v] = {x}

BytesOf(v, x) == ToBytes(Layout[v].type, <<x>>)

\* The memory has the bytes of x where v is.
Holds(mem, v, x) ==
    \A i \in 1 .. Length(Layout[v].type) : mem[Layout[v].offset + i - 1] = BytesOf(v, x)[i]

\* A message that changes bytes of v, and one that makes them those of x.
Hits(v, m) == m.kind = "write" /\ Overlap(v, m)
Carries(m, v, x) ==
    /\ m.kind = "write" /\ m.offset = Layout[v].offset /\ m.len = Length(Layout[v].type)
    /\ m.data = BytesOf(v, x)

\* x is in the module's memory, or on its way there, and nothing else comes after it.
Arrives(queue, mem, v, x) ==
    \/ Holds(mem, v, x) /\ \A n \in 1 .. Len(queue) : ~Hits(v, queue[n])
    \/ \E n \in 1 .. Len(queue) :
          Carries(queue[n], v, x) /\ \A k \in n + 1 .. Len(queue) : ~Hits(v, queue[k])

\* A request for v's bytes, made after the user set v, or its answer.
Asks(v, m) == m.fresh /\ Matches(v, m) /\ m.len = Length(Layout[v].type)

\* Nothing that changes v is sent after such a request,
AskedLast(queue, v) ==
    \A n \in 1 .. Len(queue) : Asks(v, queue[n]) =>
        \A k \in n + 1 .. Len(queue) : ~Hits(v, queue[k])

\* and its answer has the bytes that the user set.
ToldRight(queue, back, v, x) ==
    \A n \in 1 .. Len(back) : Asks(v, back[n]) =>
        back[n].data = BytesOf(v, x) /\ \A k \in 1 .. Len(queue) : ~Hits(v, queue[k])

FollowsSet(queue, back, mem, v, x) ==
    Arrives(queue, mem, v, x) /\ AskedLast(queue, v) /\ ToldRight(queue, back, v, x)

\* Every value that the user set last and that nothing has changed since.
FollowsUser ==
    \A v \in Polled : \A x \in lastSet[v] : FollowsSet(sendQueue, answers, memory, v, x)

ValuesInv == Typed /\ FollowsUser
-----------------------------------------------------------------------------
(* Variables, messages and queues.                                         *)

LEMMA VarsAre ==
    /\ Variables \in Seq(Vars)
    /\ \A v \in Vars : /\ Layout[v].type \in Types /\ Layout[v].offset \in Int
                       /\ Layout[v].mem \in {"ram", "eeprom", "script"}
                       /\ Length(Layout[v].type) \in Lens
  <1>1. Variables \in Seq(STRING)
    BY ValuesAssumption
  <1>2. Variables \in Seq(Range(Variables))
    <2>1. \A i \in 1 .. Len(Variables) : Variables[i] \in Range(Variables)
      BY <1>1, InRange
    <2>2. Variables \in [1 .. Len(Variables) -> Range(Variables)] /\ Len(Variables) \in Nat
      BY <1>1, <2>1
    <2> QED BY <2>2
  <1>3. \A v \in Range(Variables) : /\ Layout[v].type \in Types /\ Layout[v].offset \in Int
                                    /\ Layout[v].mem \in {"ram", "eeprom", "script"}
    BY ValuesAssumption
  <1> QED BY <1>2, <1>3, Lengths DEF Vars, Lens

LEMMA PolledAre ==
    ASSUME NEW v \in Polled
    PROVE  /\ v \in Vars /\ OnBus(v) /\ Layout[v].offset \in Nat
           /\ Length(Layout[v].type) \in Lens
           /\ Layout[v].offset + Length(Layout[v].type) <= MemorySize
           /\ AddressesOf(v) # {}
  <1>1. v \in Vars /\ OnBus(v) /\ Layout[v].offset + Length(Layout[v].type) <= MemorySize
    BY DEF Polled
  <1>2. Layout[v].offset \in Nat /\ Length(Layout[v].type) \in Lens
    BY <1>1, VarsAre DEF OnBus
  <1>3. Layout[v].offset \in AddressesOf(v)
    BY <1>2 DEF AddressesOf, Addresses, Lens
  <1> QED BY <1>1, <1>2, <1>3

\* A write that carries v's value changes v, and asking for v is about v's addresses.
LEMMA CarriesHits ==
    ASSUME NEW v \in Polled, NEW m, NEW x, Carries(m, v, x)
    PROVE  Hits(v, m)
  BY PolledAre DEF Carries, Hits, Overlap, AddressesOf

LEMMA AsksIs ==
    ASSUME NEW v, NEW m, Asks(v, m)
    PROVE  Addresses(m.offset, m.len) = AddressesOf(v)
  BY DEF Asks, Matches, AddressesOf

\* What Outdated does: only fresh may change, and stays only beside writes elsewhere.
Alike(m, n) ==
    /\ m.kind = n.kind /\ m.mem = n.mem /\ m.offset = n.offset /\ m.len = n.len
    /\ m.data = n.data
StillFresh(m, n, ws) ==
    m.fresh => /\ n.fresh
               /\ \A w \in Range(ws) :
                    Addresses(n.offset, n.len) \cap Addresses(w.offset, w.len) = {}

LEMMA NotFresh ==
    /\ \A m \in Sent : LET n == [m EXCEPT !.fresh = FALSE]
                        IN  n \in Sent /\ Alike(n, m) /\ ~n.fresh
    /\ \A m \in Answered : LET n == [m EXCEPT !.fresh = FALSE]
                            IN  n \in Answered /\ Alike(n, m) /\ ~n.fresh
  BY DEF Sent, Answered, Alike

\* Outdated changes no message but its history.
LEMMA OutdatedIs ==
    ASSUME NEW S, NEW queue \in Seq(S), NEW ws,
           \A m \in S : [m EXCEPT !.fresh = FALSE] \in S /\ Alike([m EXCEPT !.fresh = FALSE], m)
                        /\ ~[m EXCEPT !.fresh = FALSE].fresh
    PROVE  /\ Outdated(queue, ws) \in Seq(S)
           /\ Len(Outdated(queue, ws)) = Len(queue)
           /\ \A n \in 1 .. Len(queue) :
                /\ Alike(Outdated(queue, ws)[n], queue[n])
                /\ StillFresh(Outdated(queue, ws)[n], queue[n], ws)
  <1> DEFINE Apart(m) == \A w \in Range(ws) :
                           Addresses(m.offset, m.len) \cap Addresses(w.offset, w.len) = {}
             new(m) == IF Apart(m) THEN m ELSE [m EXCEPT !.fresh = FALSE]
             out == Outdated(queue, ws)
  <1>1. DOMAIN queue = 1 .. Len(queue) /\ Len(queue) \in Nat
        /\ \A n \in 1 .. Len(queue) : queue[n] \in S
    OBVIOUS
  <1>2. out = [n \in 1 .. Len(queue) |-> new(queue[n])]
    BY <1>1, Zenon DEF Outdated
  <1>3. \A m \in S : new(m) \in S /\ Alike(new(m), m) /\ StillFresh(new(m), m, ws)
    <2> SUFFICES ASSUME NEW m \in S
                 PROVE  new(m) \in S /\ Alike(new(m), m) /\ StillFresh(new(m), m, ws)
      OBVIOUS
    <2>1. CASE Apart(m)
      <3>1. new(m) = m
        BY <2>1, Zenon
      <3>2. Alike(m, m) /\ StillFresh(m, m, ws)
        BY <2>1, Zenon DEF Alike, StillFresh
      <3> QED BY <3>1, <3>2, Zenon
    <2>2. CASE ~Apart(m)
      <3>1. new(m) = [m EXCEPT !.fresh = FALSE]
        BY <2>2, Zenon
      <3> HIDE DEF new
      <3> QED BY <3>1, Zenon DEF StillFresh
    <2> QED BY <2>1, <2>2
  <1> HIDE DEF new, out
  <1>4. out \in Seq(S) /\ Len(out) = Len(queue) /\ \A n \in 1 .. Len(queue) : out[n] = new(queue[n])
    BY <1>1, <1>2, <1>3
  <1> QED BY <1>1, <1>3, <1>4, Zenon DEF out

LEMMA OutdatedSent ==
    ASSUME NEW queue \in Seq(Sent), NEW ws
    PROVE  /\ Outdated(queue, ws) \in Seq(Sent)
           /\ Len(Outdated(queue, ws)) = Len(queue)
           /\ \A n \in 1 .. Len(queue) :
                /\ Alike(Outdated(queue, ws)[n], queue[n])
                /\ StillFresh(Outdated(queue, ws)[n], queue[n], ws)
  BY NotFresh, OutdatedIs

LEMMA OutdatedAnswered ==
    ASSUME NEW queue \in Seq(Answered), NEW ws
    PROVE  /\ Outdated(queue, ws) \in Seq(Answered)
           /\ Len(Outdated(queue, ws)) = Len(queue)
           /\ \A n \in 1 .. Len(queue) :
                /\ Alike(Outdated(queue, ws)[n], queue[n])
                /\ StillFresh(Outdated(queue, ws)[n], queue[n], ws)
  BY NotFresh, OutdatedIs

\* What the predicates say of a message, they say of one alike.
LEMMA AlikeSame ==
    ASSUME NEW m, NEW n, Alike(m, n), NEW v, NEW x
    PROVE  /\ Hits(v, m) <=> Hits(v, n)
           /\ Carries(m, v, x) <=> Carries(n, v, x)
           /\ Asks(v, m) /\ n.fresh => Asks(v, n)
  BY Zenon DEF Alike, Hits, Carries, Asks, Overlap, Matches

-----------------------------------------------------------------------------
(* What the user's writes do to the values that were set last.             *)

\* The answers are among as.
Fewer(back, as) == \A n \in 1 .. Len(back) : \E k \in 1 .. Len(as) : back[n] = as[k]

\* The queue after the writes of ws.
Sending(queue, ws) == Outdated(queue, ws) \o ws

\* Writes join the queue at its end.
LEMMA Grown ==
    ASSUME NEW queue \in Seq(Sent), NEW ws \in Seq(Sent)
    PROVE  /\ Sending(queue, ws) \in Seq(Sent) /\ Len(Sending(queue, ws)) = Len(queue) + Len(ws)
           /\ \A n \in 1 .. Len(queue) : /\ Alike(Sending(queue, ws)[n], queue[n])
                                        /\ StillFresh(Sending(queue, ws)[n], queue[n], ws)
           /\ \A n \in 1 .. Len(ws) : Sending(queue, ws)[Len(queue) + n] = ws[n]
  <1>1. PICK o \in Seq(Sent) :
            /\ o = Outdated(queue, ws) /\ Len(o) = Len(queue)
            /\ \A n \in 1 .. Len(queue) : Alike(o[n], queue[n]) /\ StillFresh(o[n], queue[n], ws)
    BY OutdatedSent, Zenon
  <1>2. /\ o \o ws \in Seq(Sent) /\ Len(o \o ws) = Len(o) + Len(ws)
        /\ \A n \in 1 .. Len(o) : (o \o ws)[n] = o[n]
        /\ \A n \in 1 .. Len(ws) : (o \o ws)[Len(o) + n] = ws[n]
    BY ConcatIndex
  <1>3. Sending(queue, ws) = o \o ws
    BY <1>1, Zenon DEF Sending
  <1>4. \A n \in 1 .. Len(queue) : /\ Alike(Sending(queue, ws)[n], queue[n])
                                   /\ StillFresh(Sending(queue, ws)[n], queue[n], ws)
    BY <1>1, <1>2, <1>3, Zenon
  <1> QED BY <1>1, <1>2, <1>3, <1>4, Zenon

\* A value that no write touches stays as true as it was.
LEMMA UntouchedKeeps ==
    ASSUME NEW queue \in Seq(Sent), NEW as \in Seq(Answered), NEW back \in Seq(Answered),
           Fewer(back, as), NEW ws \in Seq(Sent), NEW mem, NEW v \in Polled, NEW x,
           FollowsSet(queue, as, mem, v, x),
           \A n \in 1 .. Len(ws) : ~Hits(v, ws[n]) /\ ~ws[n].fresh
    PROVE  FollowsSet(Sending(queue, ws), Outdated(back, ws), mem, v, x)
  <1> DEFINE m == Len(queue)
             l == Len(ws)
  <1>0. PICK q : q = Sending(queue, ws)
    OBVIOUS
  <1>9. /\ q \in Seq(Sent) /\ Len(q) = m + l
        /\ \A n \in 1 .. m : Alike(q[n], queue[n]) /\ StillFresh(q[n], queue[n], ws)
        /\ \A n \in 1 .. l : q[m + n] = ws[n]
    BY <1>0, Grown, Zenon
  <1>10. \A n \in 1 .. Len(q) : n \in 1 .. m \/ \E k \in 1 .. l : n = m + k
    <2> SUFFICES ASSUME NEW n \in 1 .. Len(q), n \notin 1 .. m
                 PROVE  \E k \in 1 .. l : n = m + k
      OBVIOUS
    <2>1. n - m \in 1 .. l /\ n = m + (n - m)
      BY <1>9
    <2> QED BY <2>1
  <1>1. /\ q \in Seq(Sent) /\ Len(q) = m + l
        /\ \A n \in 1 .. m : Alike(q[n], queue[n]) /\ StillFresh(q[n], queue[n], ws)
        /\ \A n \in 1 .. l : q[m + n] = ws[n]
        /\ \A n \in 1 .. Len(q) : n \in 1 .. m \/ \E k \in 1 .. l : n = m + k
    BY <1>9, <1>10, Zenon
  <1>2. PICK b : /\ b = Outdated(back, ws) /\ Len(b) = Len(back)
                 /\ \A n \in 1 .. Len(b) : /\ Alike(b[n], back[n])
                                           /\ StillFresh(b[n], back[n], ws)
    BY OutdatedAnswered, Zenon
  <1>3. m \in Nat /\ l \in Nat
    OBVIOUS
  <1> HIDE DEF m, l
  <1>4. \A n \in 1 .. Len(q) : Hits(v, q[n]) => n \in 1 .. m /\ Hits(v, queue[n])
    <2> SUFFICES ASSUME NEW n \in 1 .. Len(q), Hits(v, q[n])
                 PROVE  n \in 1 .. m /\ Hits(v, queue[n])
      OBVIOUS
    <2>1. n \in 1 .. m
      BY <1>1, Zenon DEF l
    <2> QED BY <2>1, <1>1, AlikeSame, Zenon
  <1>5. \A n \in 1 .. Len(q) : Asks(v, q[n]) => n \in 1 .. m /\ Asks(v, queue[n])
    <2> SUFFICES ASSUME NEW n \in 1 .. Len(q), Asks(v, q[n])
                 PROVE  n \in 1 .. m /\ Asks(v, queue[n])
      OBVIOUS
    <2>1. q[n].fresh
      BY DEF Asks
    <2>2. n \in 1 .. m
      BY <1>1, <2>1, Zenon DEF l
    <2>3. queue[n].fresh
      BY <2>1, <2>2, <1>1, Zenon DEF StillFresh
    <2> QED BY <2>2, <2>3, <1>1, AlikeSame, Zenon
  <1>6. Arrives(q, mem, v, x)
    <2>1. CASE Holds(mem, v, x) /\ \A n \in 1 .. m : ~Hits(v, queue[n])
      BY <1>4, <2>1, Zenon DEF Arrives
    <2>2. CASE \E n \in 1 .. m :
                 Carries(queue[n], v, x) /\ \A k \in n + 1 .. m : ~Hits(v, queue[k])
      <3>1. PICK n \in 1 .. m :
                 Carries(queue[n], v, x) /\ \A k \in n + 1 .. m : ~Hits(v, queue[k])
        BY <2>2
      <3>2. n \in 1 .. Len(q) /\ Carries(q[n], v, x)
        BY <1>1, <1>3, <3>1, AlikeSame
      <3>3. \A k \in n + 1 .. Len(q) : k \in 1 .. Len(q) /\ (k \in 1 .. m => k \in n + 1 .. m)
        BY <1>3, <1>1
      <3>4. \A k \in n + 1 .. Len(q) : ~Hits(v, q[k])
        BY <3>1, <3>3, <1>4, Zenon
      <3> QED BY <3>2, <3>4, Zenon DEF Arrives
    <2> QED BY <2>1, <2>2 DEF FollowsSet, Arrives, m
  <1>7. AskedLast(q, v)
    <2> SUFFICES ASSUME NEW n \in 1 .. Len(q), Asks(v, q[n]), NEW k \in n + 1 .. Len(q)
                 PROVE  ~Hits(v, q[k])
      BY DEF AskedLast
    <2>1. n \in 1 .. m /\ Asks(v, queue[n])
      BY <1>5
    <2>2. \A j \in n + 1 .. m : ~Hits(v, queue[j])
      BY <2>1, Zenon DEF FollowsSet, AskedLast, m
    <2>3. k \in 1 .. Len(q) /\ (k \in 1 .. m => k \in n + 1 .. m)
      BY <1>3, <1>1
    <2> QED BY <1>4, <2>2, <2>3
  <1>8. ToldRight(q, b, v, x)
    <2> SUFFICES ASSUME NEW n \in 1 .. Len(b), Asks(v, b[n])
                 PROVE  b[n].data = BytesOf(v, x) /\ \A k \in 1 .. Len(q) : ~Hits(v, q[k])
      BY DEF ToldRight
    <2>1. Alike(b[n], back[n]) /\ back[n].fresh
      BY <1>2 DEF StillFresh, Asks
    <2>2. Asks(v, back[n])
      BY <2>1, AlikeSame, Zenon
    <2>3. PICK k \in 1 .. Len(as) : back[n] = as[k]
      BY <1>2 DEF Fewer
    <2>4. as[k].data = BytesOf(v, x) /\ \A j \in 1 .. m : ~Hits(v, queue[j])
      BY <2>2, <2>3, Zenon DEF FollowsSet, ToldRight, m
    <2> QED BY <2>1, <2>3, <2>4, <1>4, Zenon DEF Alike
  <1> QED BY <1>0, <1>2, <1>6, <1>7, <1>8, Zenon DEF FollowsSet

\* A value that is written, and by nothing else after it, is on its way: whatever was asked
\* for before is no longer fresh.
LEMMA WrittenBrings ==
    ASSUME NEW queue \in Seq(Sent), NEW back \in Seq(Answered), NEW ws \in Seq(Sent),
           NEW mem, NEW v \in Polled, NEW x,
           \A n \in 1 .. Len(ws) : ~ws[n].fresh,
           NEW i \in 1 .. Len(ws), Carries(ws[i], v, x),
           \A n \in i + 1 .. Len(ws) : ~Hits(v, ws[n])
    PROVE  FollowsSet(Sending(queue, ws), Outdated(back, ws), mem, v, x)
  <1> DEFINE m == Len(queue)
             l == Len(ws)
  <1>0. PICK q : q = Sending(queue, ws)
    OBVIOUS
  <1>9. /\ q \in Seq(Sent) /\ Len(q) = m + l
        /\ \A n \in 1 .. m : Alike(q[n], queue[n]) /\ StillFresh(q[n], queue[n], ws)
        /\ \A n \in 1 .. l : q[m + n] = ws[n]
    BY <1>0, Grown, Zenon
  <1>10. \A n \in 1 .. Len(q) : n \in 1 .. m \/ \E k \in 1 .. l : n = m + k
    <2> SUFFICES ASSUME NEW n \in 1 .. Len(q), n \notin 1 .. m
                 PROVE  \E k \in 1 .. l : n = m + k
      OBVIOUS
    <2>1. n - m \in 1 .. l /\ n = m + (n - m)
      BY <1>9
    <2> QED BY <2>1
  <1>1. /\ q \in Seq(Sent) /\ Len(q) = m + l
        /\ \A n \in 1 .. m : Alike(q[n], queue[n]) /\ StillFresh(q[n], queue[n], ws)
        /\ \A n \in 1 .. l : q[m + n] = ws[n]
        /\ \A n \in 1 .. Len(q) : n \in 1 .. m \/ \E k \in 1 .. l : n = m + k
    BY <1>9, <1>10, Zenon
  <1>2. PICK b : /\ b = Outdated(back, ws) /\ Len(b) = Len(back)
                 /\ \A n \in 1 .. Len(b) : /\ Alike(b[n], back[n])
                                           /\ StillFresh(b[n], back[n], ws)
    BY OutdatedAnswered, Zenon
  <1>3. m \in Nat /\ l \in Nat
    OBVIOUS
  <1>4. ws[i] \in Range(ws)
    BY InRange
  <1> HIDE DEF m, l
  <1>5. ASSUME NEW o, NEW n, Alike(o, n), StillFresh(o, n, ws)
        PROVE  ~Asks(v, o)
    <2> SUFFICES ASSUME Asks(v, o) PROVE FALSE
      OBVIOUS
    <2>5. n.fresh
      BY <1>5, Zenon DEF Asks, StillFresh
    <2>1. Asks(v, n)
      BY <1>5, <2>5, AlikeSame, Zenon
    <2>2. Addresses(n.offset, n.len) = AddressesOf(v)
      BY <2>1, AsksIs
    <2>3. Addresses(ws[i].offset, ws[i].len) = AddressesOf(v)
      BY DEF Carries, AddressesOf
    <2>4. Addresses(n.offset, n.len) \cap Addresses(ws[i].offset, ws[i].len) = {}
      BY <1>4, <1>5, Zenon DEF StillFresh, Asks
    <2> QED BY <2>2, <2>3, <2>4, PolledAre
  <1>6. Arrives(q, mem, v, x)
    <2>1. m + i \in 1 .. Len(q) /\ q[m + i] = ws[i]
      BY <1>1, <1>3 DEF l
    <2>2. ASSUME NEW k \in (m + i) + 1 .. Len(q) PROVE ~Hits(v, q[k])
      <3>1. k - m \in i + 1 .. l /\ k - m \in 1 .. l /\ k = m + (k - m)
        BY <1>1, <1>3 DEF l
      <3> QED BY <3>1, <1>1 DEF l
    <2> QED BY <2>1, <2>2 DEF Arrives
  <1>7. AskedLast(q, v)
    <2>1. ASSUME NEW n \in 1 .. Len(q), Asks(v, q[n]) PROVE FALSE
      <3>1. CASE n \in 1 .. m
        BY <1>1, <1>5, <2>1, <3>1
      <3>2. CASE \E k \in 1 .. l : n = m + k
        <4>1. PICK k \in 1 .. l : n = m + k
          BY <3>2
        <4>2. q[n].fresh /\ q[n] = ws[k]
          BY <1>1, <2>1, <4>1 DEF Asks
        <4> QED BY <4>2 DEF l
      <3> QED BY <1>1, <3>1, <3>2
    <2> QED BY <2>1 DEF AskedLast
  <1>8. ToldRight(q, b, v, x)
    BY <1>2, <1>5 DEF ToldRight
  <1> QED BY <1>0, <1>2, <1>6, <1>7, <1>8, Zenon DEF FollowsSet
-----------------------------------------------------------------------------
(* What the rest does to them: a request more, a message less, the device. *)

\* The positions of a queue without its head.
LEMMA Behind ==
    ASSUME NEW S, NEW queue \in Seq(S), queue # <<>>
    PROVE  /\ Tail(queue) \in Seq(S) /\ Len(Tail(queue)) + 1 = Len(queue) /\ Len(Tail(queue)) \in Nat
           /\ Head(queue) = queue[1] /\ Head(queue) \in S
           /\ \A n \in 1 .. Len(Tail(queue)) : Tail(queue)[n] = queue[n + 1]
  OBVIOUS

LEMMA AppendIs ==
    ASSUME NEW S, NEW s \in Seq(S), NEW e \in S
    PROVE  /\ Len(Append(s, e)) = Len(s) + 1 /\ Len(s) \in Nat
           /\ Append(s, e)[Len(Append(s, e))] = e
           /\ \A n \in 1 .. Len(s) : Append(s, e)[n] = s[n]
  OBVIOUS

\* What was asked for and answered does not depend on the head of the queue.
LEMMA HeadGoneAsked ==
    ASSUME NEW queue \in Seq(Sent), queue # <<>>, NEW as, NEW mem, NEW v \in Polled, NEW x,
           FollowsSet(queue, as, mem, v, x)
    PROVE  AskedLast(Tail(queue), v) /\ ToldRight(Tail(queue), as, v, x)
  <1>1. PICK t \in Seq(Sent) :
          /\ t = Tail(queue) /\ Len(t) + 1 = Len(queue) /\ Len(t) \in Nat
          /\ Head(queue) = queue[1] /\ \A n \in 1 .. Len(t) : t[n] = queue[n + 1]
    <2>1. /\ Tail(queue) \in Seq(Sent) /\ Len(Tail(queue)) + 1 = Len(queue)
          /\ Len(Tail(queue)) \in Nat /\ Head(queue) = queue[1]
          /\ \A n \in 1 .. Len(Tail(queue)) : Tail(queue)[n] = queue[n + 1]
      BY Behind
    <2> QED BY <2>1, Zenon
  <1>2. \A n \in 1 .. Len(t) : n + 1 \in 1 .. Len(queue)
    BY <1>1
  <1>4. AskedLast(t, v)
    <2> SUFFICES ASSUME NEW n \in 1 .. Len(t), Asks(v, t[n]), NEW k \in n + 1 .. Len(t)
                 PROVE  ~Hits(v, t[k])
      BY DEF AskedLast
    <2>1. k \in 1 .. Len(t) /\ k + 1 \in (n + 1) + 1 .. Len(queue)
      BY <1>1
    <2>2. Asks(v, queue[n + 1]) /\ n + 1 \in 1 .. Len(queue)
      BY <1>1, <1>2, Zenon
    <2> QED BY <1>1, <2>1, <2>2, Zenon DEF FollowsSet, AskedLast
  <1>5. ToldRight(t, as, v, x)
    <2> SUFFICES ASSUME NEW n \in 1 .. Len(as), Asks(v, as[n])
                 PROVE  as[n].data = BytesOf(v, x) /\ \A k \in 1 .. Len(t) : ~Hits(v, t[k])
      BY DEF ToldRight
    <2> QED BY <1>1, <1>2, Zenon DEF FollowsSet, ToldRight
  <1> QED BY <1>1, <1>4, <1>5, Zenon

\* A message behind the head that carries v's value still does, whatever the memory.
LEMMA StillCarried ==
    ASSUME NEW queue \in Seq(Sent), queue # <<>>, NEW mem, NEW v \in Polled, NEW x,
           NEW n \in 1 .. Len(queue), n # 1, Carries(queue[n], v, x),
           \A k \in n + 1 .. Len(queue) : ~Hits(v, queue[k])
    PROVE  Arrives(Tail(queue), mem, v, x)
  <1>1. PICK t \in Seq(Sent) :
          /\ t = Tail(queue) /\ Len(t) + 1 = Len(queue) /\ Len(t) \in Nat
          /\ \A k \in 1 .. Len(t) : t[k] = queue[k + 1]
    <2>1. /\ Tail(queue) \in Seq(Sent) /\ Len(Tail(queue)) + 1 = Len(queue)
          /\ Len(Tail(queue)) \in Nat
          /\ \A k \in 1 .. Len(Tail(queue)) : Tail(queue)[k] = queue[k + 1]
      BY Behind
    <2> QED BY <2>1, Zenon
  <1>2. n - 1 \in 1 .. Len(t) /\ (n - 1) + 1 = n
    BY <1>1
  <1>3. Carries(t[n - 1], v, x)
    BY <1>1, <1>2, Zenon
  <1>4. ASSUME NEW k \in (n - 1) + 1 .. Len(t) PROVE ~Hits(v, t[k])
    <2>1. k \in 1 .. Len(t) /\ k + 1 \in n + 1 .. Len(queue)
      BY <1>1, <1>2
    <2> QED BY <1>1, <2>1, Zenon
  <1> QED BY <1>1, <1>2, <1>3, <1>4, Zenon DEF Arrives

\* A message that neither changes v nor brings its value may go.
LEMMA HeadGone ==
    ASSUME NEW queue \in Seq(Sent), queue # <<>>, NEW as, NEW mem, NEW v \in Polled, NEW x,
           FollowsSet(queue, as, mem, v, x), ~Carries(Head(queue), v, x)
    PROVE  FollowsSet(Tail(queue), as, mem, v, x)
  <1>1. /\ Len(Tail(queue)) + 1 = Len(queue) /\ Len(Tail(queue)) \in Nat /\ Head(queue) = queue[1]
        /\ \A n \in 1 .. Len(Tail(queue)) : Tail(queue)[n] = queue[n + 1]
    BY Behind
  <1>2. PICK l \in Nat : l = Len(Tail(queue)) /\ Len(queue) = l + 1
    BY <1>1
  <1>3. \A n \in 1 .. l : n + 1 \in 1 .. l + 1
    OBVIOUS
  <1>4. Arrives(Tail(queue), mem, v, x)
    <2>1. CASE Holds(mem, v, x) /\ \A n \in 1 .. Len(queue) : ~Hits(v, queue[n])
      BY <1>1, <1>2, <1>3, <2>1, Zenon DEF Arrives
    <2>2. CASE \E n \in 1 .. Len(queue) :
                 Carries(queue[n], v, x) /\ \A k \in n + 1 .. Len(queue) : ~Hits(v, queue[k])
      <3>1. PICK n \in 1 .. Len(queue) :
                 Carries(queue[n], v, x) /\ \A k \in n + 1 .. Len(queue) : ~Hits(v, queue[k])
        BY <2>2
      <3>2. n # 1
        BY <1>1, <3>1, Zenon
      <3> QED BY <3>1, <3>2, StillCarried
    <2> QED BY <2>1, <2>2 DEF FollowsSet, Arrives
  <1> QED BY <1>4, HeadGoneAsked DEF FollowsSet

\* A request joins the queue.
LEMMA RequestJoins ==
    ASSUME NEW queue \in Seq(Sent), NEW m \in Sent, m.kind = "request", NEW as, NEW mem,
           NEW v \in Polled, NEW x, FollowsSet(queue, as, mem, v, x)
    PROVE  FollowsSet(Append(queue, m), as, mem, v, x)
  <1>1. PICK t : t = Append(queue, m)
    OBVIOUS
  <1>2. /\ Len(t) = Len(queue) + 1 /\ Len(queue) \in Nat /\ t[Len(t)] = m
        /\ \A n \in 1 .. Len(queue) : t[n] = queue[n]
    BY <1>1
  <1>3. \A n \in 1 .. Len(t) : n \in 1 .. Len(queue) \/ n = Len(t)
    BY <1>2
  <1>4. ~Hits(v, m)
    BY DEF Hits
  <1>5. Arrives(t, mem, v, x)
    <2>1. CASE Holds(mem, v, x) /\ \A n \in 1 .. Len(queue) : ~Hits(v, queue[n])
      BY <1>2, <1>3, <1>4, <2>1, Zenon DEF Arrives
    <2>2. CASE \E n \in 1 .. Len(queue) :
                 Carries(queue[n], v, x) /\ \A k \in n + 1 .. Len(queue) : ~Hits(v, queue[k])
      <3>1. PICK n \in 1 .. Len(queue) :
                 Carries(queue[n], v, x) /\ \A k \in n + 1 .. Len(queue) : ~Hits(v, queue[k])
        BY <2>2
      <3>2. n \in 1 .. Len(t) /\ \A k \in n + 1 .. Len(t) : k \in n + 1 .. Len(queue) \/ k = Len(t)
        BY <1>2
      <3>4. \A k \in n + 1 .. Len(queue) : k \in 1 .. Len(queue)
        BY <1>2
      <3>3. \A k \in n + 1 .. Len(t) : ~Hits(v, t[k])
        BY <1>2, <1>4, <3>1, <3>2, <3>4, Zenon
      <3> QED BY <1>2, <3>1, <3>2, <3>3, Zenon DEF Arrives
    <2> QED BY <2>1, <2>2 DEF FollowsSet, Arrives
  <1>6. AskedLast(t, v)
    <2> SUFFICES ASSUME NEW n \in 1 .. Len(t), Asks(v, t[n]), NEW k \in n + 1 .. Len(t)
                 PROVE  ~Hits(v, t[k])
      BY DEF AskedLast
    <2>1. CASE k = Len(t)
      BY <1>2, <1>4, <2>1, Zenon
    <2>2. CASE k # Len(t)
      <3>1. n \in 1 .. Len(queue) /\ k \in 1 .. Len(queue) /\ k \in n + 1 .. Len(queue)
        BY <1>2, <2>2
      <3> QED BY <1>2, <3>1, Zenon DEF FollowsSet, AskedLast
    <2> QED BY <2>1, <2>2
  <1>7. ToldRight(t, as, v, x)
    <2> SUFFICES ASSUME NEW n \in 1 .. Len(as), Asks(v, as[n])
                 PROVE  as[n].data = BytesOf(v, x) /\ \A k \in 1 .. Len(t) : ~Hits(v, t[k])
      BY DEF ToldRight
    <2> QED BY <1>2, <1>3, <1>4, Zenon DEF FollowsSet, ToldRight
  <1> QED BY <1>1, <1>5, <1>6, <1>7, Zenon DEF FollowsSet

\* Answers go.
LEMMA AnswerGone ==
    ASSUME NEW queue, NEW as \in Seq(Answered), NEW back, Fewer(back, as), NEW mem,
           NEW v, NEW x, FollowsSet(queue, as, mem, v, x)
    PROVE  FollowsSet(queue, back, mem, v, x)
  BY Zenon DEF FollowsSet, ToldRight, Fewer

LEMMA FewerTail ==
    ASSUME NEW as \in Seq(Answered)
    PROVE  Fewer(as, as) /\ (as # <<>> => Fewer(Tail(as), as))
  <1>1. Fewer(as, as)
    BY DEF Fewer
  <1>2. ASSUME as # <<>> PROVE Fewer(Tail(as), as)
    <2>1. /\ Len(Tail(as)) + 1 = Len(as) /\ Len(Tail(as)) \in Nat
          /\ \A n \in 1 .. Len(Tail(as)) : Tail(as)[n] = as[n + 1]
      BY <1>2, Behind
    <2>2. \A n \in 1 .. Len(Tail(as)) : n + 1 \in 1 .. Len(as)
      <3>1. PICK l \in Nat : l = Len(Tail(as)) /\ Len(as) = l + 1
        BY <2>1
      <3>2. \A n \in 1 .. l : n + 1 \in 1 .. l + 1
        OBVIOUS
      <3> QED BY <3>1, <3>2, Zenon
    <2> QED BY <2>1, <2>2, Zenon DEF Fewer
  <1> QED BY <1>1, <1>2

\* The module changes a byte of another variable.
LEMMA ByteElsewhere ==
    ASSUME NEW queue, NEW as, NEW mem \in Memories, NEW v \in Polled, NEW x, NEW a, NEW b,
           a \notin AddressesOf(v), FollowsSet(queue, as, mem, v, x)
    PROVE  FollowsSet(queue, as, [mem EXCEPT ![a] = b], v, x)
  <1>1. \A i \in 1 .. Length(Layout[v].type) :
           Layout[v].offset + i - 1 \in AddressesOf(v) /\ Layout[v].offset + i - 1 \in 0 .. MemorySize - 1
    <2>1. PICK o \in Nat, n \in Lens : o = Layout[v].offset /\ n = Length(Layout[v].type)
      BY PolledAre
    <2>2. o + n <= MemorySize /\ MemorySize \in Nat
      BY <2>1, PolledAre, ValuesAssumption
    <2>3. AddressesOf(v) = o .. o + n - 1
      BY <2>1 DEF AddressesOf, Addresses
    <2>4. \A i \in 1 .. n : o + i - 1 \in o .. o + n - 1 /\ o + i - 1 \in 0 .. MemorySize - 1
      BY <2>2 DEF Lens
    <2> QED BY <2>1, <2>3, <2>4, Zenon
  <1>2. Holds(mem, v, x) => Holds([mem EXCEPT ![a] = b], v, x)
    BY <1>1 DEF Holds, Memories
  <1> QED BY <1>2, Zenon DEF FollowsSet, Arrives
-----------------------------------------------------------------------------
(* The device takes the head of the queue.                                 *)

AnswerFrom(mem, m) ==
    [kind |-> "answer", mem |-> m.mem, offset |-> m.offset, len |-> m.len,
     data |-> [i \in 1 .. m.len |-> mem[m.offset + i - 1]], fresh |-> m.fresh]

StoredIn(mem, m) ==
    [a \in DOMAIN mem |-> IF a \in Addresses(m.offset, m.len) THEN m.data[a - m.offset + 1] ELSE mem[a]]

LEMMA SentIs ==
    ASSUME NEW m \in Sent
    PROVE  /\ m.kind \in {"request", "write"} /\ m.mem \in {"ram", "eeprom"} /\ m.offset \in Nat
           /\ m.len \in Lens /\ m.data \in Seq(0 .. Byte - 1) /\ m.fresh \in BOOLEAN
           /\ m.kind = "write" => Len(m.data) = m.len
  BY DEF Sent

\* An answer has bytes of the memory.
LEMMA AnswerIs ==
    ASSUME NEW m \in Sent, NEW mem \in Memories, m.offset + m.len <= MemorySize
    PROVE  AnswerFrom(mem, m) \in Answered
  <1>1. PICK o \in Nat, n \in Lens : o = m.offset /\ n = m.len
    BY SentIs
  <1>2. \A i \in 1 .. n : o + i - 1 \in 0 .. MemorySize - 1
    BY <1>1, ValuesAssumption, SMTT(30) DEF Lens
  <1>3. [i \in 1 .. n |-> mem[o + i - 1]] \in Seq(0 .. Byte - 1)
        /\ Len([i \in 1 .. n |-> mem[o + i - 1]]) = n
    <2>1. n \in Nat
      BY DEF Lens
    <2>2. \A i \in 1 .. n : mem[o + i - 1] \in 0 .. Byte - 1
      BY <1>2 DEF Memories
    <2> HIDE <1>1, <1>2
    <2> QED BY <2>1, <2>2
  <1>4. PICK d \in Seq(0 .. Byte - 1) : d = [i \in 1 .. n |-> mem[o + i - 1]] /\ Len(d) = n
    BY <1>3
  <1>5. AnswerFrom(mem, m) = [kind |-> "answer", mem |-> m.mem, offset |-> o, len |-> n, data |-> d,
                              fresh |-> m.fresh]
    BY <1>1, <1>4, Zenon DEF AnswerFrom
  <1>6. m.mem \in {"ram", "eeprom"} /\ m.fresh \in BOOLEAN
    BY SentIs
  <1>7. PICK k \in {"ram", "eeprom"}, f \in BOOLEAN : k = m.mem /\ f = m.fresh
    BY <1>6
  <1>8. [kind |-> "answer", mem |-> k, offset |-> o, len |-> n, data |-> d, fresh |-> f] \in Answered
    BY <1>4 DEF Answered
  <1> QED BY <1>5, <1>7, <1>8, Zenon

\* A write that is stored leaves a memory of bytes.
LEMMA StoredIs ==
    ASSUME NEW m \in Sent, m.kind = "write", NEW mem \in Memories
    PROVE  StoredIn(mem, m) \in Memories
  <1>1. PICK o \in Nat, n \in Lens, d \in Seq(0 .. Byte - 1) :
            o = m.offset /\ n = m.len /\ d = m.data /\ Len(d) = n
    BY SentIs
  <1>2. \A a \in o .. o + n - 1 : a - o + 1 \in 1 .. Len(d)
    <2>1. n \in Nat /\ Len(d) = n
      BY <1>1 DEF Lens
    <2>2. \A a \in o .. o + n - 1 : a - o + 1 \in 1 .. n
      BY <2>1
    <2> QED BY <2>1, <2>2, Zenon
  <1>3. \A a \in o .. o + n - 1 : d[a - o + 1] \in 0 .. Byte - 1
    <2>1. \A i \in 1 .. Len(d) : d[i] \in 0 .. Byte - 1
      BY InRange
    <2> QED BY <1>2, <2>1, Zenon
  <1>4. StoredIn(mem, m) = [a \in 0 .. MemorySize - 1 |->
                              IF a \in o .. o + n - 1 THEN d[a - o + 1] ELSE mem[a]]
    <2>1. DOMAIN mem = 0 .. MemorySize - 1
      BY DEF Memories
    <2> QED BY <1>1, <2>1, Zenon DEF StoredIn, Addresses
  <1> QED BY <1>3, <1>4 DEF Memories

\* A request is answered with what the user set last, if it was asked for after that.
LEMMA RequestAnswered ==
    ASSUME NEW queue \in Seq(Sent), queue # <<>>, NEW as \in Seq(Answered), NEW mem \in Memories,
           NEW v \in Polled, NEW x, FollowsSet(queue, as, mem, v, x),
           Head(queue).kind = "request", Head(queue).offset + Head(queue).len <= MemorySize,
           BytesOf(v, x) \in Seq(0 .. Byte - 1), Len(BytesOf(v, x)) = Length(Layout[v].type)
    PROVE  FollowsSet(Tail(queue), Append(as, AnswerFrom(mem, Head(queue))), mem, v, x)
  <1>1. PICK m \in Sent : m = Head(queue) /\ m = queue[1]
    BY Behind
  <1>2. FollowsSet(Tail(queue), as, mem, v, x)
    BY <1>1, HeadGone DEF Carries
  <1>3. PICK e \in Answered : e = AnswerFrom(mem, m)
    BY <1>1, AnswerIs
  <1>4. ASSUME Asks(v, e)
        PROVE  e.data = BytesOf(v, x) /\ \A k \in 1 .. Len(Tail(queue)) : ~Hits(v, Tail(queue)[k])
    <2>1. Asks(v, m)
      BY <1>3, <1>4, Zenon DEF AnswerFrom, Asks, Matches
    <2>2. /\ Len(queue) = Len(Tail(queue)) + 1 /\ Len(Tail(queue)) \in Nat
          /\ \A n \in 1 .. Len(Tail(queue)) : Tail(queue)[n] = queue[n + 1]
      BY Behind
    <2>3. PICK l \in Nat : l = Len(Tail(queue)) /\ Len(queue) = l + 1
      BY <2>2
    <2>4. 1 \in 1 .. Len(queue) /\ \A n \in 1 .. l : n + 1 \in 1 + 1 .. Len(queue)
      BY <2>3
    <2>5. \A n \in 1 .. l : ~Hits(v, Tail(queue)[n])
      BY <1>1, <2>1, <2>2, <2>3, <2>4, Zenon DEF FollowsSet, AskedLast
    <2>6. \A n \in 1 .. Len(queue) : n = 1 \/ (n - 1 \in 1 .. l /\ (n - 1) + 1 = n)
      BY <2>3
    <2>7. ~Hits(v, queue[1])
      BY <1>1 DEF Hits
    <2>8. \A n \in 1 .. Len(queue) : ~Hits(v, queue[n])
      BY <2>2, <2>3, <2>5, <2>6, <2>7, Zenon
    <2>9. Holds(mem, v, x)
      BY <2>8, CarriesHits, Zenon DEF FollowsSet, Arrives
    <2>10. e.data = BytesOf(v, x)
      <3>1. PICK o \in Nat, n \in Lens : o = Layout[v].offset /\ n = Length(Layout[v].type)
        BY PolledAre
      <3>2. m.offset = o /\ m.len = n
        BY <2>1, <3>1 DEF Asks, Matches
      <3>3. e.data = [i \in 1 .. n |-> mem[o + i - 1]]
        BY <1>3, <3>2, Zenon DEF AnswerFrom
      <3>4. PICK d \in Seq(0 .. Byte - 1) : d = BytesOf(v, x) /\ Len(d) = n
        BY <3>1
      <3>5. \A i \in 1 .. n : mem[o + i - 1] = d[i]
        BY <2>9, <3>1, <3>4, Zenon DEF Holds
      <3>6. d = [i \in 1 .. n |-> d[i]]
        BY <3>4
      <3> QED BY <3>3, <3>4, <3>5, <3>6
    <2> QED BY <2>3, <2>5, <2>10
  <1>5. PICK t : t = Append(as, e)
    OBVIOUS
  <1>6. Len(t) = Len(as) + 1 /\ Len(as) \in Nat /\ t[Len(t)] = e /\ \A n \in 1 .. Len(as) : t[n] = as[n]
    <2>1. /\ Len(Append(as, e)) = Len(as) + 1 /\ Len(as) \in Nat
          /\ Append(as, e)[Len(Append(as, e))] = e
          /\ \A n \in 1 .. Len(as) : Append(as, e)[n] = as[n]
      BY AppendIs, ZenonT(40)
    <2> QED BY <1>5, <2>1, Zenon
  <1>7. \A n \in 1 .. Len(t) : n \in 1 .. Len(as) \/ n = Len(t)
    <2>1. PICK l \in Nat : l = Len(as) /\ Len(t) = l + 1
      BY <1>6, Zenon
    <2>2. \A n \in 1 .. l + 1 : n \in 1 .. l \/ n = l + 1
      OBVIOUS
    <2> QED BY <2>1, <2>2, Zenon
  <1>8. ToldRight(Tail(queue), t, v, x)
    <2> SUFFICES ASSUME NEW n \in 1 .. Len(t), Asks(v, t[n])
                 PROVE  /\ t[n].data = BytesOf(v, x)
                        /\ \A k \in 1 .. Len(Tail(queue)) : ~Hits(v, Tail(queue)[k])
      BY DEF ToldRight
    <2>1. CASE n \in 1 .. Len(as)
      BY <1>2, <1>6, <2>1, Zenon DEF FollowsSet, ToldRight
    <2>2. CASE n = Len(t)
      BY <1>4, <1>6, <2>2, Zenon
    <2> QED BY <1>7, <2>1, <2>2
  <1> QED BY <1>1, <1>2, <1>3, <1>5, <1>8, Zenon DEF FollowsSet

\* A write reaches the memory.
LEMMA WriteArrives ==
    ASSUME NEW queue \in Seq(Sent), queue # <<>>, NEW as \in Seq(Answered), NEW mem \in Memories,
           NEW v \in Polled, NEW x, FollowsSet(queue, as, mem, v, x),
           Head(queue).kind = "write"
    PROVE  FollowsSet(Tail(queue), as, StoredIn(mem, Head(queue)), v, x)
  <1>1. PICK m \in Sent : m = Head(queue) /\ m = queue[1]
    BY Behind
  <1>2. /\ Len(queue) = Len(Tail(queue)) + 1 /\ Len(Tail(queue)) \in Nat
        /\ \A n \in 1 .. Len(Tail(queue)) : Tail(queue)[n] = queue[n + 1]
    BY Behind
  <1>3. PICK l \in Nat : l = Len(Tail(queue)) /\ Len(queue) = l + 1
    BY <1>2
  <1>4. PICK o \in Nat, n \in Lens : o = Layout[v].offset /\ n = Length(Layout[v].type)
    BY PolledAre
  <1>5. o + n <= MemorySize /\ AddressesOf(v) = o .. o + n - 1
    BY <1>4, PolledAre DEF AddressesOf, Addresses
  <1>6. \A i \in 1 .. n : o + i - 1 \in o .. o + n - 1 /\ o + i - 1 \in 0 .. MemorySize - 1
    BY <1>5, ValuesAssumption DEF Lens
  <1>7. DOMAIN mem = 0 .. MemorySize - 1
    BY DEF Memories
  <1>8. Carries(m, v, x) => Holds(StoredIn(mem, m), v, x)
    <2> SUFFICES ASSUME Carries(m, v, x) PROVE Holds(StoredIn(mem, m), v, x)
      OBVIOUS
    <2>1. m.offset = o /\ m.len = n /\ m.data = BytesOf(v, x)
      BY <1>4 DEF Carries
    <2>2. ASSUME NEW i \in 1 .. n PROVE StoredIn(mem, m)[o + i - 1] = BytesOf(v, x)[i]
      <3>1. (o + i - 1) - o + 1 = i
        BY DEF Lens
      <3>2. o + i - 1 \in Addresses(m.offset, m.len)
        BY <1>6, <2>1 DEF Addresses
      <3>3. StoredIn(mem, m)[o + i - 1] = m.data[(o + i - 1) - m.offset + 1]
        BY <1>6, <1>7, <3>2, Zenon DEF StoredIn
      <3> QED BY <2>1, <3>1, <3>3, Zenon
    <2> QED BY <1>4, <2>2, Zenon DEF Holds
  <1>9. Holds(mem, v, x) /\ ~Hits(v, m) => Holds(StoredIn(mem, m), v, x)
    <2> SUFFICES ASSUME Holds(mem, v, x), ~Hits(v, m) PROVE Holds(StoredIn(mem, m), v, x)
      OBVIOUS
    <2>1. AddressesOf(v) \cap Addresses(m.offset, m.len) = {}
      BY <1>1 DEF Hits, Overlap
    <2>2. \A i \in 1 .. n : o + i - 1 \notin Addresses(m.offset, m.len)
      BY <1>5, <1>6, <2>1
    <2>3. \A i \in 1 .. n : StoredIn(mem, m)[o + i - 1] = mem[o + i - 1]
      BY <1>6, <1>7, <2>2, Zenon DEF StoredIn
    <2> QED BY <1>4, <2>3, Zenon DEF Holds
  <1>10. \A k \in 1 .. l : k + 1 \in 1 .. Len(queue) /\ k + 1 \in 1 + 1 .. Len(queue)
    BY <1>3
  <1>11. 1 \in 1 .. Len(queue)
    BY <1>3
  <1>12. Arrives(Tail(queue), StoredIn(mem, m), v, x)
    <2>1. CASE Holds(mem, v, x) /\ \A k \in 1 .. Len(queue) : ~Hits(v, queue[k])
      BY <1>1, <1>2, <1>3, <1>9, <1>10, <1>11, <2>1, Zenon DEF Arrives
    <2>2. CASE \E i \in 1 .. Len(queue) :
                 Carries(queue[i], v, x) /\ \A k \in i + 1 .. Len(queue) : ~Hits(v, queue[k])
      <3>1. PICK i \in 1 .. Len(queue) :
                 Carries(queue[i], v, x) /\ \A k \in i + 1 .. Len(queue) : ~Hits(v, queue[k])
        BY <2>2
      <3>2. CASE i = 1
        <4>1. Carries(m, v, x) /\ \A k \in 1 + 1 .. Len(queue) : ~Hits(v, queue[k])
          BY <1>1, <3>1, <3>2, Zenon
        <4> QED BY <1>2, <1>3, <1>8, <1>10, <4>1, Zenon DEF Arrives
      <3>3. CASE i # 1
        BY <3>1, <3>3, StillCarried
      <3> QED BY <3>2, <3>3
    <2> QED BY <2>1, <2>2 DEF FollowsSet, Arrives
  <1> QED BY <1>1, <1>12, HeadGoneAsked DEF FollowsSet
-----------------------------------------------------------------------------
(* Values and sliders.                                                     *)

\* A slider stays in its range.
LEMMA SliderBounds ==
    /\ Min(SliderRange) \in SliderRange /\ Max(SliderRange) \in SliderRange
    /\ SliderRange \subseteq Int
    /\ \A x \in Int : Clamp(x) \in SliderRange
  <1>1. PICK lo \in SliderRange, hi \in SliderRange : SliderRange = lo .. hi
    BY ValuesAssumption
  <1>2. SliderRange \subseteq Int
    BY ValuesAssumption
  <1>3. lo \in Int /\ hi \in Int /\ lo <= hi
    <2>1. lo \in Int /\ hi \in Int
      BY <1>2
    <2>2. lo \in lo .. hi
      BY <1>1
    <2> QED BY <2>1, <2>2
  <1>4. Min(lo .. hi) = lo
    BY <1>3 DEF Min
  <1>5. Max(lo .. hi) = hi
    BY <1>3 DEF Max
  <1>6. ASSUME NEW x \in Int PROVE Clamp(x) \in lo .. hi
    <2>1. PICK y \in Int : y = (IF x <= lo THEN lo ELSE x)
      BY <1>3
    <2>2. Max({x, lo}) = y
      BY <1>3, <2>1 DEF Max
    <2>3. PICK z \in Int : z = (IF y <= hi THEN y ELSE hi)
      BY <1>3
    <2>4. Min({y, hi}) = z
      BY <1>3, <2>3 DEF Min
    <2>5. Clamp(x) = z
      BY <1>1, <1>4, <1>5, <2>2, <2>4, Zenon DEF Clamp
    <2> QED BY <1>3, <2>1, <2>3, <2>5
  <1> QED BY <1>1, <1>2, <1>4, <1>5, <1>6

\* The values a variable has are integers, or not set.
Plain == {Invalid} \cup {<<x>> : x \in Int}

LEMMA QVariantsArePlain ==
    /\ QVariants \subseteq Plain
    /\ \A q \in Plain : ToInt(q) \in Int
    /\ \A x \in UserValues \cup SliderRange : <<x>> \in QVariants /\ x \in Int
    /\ \A t \in Types : \A x \in TypeRange(t) : <<x>> \in QVariants
    /\ \A file \in Files : file \in [Vars -> QVariants]
  <1>1. UserValues \subseteq Int /\ SliderRange \subseteq Int
    BY ValuesAssumption
  <1>2. \A t \in Types : TypeRange(t) \subseteq Int
    <2> SUFFICES ASSUME NEW t \in Types PROVE TypeRange(t) \subseteq Int
      OBVIOUS
    <2>1. PICK m \in Nat : m = Modulus(t)
      BY Lengths
    <2> QED BY <2>1 DEF TypeRange
  <1>11. ASSUME NEW q \in Seq(Int), Len(q) <= 1 PROVE q \in Plain
    <2>4. Len(q) \in Nat
      BY LenProperties, Zenon
    <2>1. Len(q) = 0 \/ Len(q) = 1
      <3>1. \A l \in Nat : l <= 1 => l = 0 \/ l = 1
        OBVIOUS
      <3> QED BY <1>11, <2>4, <3>1, Zenon
    <2>2. CASE Len(q) = 0
      BY <2>2 DEF Plain, Invalid
    <2>3. CASE Len(q) = 1
      <3>1. q = <<q[1]>> /\ q[1] \in Int
        BY <2>3
      <3> QED BY <3>1, Zenon DEF Plain
    <2> QED BY <2>1, <2>2, <2>3
  <1>3. ASSUME NEW file \in Files, NEW v \in Vars PROVE file[v] \in Plain
    <2>1. file[v] \in Seq(Int) /\ Len(file[v]) <= 1
      BY ValuesAssumption DEF Vars
    <2> QED BY <1>11, <2>1, Zenon
  <1>4. \A file \in Files : file \in [Vars -> Seq(Int)]
    BY ValuesAssumption DEF Vars
  <1>5. \A file \in Files : Range(file) \subseteq Plain
    BY <1>3, <1>4 DEF Range
  <1>6. QVariants \subseteq Plain
    BY <1>1, <1>2, <1>5 DEF QVariants, Plain
  <1>7. \A q \in Plain : ToInt(q) \in Int
    BY DEF Plain, ToInt, Invalid
  <1>8. \A x \in UserValues \cup SliderRange : <<x>> \in QVariants /\ x \in Int
    BY <1>1 DEF QVariants
  <1>9. \A t \in Types : \A x \in TypeRange(t) : <<x>> \in QVariants
    BY DEF QVariants
  <1>10. \A file \in Files : file \in [Vars -> QVariants]
    <2> SUFFICES ASSUME NEW file \in Files PROVE file \in [Vars -> QVariants]
      OBVIOUS
    <2>1. file \in [Vars -> Range(file)]
      BY <1>4 DEF Range
    <2>2. Range(file) \subseteq QVariants
      BY DEF QVariants
    <2> QED BY <2>1, <2>2
  <1> QED BY <1>6, <1>7, <1>8, <1>9, <1>10

LEMMA SettledIs ==
    ASSUME Typed, NEW v \in Vars, NEW q \in QVariants
    PROVE  /\ Settled(v, q) \in QVariants
           /\ Clamp(ToInt(q)) \in SliderRange
  <1>1. Clamp(ToInt(q)) \in SliderRange
    BY QVariantsArePlain, SliderBounds
  <1>2. <<Clamp(ToInt(q))>> \in QVariants
    BY <1>1, QVariantsArePlain
  <1> QED BY <1>1, <1>2, Zenon DEF Settled

\* The messages that are sent for a variable.
LEMMA WriteRequestIs ==
    ASSUME NEW v \in Vars, OnBus(v), NEW q \in Plain
    PROVE  /\ WriteRequest(v, q) \in Sent /\ ~WriteRequest(v, q).fresh
           /\ Carries(WriteRequest(v, q), v, ToInt(q))
           /\ \A u \in Vars : Hits(u, WriteRequest(v, q)) <=> Overlap(u, WriteRequest(v, q))
  <1>1. PICK x \in Int : x = ToInt(q)
    BY QVariantsArePlain
  <1>2. ToBytes(Layout[v].type, q) = BytesOf(v, x)
    <2>1. ToInt(<<x>>) = ToInt(q)
      BY <1>1 DEF ToInt, Invalid
    <2> QED BY <2>1, Zenon DEF ToBytes, BytesOf
  <1>3. PICK t \in Types, o \in Nat, n \in Lens, k \in {"ram", "eeprom"} :
            t = Layout[v].type /\ o = Layout[v].offset /\ n = Length(t) /\ k = Layout[v].mem
    BY VarsAre DEF OnBus
  <1>4. PICK d \in Seq(0 .. Byte - 1) : d = BytesOf(v, x) /\ Len(d) = n
    BY <1>3, NumberOfValue DEF BytesOf
  <1>5. WriteRequest(v, q) = [kind |-> "write", mem |-> k, offset |-> o, len |-> n, data |-> d,
                              fresh |-> FALSE]
    BY <1>2, <1>3, <1>4, Zenon DEF WriteRequest
  <1>6. [kind |-> "write", mem |-> k, offset |-> o, len |-> n, data |-> d, fresh |-> FALSE] \in Sent
    BY <1>4 DEF Sent
  <1>7. ~WriteRequest(v, q).fresh /\ WriteRequest(v, q).kind = "write"
    BY <1>5
  <1>8. Carries(WriteRequest(v, q), v, ToInt(q))
    BY <1>1, <1>3, <1>4, <1>5 DEF Carries
  <1>9. \A u \in Vars : Hits(u, WriteRequest(v, q)) <=> Overlap(u, WriteRequest(v, q))
    BY <1>7 DEF Hits
  <1> QED BY <1>5, <1>6, <1>7, <1>8, <1>9, Zenon

LEMMA ReadRequestIs ==
    ASSUME Typed, NEW v \in Vars, OnBus(v)
    PROVE  ReadRequest(v) \in Sent /\ ReadRequest(v).kind = "request"
  <1>1. PICK o \in Nat, n \in Lens, k \in {"ram", "eeprom"} :
            o = Layout[v].offset /\ n = Length(Layout[v].type) /\ k = Layout[v].mem
    BY VarsAre DEF OnBus
  <1>2. PICK f \in BOOLEAN : f <=> (lastSet[v] # {})
    OBVIOUS
  <1>3. ReadRequest(v).kind = "request"
    BY DEF ReadRequest
  <1>4. <<>> \in Seq(0 .. Byte - 1)
    OBVIOUS
  <1>5. ReadRequest(v) \in Sent
    <2>1. \A g \in BOOLEAN : [kind |-> "request", mem |-> k, offset |-> o, len |-> n, data |-> <<>>, fresh |-> g] \in Sent
      BY <1>4 DEF Sent
    <2>2. (lastSet[v] # {}) \in BOOLEAN
      OBVIOUS
    <2>3. ReadRequest(v) = [kind |-> "request", mem |-> k, offset |-> o, len |-> n, data |-> <<>>,
                            fresh |-> lastSet[v] # {}]
      BY <1>1, Zenon DEF ReadRequest
    <2> QED BY <2>1, <2>2, <2>3, Zenon
  <1> QED BY <1>3, <1>5
-----------------------------------------------------------------------------
(* The invariant.                                                          *)

LEMMA InitValues == Init => ValuesInv
  <1> SUFFICES ASSUME Init PROVE ValuesInv
    OBVIOUS
  <1>1. value \in [Vars -> QVariants] /\ sliders \subseteq Vars
    BY DEF Init, QVariants
  <1>2. position \in [Vars -> SliderRange]
    BY SliderBounds DEF Init
  <1>3. scheduleList \in Seq(Vars)
    BY VarsAre, OnlyRange DEF Init, Scheduled
  <1>4. sendQueue \in Seq(Sent) /\ answers \in Seq(Answered) /\ InFlight <= MaxInFlight
    <2>1. sendQueue = <<>> /\ answers = <<>>
      BY DEF Init
    <2>2. <<>> \in Seq(Sent) /\ <<>> \in Seq(Answered) /\ Len(<<>>) = 0 /\ 0 + 0 <= MaxInFlight
      BY ValuesAssumption
    <2> QED BY <2>1, <2>2, Zenon DEF InFlight
  <1>5. memory \in Memories
    BY ByteAssumption DEF Init, Memories
  <1>6. lastSet = [v \in Vars |-> {}]
    BY DEF Init
  <1>7. /\ lastSet \in [Vars -> SUBSET Int]
        /\ \A v \in Vars : lastSet[v] = {} \/ \E x \in Int : lastSet[v] = {x}
    BY <1>6
  <1>8. FollowsUser
    BY <1>6, PolledAre DEF FollowsUser
  <1> QED BY <1>1, <1>2, <1>3, <1>4, <1>5, <1>7, <1>8 DEF ValuesInv, Typed

\* After writes of the user, when each value that was set last is either untouched or written.
LEMMA WritesFollow ==
    ASSUME Typed, FollowsUser, NEW back \in Seq(Answered), Fewer(back, answers),
           NEW ws \in Seq(Sent), \A n \in 1 .. Len(ws) : ~ws[n].fresh,
           NEW set,
           \A v \in Polled : \A x \in set[v] :
              \/ x \in lastSet[v] /\ \A n \in 1 .. Len(ws) : ~Hits(v, ws[n])
              \/ \E i \in 1 .. Len(ws) :
                    Carries(ws[i], v, x) /\ \A n \in i + 1 .. Len(ws) : ~Hits(v, ws[n])
    PROVE  \A v \in Polled : \A x \in set[v] :
              FollowsSet(Sending(sendQueue, ws), Outdated(back, ws), memory, v, x)
  <1> SUFFICES ASSUME NEW v \in Polled, NEW x \in set[v]
               PROVE  FollowsSet(Sending(sendQueue, ws), Outdated(back, ws), memory, v, x)
    OBVIOUS
  <1>1. sendQueue \in Seq(Sent) /\ answers \in Seq(Answered)
    BY DEF Typed
  <1>2. CASE x \in lastSet[v] /\ \A n \in 1 .. Len(ws) : ~Hits(v, ws[n])
    <2>1. FollowsSet(sendQueue, answers, memory, v, x)
      BY <1>2 DEF FollowsUser
    <2>2. \A n \in 1 .. Len(ws) : ~Hits(v, ws[n]) /\ ~ws[n].fresh
      BY <1>2
    <2> QED BY <1>1, <2>1, <2>2, UntouchedKeeps
  <1>3. CASE \E i \in 1 .. Len(ws) :
                Carries(ws[i], v, x) /\ \A n \in i + 1 .. Len(ws) : ~Hits(v, ws[n])
    BY <1>1, <1>3, WrittenBrings
  <1> QED BY <1>2, <1>3

\* What setValue sends: the same write once for the user and once for the slider.
LEMMA WritesAre ==
    ASSUME Typed, NEW v \in Vars, NEW q \in QVariants, NEW uu \in BOOLEAN
    PROVE  /\ Writes(v, q, uu) \in Seq(Sent)
           /\ \A n \in 1 .. Len(Writes(v, q, uu)) :
                OnBus(v) /\ Writes(v, q, uu)[n] = WriteRequest(v, Settled(v, q))
  <1>1. CASE ~OnBus(v)
    <2>1. Writes(v, q, uu) = <<>>
      BY <1>1, Zenon DEF Writes
    <2>2. <<>> \in Seq(Sent) /\ \A n \in 1 .. Len(<<>>) : FALSE
      OBVIOUS
    <2> QED BY <2>1, <2>2, Zenon
  <1>2. CASE OnBus(v)
    <2>1. PICK w \in Sent : w = WriteRequest(v, Settled(v, q))
      BY <1>2, SettledIs, QVariantsArePlain, WriteRequestIs
    <2>2. PICK l \in Nat : l = (IF uu THEN 1 ELSE 0) + (IF Moves(v, q) THEN 1 ELSE 0)
      <3>1. PICK a \in Nat : a = IF uu THEN 1 ELSE 0
        OBVIOUS
      <3>2. PICK b \in Nat : b = IF Moves(v, q) THEN 1 ELSE 0
        <4> HIDE DEF Moves
        <4> QED OBVIOUS
      <3>3. a + b \in Nat
        OBVIOUS
      <3> QED BY <3>1, <3>2, <3>3, Zenon
    <2>3. Writes(v, q, uu) = [i \in 1 .. l |-> w]
      BY <1>2, <2>1, <2>2, Zenon DEF Writes
    <2>4. [i \in 1 .. l |-> w] \in Seq(Sent) /\ Len([i \in 1 .. l |-> w]) = l
      OBVIOUS
    <2>5. \A n \in 1 .. l : [i \in 1 .. l |-> w][n] = w
      OBVIOUS
    <2> QED BY <1>2, <2>1, <2>3, <2>4, <2>5, Zenon
  <1> QED BY <1>1, <1>2

\* A queue and answers after the writes of ws are of their types, and fit.
LEMMA WritesTyped ==
    ASSUME Typed, NEW back \in Seq(Answered), NEW ws \in Seq(Sent),
           sendQueue' = Sending(sendQueue, ws), answers' = Outdated(back, ws)
    PROVE  /\ sendQueue' \in Seq(Sent) /\ answers' \in Seq(Answered)
           /\ Len(sendQueue') = Len(sendQueue) + Len(ws) /\ Len(answers') = Len(back)
  BY Grown, OutdatedAnswered DEF Typed

\* setValue, by the user or by an answer.
LEMMA SetValueStep ==
    ASSUME ValuesInv, NEW v \in Vars, NEW q \in QVariants, NEW uu \in BOOLEAN,
           NEW back \in Seq(Answered), Fewer(back, answers), SetValue(v, q, uu, back),
           UNCHANGED <<sliders, scheduleList, memory>>
    PROVE  ValuesInv'
  <1>0. Typed /\ FollowsUser
    BY DEF ValuesInv
  <1>1. PICK ws \in Seq(Sent) :
          /\ ws = Writes(v, q, uu)
          /\ \A n \in 1 .. Len(ws) : OnBus(v) /\ ws[n] = WriteRequest(v, Settled(v, q))
    BY <1>0, WritesAre, Zenon
  <1>2. /\ value' = [value EXCEPT ![v] = Settled(v, q)]
        /\ position' = IF Moves(v, q) THEN [position EXCEPT ![v] = Clamp(ToInt(q))] ELSE position
        /\ sendQueue' = Sending(sendQueue, ws)
        /\ Len(sendQueue') + Len(back) <= MaxInFlight
        /\ answers' = Outdated(back, ws)
        /\ lastSet' = IF ws = <<>> THEN lastSet
                      ELSE [u \in Vars |-> IF u = v THEN {ToInt(Settled(v, q))}
                                           ELSE IF Overlap(u, ws[1]) THEN {} ELSE lastSet[u]]
    BY <1>1, Zenon DEF SetValue, Sending
  <1>3. PICK p \in QVariants : p = Settled(v, q) /\ Clamp(ToInt(q)) \in SliderRange
    BY <1>0, SettledIs
  <1>4. ToInt(p) \in Int
    BY QVariantsArePlain
  <1>5. value' \in [Vars -> QVariants]
    BY <1>0, <1>2, <1>3 DEF Typed
  <1>6. position' \in [Vars -> SliderRange]
    <2>1. CASE Moves(v, q)
      BY <1>0, <1>2, <1>3, <2>1 DEF Typed
    <2>2. CASE ~Moves(v, q)
      BY <1>0, <1>2, <2>2 DEF Typed
    <2> QED BY <2>1, <2>2
  <1>7. /\ sendQueue' \in Seq(Sent) /\ answers' \in Seq(Answered)
        /\ Len(sendQueue') + Len(answers') <= MaxInFlight
    <2>1. /\ sendQueue' \in Seq(Sent) /\ answers' \in Seq(Answered) /\ Len(answers') = Len(back)
      BY <1>0, <1>2, WritesTyped
    <2> QED BY <1>2, <2>1, Zenon
  <1>8. lastSet \in [Vars -> SUBSET Int] /\ \A u \in Vars : lastSet[u] = {} \/ \E x \in Int : lastSet[u] = {x}
    BY <1>0 DEF Typed
  <1> DEFINE Typical(set) == /\ set \in [Vars -> SUBSET Int]
                             /\ \A u \in Vars : set[u] = {} \/ \E x \in Int : set[u] = {x}
             Brought(set) == \A u \in Polled : \A x \in set[u] :
                                \/ x \in lastSet[u] /\ \A n \in 1 .. Len(ws) : ~Hits(u, ws[n])
                                \/ \E i \in 1 .. Len(ws) :
                                      Carries(ws[i], u, x) /\ \A n \in i + 1 .. Len(ws) : ~Hits(u, ws[n])
  <1>9. Typical(lastSet') /\ Brought(lastSet')
    <2>1. CASE ws = <<>>
      <3>1. lastSet' = lastSet
        BY <1>2, <2>1
      <3>2. \A n \in 1 .. Len(ws) : FALSE
        BY <2>1
      <3> QED BY <1>8, <3>1, <3>2, Zenon
    <2>2. CASE ws # <<>>
      <3>1. PICK l \in Nat : l = Len(ws) /\ l # 0
        BY <2>2, EmptySeq
      <3>2. l \in 1 .. l /\ 1 \in 1 .. l /\ \A n \in l + 1 .. l : FALSE
        BY <3>1
      <3>3. PICK w : w = WriteRequest(v, p)
        OBVIOUS
      <3>4. OnBus(v) /\ \A n \in 1 .. l : ws[n] = w
        BY <1>1, <1>3, <3>1, <3>2, <3>3, Zenon
      <3>5. Carries(w, v, ToInt(p)) /\ \A u \in Vars : Hits(u, w) <=> Overlap(u, w)
        BY <3>3, <3>4, WriteRequestIs, QVariantsArePlain
      <3>6. lastSet' = [u \in Vars |-> IF u = v THEN {ToInt(p)}
                                       ELSE IF Overlap(u, w) THEN {} ELSE lastSet[u]]
        BY <1>2, <1>3, <2>2, <3>1, <3>2, <3>4, Zenon
      <3>7. \A u \in Vars : /\ u = v => lastSet'[u] = {ToInt(p)}
                            /\ u # v /\ Overlap(u, w) => lastSet'[u] = {}
                            /\ u # v /\ ~Overlap(u, w) => lastSet'[u] = lastSet[u]
        BY <3>6, Zenon
      <3>8. Typical(lastSet')
        <4>1. \A u \in Vars : lastSet'[u] = {} \/ \E x \in Int : lastSet'[u] = {x}
          BY <1>4, <1>8, <3>7, Zenon
        <4>2. \A u \in Vars : lastSet'[u] \in SUBSET Int
          BY <4>1
        <4>3. lastSet' \in [Vars -> SUBSET Int]
          <5>1. lastSet' = [u \in Vars |-> lastSet'[u]]
            BY <3>6
          <5> QED BY <4>2, <5>1
        <4> QED BY <4>1, <4>3, Zenon
      <3>9. ASSUME NEW u \in Polled, NEW x \in lastSet'[u]
            PROVE  \/ x \in lastSet[u] /\ \A n \in 1 .. Len(ws) : ~Hits(u, ws[n])
                   \/ \E i \in 1 .. Len(ws) :
                         Carries(ws[i], u, x) /\ \A n \in i + 1 .. Len(ws) : ~Hits(u, ws[n])
        <4>1. u \in Vars
          BY PolledAre
        <4>2. CASE u = v
          <5>1. x = ToInt(p)
            BY <3>7, <3>9, <4>1, <4>2
          <5>2. Carries(ws[l], u, x)
            BY <3>2, <3>4, <3>5, <4>2, <5>1, Zenon
          <5> QED BY <3>1, <3>2, <5>2, Zenon
        <4>3. CASE u # v
          <5>1. ~Overlap(u, w) /\ x \in lastSet[u]
            BY <3>7, <3>9, <4>1, <4>3
          <5>2. \A n \in 1 .. l : ~Hits(u, ws[n])
            BY <3>4, <3>5, <4>1, <5>1, Zenon
          <5> QED BY <3>1, <5>1, <5>2, Zenon
        <4> QED BY <4>2, <4>3
      <3> QED BY <3>8, <3>9, Zenon
    <2> QED BY <2>1, <2>2
  <1>10. \A n \in 1 .. Len(ws) : ~ws[n].fresh
    BY <1>1, <1>3, WriteRequestIs, QVariantsArePlain
  <1> HIDE DEF Typical
  <1>11. \A u \in Polled : \A x \in lastSet'[u] :
              FollowsSet(Sending(sendQueue, ws), Outdated(back, ws), memory, u, x)
    <2>1. Brought(lastSet')
      BY <1>9
    <2> QED BY <1>0, <1>10, <2>1, WritesFollow, Zenon
  <1>12. FollowsUser'
    BY <1>2, <1>11, Zenon DEF FollowsUser
  <1>13. Typed'
    BY <1>0, <1>5, <1>6, <1>7, <1>9 DEF Typed, Typical, InFlight
  <1> QED BY <1>12, <1>13 DEF ValuesInv

LEMMA SetUserValueStep ==
    ASSUME ValuesInv, NEW v \in Vars, NEW x \in UserValues, SetUserValue(v, x)
    PROVE  ValuesInv'
  <1>1. answers \in Seq(Answered) /\ Fewer(answers, answers)
    BY FewerTail DEF ValuesInv, Typed
  <1>2. PICK q \in QVariants : q = <<x>>
    BY QVariantsArePlain
  <1>3. SetValue(v, q, TRUE, answers) /\ UNCHANGED <<sliders, scheduleList, memory>>
    BY <1>2, Zenon DEF SetUserValue
  <1>4. TRUE \in BOOLEAN
    OBVIOUS
  <1> QED BY <1>1, <1>3, <1>4, SetValueStep, Zenon

LEMMA AddSliderStep ==
    ASSUME ValuesInv, NEW v \in Controls, AddSlider(v)
    PROVE  ValuesInv'
  <1>1. Typed /\ FollowsUser
    BY DEF ValuesInv
  <1>2. v \in Vars
    BY ValuesAssumption DEF Vars
  <1>3. Clamp(ToInt(value[v])) \in SliderRange
    BY <1>1, <1>2, SettledIs DEF Typed
  <1>4. sliders' \subseteq Vars /\ position' \in [Vars -> SliderRange]
    BY <1>1, <1>2, <1>3 DEF AddSlider, Typed
  <1>5. Typed'
    BY <1>1, <1>4 DEF AddSlider, Typed, InFlight
  <1>6. FollowsUser'
    BY <1>1 DEF AddSlider, FollowsUser
  <1> QED BY <1>5, <1>6 DEF ValuesInv

LEMMA DragSliderStep ==
    ASSUME ValuesInv, NEW v \in Controls, NEW x \in SliderRange, DragSlider(v, x)
    PROVE  ValuesInv'
  <1>1. Typed /\ FollowsUser
    BY DEF ValuesInv
  <1>2. v \in Vars
    BY ValuesAssumption DEF Vars
  <1>3. PICK q \in QVariants : q = <<x>> /\ x \in Int /\ ToInt(q) = x
    <2>1. <<x>> \in QVariants /\ x \in Int
      BY QVariantsArePlain
    <2>2. ToInt(<<x>>) = x
      BY DEF ToInt, Invalid
    <2> QED BY <2>1, <2>2, Zenon
  <1>4. q \in Plain
    BY QVariantsArePlain
  <1>5. PICK ws : ws = IF OnBus(v) THEN <<WriteRequest(v, q)>> ELSE <<>>
    OBVIOUS
  <1>6. /\ ws \in Seq(Sent) /\ Len(ws) \in Nat /\ \A n \in 1 .. Len(ws) : ~ws[n].fresh
        /\ OnBus(v) => Len(ws) = 1 /\ ws # <<>> /\ ws[1] = WriteRequest(v, q)
        /\ ~OnBus(v) => ws = <<>> /\ Len(ws) = 0
    <2>1. CASE OnBus(v)
      <3>1. PICK w \in Sent : w = WriteRequest(v, q) /\ ~w.fresh
        BY <1>2, <1>4, <2>1, WriteRequestIs
      <3>2. ws = <<w>>
        BY <1>5, <2>1, <3>1, Zenon
      <3> QED BY <2>1, <3>1, <3>2
    <2>2. CASE ~OnBus(v)
      <3>1. ws = <<>>
        BY <1>5, <2>2, Zenon
      <3> QED BY <2>2, <3>1
    <2> QED BY <2>1, <2>2
  <1>7. /\ position' = [position EXCEPT ![v] = x] /\ value' = [value EXCEPT ![v] = q]
        /\ InFlight + Len(ws) <= MaxInFlight
        /\ sendQueue' = Sending(sendQueue, ws) /\ answers' = Outdated(answers, ws)
        /\ lastSet' = [u \in Vars |-> IF u = v /\ OnBus(v) THEN {x}
                                      ELSE IF ws # <<>> /\ Overlap(u, ws[1]) THEN {}
                                      ELSE lastSet[u]]
        /\ UNCHANGED <<sliders, scheduleList, memory>>
    BY <1>3, <1>5, Zenon DEF DragSlider, Sending
  <1>8. position' \in [Vars -> SliderRange] /\ value' \in [Vars -> QVariants]
    BY <1>1, <1>3, <1>7 DEF Typed
  <1>9. answers \in Seq(Answered) /\ Fewer(answers, answers)
    BY <1>1, FewerTail DEF Typed
  <1>10. /\ sendQueue' \in Seq(Sent) /\ answers' \in Seq(Answered)
         /\ Len(sendQueue') + Len(answers') <= MaxInFlight
    <2>1. /\ sendQueue' \in Seq(Sent) /\ answers' \in Seq(Answered)
          /\ Len(sendQueue') = Len(sendQueue) + Len(ws) /\ Len(answers') = Len(answers)
      BY <1>1, <1>6, <1>7, <1>9, WritesTyped
    <2>2. PICK a \in Nat, b \in Nat, c \in Nat :
              a = Len(sendQueue) /\ b = Len(answers) /\ c = Len(ws)
      BY <1>1, <1>6, LenProperties DEF Typed
    <2>3. (a + b) + c <= MaxInFlight
      BY <1>7, <2>2 DEF InFlight
    <2>4. (a + c) + b <= MaxInFlight
      BY <2>3, ValuesAssumption
    <2> QED BY <2>1, <2>2, <2>4, Zenon
  <1>11. lastSet \in [Vars -> SUBSET Int]
         /\ \A u \in Vars : lastSet[u] = {} \/ \E y \in Int : lastSet[u] = {y}
    BY <1>1 DEF Typed
  <1>12. \A u \in Vars : /\ u = v /\ OnBus(v) => lastSet'[u] = {x}
                         /\ ~(u = v /\ OnBus(v)) /\ ws # <<>> /\ Overlap(u, ws[1]) => lastSet'[u] = {}
                         /\ ~(u = v /\ OnBus(v)) /\ ~(ws # <<>> /\ Overlap(u, ws[1]))
                              => lastSet'[u] = lastSet[u]
    BY <1>7, Zenon
  <1>13. /\ lastSet' \in [Vars -> SUBSET Int]
         /\ \A u \in Vars : lastSet'[u] = {} \/ \E y \in Int : lastSet'[u] = {y}
    <2>1. \A u \in Vars : lastSet'[u] = {} \/ \E y \in Int : lastSet'[u] = {y}
      BY <1>3, <1>11, <1>12, Zenon
    <2>2. lastSet' = [u \in Vars |-> lastSet'[u]]
      BY <1>7
    <2> QED BY <2>1, <2>2
  <1>14. ASSUME NEW u \in Polled, NEW y \in lastSet'[u]
         PROVE  \/ y \in lastSet[u] /\ \A n \in 1 .. Len(ws) : ~Hits(u, ws[n])
                \/ \E i \in 1 .. Len(ws) :
                      Carries(ws[i], u, y) /\ \A n \in i + 1 .. Len(ws) : ~Hits(u, ws[n])
    <2>1. u \in Vars
      BY PolledAre
    <2>2. CASE OnBus(v)
      <3>1. 1 \in 1 .. Len(ws) /\ (\A n \in 1 + 1 .. Len(ws) : FALSE) /\ \A n \in 1 .. Len(ws) : n = 1
        <4>1. Len(ws) = 1
          BY <1>6, <2>2, Zenon
        <4> QED BY <4>1
      <3>2. Carries(ws[1], v, x) /\ \A r \in Vars : Hits(r, ws[1]) <=> Overlap(r, ws[1])
        BY <1>2, <1>3, <1>4, <1>6, <2>2, WriteRequestIs
      <3>3. CASE u = v
        <4>1. y = x
          BY <1>12, <1>14, <2>1, <2>2, <3>3
        <4> QED BY <3>1, <3>2, <3>3, <4>1, Zenon
      <3>4. CASE u # v
        <4>1. ~Overlap(u, ws[1]) /\ y \in lastSet[u]
          BY <1>6, <1>12, <1>14, <2>1, <2>2, <3>4
        <4> QED BY <2>1, <3>1, <3>2, <4>1, Zenon
      <3> QED BY <3>3, <3>4
    <2>3. CASE ~OnBus(v)
      <3>1. y \in lastSet[u]
        BY <1>6, <1>12, <1>14, <2>1, <2>3
      <3>2. \A n \in 1 .. Len(ws) : FALSE
        BY <1>6, <2>3
      <3> QED BY <3>1, <3>2, Zenon
    <2> QED BY <2>2, <2>3
  <1>15. \A u \in Polled : \A y \in lastSet'[u] :
              FollowsSet(Sending(sendQueue, ws), Outdated(answers, ws), memory, u, y)
    BY <1>1, <1>6, <1>9, <1>14, WritesFollow, Zenon
  <1>16. FollowsUser'
    BY <1>7, <1>15, Zenon DEF FollowsUser
  <1>17. Typed'
    BY <1>1, <1>7, <1>8, <1>10, <1>13 DEF Typed, InFlight
  <1> QED BY <1>16, <1>17 DEF ValuesInv

\* The writes of a configuration.
LEMMA LoadConfigurationStep ==
    ASSUME ValuesInv, NEW file \in Files, LoadConfiguration(file)
    PROVE  ValuesInv'
  <1> DEFINE written == Only(Variables, {v \in Vars : OnBus(v)})
             writes == [n \in DOMAIN written |-> WriteRequest(written[n], file[written[n]])]
             Later(v) == \E n, k \in DOMAIN written :
                            n < k /\ written[n] = v /\ Overlap(v, writes[k])
  <1>1. Typed /\ FollowsUser
    BY DEF ValuesInv
  <1>2. written \in Seq(Vars) /\ Range(written) = {v \in Vars : OnBus(v)}
    <2>1. Range(Variables) \cap {v \in Vars : OnBus(v)} = {v \in Vars : OnBus(v)}
      BY DEF Vars
    <2> QED BY <2>1, VarsAre, OnlyRange
  <1>3. \A v \in Vars : file[v] \in QVariants /\ file[v] \in Plain /\ ToInt(file[v]) \in Int
    BY QVariantsArePlain
  <1> HIDE DEF written
  <1>4. PICK l \in Nat : l = Len(written) /\ DOMAIN written = 1 .. l
    BY <1>2, LenProperties
  <1>5. \A n \in 1 .. l : written[n] \in Vars /\ OnBus(written[n])
    BY <1>2, <1>4, InRange
  <1>6. \A v \in Vars : OnBus(v) => \E n \in 1 .. l : written[n] = v
    BY <1>2, <1>4, InRange
  <1>7. \A n \in 1 .. l : /\ writes[n] = WriteRequest(written[n], file[written[n]])
                          /\ writes[n] \in Sent /\ ~writes[n].fresh
    BY <1>3, <1>4, <1>5, WriteRequestIs
  <1>8. writes = [n \in 1 .. l |-> writes[n]]
    BY <1>4
  <1> HIDE DEF writes
  <1>9. writes \in Seq(Sent) /\ Len(writes) = l
    BY <1>7, <1>8
  <1>10. /\ InFlight + Len(writes) <= MaxInFlight
         /\ value' = file /\ sliders' = {} /\ position' = [v \in Vars |-> Min(SliderRange)]
         /\ scheduleList' = Scheduled /\ sendQueue' = Sending(sendQueue, writes)
         /\ answers' = Outdated(answers, writes) /\ memory' = memory
         /\ lastSet' = [v \in Vars |-> IF OnBus(v) /\ ~Later(v) THEN {ToInt(file[v])} ELSE {}]
    BY Zenon DEF LoadConfiguration, Sending, writes, written
  <1>11. /\ value' \in [Vars -> QVariants] /\ sliders' \subseteq Vars
         /\ position' \in [Vars -> SliderRange] /\ scheduleList' \in Seq(Vars)
    <2>1. Scheduled \in Seq(Vars)
      BY VarsAre, OnlyRange DEF Scheduled
    <2> QED BY <1>10, <2>1, QVariantsArePlain, SliderBounds
  <1>12. answers \in Seq(Answered) /\ Fewer(answers, answers)
    BY <1>1, FewerTail DEF Typed
  <1>13. /\ sendQueue' \in Seq(Sent) /\ answers' \in Seq(Answered)
         /\ Len(sendQueue') + Len(answers') <= MaxInFlight
    <2>1. /\ sendQueue' \in Seq(Sent) /\ answers' \in Seq(Answered)
          /\ Len(sendQueue') = Len(sendQueue) + Len(writes) /\ Len(answers') = Len(answers)
      BY <1>1, <1>9, <1>10, <1>12, WritesTyped
    <2>2. PICK a \in Nat, b \in Nat, c \in Nat :
              a = Len(sendQueue) /\ b = Len(answers) /\ c = Len(writes)
      BY <1>1, <1>9, LenProperties DEF Typed
    <2>3. (a + b) + c <= MaxInFlight
      BY <1>10, <2>2 DEF InFlight
    <2>4. (a + c) + b <= MaxInFlight
      BY <2>3, ValuesAssumption
    <2> QED BY <2>1, <2>2, <2>4, Zenon
  <1>14. \A v \in Vars : /\ OnBus(v) /\ ~Later(v) => lastSet'[v] = {ToInt(file[v])}
                         /\ ~(OnBus(v) /\ ~Later(v)) => lastSet'[v] = {}
    <2> HIDE DEF Later
    <2> QED BY <1>10, Zenon
  <1>15. /\ lastSet' \in [Vars -> SUBSET Int]
         /\ \A v \in Vars : lastSet'[v] = {} \/ \E x \in Int : lastSet'[v] = {x}
    <2>1. \A v \in Vars : lastSet'[v] = {} \/ \E x \in Int : lastSet'[v] = {x}
      <3> HIDE DEF Later
      <3> QED BY <1>3, <1>14, Zenon
    <2>2. lastSet' = [v \in Vars |-> lastSet'[v]]
      BY <1>10
    <2> QED BY <2>1, <2>2
  <1>16. ASSUME NEW u \in Polled, NEW x \in lastSet'[u]
         PROVE  \/ x \in lastSet[u] /\ \A n \in 1 .. Len(writes) : ~Hits(u, writes[n])
                \/ \E n \in 1 .. Len(writes) :
                      Carries(writes[n], u, x) /\ \A k \in n + 1 .. Len(writes) : ~Hits(u, writes[k])
    <2>1. u \in Vars
      BY PolledAre
    <2>2. OnBus(u) /\ ~Later(u) /\ x = ToInt(file[u])
      <3> HIDE DEF Later
      <3>1. OnBus(u) /\ ~Later(u)
        BY <1>14, <1>16, <2>1
      <3>2. lastSet'[u] = {ToInt(file[u])}
        BY <1>14, <2>1, <3>1, Zenon
      <3> QED BY <1>16, <3>1, <3>2
    <2>3. PICK n \in 1 .. l : written[n] = u
      BY <1>6, <2>1, <2>2
    <2>4. Carries(writes[n], u, x)
      <3>1. Carries(WriteRequest(u, file[u]), u, ToInt(file[u]))
        BY <1>3, <2>1, <2>2, WriteRequestIs
      <3> QED BY <1>7, <2>2, <2>3, <3>1, Zenon
    <2>5. ASSUME NEW k \in n + 1 .. l PROVE ~Hits(u, writes[k])
      <3>1. k \in 1 .. l /\ n < k
        OBVIOUS
      <3>2. ~Overlap(u, writes[k])
        BY <1>4, <2>2, <2>3, <3>1, Zenon
      <3> QED BY <3>2 DEF Hits
    <2> QED BY <1>9, <2>4, <2>5, Zenon
  <1>17. \A n \in 1 .. Len(writes) : ~writes[n].fresh
    BY <1>7, <1>9
  <1>18. \A u \in Polled : \A x \in lastSet'[u] :
              FollowsSet(Sending(sendQueue, writes), Outdated(answers, writes), memory, u, x)
    BY <1>1, <1>9, <1>12, <1>16, <1>17, WritesFollow, Zenon
  <1>19. FollowsUser'
    BY <1>10, <1>18, Zenon DEF FollowsUser
  <1>20. Typed'
    BY <1>1, <1>10, <1>11, <1>13, <1>15 DEF Typed, InFlight
  <1> QED BY <1>19, <1>20 DEF ValuesInv

-----------------------------------------------------------------------------
(* Polling, the device, the answers and the rest.                          *)

LEMMA PollStep == ASSUME ValuesInv, Poll PROVE ValuesInv'
  <1>1. Typed /\ FollowsUser
    BY DEF ValuesInv
  <1>2. PICK v \in Vars : v = Head(scheduleList)
    BY <1>1, HeadAndTail DEF Poll, Typed
  <1>3. /\ scheduleList' = Append(Tail(scheduleList), v)
        /\ sendQueue' = IF OnBus(v) THEN Append(sendQueue, ReadRequest(v)) ELSE sendQueue
        /\ UNCHANGED <<value, sliders, position, answers, memory, lastSet>>
        /\ InFlight < MaxInFlight
    BY <1>2, Zenon DEF Poll
  <1>4. scheduleList' \in Seq(Vars)
    <2>1. Tail(scheduleList) \in Seq(Vars)
      BY <1>1, HeadAndTail DEF Poll, Typed
    <2> QED BY <1>3, <2>1
  <1>5. PICK a \in Nat, b \in Nat : a = Len(sendQueue) /\ b = Len(answers) /\ a + b < MaxInFlight
    BY <1>1, <1>3, LenProperties DEF Typed, InFlight
  <1>6. sendQueue' \in Seq(Sent) /\ Len(sendQueue') \in {a, a + 1} /\ FollowsUser'
    <2>1. CASE OnBus(v)
      <3>1. PICK m \in Sent : m = ReadRequest(v) /\ m.kind = "request"
        BY <1>1, <2>1, ReadRequestIs
      <3>2. sendQueue' = Append(sendQueue, m) /\ sendQueue \in Seq(Sent)
        BY <1>1, <1>3, <2>1, <3>1 DEF Typed
      <3>3. sendQueue' \in Seq(Sent) /\ Len(sendQueue') = a + 1
        BY <1>5, <3>2
      <3>4. \A u \in Polled : \A x \in lastSet[u] :
                FollowsSet(Append(sendQueue, m), answers, memory, u, x)
        BY <1>1, <3>1, <3>2, RequestJoins DEF FollowsUser
      <3>5. FollowsUser'
        BY <1>3, <3>2, <3>4 DEF FollowsUser
      <3> QED BY <3>3, <3>5
    <2>2. CASE ~OnBus(v)
      BY <1>1, <1>3, <1>5, <2>2 DEF Typed, FollowsUser
    <2> QED BY <2>1, <2>2
  <1>7. Len(sendQueue') + Len(answers') <= MaxInFlight
    BY <1>3, <1>5, <1>6, ValuesAssumption
  <1>8. Typed'
    BY <1>1, <1>3, <1>4, <1>6, <1>7 DEF Typed, InFlight
  <1> QED BY <1>6, <1>8 DEF ValuesInv

LEMMA DeviceSendStep == ASSUME ValuesInv, DeviceSend PROVE ValuesInv'
  <1>1. Typed /\ FollowsUser
    BY DEF ValuesInv
  <1>2. sendQueue \in Seq(Sent) /\ sendQueue # <<>> /\ answers \in Seq(Answered) /\ memory \in Memories
    BY <1>1 DEF Typed, DeviceSend
  <1>3. PICK m \in Sent : m = Head(sendQueue)
    BY <1>2, Behind
  <1>4. /\ Tail(sendQueue) \in Seq(Sent) /\ Len(Tail(sendQueue)) + 1 = Len(sendQueue)
        /\ Len(Tail(sendQueue)) \in Nat
    BY <1>2, Behind
  <1>5. /\ sendQueue' = Tail(sendQueue)
        /\ UNCHANGED <<value, sliders, position, scheduleList, lastSet>>
    BY DEF DeviceSend
  <1>6. /\ AnswerTo(m) = AnswerFrom(memory, m) /\ Stored(m) = StoredIn(memory, m)
    BY Zenon DEF AnswerTo, AnswerFrom, Stored, StoredIn
  <1>7. PICK a \in Nat, b \in Nat :
            a = Len(Tail(sendQueue)) /\ b = Len(answers) /\ (a + 1) + b <= MaxInFlight
    BY <1>1, <1>2, <1>4, LenProperties DEF Typed, InFlight
  <1>8. a + b <= MaxInFlight /\ a + (b + 1) <= MaxInFlight
    <2>1. \A k, l, n \in Nat : (k + 1) + l <= n => k + l <= n /\ k + (l + 1) <= n
      OBVIOUS
    <2>2. MaxInFlight \in Nat
      BY ValuesAssumption
    <2> QED BY <1>7, <2>1, <2>2
  <1> DEFINE Kept(as, mem) == \A v \in Polled : \A x \in lastSet[v] :
                                 FollowsSet(Tail(sendQueue), as, mem, v, x)
  <1>9. CASE ~Inside(m) /\ UNCHANGED <<answers, memory>>
    <2>1. ASSUME NEW v \in Polled, NEW x PROVE ~Carries(m, v, x)
      BY <1>9, PolledAre DEF Inside, Carries
    <2>2. Kept(answers, memory)
      BY <1>1, <1>2, <1>3, <2>1, HeadGone DEF FollowsUser
    <2>3. FollowsUser'
      BY <1>5, <1>9, <2>2 DEF FollowsUser
    <2>4. Len(sendQueue') + Len(answers') <= MaxInFlight
      BY <1>5, <1>7, <1>8, <1>9
    <2>5. Typed'
      BY <1>1, <1>4, <1>5, <1>9, <2>4 DEF Typed, InFlight
    <2> QED BY <2>3, <2>5 DEF ValuesInv
  <1>10. CASE Inside(m) /\ m.kind = "request" /\ answers' = Append(answers, AnswerTo(m)) /\ UNCHANGED memory
    <2>1. PICK e \in Answered : e = AnswerFrom(memory, m)
      BY <1>2, <1>10, AnswerIs DEF Inside
    <2>2. answers' = Append(answers, e)
      BY <1>6, <1>10, <2>1
    <2>3. \A v \in Polled : \A x \in lastSet[v] :
             BytesOf(v, x) \in Seq(0 .. Byte - 1) /\ Len(BytesOf(v, x)) = Length(Layout[v].type)
      BY <1>1, PolledAre, VarsAre, NumberOfValue DEF BytesOf, Typed
    <2>4. Kept(Append(answers, AnswerFrom(memory, m)), memory)
      <3> SUFFICES ASSUME NEW v \in Polled, NEW x \in lastSet[v]
                   PROVE  FollowsSet(Tail(sendQueue), Append(answers, AnswerFrom(memory, m)), memory, v, x)
        OBVIOUS
      <3>1. FollowsSet(sendQueue, answers, memory, v, x)
        BY <1>1 DEF FollowsUser
      <3>2. Head(sendQueue).kind = "request" /\ Head(sendQueue).offset + Head(sendQueue).len <= MemorySize
        BY <1>3, <1>10 DEF Inside
      <3> QED BY <1>2, <1>3, <2>3, <3>1, <3>2, RequestAnswered
    <2>5. FollowsUser'
      BY <1>5, <1>10, <2>1, <2>2, <2>4, Zenon DEF FollowsUser
    <2>6. answers' \in Seq(Answered) /\ Len(answers') = b + 1
      BY <1>2, <1>7, <2>2
    <2>7. Len(sendQueue') + Len(answers') <= MaxInFlight
      BY <1>5, <1>7, <1>8, <2>6
    <2>8. Typed'
      BY <1>1, <1>4, <1>5, <1>10, <2>6, <2>7 DEF Typed, InFlight
    <2> QED BY <2>5, <2>8 DEF ValuesInv
  <1>11. CASE Inside(m) /\ m.kind = "write" /\ memory' = Stored(m) /\ UNCHANGED answers
    <2>1. StoredIn(memory, m) \in Memories
      BY <1>2, <1>11, StoredIs
    <2>2. Kept(answers, StoredIn(memory, m))
      <3> SUFFICES ASSUME NEW v \in Polled, NEW x \in lastSet[v]
                   PROVE  FollowsSet(Tail(sendQueue), answers, StoredIn(memory, m), v, x)
        OBVIOUS
      <3>1. FollowsSet(sendQueue, answers, memory, v, x)
        BY <1>1 DEF FollowsUser
      <3> QED BY <1>2, <1>3, <1>11, <3>1, WriteArrives
    <2>3. FollowsUser'
      BY <1>5, <1>6, <1>11, <2>2, Zenon DEF FollowsUser
    <2>4. Len(sendQueue') + Len(answers') <= MaxInFlight
      BY <1>5, <1>7, <1>8, <1>11
    <2>5. Typed'
      BY <1>1, <1>4, <1>5, <1>6, <1>11, <2>1, <2>4 DEF Typed, InFlight
    <2> QED BY <2>3, <2>5 DEF ValuesInv
  <1> QED BY <1>3, <1>9, <1>10, <1>11, Zenon DEF DeviceSend

\* The variable an answer is for has its place and its length.
LEMMA TargetIs ==
    ASSUME NEW msg, NEW v \in Target(msg)
    PROVE  v \in Vars /\ Matches(v, msg) /\ Length(Layout[v].type) = msg.len
  <1> DEFINE found == Only(Variables, {u \in Vars : Matches(u, msg)})
  <1>1. v \in Vars /\ found # <<>> /\ v = Head(found) /\ Length(Layout[v].type) = msg.len
    BY Zenon DEF Target
  <1>2. found \in Seq(Vars) /\ Range(found) = Range(Variables) \cap {u \in Vars : Matches(u, msg)}
    BY VarsAre, OnlyRange
  <1> HIDE DEF found
  <1>3. Head(found) \in Range(found)
    BY <1>1, <1>2, HeadAndTail
  <1> QED BY <1>1, <1>2, <1>3

\* The bytes of an answer make a value of the variable.
LEMMA AnswerRead ==
    ASSUME Typed, NEW msg \in Answered, NEW v \in Target(msg)
    PROVE  FromBytes(Layout[v].type, msg.data) \in QVariants
  <1>1. /\ v \in Vars /\ Layout[v].type \in Types
        /\ msg.data \in Seq(0 .. Byte - 1) /\ Len(msg.data) = Length(Layout[v].type)
    BY TargetIs, VarsAre DEF Answered
  <1>2. PICK y \in TypeRange(Layout[v].type) : FromBytes(Layout[v].type, msg.data) = <<y>>
    BY <1>1, FromBytesIs
  <1> QED BY <1>1, <1>2, QVariantsArePlain

LEMMA AnswerStep == ASSUME ValuesInv, Answer PROVE ValuesInv'
  <1>1. Typed /\ FollowsUser
    BY DEF ValuesInv
  <1>2. answers \in Seq(Answered) /\ answers # <<>>
    BY <1>1 DEF Typed, Answer
  <1>3. PICK back \in Seq(Answered), msg \in Answered :
            /\ back = Tail(answers) /\ msg = Head(answers) /\ Fewer(back, answers)
            /\ Len(back) + 1 = Len(answers) /\ Len(back) \in Nat
    <2>1. /\ Tail(answers) \in Seq(Answered) /\ Head(answers) \in Answered
          /\ Len(Tail(answers)) + 1 = Len(answers) /\ Len(Tail(answers)) \in Nat
      BY <1>2, Behind
    <2> QED BY <1>2, <2>1, FewerTail, Zenon
  <1>4. UNCHANGED <<sliders, scheduleList, memory>>
    BY DEF Answer
  <1>5. CASE \E v \in Target(msg) : \E q \in {FromBytes(Layout[v].type, msg.data)} :
               SetValue(v, q, FALSE, back)
    <2>1. PICK v \in Target(msg) : \E q \in {FromBytes(Layout[v].type, msg.data)} :
                                      SetValue(v, q, FALSE, back)
      BY <1>5
    <2>2. PICK q \in {FromBytes(Layout[v].type, msg.data)} : SetValue(v, q, FALSE, back)
      BY <2>1
    <2>3. q \in QVariants /\ v \in Vars /\ FALSE \in BOOLEAN
      BY <1>1, <2>2, AnswerRead, TargetIs
    <2> QED BY <1>3, <1>4, <2>2, <2>3, SetValueStep, Zenon
  <1>6. CASE answers' = back /\ UNCHANGED <<value, position, sendQueue, lastSet>>
    <2>1. FollowsUser'
      <3>1. ASSUME NEW v \in Polled, NEW x \in lastSet[v]
            PROVE  FollowsSet(sendQueue, back, memory, v, x)
        BY <1>1, <1>2, <1>3, AnswerGone DEF FollowsUser
      <3> QED BY <1>4, <1>6, <3>1 DEF FollowsUser
    <2>2. Len(sendQueue') + Len(answers') <= MaxInFlight
      <3>1. PICK a \in Nat, b \in Nat :
                a = Len(sendQueue) /\ b = Len(back) /\ a + (b + 1) <= MaxInFlight
        BY <1>1, <1>3, LenProperties DEF Typed, InFlight
      <3>2. a + b <= MaxInFlight
        <4>1. \A k, l, n \in Nat : k + (l + 1) <= n => k + l <= n
          OBVIOUS
        <4>2. MaxInFlight \in Nat
          BY ValuesAssumption
        <4> QED BY <3>1, <4>1, <4>2
      <3> QED BY <1>6, <3>1, <3>2
    <2>3. Typed'
      BY <1>1, <1>3, <1>4, <1>6, <2>2 DEF Typed, InFlight
    <2> QED BY <2>1, <2>3 DEF ValuesInv
  <1> QED BY <1>3, <1>5, <1>6, Zenon DEF Answer

\* What the module changes itself is no longer what the user set.
LEMMA ModuleChangesStep == ASSUME ValuesInv, ModuleChanges PROVE ValuesInv'
  <1>1. Typed /\ FollowsUser
    BY DEF ValuesInv
  <1>2. PICK a \in SelfChanging, b \in 0 .. Byte - 1 :
          /\ memory' = [memory EXCEPT ![a] = b]
          /\ lastSet' = [v \in Vars |-> IF a \in AddressesOf(v) THEN {} ELSE lastSet[v]]
    BY DEF ModuleChanges
  <1>3. UNCHANGED <<value, sliders, position, scheduleList, sendQueue, answers>>
    BY DEF ModuleChanges
  <1>4. memory \in Memories /\ memory' \in Memories
    BY <1>1, <1>2 DEF Typed, Memories
  <1>5. /\ lastSet' \in [Vars -> SUBSET Int]
        /\ \A v \in Vars : lastSet'[v] = {} \/ \E x \in Int : lastSet'[v] = {x}
    BY <1>1, <1>2 DEF Typed
  <1>6. ASSUME NEW v \in Polled, NEW x \in lastSet'[v]
        PROVE  FollowsSet(sendQueue, answers, memory', v, x)
    <2>1. v \in Vars
      BY PolledAre
    <2>2. a \notin AddressesOf(v) /\ x \in lastSet[v]
      BY <1>2, <1>6, <2>1
    <2>3. FollowsSet(sendQueue, answers, memory, v, x)
      BY <1>1, <2>2 DEF FollowsUser
    <2> QED BY <1>2, <1>4, <2>2, <2>3, ByteElsewhere, Zenon
  <1>7. FollowsUser'
    BY <1>3, <1>6, Zenon DEF FollowsUser
  <1>8. Typed'
    BY <1>1, <1>3, <1>4, <1>5 DEF Typed, InFlight
  <1> QED BY <1>7, <1>8 DEF ValuesInv

\* A value whose write is lost is no longer what the user set; the others are.
LEMMA LoseStep == ASSUME ValuesInv, Lose PROVE ValuesInv'
  <1>1. Typed /\ FollowsUser
    BY DEF ValuesInv
  <1>2. UNCHANGED <<value, sliders, position, scheduleList, memory>>
    BY DEF Lose
  <1>3. PICK a \in Nat, b \in Nat : a = Len(sendQueue) /\ b = Len(answers) /\ a + b <= MaxInFlight
    BY <1>1, LenProperties DEF Typed, InFlight
  <1>4. /\ \A k \in Nat : k + 1 = a => k + b <= MaxInFlight
        /\ \A k \in Nat : k + 1 = b => a + k <= MaxInFlight
    <2>1. \A i, j, k, n \in Nat :
             i + j <= n => (k + 1 = i => k + j <= n) /\ (k + 1 = j => i + k <= n)
      OBVIOUS
    <2>2. MaxInFlight \in Nat
      BY ValuesAssumption
    <2> QED BY <1>3, <2>1, <2>2
  <1>5. CASE /\ sendQueue # <<>> /\ sendQueue' = Tail(sendQueue) /\ UNCHANGED answers
             /\ lastSet' = [v \in Vars |-> IF Head(sendQueue).kind = "write"
                                                 /\ Overlap(v, Head(sendQueue))
                                           THEN {} ELSE lastSet[v]]
    <2>1. sendQueue \in Seq(Sent) /\ Tail(sendQueue) \in Seq(Sent)
          /\ Len(Tail(sendQueue)) + 1 = Len(sendQueue) /\ Len(Tail(sendQueue)) \in Nat
      BY <1>1, <1>5, Behind DEF Typed
    <2>2. \A v \in Vars : /\ Hits(v, Head(sendQueue)) => lastSet'[v] = {}
                          /\ ~Hits(v, Head(sendQueue)) => lastSet'[v] = lastSet[v]
      BY <1>5, Zenon DEF Hits
    <2>3. /\ lastSet' \in [Vars -> SUBSET Int]
          /\ \A v \in Vars : lastSet'[v] = {} \/ \E x \in Int : lastSet'[v] = {x}
      BY <1>1, <1>5 DEF Typed
    <2>4. ASSUME NEW v \in Polled, NEW x \in lastSet'[v]
          PROVE  FollowsSet(Tail(sendQueue), answers, memory, v, x)
      <3>1. v \in Vars
        BY PolledAre
      <3>2. ~Hits(v, Head(sendQueue)) /\ x \in lastSet[v]
        BY <2>2, <2>4, <3>1
      <3>3. FollowsSet(sendQueue, answers, memory, v, x) /\ ~Carries(Head(sendQueue), v, x)
        BY <1>1, <3>2, CarriesHits DEF FollowsUser
      <3> QED BY <1>5, <2>1, <3>3, HeadGone
    <2>5. FollowsUser'
      BY <1>2, <1>5, <2>4, Zenon DEF FollowsUser
    <2>6. Len(sendQueue') + Len(answers') <= MaxInFlight
      BY <1>3, <1>4, <1>5, <2>1
    <2>7. Typed'
      BY <1>1, <1>2, <1>5, <2>1, <2>3, <2>6 DEF Typed, InFlight
    <2> QED BY <2>5, <2>7 DEF ValuesInv
  <1>6. CASE answers # <<>> /\ answers' = Tail(answers) /\ UNCHANGED <<sendQueue, lastSet>>
    <2>1. answers \in Seq(Answered) /\ Tail(answers) \in Seq(Answered)
          /\ Len(Tail(answers)) + 1 = Len(answers) /\ Len(Tail(answers)) \in Nat
          /\ Fewer(Tail(answers), answers)
      BY <1>1, <1>6, Behind, FewerTail DEF Typed
    <2>2. ASSUME NEW v \in Polled, NEW x \in lastSet[v]
          PROVE  FollowsSet(sendQueue, Tail(answers), memory, v, x)
      BY <1>1, <2>1, AnswerGone DEF FollowsUser
    <2>3. FollowsUser'
      BY <1>2, <1>6, <2>2 DEF FollowsUser
    <2>4. Len(sendQueue') + Len(answers') <= MaxInFlight
      BY <1>3, <1>4, <1>6, <2>1
    <2>5. Typed'
      BY <1>1, <1>2, <1>6, <2>1, <2>4 DEF Typed, InFlight
    <2> QED BY <2>3, <2>5 DEF ValuesInv
  <1> QED BY <1>5, <1>6, Zenon DEF Lose

LEMMA ValuesNext == ValuesInv /\ [Next]_vars => ValuesInv'
  <1> SUFFICES ASSUME ValuesInv, [Next]_vars PROVE ValuesInv'
    OBVIOUS
  <1>1. CASE User
    BY <1>1, SetUserValueStep, AddSliderStep, DragSliderStep, LoadConfigurationStep, Zenon DEF User
  <1>2. CASE UNCHANGED <<value, sliders, position, scheduleList, sendQueue, answers, memory, lastSet>>
    BY <1>2 DEF ValuesInv, Typed, FollowsUser, InFlight
  <1>3. CASE UNCHANGED vars
    BY <1>2, <1>3 DEF vars
  <1>4. CASE Disturb
    BY <1>1, <1>4, ModuleChangesStep, LoseStep, Zenon DEF Disturb
  <1>5. CASE Work
    BY <1>5, PollStep, DeviceSendStep, AnswerStep, Zenon DEF Work
  <1>6. CASE Quiet
    BY <1>2, <1>6 DEF Quiet
  <1> QED BY <1>3, <1>4, <1>5, <1>6, Zenon DEF Next
-----------------------------------------------------------------------------
(* The theorems.                                                           *)

LEMMA WellTyped == Typed => TypeOK
  <1> SUFFICES ASSUME Typed PROVE TypeOK
    OBVIOUS
  <1>1. ASSUME NEW msg \in Range(sendQueue) \cup Range(answers)
        PROVE  msg.kind \in {"request", "write", "answer"} /\ Range(msg.data) \subseteq 0 .. Byte - 1
    <2>1. msg \in Sent \cup Answered
      <3>1. sendQueue \in Seq(Sent) /\ answers \in Seq(Answered)
        BY DEF Typed
      <3>2. Range(sendQueue) \subseteq Sent /\ Range(answers) \subseteq Answered
        BY <3>1, InRange, Zenon
      <3> QED BY <1>1, <3>2
    <2>2. msg.kind \in {"request", "write", "answer"} /\ msg.data \in Seq(0 .. Byte - 1)
      BY <2>1 DEF Sent, Answered
    <2> QED BY <2>2, InRange
  <1>2. \A v \in Vars : lastSet[v] \subseteq Int /\ Cardinality(lastSet[v]) <= 1
    <2> SUFFICES ASSUME NEW v \in Vars PROVE lastSet[v] \subseteq Int /\ Cardinality(lastSet[v]) <= 1
      OBVIOUS
    <2>1. CASE lastSet[v] = {}
      BY <2>1, FS_EmptySet
    <2>2. CASE \E x \in Int : lastSet[v] = {x}
      BY <2>2, FS_Singleton
    <2> QED BY <2>1, <2>2 DEF Typed
  <1> QED BY <1>1, <1>2 DEF Typed, TypeOK, Memories

\* The bytes in the memory make the value that was set, as far as the type can hold it.
LEMMA HeldIsWrapped ==
    ASSUME NEW v \in Polled, NEW x \in Int, Holds(memory, v, x)
    PROVE  InMemory(v) = <<Wrapped(Layout[v].type, x)>>
  <1>1. PICK type \in Types, n \in Nat : type = Layout[v].type /\ n = Length(type)
    <2>1. Layout[v].type \in Types /\ Length(Layout[v].type) \in Nat
      BY PolledAre, VarsAre DEF Lens
    <2> QED BY <2>1, Zenon
  <1>2. PICK bytes \in Seq(0 .. Byte - 1) : bytes = BytesOf(v, x) /\ Len(bytes) = n
    BY <1>1, NumberOfValue DEF BytesOf
  <1>3. PICK read : read = [i \in 1 .. n |-> memory[Layout[v].offset + i - 1]]
    OBVIOUS
  <1>4. read = bytes
    <2>1. read = [i \in 1 .. n |-> bytes[i]]
      BY <1>1, <1>2, <1>3, Zenon DEF Holds
    <2> QED BY <1>2, <2>1
  <1>5. InMemory(v) = FromBytes(type, read)
    BY <1>1, <1>3, Zenon DEF InMemory
  <1>6. bytes = ToBytes(type, <<x>>)
    BY <1>1, <1>2, Zenon DEF BytesOf
  <1>7. FromBytes(type, bytes) = <<Wrapped(type, x)>>
    BY <1>6, RoundTrip, Zenon
  <1> QED BY <1>1, <1>4, <1>5, <1>7, Zenon

\* For every layout of the variables, also an overlapping one: when no write is on its
\* way to a variable, the module has the value that was set last (writeVariable,
\* toByteArray, setValue).
THEOREM ValuesExact == Spec => []WritesExact
  <1>1. ValuesInv => WritesExact
    <2> SUFFICES ASSUME ValuesInv PROVE WritesExact
      OBVIOUS
    <2>1. ASSUME NEW v \in Polled, NEW x \in lastSet[v],
                 \A msg \in Range(sendQueue) : msg.kind = "write" => ~Overlap(v, msg)
          PROVE  InMemory(v) = <<Wrapped(Layout[v].type, x)>>
      <3>1. v \in Vars /\ x \in Int
        BY PolledAre DEF ValuesInv, Typed
      <3>2. Arrives(sendQueue, memory, v, x)
        BY DEF ValuesInv, FollowsUser, FollowsSet
      <3>3. \A n \in 1 .. Len(sendQueue) : ~Hits(v, sendQueue[n])
        <4>1. sendQueue \in Seq(Sent)
          BY DEF ValuesInv, Typed
        <4>2. \A n \in 1 .. Len(sendQueue) : sendQueue[n] \in Range(sendQueue)
          BY <4>1, InRange
        <4> QED BY <2>1, <4>2, Zenon DEF Hits
      <3>4. Holds(memory, v, x)
        BY <3>2, <3>3, CarriesHits DEF Arrives
      <3> QED BY <3>1, <3>4, HeldIsWrapped
    <2>2. LastWriteWins
      BY <2>1, Zenon DEF LastWriteWins
    <2> QED BY <2>2, WellTyped DEF ValuesInv, WritesExact
  <1> QED BY <1>1, InitValues, ValuesNext, PTL DEF Spec

\* What ReadYourWrites says of a step.
ReadsBack ==
    \A v \in Polled :
        answers # <<>> /\ answers' = Tail(answers) /\ Head(answers).fresh
            /\ Matches(v, Head(answers)) /\ value'[v] # value[v]
        => \A x \in lastSet[v] :
              LET y == Wrapped(Layout[v].type, x)
              IN  ToInt(value'[v]) \in {y} \cup (IF v \in sliders THEN {Clamp(y)} ELSE {})

\* No step but an answer takes an answer away and sets a value.
LEMMA OnlyAnswersSet ==
    ASSUME ValuesInv, Next, answers # <<>>, answers' = Tail(answers), ~Answer
    PROVE  value' = value
  <1>1. answers \in Seq(Answered)
    BY DEF ValuesInv, Typed
  <1>2. Len(Tail(answers)) + 1 = Len(answers) /\ Len(Tail(answers)) \in Nat
    BY <1>1, Behind
  <1>3. \A ws : answers' # Outdated(answers, ws)
    <2> SUFFICES ASSUME NEW ws, answers' = Outdated(answers, ws) PROVE FALSE
      OBVIOUS
    <2>1. Len(Outdated(answers, ws)) = Len(answers)
      BY <1>1, OutdatedAnswered
    <2>2. PICK a \in Nat : a = Len(Tail(answers)) /\ a + 1 = Len(answers)
      BY <1>2
    <2>3. a = a + 1
      BY <2>1, <2>2, Zenon
    <2> QED BY <2>3
  <1>4. ASSUME NEW v \in Vars, NEW x \in UserValues, SetUserValue(v, x) PROVE FALSE
    BY <1>3, <1>4, Zenon DEF SetUserValue, SetValue
  <1>5. ASSUME NEW v \in Controls, AddSlider(v) PROVE FALSE
    <2>1. answers' = answers
      BY <1>5 DEF AddSlider
    <2>2. PICK a \in Nat : a = Len(Tail(answers)) /\ a + 1 = Len(answers)
      BY <1>2
    <2>3. a = a + 1
      BY <2>1, <2>2, Zenon
    <2> QED BY <2>3
  <1>6. ASSUME NEW v \in Controls, NEW x \in SliderRange, DragSlider(v, x) PROVE FALSE
    BY <1>3, <1>6, Zenon DEF DragSlider
  <1>7. ASSUME NEW file \in Files, LoadConfiguration(file) PROVE FALSE
    BY <1>3, <1>7, Zenon DEF LoadConfiguration
  <1>8. ~User
    BY <1>4, <1>5, <1>6, <1>7, Zenon DEF User
  <1> QED BY <1>8 DEF Next, Disturb, Work, Quiet, ModuleChanges, Lose, Poll, DeviceSend

\* An answer that was asked for after the user set v makes the value of what was set.
LEMMA AnswerReadsBack ==
    ASSUME ValuesInv, Answer, NEW v \in Polled, Head(answers).fresh, Matches(v, Head(answers)),
           value'[v] # value[v], NEW x \in lastSet[v]
    PROVE  ToInt(value'[v]) \in {Wrapped(Layout[v].type, x)}
              \cup (IF v \in sliders THEN {Clamp(Wrapped(Layout[v].type, x))} ELSE {})
  <1>1. answers \in Seq(Answered) /\ answers # <<>> /\ value \in [Vars -> QVariants]
        /\ v \in Vars /\ x \in Int
    BY PolledAre DEF ValuesInv, Typed, Answer
  <1>2. PICK msg \in Answered : msg = Head(answers) /\ msg = answers[1] /\ 1 \in 1 .. Len(answers)
    <2>1. /\ Head(answers) \in Answered /\ Head(answers) = answers[1]
          /\ Len(Tail(answers)) + 1 = Len(answers) /\ Len(Tail(answers)) \in Nat
      BY <1>1, Behind
    <2>2. 1 \in 1 .. Len(answers)
      BY <2>1
    <2> QED BY <2>1, <2>2, Zenon
  <1>3. PICK u \in Target(msg) : \E q \in {FromBytes(Layout[u].type, msg.data)} :
                                    SetValue(u, q, FALSE, Tail(answers))
    BY <1>2, Zenon DEF Answer
  <1>4. PICK q : /\ q = FromBytes(Layout[u].type, msg.data)
                 /\ SetValue(u, q, FALSE, Tail(answers))
    BY <1>3
  <1>5. value' = [value EXCEPT ![u] = Settled(u, q)]
    BY <1>4, Zenon DEF SetValue
  <1>6. u = v /\ value'[v] = Settled(v, q)
    BY <1>1, <1>5
  <1>7. Asks(v, msg)
    BY <1>2, <1>3, <1>6, TargetIs, Zenon DEF Asks
  <1>8. msg.data = BytesOf(v, x)
    BY <1>2, <1>7, Zenon DEF ValuesInv, FollowsUser, FollowsSet, ToldRight
  <1>9. PICK y : y = Wrapped(Layout[v].type, x)
    OBVIOUS
  <1>10. q = <<y>>
    <2>1. Layout[v].type \in Types
      BY <1>1, VarsAre
    <2> QED BY <1>1, <1>4, <1>6, <1>8, <1>9, <2>1, RoundTrip, Zenon DEF BytesOf
  <1>11. \A z : ToInt(<<z>>) = z
    BY DEF ToInt, Invalid
  <1>12. ToInt(value'[v]) = y \/ (v \in sliders /\ ToInt(value'[v]) = Clamp(y))
    <2>1. CASE Moves(v, q)
      <3>1. value'[v] = <<Clamp(ToInt(q))>>
        BY <1>6, <2>1, Zenon DEF Settled
      <3>2. v \in sliders
        BY <2>1, Zenon DEF Moves
      <3>3. ToInt(q) = y
        BY <1>10, <1>11
      <3>4. ToInt(value'[v]) = Clamp(y)
        BY <1>11, <3>1, <3>3
      <3> QED BY <3>2, <3>4
    <2>2. CASE ~Moves(v, q)
      <3>1. value'[v] = q
        BY <1>6, <2>2, Zenon DEF Settled
      <3>2. ToInt(q) = y
        BY <1>10, <1>11
      <3> QED BY <3>1, <3>2
    <2> QED BY <2>1, <2>2
  <1> QED BY <1>9, <1>12

\* An answer to a request that was made after the user set a variable shows what was set,
\* whatever was lost or is still on its way (requestVariable, processCANMessage).
THEOREM ReadsExact == Spec => ReadYourWrites
  <1>1. ValuesInv /\ [Next]_vars => [ReadsBack]_vars
    <2> SUFFICES ASSUME ValuesInv, Next PROVE ReadsBack
      OBVIOUS
    <2>1. ASSUME NEW v \in Polled, answers # <<>>, answers' = Tail(answers),
                 Head(answers).fresh, Matches(v, Head(answers)), value'[v] # value[v],
                 NEW x \in lastSet[v]
          PROVE  ToInt(value'[v]) \in {Wrapped(Layout[v].type, x)}
                    \cup (IF v \in sliders THEN {Clamp(Wrapped(Layout[v].type, x))} ELSE {})
      <3>1. Answer
        BY <2>1, OnlyAnswersSet
      <3> QED BY <2>1, <3>1, AnswerReadsBack
    <2> QED BY <2>1, Zenon DEF ReadsBack
  <1>2. [][ReadsBack]_vars => ReadYourWrites
    BY DEF ReadYourWrites, ReadsBack
  <1> HIDE DEF ReadsBack
  <1> QED BY <1>1, <1>2, InitValues, ValuesNext, PTL DEF Spec
=============================================================================
