--------------------------- MODULE JsonTextProofs ---------------------------
(* What hnc_json_escape writes and hnc_cache_load reads back, for every name and every size
   of the buffer.  Both are loops, so the proofs are inductions; an induction is
   stated here with a set of numbers in place of a predicate. *)
EXTENDS JsonText, FiniteSetTheorems, NaturalsInduction, TLAPS

(* The least number of a set, from the well-foundedness of < on Nat. *)
LEMMA LeastNat ==
    ASSUME NEW T, T \subseteq Nat, T # {}
    PROVE  \E x \in T : \A y \in T : x <= y
<1>1. PICK x \in T : \A y \in T : ~(<<y, x>> \in OpToRel(<, Nat))
  BY WFMin, NatLessThanWellFounded
<1>2. \A y \in T : ~(y < x)
  BY <1>1 DEF OpToRel
<1> QED BY <1>2

(* Induction from a up to n. *)
LEMMA UpTo ==
    ASSUME NEW a \in Nat, NEW n \in Nat, NEW S, a \in S,
           \A k \in a..n : k \in S /\ k < n => k + 1 \in S
    PROVE  a..n \subseteq S
<1> SUFFICES ASSUME NEW z \in a..n, z \notin S PROVE FALSE
  OBVIOUS
<1> DEFINE T == {k \in a..n : k \notin S}
<1>1. T \subseteq Nat /\ T # {}
  OBVIOUS
<1>2. PICK k \in T : \A y \in T : k <= y
  BY <1>1, LeastNat
<1>3. k - 1 \in a..n /\ k - 1 < n /\ k - 1 \notin T
  BY <1>2
<1>4. k - 1 \in S /\ (k - 1) + 1 = k
  BY <1>2, <1>3
<1> QED BY <1>2, <1>3, <1>4

(* And down from the largest: a set of numbers below a bound has a greatest. *)
LEMMA GreatestNat ==
    ASSUME NEW n \in Nat, NEW T, T \subseteq 1..n, T # {}
    PROVE  \E x \in T : \A y \in T : y <= x
<1> DEFINE U == {n - x : x \in T}
<1>1. U \subseteq Nat /\ U # {}
  OBVIOUS
<1>2. PICK u \in U : \A y \in U : u <= y
  BY <1>1, LeastNat
<1>3. PICK x \in T : u = n - x
  BY <1>2
<1>4. ASSUME NEW y \in T PROVE y <= x
  <2>1. n - y \in U
    OBVIOUS
  <2>2. u <= n - y
    BY <1>2, <2>1
  <2> QED BY <1>3, <2>2
<1> QED BY <1>4

-----------------------------------------------------------------------------
(* The loop of hnc_json_escape. *)

Empty == [text |-> <<>>, full |-> FALSE]

(* Its turns are what the definition says: there is such a function. *)
LEMMA TurnsExist ==
    ASSUME NEW name, NEW n \in Nat, Len(name) = n
    PROVE  Turns(name) = [i \in 0..n |-> IF i = 0 THEN Empty ELSE Put(Turns(name)[i - 1], name[i])]
<1> DEFINE Good(f, k) == f = [i \in 0..k |-> IF i = 0 THEN Empty ELSE Put(f[i - 1], name[i])]
           S == {k \in 0..n : \E f : Good(f, k)}
<1>1. 0 \in S
  <2> DEFINE f == [i \in 0..0 |-> Empty]
  <2>1. Good(f, 0)
    OBVIOUS
  <2> HIDE DEF f, Good
  <2>2. \E h : Good(h, 0)
    BY <2>1
  <2> QED BY <2>2
<1>2. ASSUME NEW k \in 0..n, k \in S, k < n PROVE k + 1 \in S
  <2>1. PICK f : Good(f, k)
    BY <1>2
  <2> DEFINE g == [i \in 0..k + 1 |-> IF i <= k THEN f[i] ELSE Put(f[k], name[k + 1])]
  <2>2. \A i \in 0..k : f[i] = IF i = 0 THEN Empty ELSE Put(f[i - 1], name[i])
    BY <2>1
  <2>3. \A i \in 0..k : g[i] = f[i]
    OBVIOUS
  <2>4. g[k + 1] = Put(f[k], name[k + 1])
    OBVIOUS
  <2>5. ASSUME NEW i \in 0..k + 1 PROVE g[i] = IF i = 0 THEN Empty ELSE Put(g[i - 1], name[i])
    <3>1. CASE i = 0
      BY <2>2, <2>3, <3>1
    <3>2. CASE i \in 1..k
      <4>1. g[i] = f[i] /\ g[i - 1] = f[i - 1]
        BY <2>3, <3>2
      <4> QED BY <2>2, <3>2, <4>1
    <3>3. CASE i = k + 1
      <4>1. g[i - 1] = f[k] /\ i # 0
        BY <2>3, <3>3
      <4> QED BY <2>4, <3>3, <4>1
    <3> QED BY <3>1, <3>2, <3>3
  <2>6. g = [i \in 0..k + 1 |-> g[i]]
    OBVIOUS
  <2> HIDE DEF g
  <2>7. Good(g, k + 1)
    BY <2>5, <2>6
  <2>8. k + 1 \in 0..n
    BY <1>2
  <2> QED BY <2>7, <2>8
<1>3. 0..n \subseteq S
  BY <1>1, <1>2, UpTo
<1>4. \E f : Good(f, n)
  BY <1>3
<1>5. Turns(name) = CHOOSE f : Good(f, n)
  BY DEF Turns, Empty
<1>6. Good(Turns(name), n)
  BY <1>4, <1>5
<1> QED BY <1>6

Out == [text : Seq(TextBytes), full : BOOLEAN]

(* The escape of a byte ends with the byte, and shows how long it is at its start. *)
LEMMA Piece ==
    ASSUME NEW b \in NameBytes
    PROVE  /\ EscapeByte(b) \in Seq(TextBytes) /\ Len(EscapeByte(b)) \in 1..6
           /\ EscapeByte(b)[Len(EscapeByte(b))] = b
           /\ b \notin {"q", "c"} => EscapeByte(b) = <<b>> /\ b # "esc"
           /\ b = "q" => EscapeByte(b)[1] = "esc" /\ EscapeByte(b)[2] = "q" /\ Len(EscapeByte(b)) = 2
           /\ b = "c" => /\ EscapeByte(b)[1] = "esc" /\ EscapeByte(b)[2] = "u" /\ EscapeByte(b)[6] = "c"
                         /\ Len(EscapeByte(b)) = 6
<1>1. CASE b = "q"
  <2>1. EscapeByte(b) = <<"esc", "q">>
    BY <1>1 DEF EscapeByte
  <2> DEFINE e == <<"esc", "q">>
  <2>2. "esc" \in TextBytes /\ "q" \in TextBytes
    BY DEF TextBytes, NameBytes
  <2>3. e \in Seq(TextBytes) /\ Len(e) = 2 /\ e[1] = "esc" /\ e[2] = "q"
    BY <2>2
  <2> HIDE DEF e
  <2>4. Len(e) \in 1..6 /\ e[Len(e)] = "q"
    BY <2>3
  <2> QED BY <1>1, <2>1, <2>3, <2>4 DEF e
<1>2. CASE b = "c"
  <2>1. EscapeByte(b) = <<"esc", "u", "0", "0", "0", "c">>
    BY <1>2 DEF EscapeByte
  <2> DEFINE e == <<"esc", "u", "0", "0", "0", "c">>
  <2>2. "esc" \in TextBytes /\ "u" \in TextBytes /\ "0" \in TextBytes /\ "c" \in TextBytes
    BY DEF TextBytes, NameBytes
  <2>3. e \in Seq(TextBytes) /\ Len(e) = 6 /\ e[1] = "esc" /\ e[2] = "u" /\ e[6] = "c"
    BY <2>2
  <2> HIDE DEF e
  <2>4. Len(e) \in 1..6 /\ e[Len(e)] = "c"
    BY <2>3
  <2> QED BY <1>2, <2>1, <2>3, <2>4 DEF e
<1>3. CASE b \notin {"q", "c"}
  <2>1. EscapeByte(b) = <<b>>
    BY <1>3 DEF EscapeByte
  <2> QED BY <1>3, <2>1 DEF TextBytes, NameBytes
<1> QED BY <1>1, <1>2, <1>3

LEMMA PutType ==
    ASSUME NEW out \in Out, Len(out.text) < EscLen, NEW b \in NameBytes
    PROVE  Put(out, b) \in Out /\ Len(Put(out, b).text) < EscLen
<1>1. out.text \in Seq(TextBytes) /\ EscapeByte(b) \in Seq(TextBytes)
  BY Piece DEF Out
<1>2. CASE ~out.full /\ Fits(out.text, EscapeByte(b))
  <2>1. Put(out, b) = [text |-> out.text \o EscapeByte(b), full |-> FALSE]
    BY <1>2 DEF Put
  <2>2. /\ out.text \o EscapeByte(b) \in Seq(TextBytes)
        /\ Len(out.text \o EscapeByte(b)) = Len(out.text) + Len(EscapeByte(b))
    BY <1>1
  <2> QED BY <1>2, <2>1, <2>2 DEF Out, Fits
<1>3. CASE ~(~out.full /\ Fits(out.text, EscapeByte(b)))
  <2>1. Put(out, b) = [text |-> out.text, full |-> TRUE]
    BY <1>3 DEF Put
  <2> QED BY <1>1, <2>1 DEF Out
<1> QED BY <1>2, <1>3

LEMMA TurnsType ==
    ASSUME NEW name \in Seq(NameBytes)
    PROVE  \A i \in 0..Len(name) : Turns(name)[i] \in Out /\ Len(Turns(name)[i].text) < EscLen
<1> DEFINE n == Len(name)
           f == Turns(name)
<1>0. n \in Nat /\ EscLen \in Nat /\ EscLen > 6
  BY TextBounds
<1> HIDE DEF n, f
<1>1. f = [i \in 0..n |-> IF i = 0 THEN Empty ELSE Put(f[i - 1], name[i])]
  BY <1>0, TurnsExist DEF n, f
<1>2. f[0] = Empty /\ \A i \in 1..n : f[i] = Put(f[i - 1], name[i])
  BY <1>0, <1>1
<1> DEFINE S == {i \in 0..n : f[i] \in Out /\ Len(f[i].text) < EscLen}
<1>3. 0 \in S
  <2>1. Empty \in Out /\ Empty.text = <<>> /\ Len(<<>>) = 0
    BY DEF Empty, Out
  <2>2. f[0] \in Out /\ Len(f[0].text) < EscLen
    BY <1>0, <1>2, <2>1
  <2> QED BY <1>0, <2>2
<1>4. ASSUME NEW k \in 0..n, k \in S, k < n PROVE k + 1 \in S
  <2>1. k + 1 \in 1..n /\ name[k + 1] \in NameBytes
    BY <1>0, <1>4 DEF n
  <2>2. f[k + 1] = Put(f[k], name[k + 1])
    BY <1>0, <1>2, <2>1
  <2>3. f[k + 1] \in Out /\ Len(f[k + 1].text) < EscLen
    BY <1>4, <2>1, <2>2, PutType
  <2> QED BY <2>1, <2>3
<1>5. \A i \in S : f[i] \in Out /\ Len(f[i].text) < EscLen
  OBVIOUS
<1> HIDE DEF S
<1>6. 0..n \subseteq S
  BY <1>0, <1>3, <1>4, UpTo
<1> QED BY <1>5, <1>6 DEF n, f

-----------------------------------------------------------------------------
(* x[k] is the escape of the first k bytes of name. *)
Pieces(name, x, K) ==
    /\ \A k \in 0..K : x[k] \in Seq(TextBytes)
    /\ x[0] = <<>>
    /\ \A k \in 1..K : x[k] = x[k - 1] \o EscapeByte(name[k])

(* The loop puts out the pieces of the first K bytes and stops, at the end of the name or
   before a byte that does not fit. *)
LEMMA Fitted ==
    ASSUME NEW name \in Seq(NameBytes)
    PROVE  \E K \in 0..Len(name) :
              /\ Pieces(name, [k \in 0..Len(name) |-> Turns(name)[k].text], K)
              /\ Fill(name).text = Turns(name)[K].text /\ (Fill(name).full <=> K < Len(name))
              /\ K < Len(name) => ~Fits(Turns(name)[K].text, EscapeByte(name[K + 1]))
<1> DEFINE n == Len(name)
           f == Turns(name)
           x == [k \in 0..n |-> f[k].text]
<1>0. n \in Nat
  OBVIOUS
<1>f. Fill(name) = f[n]
  BY DEF Fill
<1>t. \A i \in 0..n : f[i] \in Out
  BY TurnsType
<1>1. f = [i \in 0..n |-> IF i = 0 THEN Empty ELSE Put(f[i - 1], name[i])]
  BY <1>0, TurnsExist
<1> HIDE DEF n, f
<1>2. f[0] = Empty /\ \A i \in 1..n : f[i] = Put(f[i - 1], name[i])
  BY <1>0, <1>1
<1> DEFINE T == {k \in 0..n : f[k].full}
<1>p. ASSUME NEW K \in 0..n, \A k \in 0..K : ~f[k].full
      PROVE  Pieces(name, x, K)
  <2>1. \A k \in 0..K : x[k] = f[k].text /\ x[k] \in Seq(TextBytes)
    <3>1. \A k \in 0..K : k \in 0..n
      BY <1>0
    <3>2. \A k \in 0..n : x[k] = f[k].text /\ f[k].text \in Seq(TextBytes)
      BY <1>t DEF Out
    <3> QED BY <3>1, <3>2
  <2>2. x[0] = <<>>
    BY <1>0, <1>2 DEF Empty
  <2>3. ASSUME NEW k \in 1..K PROVE x[k] = x[k - 1] \o EscapeByte(name[k])
    <3>0. k \in 1..n /\ k \in 0..K /\ k - 1 \in 0..K
      BY <1>0
    <3>1. f[k] = Put(f[k - 1], name[k]) /\ ~f[k].full /\ ~f[k - 1].full
      BY <1>2, <1>p, <3>0
    <3>2. f[k].text = f[k - 1].text \o EscapeByte(name[k])
      <4> DEFINE g == f[k - 1]
      <4> HIDE DEF g
      <4>1. f[k] = Put(g, name[k])
        BY <3>1 DEF g
      <4>2. Put(g, name[k]).full \/ Put(g, name[k]).text = g.text \o EscapeByte(name[k])
        BY DEF Put
      <4> QED BY <3>1, <4>1, <4>2 DEF g
    <3>3. x[k] = f[k].text /\ x[k - 1] = f[k - 1].text
      BY <2>1, <3>0
    <3> QED BY <3>2, <3>3
  <2> HIDE DEF x
  <2> QED BY <2>1, <2>2, <2>3 DEF Pieces
<1>3. CASE T = {}
  <2>1. \A k \in 0..n : ~f[k].full
    BY <1>3
  <2>2. Pieces(name, x, n) /\ n \in 0..n /\ ~f[n].full
    BY <1>0, <1>p, <2>1
  <2> HIDE DEF x
  <2>3. \E K \in 0..n : /\ Pieces(name, x, K)
                        /\ f[n].text = f[K].text /\ (f[n].full <=> K < n)
                        /\ K < n => ~Fits(f[K].text, EscapeByte(name[K + 1]))
    BY <1>0, <2>2
  <2> QED BY <1>f, <2>3 DEF n, f, x
<1>4. CASE T # {}
  <2>0. T \subseteq Nat
    BY <1>0
  <2>1. PICK j \in T : \A y \in T : j <= y
    <3> HIDE DEF T
    <3> QED BY <1>4, <2>0, LeastNat
  <2>2. j \in 1..n /\ f[j].full
    BY <1>0, <1>2, <2>1 DEF Empty
  <2>3. \A k \in 0..(j - 1) : ~f[k].full
    BY <1>0, <2>1, <2>2
  <2>4. j - 1 \in 0..n /\ j - 1 < n /\ (j - 1) + 1 = j
    BY <1>0, <2>2
  <2>5. Pieces(name, x, j - 1)
    BY <1>p, <2>3, <2>4
  <2>6. f[j] = Put(f[j - 1], name[j]) /\ ~f[j - 1].full
    BY <1>0, <1>2, <2>2, <2>3
  <2>7. ~Fits(f[j - 1].text, EscapeByte(name[j])) /\ f[j].text = f[j - 1].text
    BY <2>2, <2>6 DEF Put
  <2> DEFINE S == {k \in j..n : f[k].full /\ f[k].text = f[j - 1].text}
  <2>8. j \in S
    BY <1>0, <2>2, <2>7
  <2>9. ASSUME NEW k \in j..n, k \in S, k < n PROVE k + 1 \in S
    <3>1. f[k + 1] = Put(f[k], name[k + 1]) /\ k + 1 \in j..n
      BY <1>0, <1>2, <2>2, <2>9
    <3>2. f[k + 1].full /\ f[k + 1].text = f[k].text
      BY <2>9, <3>1 DEF Put
    <3> QED BY <2>9, <3>1, <3>2
  <2>10. j \in Nat
    BY <2>2
  <2>11. j..n \subseteq S
    BY <1>0, <2>8, <2>9, <2>10, UpTo
  <2>12. f[n].full /\ f[n].text = f[j - 1].text
    BY <1>0, <2>2, <2>11
  <2> HIDE DEF x
  <2>13. \E K \in 0..n : /\ Pieces(name, x, K)
                         /\ f[n].text = f[K].text /\ (f[n].full <=> K < n)
                         /\ K < n => ~Fits(f[K].text, EscapeByte(name[K + 1]))
    BY <2>4, <2>5, <2>7, <2>12
  <2> QED BY <1>f, <2>13 DEF n, f, x
<1> QED BY <1>3, <1>4

LEMMA Joined ==
    ASSUME NEW S, NEW s \in Seq(S), NEW e \in Seq(S)
    PROVE  /\ s \o e \in Seq(S) /\ Len(s) \in Nat /\ Len(e) \in Nat /\ Len(s \o e) = Len(s) + Len(e)
           /\ \A p \in 1..Len(s) : (s \o e)[p] = s[p]
           /\ \A p \in 1..Len(e) : (s \o e)[Len(s) + p] = e[p]
  OBVIOUS

(* What is put out stays. *)
LEMMA StaysPut ==
    ASSUME NEW name \in Seq(NameBytes), NEW x, NEW K \in 0..Len(name), Pieces(name, x, K)
    PROVE  \A k \in 0..K : /\ Len(x[k]) \in Nat /\ Len(x[k]) <= Len(x[K])
                           /\ \A p \in 1..Len(x[k]) : x[K][p] = x[k][p]
<1> SUFFICES ASSUME NEW k \in 0..K
             PROVE  /\ Len(x[k]) \in Nat /\ Len(x[k]) <= Len(x[K])
                    /\ \A p \in 1..Len(x[k]) : x[K][p] = x[k][p]
  OBVIOUS
<1>0. /\ K \in Nat /\ k \in Nat
      /\ \A j \in 0..K : x[j] \in Seq(TextBytes) /\ Len(x[j]) \in Nat
  BY DEF Pieces
<1>1. \A j \in 1..K : /\ x[j] = x[j - 1] \o EscapeByte(name[j])
                      /\ EscapeByte(name[j]) \in Seq(TextBytes)
  <2>1. \A j \in 1..K : name[j] \in NameBytes
    OBVIOUS
  <2>2. \A j \in 1..K : EscapeByte(name[j]) \in Seq(TextBytes)
    BY <2>1, Piece
  <2> QED BY <2>2 DEF Pieces
<1> DEFINE m == Len(x[k])
           S == {j \in k..K : m <= Len(x[j]) /\ \A p \in 1..m : x[j][p] = x[k][p]}
<1>2. m \in Nat /\ k \in S
  BY <1>0
<1> HIDE DEF m
<1>3. ASSUME NEW j \in k..K, j \in S, j < K PROVE j + 1 \in S
  <2>1. j + 1 \in k..K /\ j + 1 \in 1..K /\ j \in 0..K /\ (j + 1) - 1 = j
    BY <1>0, <1>3
  <2>2. x[j + 1] = x[j] \o EscapeByte(name[j + 1]) /\ EscapeByte(name[j + 1]) \in Seq(TextBytes)
    BY <1>1, <2>1
  <2>3. x[j] \in Seq(TextBytes) /\ Len(x[j]) \in Nat /\ Len(x[j + 1]) \in Nat
    BY <1>0, <2>1
  <2>4. /\ Len(x[j + 1]) >= Len(x[j])
        /\ \A p \in 1..Len(x[j]) : x[j + 1][p] = x[j][p]
    <3> DEFINE s == x[j]
               e == EscapeByte(name[j + 1])
    <3>1. s \in Seq(TextBytes) /\ e \in Seq(TextBytes) /\ x[j + 1] = s \o e
      BY <2>2, <2>3
    <3> HIDE DEF s, e
    <3>2. Len(s \o e) >= Len(s) /\ \A p \in 1..Len(s) : (s \o e)[p] = s[p]
      BY <3>1, Joined
    <3> QED BY <3>1, <3>2 DEF s
  <2>5. m <= Len(x[j]) /\ \A p \in 1..m : x[j][p] = x[k][p]
    BY <1>3
  <2>6. m <= Len(x[j + 1]) /\ \A p \in 1..m : x[j + 1][p] = x[k][p]
    <3> DEFINE a == x[j]
               b == x[j + 1]
    <3>1. Len(a) \in Nat /\ Len(b) \in Nat /\ Len(b) >= Len(a) /\ m \in Nat /\ m <= Len(a)
      BY <1>2, <2>3, <2>4, <2>5
    <3>2. \A p \in 1..Len(a) : b[p] = a[p]
      BY <2>4
    <3>3. \A p \in 1..m : a[p] = x[k][p]
      BY <2>5
    <3> HIDE DEF a, b
    <3>4. \A p \in 1..m : p \in 1..Len(a)
      BY <3>1
    <3>5. m <= Len(b)
      BY <3>1
    <3>6. \A p \in 1..m : b[p] = x[k][p]
      BY <3>2, <3>3, <3>4
    <3> QED BY <3>5, <3>6 DEF b
  <2> QED BY <2>1, <2>6
<1>4. k..K \subseteq S
  BY <1>0, <1>2, <1>3, UpTo
<1>5. K \in S
  BY <1>0, <1>4
<1>6. m <= Len(x[K]) /\ \A p \in 1..m : x[K][p] = x[k][p]
  BY <1>5
<1> QED BY <1>2, <1>6 DEF m

LEMMA LongEnough ==
    ASSUME NEW name \in Seq(NameBytes), NEW x, NEW K \in 0..Len(name), Pieces(name, x, K)
    PROVE  \A k \in 0..K : k <= Len(x[k])
<1>0. K \in Nat /\ \A j \in 0..K : x[j] \in Seq(TextBytes) /\ Len(x[j]) \in Nat
  BY DEF Pieces
<1> DEFINE S == {k \in 0..K : k <= Len(x[k])}
<1>1. 0 \in S
  BY <1>0
<1>2. ASSUME NEW k \in 0..K, k \in S, k < K PROVE k + 1 \in S
  <2>1. k + 1 \in 1..K /\ k + 1 \in 0..K /\ (k + 1) - 1 = k
    BY <1>0, <1>2
  <2>2. x[k + 1] = x[k] \o EscapeByte(name[k + 1]) /\ x[k] \in Seq(TextBytes)
    BY <1>0, <2>1 DEF Pieces
  <2> DEFINE a == x[k]
             e == EscapeByte(name[k + 1])
  <2>3. name[k + 1] \in NameBytes
    BY <1>0, <2>1
  <2>4. e \in Seq(TextBytes) /\ Len(e) \in 1..6
    BY <2>3, Piece
  <2>5. a \in Seq(TextBytes) /\ k <= Len(a) /\ x[k + 1] = a \o e
    BY <1>2, <2>2
  <2> HIDE DEF a, e
  <2>6. Len(a \o e) = Len(a) + Len(e) /\ Len(a) \in Nat
    BY <2>4, <2>5, Joined
  <2>7. k + 1 <= Len(x[k + 1])
    <3>0. /\ k \in Nat /\ k <= Len(a) /\ Len(a) \in Nat
          /\ Len(e) \in Nat /\ 1 <= Len(e)
      <4>1. k \in Nat
        BY <1>0
      <4>2. Len(e) \in Nat /\ 1 <= Len(e)
        <5>1. \A i \in 1..6 : i \in Nat /\ 1 <= i
          OBVIOUS
        <5> QED BY ONLY <2>4, <5>1, Zenon
      <4>3. k <= Len(a) /\ Len(a) \in Nat
        BY <2>5, <2>6
      <4> QED BY <4>1, <4>2, <4>3
    <3>1. k + 1 <= Len(a) + Len(e)
      BY ONLY <3>0
    <3> QED BY <2>5, <2>6, <3>1
  <2> QED BY <2>1, <2>7
<1>3. 0..K \subseteq S
  BY <1>0, <1>1, <1>2, UpTo
<1> QED BY <1>3

-----------------------------------------------------------------------------
(* The loop of hnc_cache_load. *)

AtStart == [q |-> 1, hn |-> <<>>]

LEMMA ReadsExist ==
    ASSUME NEW text, NEW n \in Nat, Len(text) = n
    PROVE  Reads(text) =
             [i \in 0..n |-> IF i = 0 THEN AtStart ELSE ReadByte(text, Reads(text)[i - 1])]
<1> DEFINE Good(f, k) == f = [i \in 0..k |-> IF i = 0 THEN AtStart ELSE ReadByte(text, f[i - 1])]
           S == {k \in 0..n : \E f : Good(f, k)}
<1>1. 0 \in S
  <2> DEFINE f == [i \in 0..0 |-> AtStart]
  <2>1. Good(f, 0)
    OBVIOUS
  <2> HIDE DEF f, Good
  <2>2. \E h : Good(h, 0)
    BY <2>1
  <2> QED BY <2>2
<1>2. ASSUME NEW k \in 0..n, k \in S, k < n PROVE k + 1 \in S
  <2>1. PICK f : Good(f, k)
    BY <1>2
  <2> DEFINE g == [i \in 0..k + 1 |-> IF i <= k THEN f[i] ELSE ReadByte(text, f[k])]
  <2>2. \A i \in 0..k : f[i] = IF i = 0 THEN AtStart ELSE ReadByte(text, f[i - 1])
    BY <2>1
  <2>3. \A i \in 0..k : g[i] = f[i]
    OBVIOUS
  <2>4. g[k + 1] = ReadByte(text, f[k])
    OBVIOUS
  <2>5. ASSUME NEW i \in 0..k + 1 PROVE g[i] = IF i = 0 THEN AtStart ELSE ReadByte(text, g[i - 1])
    <3>1. CASE i = 0
      BY <2>2, <2>3, <3>1
    <3>2. CASE i \in 1..k
      <4>1. g[i] = f[i] /\ g[i - 1] = f[i - 1]
        BY <2>3, <3>2
      <4> QED BY <2>2, <3>2, <4>1
    <3>3. CASE i = k + 1
      <4>1. g[i - 1] = f[k] /\ i # 0
        BY <2>3, <3>3
      <4> QED BY <2>4, <3>3, <4>1
    <3> QED BY <3>1, <3>2, <3>3
  <2>6. g = [i \in 0..k + 1 |-> g[i]]
    OBVIOUS
  <2> HIDE DEF g
  <2>7. Good(g, k + 1)
    BY <2>5, <2>6
  <2>8. k + 1 \in 0..n
    BY <1>2
  <2> QED BY <2>7, <2>8
<1>3. 0..n \subseteq S
  BY <1>1, <1>2, UpTo
<1>4. \E f : Good(f, n)
  BY <1>3
<1>5. Reads(text) = CHOOSE f : Good(f, n)
  BY DEF Reads, AtStart
<1>6. Good(Reads(text), n)
  BY <1>4, <1>5
<1> QED BY <1>6

(* A turn that stands before the escape of a byte reads that byte. *)
LEMMA ReadPiece ==
    ASSUME NEW text, NEW b \in NameBytes, NEW l \in Nat, NEW hn, Len(text) \in Nat,
           l + Len(EscapeByte(b)) <= Len(text),
           \A p \in 1..Len(EscapeByte(b)) : text[l + p] = EscapeByte(b)[p]
    PROVE  ReadByte(text, [q |-> l + 1, hn |-> hn])
             = [q |-> l + Len(EscapeByte(b)) + 1, hn |-> Append(hn, b)]
<1> DEFINE e == EscapeByte(b)
           r == [q |-> l + 1, hn |-> hn]
<1>0. Len(e) \in 1..6 /\ e[Len(e)] = b
  BY Piece
<1>1. text[l + 1] = e[1] /\ text[l + Len(e)] = b /\ l + 1 <= Len(text)
  BY <1>0
<1>r. r.q = l + 1 /\ r.hn = hn
  OBVIOUS
<1> HIDE DEF r
<1>2. CASE b \notin {"q", "c"}
  <2>1. e[1] = b /\ Len(e) = 1 /\ b # "esc"
    <3>1. e = <<b>> /\ b # "esc"
      BY <1>2, Piece
    <3> QED BY ONLY <3>1
  <2> HIDE DEF e
  <2>2. text[r.q] # "esc" /\ text[r.q] = b /\ ~(r.q > Len(text))
    BY <1>1, <1>r, <2>1
  <2>3. ReadByte(text, r) = [q |-> r.q + 1, hn |-> Append(hn, b)]
    BY <1>r, <2>2 DEF ReadByte
  <2> QED BY <1>r, <2>1, <2>3 DEF e, r
<1>3. CASE b = "q"
  <2>1. e[1] = "esc" /\ e[2] = "q" /\ Len(e) = 2
    BY <1>3, Piece
  <2>2. text[l + 2] = e[2]
    BY <2>1
  <2> HIDE DEF e
  <2>3. text[r.q] = "esc" /\ text[r.q + 1] = "q" /\ ~(r.q > Len(text))
    BY <1>1, <1>r, <2>1, <2>2
  <2>4. ReadByte(text, r) = [q |-> r.q + 2, hn |-> Append(hn, b)]
    BY <1>r, <1>3, <2>3 DEF ReadByte
  <2> QED BY <1>r, <2>1, <2>4 DEF e, r
<1>4. CASE b = "c"
  <2>1. e[1] = "esc" /\ e[2] = "u" /\ e[6] = "c" /\ Len(e) = 6
    BY <1>4, Piece
  <2>2. text[l + 2] = e[2] /\ text[l + 6] = e[6]
    BY <2>1
  <2> HIDE DEF e
  <2>3. /\ text[r.q] = "esc" /\ text[r.q + 1] = "u" /\ text[r.q + 5] = "c"
        /\ ~(r.q > Len(text))
    BY <1>1, <1>r, <2>1, <2>2
  <2>4. ReadByte(text, r) = [q |-> r.q + 6, hn |-> Append(hn, b)]
    BY <1>r, <1>4, <2>3 DEF ReadByte
  <2> QED BY <1>r, <2>1, <2>4 DEF e, r
<1> QED BY <1>2, <1>3, <1>4 DEF r

(* Reading the escape of the first K bytes of a name brings them back. *)
LEMMA ReadBack ==
    ASSUME NEW name \in Seq(NameBytes), NEW x, NEW K \in 0..Len(name), Pieces(name, x, K)
    PROVE  Unescape(x[K]) = SubSeq(name, 1, K)
<1> DEFINE t == x[K]
           n == Len(t)
           f == Reads(t)
           At(k) == [q |-> Len(x[k]) + 1, hn |-> SubSeq(name, 1, k)]
<1>0. K \in Nat /\ n \in Nat /\ K <= n /\ \A j \in 0..K : x[j] \in Seq(TextBytes) /\ Len(x[j]) \in Nat
  <2>1. K \in Nat /\ K \in 0..K
    OBVIOUS
  <2>2. \A j \in 0..K : x[j] \in Seq(TextBytes) /\ Len(x[j]) \in Nat
    BY DEF Pieces
  <2>3. K <= n
    BY <2>1, LongEnough
  <2> QED BY <2>1, <2>2, <2>3
<1>f. f = [i \in 0..n |-> IF i = 0 THEN AtStart ELSE ReadByte(t, f[i - 1])]
  BY <1>0, ReadsExist
<1>u. Unescape(t) = f[n].hn
  BY DEF Unescape
<1>p. \A k \in 0..K : Len(x[k]) <= n /\ \A p \in 1..Len(x[k]) : t[p] = x[k][p]
  BY StaysPut
<1> HIDE DEF f
<1>1. f[0] = AtStart /\ \A i \in 1..n : f[i] = ReadByte(t, f[i - 1])
  <2> HIDE DEF t, n
  <2> QED BY <1>0, <1>f
<1> DEFINE S == {k \in 0..K : f[k] = At(k)}
<1>2. 0 \in S
  <2>1. x[0] = <<>> /\ Len(x[0]) = 0 /\ SubSeq(name, 1, 0) = <<>>
    BY DEF Pieces
  <2>2. At(0) = AtStart
    BY <2>1 DEF AtStart
  <2> QED BY <1>0, <1>1, <2>2
<1>3. ASSUME NEW k \in 0..K, k \in S, k < K PROVE k + 1 \in S
  <2> DEFINE b == name[k + 1]
             e == EscapeByte(b)
             a == x[k]
             l == Len(a)
  <2>1. k + 1 \in 1..K /\ k + 1 \in 0..K /\ (k + 1) - 1 = k /\ k + 1 \in 1..n /\ b \in NameBytes
    BY <1>0, <1>3
  <2>2. x[k + 1] = a \o e /\ a \in Seq(TextBytes) /\ e \in Seq(TextBytes)
    <3>1. e \in Seq(TextBytes)
      BY <2>1, Piece
    <3> QED BY <1>0, <2>1, <3>1 DEF Pieces
  <2>3. f[k + 1] = ReadByte(t, At(k))
    BY <1>1, <1>3, <2>1
  <2>4. /\ l \in Nat /\ Len(e) \in Nat /\ Len(x[k + 1]) = l + Len(e)
        /\ \A p \in 1..Len(e) : x[k + 1][l + p] = e[p]
    <3> HIDE DEF a, e
    <3>1. /\ Len(a) \in Nat /\ Len(e) \in Nat /\ Len(a \o e) = Len(a) + Len(e)
          /\ \A p \in 1..Len(e) : (a \o e)[Len(a) + p] = e[p]
      BY <2>2, Joined
    <3> QED BY <2>2, <3>1
  <2>5. l + Len(e) <= n /\ \A p \in 1..Len(e) : t[l + p] = e[p]
    <3> HIDE DEF t, n, l, e
    <3>1. l + Len(e) <= n
      BY <1>p, <2>1, <2>4
    <3>2. ASSUME NEW p \in 1..Len(e) PROVE t[l + p] = e[p]
      <4>1. l + p \in 1..Len(x[k + 1])
        BY <2>4
      <4>2. t[l + p] = x[k + 1][l + p]
        BY <1>p, <2>1, <4>1
      <4> QED BY <2>4, <4>2
    <3> QED BY <3>1, <3>2
  <2>6. ReadByte(t, [q |-> l + 1, hn |-> SubSeq(name, 1, k)])
          = [q |-> l + Len(e) + 1, hn |-> Append(SubSeq(name, 1, k), b)]
    <3> HIDE DEF t, l, b
    <3>1. /\ b \in NameBytes /\ l \in Nat /\ Len(t) \in Nat /\ l + Len(EscapeByte(b)) <= Len(t)
          /\ \A p \in 1..Len(EscapeByte(b)) : t[l + p] = EscapeByte(b)[p]
      BY <1>0, <2>1, <2>4, <2>5
    <3> DEFINE hn == SubSeq(name, 1, k)
    <3> HIDE DEF hn
    <3>2. ReadByte(t, [q |-> l + 1, hn |-> hn])
             = [q |-> l + Len(EscapeByte(b)) + 1, hn |-> Append(hn, b)]
      BY <3>1, ReadPiece
    <3> QED BY <3>2 DEF hn
  <2>7. Append(SubSeq(name, 1, k), b) = SubSeq(name, 1, k + 1)
    BY <1>0, <2>1
  <2>8. At(k + 1) = [q |-> l + Len(e) + 1, hn |-> SubSeq(name, 1, k + 1)]
    BY <2>4
  <2>9. f[k + 1] = At(k + 1)
    BY <2>3, <2>6, <2>7, <2>8
  <2> QED BY <2>1, <2>9
<1>4. 0..K \subseteq S
  BY <1>0, <1>2, <1>3, UpTo
<1>5. f[K] = At(K)
  BY <1>0, <1>4
<1> DEFINE U == {k \in K..n : f[k] = At(K)}
<1>6. K \in U
  BY <1>0, <1>5
<1>7. ASSUME NEW k \in K..n, k \in U, k < n PROVE k + 1 \in U
  <2>1. k + 1 \in 1..n /\ k + 1 \in K..n /\ (k + 1) - 1 = k
    BY <1>0, <1>7
  <2>2. f[k + 1] = ReadByte(t, At(K))
    BY <1>1, <1>7, <2>1
  <2>3. At(K).q = Len(t) + 1
    OBVIOUS
  <2> DEFINE r == At(K)
  <2>4. r.q > Len(t)
    BY <1>0, <2>3
  <2> HIDE DEF r
  <2>5. ReadByte(t, r) = r
    BY <2>4 DEF ReadByte
  <2> QED BY <2>1, <2>2, <2>5 DEF r
<1>8. K..n \subseteq U
  <2> HIDE DEF U, n
  <2> QED BY <1>0, <1>6, <1>7, UpTo
<1>9. f[n] = At(K)
  BY <1>0, <1>8
<1> QED BY <1>u, <1>9

-----------------------------------------------------------------------------
(* The end of the text. *)

GoodName(n) == n \in Seq(NameBytes) /\ Len(n) \in 1..HnLen - 1 /\ Whole(n)

LEMMA NeededType ==
    ASSUME NEW b
    PROVE  Needed(b) \in 0..3 /\ (Needed(b) > 0 => b \in {"L", "M", "E"} /\ b # "C")
  BY DEF Needed

(* A character has its continuation bytes. *)
LEMMA WholeFacts ==
    ASSUME NEW n \in Seq(NameBytes), Whole(n), NEW i \in 1..Len(n)
    PROVE  i + Needed(n[i]) <= Len(n) /\ \A d \in 1..Needed(n[i]) : n[i + d] = "C"
<1> DEFINE b == n[i]
<1>0. DOMAIN n = 1..Len(n) /\ Len(n) \in Nat /\ i \in DOMAIN n
  OBVIOUS
<1>1. CASE b = "L"
  <2>1. Needed(b) = 1 /\ i + 1 \in DOMAIN n /\ n[i + 1] = "C"
    BY <1>0, <1>1 DEF Needed, Whole
  <2> QED BY <1>0, <2>1
<1>2. CASE b = "M"
  <2>1. Needed(b) = 2 /\ i + 2 \in DOMAIN n /\ n[i + 1] = "C" /\ n[i + 2] = "C"
    BY <1>0, <1>2 DEF Needed, Whole
  <2> QED BY <1>0, <2>1
<1>3. CASE b = "E"
  <2>1. Needed(b) = 3 /\ i + 3 \in DOMAIN n /\ n[i + 1] = "C" /\ n[i + 2] = "C" /\ n[i + 3] = "C"
    BY <1>0, <1>3 DEF Needed, Whole
  <2> QED BY <1>0, <2>1
<1>4. CASE b \notin {"L", "M", "E"}
  <2>1. Needed(b) = 0
    BY <1>4 DEF Needed
  <2> QED BY <1>0, <2>1
<1> QED BY <1>1, <1>2, <1>3, <1>4

(* A cut that splits no character leaves whole ones. *)
LEMMA WholePrefix ==
    ASSUME NEW n \in Seq(NameBytes), Whole(n), NEW m \in 0..Len(n),
           \A i \in 1..m : i + Needed(n[i]) <= m
    PROVE  Whole(SubSeq(n, 1, m))
<1> DEFINE s == SubSeq(n, 1, m)
<1>0. Len(n) \in Nat /\ m \in Nat /\ DOMAIN s = 1..m /\ \A i \in 1..m : s[i] = n[i]
  OBVIOUS
<1> HIDE DEF s
<1>1. ASSUME NEW i \in 1..m
      PROVE  /\ s[i] = n[i] /\ i + Needed(n[i]) <= m
             /\ \A d \in 1..Needed(n[i]) : s[i + d] = "C"
  <2>1. s[i] = n[i] /\ i + Needed(n[i]) <= m /\ i \in 1..Len(n)
    BY <1>0
  <2>2. Needed(n[i]) \in Nat
    BY NeededType
  <2>3. \A d \in 1..Needed(n[i]) : i + d \in 1..m /\ n[i + d] = "C"
    BY <1>0, <2>1, <2>2, WholeFacts
  <2> QED BY <1>0, <2>1, <2>3
<1>2. ASSUME NEW i \in 1..m
      PROVE  /\ s[i] = "L" => i + 1 \in 1..m /\ s[i + 1] = "C"
             /\ s[i] = "M" => i + 2 \in 1..m /\ s[i + 1] = "C" /\ s[i + 2] = "C"
             /\ s[i] = "E" => i + 3 \in 1..m /\ s[i + 1] = "C" /\ s[i + 2] = "C" /\ s[i + 3] = "C"
  <2>1. ASSUME s[i] = "L" PROVE i + 1 \in 1..m /\ s[i + 1] = "C"
    <3>1. Needed(n[i]) = 1
      BY <1>1, <2>1 DEF Needed
    <3> QED BY <1>0, <1>1, <3>1
  <2>2. ASSUME s[i] = "M" PROVE i + 2 \in 1..m /\ s[i + 1] = "C" /\ s[i + 2] = "C"
    <3>1. Needed(n[i]) = 2
      BY <1>1, <2>2 DEF Needed
    <3> QED BY <1>0, <1>1, <3>1
  <2>3. ASSUME s[i] = "E" PROVE i + 3 \in 1..m /\ s[i + 1] = "C" /\ s[i + 2] = "C" /\ s[i + 3] = "C"
    <3>1. Needed(n[i]) = 3
      BY <1>1, <2>3 DEF Needed
    <3>2. i + 3 <= m /\ \A d \in 1..3 : s[i + d] = "C"
      BY <1>1, <3>1
    <3> QED BY <1>0, <3>2
  <2> QED BY <2>1, <2>2, <2>3
<1> QED BY <1>0, <1>2 DEF Whole, s

(* The last byte put out for a byte of the name is that byte. *)
LEMMA LastByte ==
    ASSUME NEW name \in Seq(NameBytes), NEW x, NEW K \in 0..Len(name), Pieces(name, x, K),
           NEW h \in 1..K
    PROVE  /\ Len(x[h]) \in 1..Len(x[K]) /\ x[K][Len(x[h])] = name[h]
           /\ Len(x[h]) = Len(x[h - 1]) + Len(EscapeByte(name[h]))
<1> DEFINE a == x[h - 1]
           e == EscapeByte(name[h])
<1>0. h \in 0..K /\ h - 1 \in 0..K /\ name[h] \in NameBytes
  OBVIOUS
<1>1. e \in Seq(TextBytes) /\ e[Len(e)] = name[h]
  BY <1>0, Piece
<1>2. Len(e) \in Nat /\ 1 <= Len(e)
  <2>1. \A i \in 1..6 : i \in Nat /\ 1 <= i
    OBVIOUS
  <2>2. Len(e) \in 1..6
    BY <1>0, Piece
  <2> QED BY ONLY <2>1, <2>2, Zenon
<1>3. a \in Seq(TextBytes) /\ x[h] = a \o e
  BY <1>0 DEF Pieces
<1>4. /\ Len(x[h]) \in Nat /\ Len(x[h]) <= Len(x[K]) /\ Len(x[K]) \in Nat
      /\ \A p \in 1..Len(x[h]) : x[K][p] = x[h][p]
  <2>1. K \in 0..K
    OBVIOUS
  <2> QED BY <1>0, <2>1, StaysPut
<1> HIDE DEF a, e
<1>5. /\ Len(a) \in Nat /\ Len(a \o e) = Len(a) + Len(e)
      /\ (a \o e)[Len(a) + Len(e)] = e[Len(e)]
  <2>1. Len(e) \in 1..Len(e)
    BY ONLY <1>2
  <2> QED BY <1>1, <1>3, <2>1, Joined
<1>6. Len(x[h]) = Len(a) + Len(e) /\ x[h][Len(x[h])] = name[h]
  BY <1>1, <1>3, <1>5
<1>7. Len(x[h]) \in 1..Len(x[h]) /\ Len(x[h]) \in 1..Len(x[K])
  BY ONLY <1>2, <1>4, <1>5, <1>6
<1>8. x[K][Len(x[h])] = name[h]
  BY ONLY <1>4, <1>6, <1>7
<1> QED BY <1>6, <1>7, <1>8 DEF a, e

(* After h, there are only continuation bytes up to K. *)
Headless(name, h, K) == \A i \in (h + 1)..K : name[i] = "C"

(* Continuation bytes at the end of the name are put out one by one. *)
LEMMA TailIsPlain ==
    ASSUME NEW name \in Seq(NameBytes), NEW x, NEW K \in 0..Len(name), Pieces(name, x, K),
           NEW h \in 0..K, Headless(name, h, K)
    PROVE  /\ Len(x[K]) = Len(x[h]) + (K - h)
           /\ \A p \in (Len(x[h]) + 1)..Len(x[K]) : x[K][p] = "C"
<1> DEFINE m == Len(x[h])
           Plain(j) == Len(x[j]) = m + (j - h) /\ \A p \in (m + 1)..Len(x[j]) : x[j][p] = "C"
           S == {j \in h..K : Plain(j)}
<1>0. K \in Nat /\ h \in Nat /\ \A j \in 0..K : x[j] \in Seq(TextBytes) /\ Len(x[j]) \in Nat
  BY DEF Pieces
<1>1. m \in Nat
  BY <1>0
<1> HIDE DEF m
<1>2. h \in S
  <2>1. Len(x[h]) = m
    BY DEF m
  <2>2. Plain(h)
    BY <1>0, <1>1, <2>1
  <2> QED BY <1>0, <2>2
<1>3. ASSUME NEW j \in h..K, j \in S, j < K PROVE j + 1 \in S
  <2> DEFINE a == x[j]
  <2>1. j + 1 \in h..K /\ j + 1 \in 1..K /\ j \in 0..K /\ (j + 1) - 1 = j /\ name[j + 1] = "C"
    BY <1>0, <1>3 DEF Headless
  <2>2. x[j + 1] = a \o <<"C">> /\ a \in Seq(TextBytes)
    <3>1. EscapeByte(name[j + 1]) = <<"C">>
      BY <2>1 DEF EscapeByte
    <3> QED BY <1>0, <2>1, <3>1 DEF Pieces
  <2>3. Len(a) = m + (j - h) /\ \A p \in (m + 1)..Len(a) : a[p] = "C"
    BY <1>3
  <2> HIDE DEF a
  <2>4. /\ Len(a) \in Nat /\ Len(x[j + 1]) = Len(a) + 1 /\ x[j + 1][Len(a) + 1] = "C"
        /\ \A p \in 1..Len(a) : x[j + 1][p] = a[p]
    <3>1. "C" \in TextBytes
      BY DEF TextBytes, NameBytes
    <3>2. Len(a \o <<"C">>) = Len(a) + 1 /\ (a \o <<"C">>)[Len(a) + 1] = "C"
      BY <2>2, <3>1
    <3>3. \A p \in 1..Len(a) : (a \o <<"C">>)[p] = a[p]
      BY <2>2, <3>1
    <3> QED BY <2>2, <3>2, <3>3
  <2>5. Len(x[j + 1]) = m + ((j + 1) - h)
    BY <1>0, <1>1, <2>3, <2>4
  <2>6. ASSUME NEW p \in (m + 1)..Len(x[j + 1]) PROVE x[j + 1][p] = "C"
    <3>1. p = Len(a) + 1 \/ p \in (m + 1)..Len(a)
      BY <1>1, <2>4
    <3>2. p \in (m + 1)..Len(a) => p \in 1..Len(a)
      BY <1>1, <2>4
    <3> QED BY <2>3, <2>4, <3>1, <3>2
  <2>7. Plain(j + 1)
    BY <2>5, <2>6
  <2> QED BY <2>1, <2>7
<1>4. h..K \subseteq S
  <2> HIDE DEF S
  <2> QED BY <1>0, <1>2, <1>3, UpTo
<1>5. Plain(K)
  BY <1>0, <1>4
<1> QED BY <1>5 DEF m

(* The greatest element is the one Max chooses. *)
LEMMA MaxIs ==
    ASSUME NEW H, NEW k, k \in H, H \subseteq Nat, \A i \in H : i <= k
    PROVE  Max(H) = k
<1>1. \E y \in H : \A z \in H : y >= z
  OBVIOUS
<1>2. Max(H) \in H /\ \A z \in H : Max(H) >= z
  BY <1>1 DEF Max
<1> DEFINE M == Max(H)
<1> HIDE DEF M
<1>3. M \in Nat /\ k \in Nat /\ M <= k /\ M >= k
  BY <1>2 DEF M
<1>4. M = k
  BY ONLY <1>3
<1> QED BY <1>4 DEF M

(* If the last head of the name that was put out has its bytes, the text stays; if
   not, what was put out before that head is left. *)
LEMMA BackedOff ==
    ASSUME NEW name \in Seq(NameBytes), NEW x, NEW K \in 0..Len(name), Pieces(name, x, K),
           NEW h \in 0..K, Headless(name, h, K), h > 0 => name[h] # "C"
    PROVE  BackOff(x[K]) =
             IF h > 0 /\ K - h < Needed(name[h]) THEN x[h - 1] ELSE x[K]
<1> DEFINE t == x[K]
           heads == {i \in DOMAIN t : t[i] # "C"}
           k == Len(x[h])
<1>0. K \in Nat /\ h \in Nat /\ \A j \in 0..K : x[j] \in Seq(TextBytes) /\ Len(x[j]) \in Nat
  BY DEF Pieces
<1>1. /\ t \in Seq(TextBytes) /\ Len(t) \in Nat /\ DOMAIN t = 1..Len(t) /\ k \in Nat
      /\ Len(t) - k = K - h /\ \A p \in (k + 1)..Len(t) : t[p] = "C"
  <2>1. Len(t) = k + (K - h) /\ \A p \in (k + 1)..Len(t) : t[p] = "C"
    <3>1. /\ Len(x[K]) = Len(x[h]) + (K - h)
          /\ \A p \in (Len(x[h]) + 1)..Len(x[K]) : x[K][p] = "C"
      <4> HIDE DEF t, k, heads
      <4> QED BY TailIsPlain
    <3> QED BY <3>1, Zenon DEF t, k
  <2>2. t \in Seq(TextBytes) /\ Len(t) \in Nat /\ k \in Nat
    BY <1>0
  <2>3. DOMAIN t = 1..Len(t)
    BY <2>2
  <2>4. Len(t) - k = K - h
    <3> HIDE DEF t, k
    <3> QED BY <1>0, <2>1, <2>2
  <2> QED BY <2>1, <2>2, <2>3, <2>4
<1> HIDE DEF t, k
<1>2. CASE h = 0
  <2>1. k = 0
    BY <1>2 DEF Pieces, k
  <2>2. heads = {}
    BY <1>1, <2>1
  <2>3. BackOff(t) = t
    BY <2>2 DEF BackOff
  <2> QED BY <1>2, <2>3 DEF t
<1>3. CASE h > 0
  <2>0. h \in 1..K
    BY <1>0, <1>3
  <2>1. k \in 1..Len(t) /\ t[k] = name[h] /\ k = Len(x[h - 1]) + Len(EscapeByte(name[h]))
    BY <2>0, LastByte DEF t, k
  <2>2. k \in heads /\ heads \subseteq Nat /\ \A i \in heads : i <= k
    <3>1. k \in heads
      BY <1>1, <1>3, <2>1
    <3>2. \A i \in 1..Len(t) : i \in Nat /\ (i <= k \/ i \in (k + 1)..Len(t))
      BY ONLY <1>1
    <3>3. \A i \in heads : i \in 1..Len(t) /\ t[i] # "C"
      BY <1>1
    <3> QED BY <1>1, <3>1, <3>2, <3>3, Zenon
  <2>3. Max(heads) = k /\ heads # {}
    BY <2>2, MaxIs
  <2>4. BackOff(t) = IF k > 0 /\ Len(t) - k < Needed(t[k]) THEN SubSeq(t, 1, k - 1) ELSE t
    BY <2>3 DEF BackOff
  <2>5. BackOff(t) = IF K - h < Needed(name[h]) THEN SubSeq(t, 1, k - 1) ELSE t
    <3>1. k > 0
      <4>1. \A i \in 1..Len(t) : i > 0
        BY <1>1
      <4> QED BY ONLY <2>1, <4>1, Zenon
    <3>2. Len(t) - k = K - h /\ t[k] = name[h]
      BY <1>1, <2>1
    <3> QED BY ONLY <2>4, <3>1, <3>2, Zenon
  <2>6. ASSUME K - h < Needed(name[h]) PROVE SubSeq(t, 1, k - 1) = x[h - 1]
    <3>1. Needed(name[h]) > 0
      <4>1. Needed(name[h]) \in Int
        BY NeededType
      <4> QED BY <1>0, <2>0, <2>6, <4>1
    <3>2. name[h] \in NameBytes /\ name[h] \notin {"q", "c"}
      BY <2>0, <3>1, NeededType
    <3>3. Len(EscapeByte(name[h])) = 1
      <4>1. EscapeByte(name[h]) = <<name[h]>>
        BY <3>2, Piece
      <4> QED BY <4>1
    <3> DEFINE a == x[h - 1]
    <3>4. h - 1 \in 0..K
      BY <1>0, <2>0
    <3>5. a \in Seq(TextBytes) /\ Len(a) \in Nat /\ k - 1 = Len(a)
      BY <1>0, <2>1, <3>3, <3>4
    <3>6. \A p \in 1..Len(a) : t[p] = a[p]
      BY <3>4, StaysPut DEF t
    <3> HIDE DEF a
    <3>7. Len(a) <= Len(t)
      <4>1. \A i \in 1..Len(t), l \in Nat : i - 1 = l => l <= Len(t)
        BY <1>1
      <4> QED BY ONLY <2>1, <3>5, <4>1, Zenon
    <3>8. SubSeq(t, 1, Len(a)) = [p \in 1..Len(a) |-> t[p]]
      BY <1>1, <3>5, <3>7
    <3>9. a = [p \in 1..Len(a) |-> a[p]]
      BY <3>5
    <3>10. SubSeq(t, 1, Len(a)) = a
      BY <3>6, <3>8, <3>9
    <3> QED BY <3>5, <3>10 DEF a
  <2> QED BY <1>3, <2>5, <2>6 DEF t
<1> QED BY <1>0, <1>2, <1>3

(* The names that are written are cut at a byte, never to nothing and never within a
   character, and only if the buffer was full. *)
LEMMA CutAt ==
    ASSUME NEW name, GoodName(name)
    PROVE  \E J \in 1..Len(name) : \E x :
              /\ Pieces(name, x, J) /\ hnc_json_escape(name) = x[J] /\ Len(x[J]) < EscLen
              /\ Whole(SubSeq(name, 1, J)) /\ (~Fill(name).full => J = Len(name))
<1> DEFINE n == Len(name)
           x == [k \in 0..n |-> Turns(name)[k].text]
<1>0. name \in Seq(NameBytes) /\ n \in Nat /\ n >= 1 /\ Whole(name) /\ EscLen \in Nat /\ EscLen > 6
  BY TextBounds DEF GoodName
<1>1. PICK K \in 0..n : /\ Pieces(name, x, K)
                        /\ Fill(name).text = Turns(name)[K].text /\ (Fill(name).full <=> K < n)
                        /\ K < n => ~Fits(Turns(name)[K].text, EscapeByte(name[K + 1]))
  BY <1>0, Fitted
<1>2. \A k \in 0..n : x[k] = Turns(name)[k].text /\ Len(x[k]) < EscLen
  BY <1>0, TurnsType
<1>3. /\ Fill(name).text = x[K] /\ (K < n => ~Fits(x[K], EscapeByte(name[K + 1])))
      /\ Len(x[K]) < EscLen
  BY <1>1, <1>2
<1>s. \A j \in 0..K : x[j] \in Seq(TextBytes) /\ Len(x[j]) \in Nat
  <2> HIDE DEF x
  <2> QED BY <1>1 DEF Pieces
<1> HIDE DEF x, n
<1>4. ASSUME NEW J \in 0..K PROVE J \in 0..n /\ Pieces(name, x, J)
  <2>1. J \in 0..n /\ \A k \in 0..J : k \in 0..K
    BY <1>0
  <2>2. \A k \in 1..J : k \in 1..K
    BY <1>0
  <2> QED BY <1>1, <2>1, <2>2 DEF Pieces
<1>5. ASSUME NEW i \in 1..n
      PROVE  /\ Needed(name[i]) \in 0..3 /\ i + Needed(name[i]) <= n
             /\ \A d \in 1..Needed(name[i]) : name[i + d] = "C"
  BY <1>0, WholeFacts, NeededType DEF n
<1> DEFINE T == {i \in 1..K : name[i] # "C"}
<1>6. \E h \in 0..K : Headless(name, h, K) /\ (h > 0 => name[h] # "C")
  <2>1. CASE T = {}
    <3>1. Headless(name, 0, K)
      BY <2>1 DEF Headless
    <3> QED BY <1>0, <3>1
  <2>2. CASE T # {}
    <3>0. T \subseteq 1..K /\ K \in Nat
      BY <1>0
    <3>1. PICK h \in T : \A y \in T : y <= h
      <4> HIDE DEF T
      <4> QED BY <2>2, <3>0, GreatestNat
    <3>2. h \in 0..K /\ name[h] # "C"
      BY <1>0, <3>1
    <3>3. Headless(name, h, K)
      BY <1>0, <3>1 DEF Headless
    <3> QED BY <3>2, <3>3
  <2> QED BY <2>1, <2>2
<1>7. PICK h \in 0..K : Headless(name, h, K) /\ (h > 0 => name[h] # "C")
  BY <1>6
<1>8. BackOff(x[K]) = IF h > 0 /\ K - h < Needed(name[h]) THEN x[h - 1] ELSE x[K]
  BY <1>0, <1>1, <1>7, BackedOff DEF n
(* A character that starts before the last head ends before it. *)
<1>9. ASSUME NEW i \in 1..n, i < h PROVE i + Needed(name[i]) < h
  <2>1. SUFFICES ASSUME h <= i + Needed(name[i]) PROVE FALSE
    BY <1>0, <1>5
  <2>2. h - i \in 1..Needed(name[i]) /\ i + (h - i) = h /\ h > 0
    BY <1>0, <1>5, <1>9, <2>1
  <2>3. name[h] = "C"
    BY <1>5, <2>2
  <2> QED BY <1>7, <2>2, <2>3
<1>10. CASE h > 0 /\ K - h < Needed(name[h])
  <2>0. h \in 1..n /\ K \in Nat
    BY <1>0, <1>10
  <2>1. K < n
    BY <1>0, <1>5, <1>10, <2>0
  <2>2. h > 1
    <3>1. SUFFICES ASSUME h = 1 PROVE FALSE
      BY <2>0
    <3>2. K + 1 \in 1..n /\ K \in 1..Needed(name[1]) /\ K <= 3
      BY <1>0, <1>5, <1>10, <2>0, <2>1, <3>1
    <3>3. name[K + 1] = "C" /\ EscapeByte(name[K + 1]) = <<"C">>
      <4>1. name[1 + K] = "C"
        BY <1>5, <2>0, <3>1, <3>2
      <4> QED BY <2>0, <4>1 DEF EscapeByte
    <3>4. Len(x[K]) = Len(x[1]) + (K - 1)
      <4>1. Headless(name, 1, K)
        BY <1>7, <3>1
      <4>2. 1 \in 0..K /\ K \in 0..Len(name)
        BY <3>1, <2>0 DEF n
      <4> QED BY <1>0, <1>1, <4>1, <4>2, TailIsPlain
    <3>5. Len(x[1]) = 1
      <4>1. 1 \in 1..K /\ K \in 0..Len(name)
        BY <3>2 DEF n
      <4>2. Len(x[1]) = Len(x[1 - 1]) + Len(EscapeByte(name[1]))
        BY <1>0, <1>1, <4>1, LastByte
      <4>3. Needed(name[1]) > 0
        BY <1>5, <2>0, <3>1, <3>2
      <4>4. EscapeByte(name[1]) = <<name[1]>>
        BY <4>3, NeededType DEF EscapeByte
      <4>5. Len(EscapeByte(name[1])) = 1 /\ x[0] = <<>> /\ Len(x[0]) = 0
        BY <1>1, <4>4 DEF Pieces
      <4> QED BY <4>2, <4>5
    <3>6. Len(<<"C">>) = 1
      OBVIOUS
    <3>7. Fits(x[K], EscapeByte(name[K + 1]))
      <4>1. Len(x[K]) = K
        BY <2>0, <3>4, <3>5
      <4>2. K + 1 < EscLen
        BY <1>0, <2>0, <3>2
      <4> QED BY <3>3, <3>6, <4>1, <4>2 DEF Fits
    <3> QED BY <1>3, <2>1, <3>7
  <2>3. h - 1 \in 0..K /\ h - 1 \in 1..n
    BY <1>0, <2>0, <2>2
  <2>4. Whole(SubSeq(name, 1, h - 1))
    <3>1. ASSUME NEW i \in 1..(h - 1) PROVE i + Needed(name[i]) <= h - 1
      <4>1. i \in 1..n /\ i < h
        BY <1>0, <2>0
      <4>2. i + Needed(name[i]) < h /\ Needed(name[i]) \in 0..3
        BY <1>5, <1>9, <4>1
      <4> QED BY <1>0, <2>0, <4>1, <4>2
    <3>2. h - 1 \in 0..Len(name)
      BY <1>0, <2>3 DEF n
    <3> QED BY <1>0, <3>1, <3>2, WholePrefix
  <2>5. hnc_json_escape(name) = x[h - 1]
    BY <1>1, <1>3, <1>8, <1>10, <2>1 DEF hnc_json_escape
  <2>6. Pieces(name, x, h - 1) /\ Len(x[h - 1]) < EscLen
    BY <1>2, <1>4, <2>3
  <2> QED BY <1>1, <2>1, <2>3, <2>4, <2>5, <2>6 DEF n
<1>11. CASE ~(h > 0 /\ K - h < Needed(name[h]))
  <2>1. hnc_json_escape(name) = x[K]
    BY <1>3, <1>8, <1>11 DEF hnc_json_escape
  <2>2. ASSUME NEW i \in 1..K PROVE i + Needed(name[i]) <= K
    <3>0. i \in 1..n /\ Needed(name[i]) \in Nat /\ K \in Nat /\ h \in Nat
      BY <1>0, <1>5
    <3>1. CASE i < h
      BY <1>9, <3>0, <3>1
    <3>2. CASE i = h
      BY <1>11, <3>0, <3>2
    <3>3. CASE i > h
      <4>1. name[i] = "C"
        BY <1>7, <3>0, <3>3 DEF Headless
      <4>2. Needed(name[i]) = 0
        BY <4>1 DEF Needed
      <4> QED BY <3>0, <4>2
    <3> QED BY <3>0, <3>1, <3>2, <3>3
  <2>3. Whole(SubSeq(name, 1, K))
    BY <1>0, <2>2, WholePrefix DEF n
  <2>4. K \in 1..n
    <3>1. SUFFICES ASSUME K = 0 PROVE FALSE
      BY <1>0
    <3>2. x[0] = <<>> /\ Len(x[K]) = 0 /\ name[K + 1] \in NameBytes
      BY <1>0, <1>1, <3>1 DEF Pieces, n
    <3>3. Len(EscapeByte(name[K + 1])) \in 1..6
      BY <3>2, Piece
    <3>4. Fits(x[K], EscapeByte(name[K + 1]))
      <4> DEFINE l == Len(EscapeByte(name[K + 1]))
      <4>1. \A i \in 1..6 : 0 + i < EscLen
        BY <1>0
      <4> HIDE DEF l
      <4>2. 0 + l < EscLen
        BY ONLY <3>3, <4>1, Zenon DEF l
      <4> QED BY <3>2, <4>2 DEF Fits, l
    <3> QED BY <1>0, <1>3, <3>1, <3>4
  <2> QED BY <1>0, <1>1, <1>3, <2>1, <2>3, <2>4 DEF n
<1> QED BY <1>10, <1>11

(* What hnc_cache_load reads of what hnc_cache_save wrote for a name. *)
LEMMA EscapeReads ==
    ASSUME NEW name, GoodName(name)
    PROVE  /\ hnc_json_escape(name) \in Seq(TextBytes)
           /\ Len(hnc_json_escape(name)) \in 1..EscLen - 1
           /\ GoodName(Unescape(hnc_json_escape(name)))
           /\ IsPrefix(Unescape(hnc_json_escape(name)), name)
           /\ ~Fill(name).full => Unescape(hnc_json_escape(name)) = name
<1> DEFINE text == hnc_json_escape(name)
<1>0. /\ name \in Seq(NameBytes) /\ Len(name) \in 1..HnLen - 1 /\ Len(name) \in Nat
      /\ HnLen \in Nat /\ EscLen \in Nat
  BY TextBounds DEF GoodName
<1>j. PICK J \in 1..Len(name) : \E x :
         /\ Pieces(name, x, J) /\ text = x[J] /\ Len(x[J]) < EscLen
         /\ Whole(SubSeq(name, 1, J)) /\ (~Fill(name).full => J = Len(name))
  BY CutAt
<1>1. PICK x :
         /\ Pieces(name, x, J) /\ text = x[J] /\ Len(x[J]) < EscLen
         /\ Whole(SubSeq(name, 1, J)) /\ (~Fill(name).full => J = Len(name))
  BY <1>j
<1> HIDE DEF text
<1>2. J \in 0..Len(name) /\ J \in 0..J /\ J \in Nat /\ J >= 1 /\ J <= Len(name)
  BY <1>0
<1> DEFINE u == SubSeq(name, 1, J)
<1>3. Unescape(text) = u
  BY <1>0, <1>1, <1>2, ReadBack
<1>4. text \in Seq(TextBytes) /\ J <= Len(text)
  <2>1. text \in Seq(TextBytes)
    BY <1>1, <1>2 DEF Pieces
  <2> QED BY <1>0, <1>1, <1>2, <2>1, LongEnough
<1>5. u \in Seq(NameBytes) /\ Len(u) = J /\ \A i \in 1..J : u[i] = name[i]
  BY <1>0, <1>2
<1>6. J = Len(name) => u = name
  BY <1>0
<1>7. IsPrefix(u, name)
  BY <1>0, <1>2, <1>5 DEF IsPrefix
<1>8. GoodName(u)
  BY <1>0, <1>1, <1>2, <1>5 DEF GoodName
<1>9. Len(text) \in 1..EscLen - 1
  <2>1. Len(text) \in Nat
    BY <1>4
  <2> QED BY <1>0, <1>1, <1>2, <1>4, <2>1
<1> HIDE DEF u
<1> QED BY <1>1, <1>3, <1>4, <1>6, <1>7, <1>8, <1>9 DEF text
=============================================================================
