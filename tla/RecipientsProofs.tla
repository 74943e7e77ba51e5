--------------------------- MODULE RecipientsProofs ---------------------------
(***************************************************************************)
(* Proofs about Recipients: that a chat's names are understood, for any     *)
(* JIDs, and that it answers to them.                                       *)
(***************************************************************************)
EXTENDS Recipients, MessageStoreProofs

(* A JID that is printed and parsed again is the same JID.                  *)
LEMMA JIDRoundTrip ==
    ASSUME NEW jid \in JID
    PROVE  ParseRecipient(String(jid)) = jid
<1> DEFINE u == jid.user
           s == String(jid)
           n == Len(u)
<1>1. /\ u \in Seq(Digit) /\ jid.server \in Server
      /\ jid = [user |-> u, server |-> jid.server]
  BY DEF JID
<1>2. At \notin Digit /\ At \notin Server
  BY RecipientAssumption
<1> HIDE DEF u
<1>3. n \in Nat /\ \A i \in 1..n : u[i] \in Digit
  BY <1>1
<1>4. s = u \o <<At, jid.server>>
  BY DEF String, u
<1>5. /\ DOMAIN s = 1..(n + 2)
      /\ \A i \in 1..n : s[i] = u[i]
      /\ s[n + 1] = At /\ s[n + 2] = jid.server
      /\ Len(s) = n + 2
  <2> DEFINE Chars == Digit \cup Server \cup {At}
  <2>1. u \in Seq(Chars) /\ <<At, jid.server>> \in Seq(Chars)
    BY <1>1
  <2> HIDE DEF Chars
  <2>2. /\ s \in Seq(Chars) /\ Len(s) = n + 2
        /\ \A i \in 1..(n + 2) : s[i] = IF i <= n THEN u[i] ELSE <<At, jid.server>>[i - n]
    BY <1>3, <1>4, <2>1, ConcatProperties
  <2>3. \A i \in 1..n : i \in 1..(n + 2) /\ i <= n
    BY <1>3
  <2>4. n + 1 \in 1..(n + 2) /\ n + 2 \in 1..(n + 2) /\ ~(n + 1 <= n) /\ ~(n + 2 <= n)
    BY <1>3
  <2>5. (n + 1) - n = 1 /\ (n + 2) - n = 2
    BY <1>3
  <2>6. QED
    BY <2>2, <2>3, <2>4, <2>5
<1> HIDE DEF s, n
<1>6. (CHOOSE i \in DOMAIN s : s[i] = At) = n + 1
  <2>1. \A i \in DOMAIN s : s[i] = At => i = n + 1
    BY <1>1, <1>2, <1>3, <1>5
  <2>2. n + 1 \in DOMAIN s
    BY <1>3, <1>5
  <2>3. QED
    BY <1>5, <2>1, <2>2
<1>7. SubSeq(s, 1, (n + 1) - 1) = u
  <2>1. (n + 1) - 1 = n
    BY <1>3
  <2>2. \A i \in 1..n : s[i] \in Digit
    BY <1>3, <1>5
  <2>3. /\ SubSeq(s, 1, n) \in Seq(Digit)
        /\ Len(SubSeq(s, 1, n)) = IF 1 <= n THEN (n - 1) + 1 ELSE 0
        /\ \A i \in 1..((n - 1) + 1) : SubSeq(s, 1, n)[i] = s[(1 + i) - 1]
    BY <1>3, <2>2, SubSeqProperties
  <2>4. Len(SubSeq(s, 1, n)) = Len(u)
    BY <1>3, <2>3 DEF n
  <2>5. \A i \in 1..n : SubSeq(s, 1, n)[i] = u[i]
    <3> SUFFICES ASSUME NEW i \in 1..n PROVE SubSeq(s, 1, n)[i] = u[i]
      OBVIOUS
    <3>1. i \in 1..((n - 1) + 1) /\ (1 + i) - 1 = i
      BY <1>3
    <3>2. QED
      BY <1>5, <2>3, <3>1
  <2>6. SubSeq(s, 1, n) = u
    BY <1>1, <2>3, <2>4, <2>5, SeqEqual DEF n
  <2>7. QED
    BY <2>1, <2>6
<1>8. ParseJID(s) = jid
  <2>1. s[(n + 1) + 1] = jid.server
    BY <1>3, <1>5
  <2>2. Len(s) = (n + 1) + 1
    BY <1>3, <1>5
  <2>3. [user |-> SubSeq(s, 1, (n + 1) - 1), server |-> s[(n + 1) + 1]] = jid
    BY <1>1, <1>7, <2>1
  <2>4. QED
    BY <1>6, <2>2, <2>3 DEF ParseJID
<1>9. At \in ToSet(s)
  BY <1>3, <1>5 DEF ToSet
<1>10. QED
  BY <1>8, <1>9 DEF ParseRecipient, s

(* A text with one more character, at position p.                           *)
LEMMA InsertAtLemma ==
    ASSUME NEW S, NEW w \in Seq(S), NEW p \in 1..(Len(w) + 1), NEW x \in S
    PROVE  /\ InsertAt(w, p, x) \in Seq(S)
           /\ Len(InsertAt(w, p, x)) = Len(w) + 1
           /\ \A i \in 1..(Len(w) + 1) :
                 InsertAt(w, p, x)[i] = IF i < p THEN w[i] ELSE IF i = p THEN x ELSE w[i - 1]
<1> DEFINE n == Len(w)
           l == SubSeq(w, 1, p - 1)
           r == SubSeq(w, p, n)
           one == <<x>>
           lx == l \o one
<1>1. n \in Nat /\ p \in Int /\ 1 <= p /\ p <= n + 1 /\ \A i \in 1..n : w[i] \in S
  OBVIOUS
<1> HIDE DEF n
<1>2. /\ l \in Seq(S) /\ Len(l) = p - 1
      /\ \A i \in 1..(p - 1) : l[i] = w[i]
  <2>1. \A i \in 1..(p - 1) : w[i] \in S
    BY <1>1
  <2>2. /\ l \in Seq(S)
        /\ Len(l) = IF 1 <= p - 1 THEN ((p - 1) - 1) + 1 ELSE 0
        /\ \A i \in 1..(((p - 1) - 1) + 1) : l[i] = w[(1 + i) - 1]
    BY <1>1, <2>1, SubSeqProperties
  <2>3. \A i \in 1..(p - 1) : i \in 1..(((p - 1) - 1) + 1) /\ (1 + i) - 1 = i
    BY <1>1
  <2>4. (IF 1 <= p - 1 THEN ((p - 1) - 1) + 1 ELSE 0) = p - 1
    BY <1>1
  <2>5. QED
    BY <2>2, <2>3, <2>4
<1>3. /\ r \in Seq(S) /\ Len(r) = (n - p) + 1
      /\ \A i \in 1..((n - p) + 1) : r[i] = w[(p + i) - 1]
  <2>1. \A i \in p..n : w[i] \in S
    BY <1>1
  <2>2. /\ r \in Seq(S)
        /\ Len(r) = IF p <= n THEN (n - p) + 1 ELSE 0
        /\ \A i \in 1..((n - p) + 1) : r[i] = w[(p + i) - 1]
    BY <1>1, <2>1, SubSeqProperties
  <2>3. (IF p <= n THEN (n - p) + 1 ELSE 0) = (n - p) + 1
    BY <1>1
  <2>4. QED
    BY <2>2, <2>3
<1>4. one \in Seq(S) /\ Len(one) = 1 /\ one[1] = x
  OBVIOUS
<1> HIDE DEF l, r, one
<1>5. /\ lx \in Seq(S) /\ Len(lx) = p
      /\ \A i \in 1..p : lx[i] = IF i < p THEN w[i] ELSE x
  <2>1. /\ lx \in Seq(S) /\ Len(lx) = (p - 1) + 1
        /\ \A i \in 1..((p - 1) + 1) :
              lx[i] = IF i <= p - 1 THEN l[i] ELSE one[i - (p - 1)]
    <3>1. /\ lx \in Seq(S) /\ Len(lx) = Len(l) + Len(one)
          /\ \A i \in 1..(Len(l) + Len(one)) :
                lx[i] = IF i <= Len(l) THEN l[i] ELSE one[i - Len(l)]
      BY <1>2, <1>4, ConcatProperties
    <3>2. Len(l) = p - 1 /\ Len(one) = 1
      BY <1>2, <1>4
    <3>3. QED
      BY <3>1, <3>2
  <2>2. (p - 1) + 1 = p
    BY <1>1
  <2>3. \A i \in 1..p : /\ i \in 1..((p - 1) + 1)
                        /\ i < p => i <= p - 1 /\ i \in 1..(p - 1)
                        /\ ~(i < p) => ~(i <= p - 1) /\ i - (p - 1) = 1
    BY <1>1
  <2>4. QED
    BY <1>2, <1>4, <2>1, <2>2, <2>3
<1> HIDE DEF lx
<1>6. /\ lx \o r \in Seq(S) /\ Len(lx \o r) = n + 1
      /\ \A i \in 1..(n + 1) :
            (lx \o r)[i] = IF i < p THEN w[i] ELSE IF i = p THEN x ELSE w[i - 1]
  <2>1. /\ lx \o r \in Seq(S) /\ Len(lx \o r) = p + ((n - p) + 1)
        /\ \A i \in 1..(p + ((n - p) + 1)) :
              (lx \o r)[i] = IF i <= p THEN lx[i] ELSE r[i - p]
    BY <1>3, <1>5, ConcatProperties
  <2>2. p + ((n - p) + 1) = n + 1
    BY <1>1
  <2>3. \A i \in 1..(n + 1) : /\ i <= p => i \in 1..p
                              /\ ~(i <= p) => /\ i - p \in 1..((n - p) + 1)
                                              /\ (p + (i - p)) - 1 = i - 1
                                              /\ ~(i < p) /\ i # p
    BY <1>1
  <2>4. QED
    BY <1>1, <1>3, <1>5, <2>1, <2>2, <2>3
<1>7. InsertAt(w, p, x) = lx \o r
  BY DEF InsertAt, lx, one, l, r, n
<1>8. QED
  BY <1>6, <1>7 DEF n

(* Of a number with a separator in it only the separator is not a digit:    *)
(* what is kept is the number.                                              *)
LEMMA DigitsOfSpelling ==
    ASSUME NEW w \in Seq(Digit), NEW p \in 1..(Len(w) + 1), NEW x \in Separator
    PROVE  Digits(InsertAt(w, p, x)) = w
<1> DEFINE s == InsertAt(w, p, x)
           n == Len(w)
<1>1. n \in Nat /\ p \in 1..(n + 1) /\ \A i \in 1..n : w[i] \in Digit
  OBVIOUS
<1>2. x \notin Digit
  BY RecipientAssumption
<1>3. /\ DOMAIN s = 1..(n + 1) /\ Len(s) = n + 1
      /\ \A i \in 1..(n + 1) : s[i] = IF i < p THEN w[i] ELSE IF i = p THEN x ELSE w[i - 1]
  <2> DEFINE Chars == Digit \cup Separator
  <2>1. w \in Seq(Chars) /\ x \in Chars
    OBVIOUS
  <2> HIDE DEF Chars
  <2>2. QED
    BY <2>1, InsertAtLemma
<1> HIDE DEF s, n
<1>4. \A i \in 1..(n + 1) : s[i] \in Digit <=> i # p
  BY <1>1, <1>2, <1>3
<1>5. \A i \in 1..(n + 2) : DigitsBefore(s, i) = IF i <= p THEN i - 1 ELSE i - 2
  <2> SUFFICES ASSUME NEW i \in 1..(n + 2)
               PROVE  DigitsBefore(s, i) = IF i <= p THEN i - 1 ELSE i - 2
    OBVIOUS
  <2>1. i - 1 \in Int /\ i - 1 >= 0
    BY <1>1
  <2>2. IsFiniteSet(1..(i - 1)) /\ Cardinality(1..(i - 1)) = i - 1
    <3>1. (IF 1 > i - 1 THEN 0 ELSE ((i - 1) - 1) + 1) = i - 1
      BY <2>1
    <3>2. 1 \in Int /\ i - 1 \in Int
      BY <2>1
    <3>3. /\ IsFiniteSet(1..(i - 1))
          /\ Cardinality(1..(i - 1)) = IF 1 > i - 1 THEN 0 ELSE ((i - 1) - 1) + 1
      BY <3>2, FS_Interval
    <3>4. QED
      BY <3>1, <3>3
  <2>3. CASE i <= p
    <3>1. {j \in 1..(i - 1) : s[j] \in Digit} = 1..(i - 1)
      BY <1>1, <1>4, <2>3
    <3>2. QED
      BY <2>2, <2>3, <3>1 DEF DigitsBefore
  <2>4. CASE ~(i <= p)
    <3>1. {j \in 1..(i - 1) : s[j] \in Digit} = (1..(i - 1)) \ {p}
      BY <1>1, <1>4, <2>4
    <3>2. p \in 1..(i - 1)
      BY <1>1, <2>4
    <3>3. Cardinality((1..(i - 1)) \ {p}) = (i - 1) - 1
      BY <2>2, <3>2, FS_RemoveElement
    <3>4. (i - 1) - 1 = i - 2
      BY <2>1
    <3>5. QED
      BY <2>4, <3>1, <3>3, <3>4 DEF DigitsBefore
  <2>5. QED
    BY <2>3, <2>4
<1>6. DigitsBefore(s, Len(s) + 1) = n
  <2>1. Len(s) + 1 = n + 2 /\ n + 2 \in 1..(n + 2) /\ ~(n + 2 <= p) /\ (n + 2) - 2 = n
    BY <1>1, <1>3
  <2>2. QED
    BY <1>5, <2>1
<1>7. ASSUME NEW m \in 1..n
      PROVE  s[CHOOSE i \in DOMAIN s : s[i] \in Digit /\ DigitsBefore(s, i) = m - 1] = w[m]
  <2> DEFINE Nth(i) == s[i] \in Digit /\ DigitsBefore(s, i) = m - 1
  <2>1. \A i \in DOMAIN s : Nth(i) => s[i] = w[m]
    <3> SUFFICES ASSUME NEW i \in 1..(n + 1), Nth(i) PROVE s[i] = w[m]
      BY <1>3
    <3>1. i # p /\ i \in 1..(n + 2)
      BY <1>1, <1>4
    <3>2. (IF i <= p THEN i - 1 ELSE i - 2) = m - 1
      BY <1>5, <3>1
    <3>3. CASE i < p
      <4>1. i = m
        BY <1>1, <3>2, <3>3
      <4>2. QED
        BY <1>3, <3>3, <4>1
    <3>4. CASE ~(i < p)
      <4>1. i - 1 = m
        BY <1>1, <3>1, <3>2, <3>4
      <4>2. QED
        BY <1>3, <3>1, <3>4, <4>1
    <3>5. QED
      BY <3>3, <3>4
  <2>2. \E i \in DOMAIN s : Nth(i)
    <3> DEFINE i == IF m < p THEN m ELSE m + 1
    <3>1. i \in 1..(n + 1) /\ i \in 1..(n + 2) /\ i # p
      BY <1>1
    <3>2. (IF i <= p THEN i - 1 ELSE i - 2) = m - 1
      BY <1>1
    <3> HIDE DEF i
    <3>3. Nth(i)
      BY <1>4, <1>5, <3>1, <3>2
    <3>4. QED
      BY <1>3, <3>1, <3>3
  <2>3. QED
    BY <2>1, <2>2
<1>8. Digits(s) = [m \in 1..n |-> w[m]]
  BY <1>6, <1>7 DEF Digits
<1>9. [m \in 1..n |-> w[m]] = w
  BY DEF n
<1>10. QED
  BY <1>8, <1>9 DEF s

(* Zeros before a number that does not start with one are dropped again.    *)
LEMMA TrimmedZeros ==
    ASSUME NEW u \in Seq(Digit), Len(u) >= 1, u[1] # 0, NEW z \in Seq({0})
    PROVE  TrimZeros(z \o u) = u
<1> DEFINE w == z \o u
           n == Len(u)
           m == Len(z)
           nonZero == {i \in DOMAIN w : w[i] # 0} \cup {Len(w) + 1}
<1>1. n \in Nat /\ m \in Nat /\ n >= 1 /\ \A i \in 1..m : z[i] = 0
  OBVIOUS
<1>2. /\ w \in Seq(Digit) /\ Len(w) = m + n
      /\ \A i \in 1..(m + n) : w[i] = IF i <= m THEN z[i] ELSE u[i - m]
  <2>1. z \in Seq(Digit)
    BY DEF Digit
  <2>2. QED
    BY <2>1, ConcatProperties
<1> HIDE DEF w, n, m
<1>3. DOMAIN w = 1..(m + n)
  BY <1>2
<1>4. Min(nonZero) = m + 1
  <2>1. m + 1 \in nonZero
    <3>1. m + 1 \in 1..(m + n) /\ ~(m + 1 <= m) /\ (m + 1) - m = 1
      BY <1>1
    <3>2. w[m + 1] = u[1]
      BY <1>2, <3>1
    <3>3. QED
      BY <1>3, <3>1, <3>2
  <2>2. \A y \in nonZero : y \in Int /\ m + 1 <= y
    <3> SUFFICES ASSUME NEW y \in nonZero PROVE y \in Int /\ m + 1 <= y
      OBVIOUS
    <3>1. CASE y = m + n + 1
      BY <1>1, <3>1
    <3>2. CASE y \in 1..(m + n) /\ w[y] # 0
      <4>1. y <= m => y \in 1..m /\ w[y] = z[y]
        BY <1>1, <1>2, <3>2
      <4>2. ~(y <= m)
        BY <1>1, <3>2, <4>1
      <4>3. QED
        BY <1>1, <3>2, <4>2
    <3>3. QED
      BY <1>1, <1>2, <1>3, <3>1, <3>2
  <2> HIDE DEF nonZero
  <2>3. \A x \in nonZero : (\A y \in nonZero : x =< y) => x = m + 1
    BY <1>1, <2>1, <2>2
  <2>4. QED
    BY <2>1, <2>2, <2>3 DEF Min
<1>5. TrimZeros(w) = SubSeq(w, m + 1, m + n)
  BY <1>2, <1>4 DEF TrimZeros
<1>6. SubSeq(w, m + 1, m + n) = u
  <2> DEFINE r == SubSeq(w, m + 1, m + n)
  <2>1. \A i \in (m + 1)..(m + n) : w[i] \in Digit
    BY <1>1, <1>2, <1>3
  <2>2. m + 1 \in Int /\ m + n \in Int /\ m + 1 <= m + n
    BY <1>1
  <2>3. /\ r \in Seq(Digit)
        /\ Len(r) = IF m + 1 <= m + n THEN ((m + n) - (m + 1)) + 1 ELSE 0
        /\ \A i \in 1..(((m + n) - (m + 1)) + 1) : r[i] = w[((m + 1) + i) - 1]
    BY <2>1, <2>2, SubSeqProperties
  <2>4. ((m + n) - (m + 1)) + 1 = n
    BY <1>1
  <2> HIDE DEF r
  <2>5. Len(r) = n
    BY <2>2, <2>3, <2>4
  <2>6. \A i \in 1..n : r[i] = u[i]
    <3> SUFFICES ASSUME NEW i \in 1..n PROVE r[i] = u[i]
      OBVIOUS
    <3>1. /\ ((m + 1) + i) - 1 = m + i /\ m + i \in 1..(m + n)
          /\ ~(m + i <= m) /\ (m + i) - m = i
      BY <1>1
    <3>2. r[i] = w[m + i]
      BY <2>3, <2>4, <3>1
    <3>3. w[m + i] = u[(m + i) - m]
      BY <1>2, <3>1
    <3>4. QED
      BY <3>1, <3>2, <3>3
  <2>7. r = u
    BY <2>3, <2>5, <2>6, SeqEqual DEF n
  <2>8. QED
    BY <2>7 DEF r
<1>7. QED
  BY <1>5, <1>6 DEF w

(* A person's number with up to two zeros before it and a separator in it   *)
(* is read as that person's JID.                                            *)
LEMMA SpellingsParse ==
    ASSUME NEW jid \in JID, NEW name \in Spellings(jid)
    PROVE  ParseRecipient(name) = jid
<1> DEFINE u == jid.user
<1>1. u \in Seq(Digit) /\ jid = [user |-> u, server |-> jid.server]
  BY DEF JID
<1>2. /\ jid.server = UserServer
      /\ Len(u) >= MinPhoneDigits /\ u[1] # 0
  BY DEF Spellings, IsNumber
<1>3. PICK z \in {<<>>, <<0>>, <<0, 0>>}, p \in 1..(Len(u) + 1), x \in Separator :
         name = InsertAt(z \o u, p, x)
  BY DEF Spellings
<1> HIDE DEF u
<1>4. Len(u) \in Nat /\ Len(u) >= 1
  BY <1>1, <1>2, RecipientAssumption
<1>5. z \in Seq({0}) /\ z \in Seq(Digit) /\ Len(z) \in Nat
  <2>1. <<>> \in Seq({0}) /\ <<0>> \in Seq({0}) /\ <<0, 0>> \in Seq({0})
    OBVIOUS
  <2>2. z \in Seq({0})
    BY <2>1
  <2>3. {0} \subseteq Digit
    BY DEF Digit
  <2>4. QED
    BY <2>2, <2>3, SeqMonotonic
<1> DEFINE w == z \o u
<1>6. w \in Seq(Digit) /\ Len(w) = Len(z) + Len(u)
  BY <1>1, <1>5, ConcatProperties
<1>7. p \in 1..(Len(w) + 1)
  BY <1>4, <1>5, <1>6
<1>8. TrimZeros(w) = u
  BY <1>1, <1>2, <1>4, <1>5, TrimmedZeros
<1> HIDE DEF w
<1>9. Digits(name) = w
  BY <1>3, <1>6, <1>7, DigitsOfSpelling DEF w
<1>10. NormalizePhone(name) = u /\ NormalizePhone(name) # Invalid
  BY <1>1, <1>2, <1>4, <1>8, <1>9, RecipientAssumption DEF NormalizePhone, NormalizeDigits
<1>11. At \notin ToSet(name)
  <2> DEFINE Chars == Digit \cup Separator
  <2>1. At \notin Chars
    BY RecipientAssumption
  <2>2. w \in Seq(Chars) /\ x \in Chars
    BY <1>6
  <2> HIDE DEF Chars
  <2>3. name \in Seq(Chars)
    BY <1>3, <1>7, <2>2, InsertAtLemma DEF w
  <2>4. QED
    BY <2>1, <2>3 DEF ToSet
<1>12. QED
  BY <1>1, <1>2, <1>10, <1>11 DEF ParseRecipient

(* A chat answers to each of its names with what the overview shows of it.  *)
LEMMA ChatsAnswer == ASSUME IInv PROVE ChatsAnswerToTheirNames
<1> DEFINE n == Cardinality(DOMAIN table)
<1> SUFFICES ASSUME NEW entry \in ToSet(Overview(table, n)),
                    NEW name \in {String(entry.jid)} \cup Spellings(entry.jid)
             PROVE  AnswersTo(entry, name)
  BY DEF ChatsAnswerToTheirNames
<1>1. PICK i \in DOMAIN Overview(table, n) : entry = Overview(table, n)[i]
  BY DEF ToSet
<1>2. /\ entry.jid \in ChatsOf(table)
      /\ entry.last = Last(List(table, Browse(entry.jid, FALSE)))
      /\ entry.unread = Len(List(table, Browse(entry.jid, TRUE)))
  BY <1>1, OverviewAgrees DEF OverviewAgreesWithList
<1>3. entry.jid \in JID
  BY <1>2, RecipientAssumption DEF ChatsOf, IInv, TypeOK, IsTable, Key
<1>4. ParseRecipient(name) = entry.jid
  BY <1>3, JIDRoundTrip, SpellingsParse
<1>5. List(table, Browse(entry.jid, FALSE)) # <<>>
  BY <1>2, PreviewIsLast
<1>6. QED
  BY <1>2, <1>4, <1>5 DEF AnswersTo

(* A chat can be asked for by the JID the overview returned and by its      *)
(* number with up to two zeros before it and one separator in it, and what  *)
(* is listed then is what the overview promised (helpers.go: ParseRecipient;*)
(* store.go: Chats, List).                                                  *)
THEOREM RecipientsChatsAnswerToTheirNames == Spec => []ChatsAnswerToTheirNames
<1>1. IInv => ChatsAnswerToTheirNames
  BY ChatsAnswer
<1>2. QED
  BY StoreInvariant, <1>1, PTL
=============================================================================
