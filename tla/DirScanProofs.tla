---------------------------- MODULE DirScanProofs ------------------------------
(***************************************************************************)
(* What holds of scans of a directory for any callers, names and spellings *)
(* and for any number of changes, failures and open directories.           *)
(***************************************************************************)
EXTENDS DirScan, FiniteSetTheorems, SequenceTheorems, TLAPS

\* The entries of a walk that come after the first k.
After(s, k) == {s[i] : i \in k + 1 .. Len(s)}

\* The history of a scan.
ScanRecord == [seen : [Name -> 0 .. MaxSeen], stayed : SUBSET Name,
               came : Nat, lost : Nat, hushed : BOOLEAN]

\* The times, but for the first, that names were handed out or are about to be: a
\* name that has been and is still ahead of the index counts for the time to come.
Due(scan, ahead) == {r \in Name \X (1 .. MaxSeen) : /\ r[2] <= scan.seen[r[1]]
                                                    /\ r[2] = scan.seen[r[1]] => r[1] \in ahead}

\* The entries there all the time that the index has passed and nobody was handed.
Missed(scan, ahead) == {n \in scan.stayed : scan.seen[n] = 0 /\ n \notin ahead}

\* A scan pays for each repetition with a creation, when the creation puts a name
\* that was handed out ahead of the index again, and for each miss with a removal or
\* an error, when that puts a name behind it.
Paid(s, k, scan) ==
    /\ scan \in ScanRecord
    /\ scan.stayed \subseteq ToSet(s)
    /\ Cardinality(Due(scan, After(s, k))) <= scan.came
    /\ ~scan.hushed => Cardinality(Missed(scan, After(s, k))) <= scan.lost

ScanInv == /\ past \in [Id -> ScanRecord]
           /\ \A id \in Id : IF id \in Open THEN Paid(entries, dir_iter_map[id], past[id])
                                            ELSE past[id] = Fresh({})

\* What a scan has behind it stays behind it.
Later(old, new) == /\ new.stayed \subseteq old.stayed
                   /\ \A n \in Name : new.seen[n] = 0 => old.seen[n] = 0
                   /\ old.lost <= new.lost
                   /\ old.hushed => new.hushed

-------------------------------------------------------------------------------
(* Entries that come and go *)

\* A new entry takes its place and shifts those behind it.
LEMMA InsertAtIs ==
  ASSUME NEW S, NEW s \in Seq(S), NEW p \in 1 .. Len(s) + 1, NEW e \in S
  PROVE  /\ InsertAt(s, p, e) \in Seq(S) /\ Len(InsertAt(s, p, e)) = Len(s) + 1
         /\ \A i \in 1 .. Len(s) + 1 : InsertAt(s, p, e)[i] =
                IF i < p THEN s[i] ELSE IF i = p THEN e ELSE s[i - 1]
<1>1. /\ SubSeq(s, 1, p - 1) \in Seq(S) /\ Len(SubSeq(s, 1, p - 1)) = p - 1
      /\ \A i \in 1 .. p - 1 : SubSeq(s, 1, p - 1)[i] = s[i]
  BY LenProperties, SubSeqProperties
<1>2. /\ SubSeq(s, p, Len(s)) \in Seq(S) /\ Len(SubSeq(s, p, Len(s))) = Len(s) - p + 1
      /\ \A i \in 1 .. Len(s) - p + 1 : SubSeq(s, p, Len(s))[i] = s[p + i - 1]
  BY LenProperties, SubSeqProperties
<1>3. <<e>> \in Seq(S) /\ Len(<<e>>) = 1 /\ <<e>>[1] = e
  OBVIOUS
<1> DEFINE head == SubSeq(s, 1, p - 1)
           one == <<e>>
           front == head \o one
<1>4. /\ front \in Seq(S) /\ Len(front) = p
      /\ \A i \in 1 .. p : front[i] = IF i < p THEN s[i] ELSE e
  <2>1. /\ head \in Seq(S) /\ Len(head) = p - 1 /\ \A i \in 1 .. p - 1 : head[i] = s[i]
        /\ one \in Seq(S) /\ Len(one) = 1 /\ one[1] = e
    BY <1>1, <1>3
  <2> HIDE DEF head, one
  <2>2. /\ front \in Seq(S) /\ Len(front) = Len(head) + Len(one)
        /\ \A i \in 1 .. Len(head) + Len(one) :
              front[i] = IF i <= Len(head) THEN head[i] ELSE one[i - Len(head)]
    BY <2>1, ConcatProperties
  <2> HIDE DEF front
  <2>3. p \in Nat \ {0} /\ Len(head) + Len(one) = p
    BY <2>1, LenProperties
  <2>4. ASSUME NEW i \in 1 .. p
        PROVE  front[i] = IF i < p THEN s[i] ELSE e
    <3>1. CASE i < p
      BY <2>1, <2>2, <2>3, <3>1
    <3>2. CASE i = p
      <4>1. front[p] = one[p - Len(head)] /\ p - Len(head) = 1
        BY <2>1, <2>2, <2>3
      <4> QED
        BY <2>1, <3>2, <4>1
    <3> QED
      BY <2>3, <3>1, <3>2
  <2> QED
    BY <2>2, <2>3, <2>4
<1>5. /\ front \o SubSeq(s, p, Len(s)) \in Seq(S)
      /\ Len(front \o SubSeq(s, p, Len(s))) = Len(s) + 1
      /\ \A i \in 1 .. Len(s) + 1 : (front \o SubSeq(s, p, Len(s)))[i] =
            IF i <= p THEN front[i] ELSE SubSeq(s, p, Len(s))[i - p]
  <2> HIDE DEF front
  <2> QED
    BY <1>2, <1>4, ConcatProperties, LenProperties
<1> HIDE DEF front
<1>6. ASSUME NEW i \in 1 .. Len(s) + 1, i > p
      PROVE  SubSeq(s, p, Len(s))[i - p] = s[i - 1]
  BY <1>2, <1>6, LenProperties
<1> DEFINE all == front \o SubSeq(s, p, Len(s))
<1>7. InsertAt(s, p, e) = all
  BY DEF InsertAt, front, head, one
<1>8. p \in Nat /\ Len(s) \in Nat
  BY LenProperties
<1>9. ASSUME NEW i \in 1 .. Len(s) + 1
      PROVE  all[i] = IF i < p THEN s[i] ELSE IF i = p THEN e ELSE s[i - 1]
  <2> HIDE DEF all
  <2>1. ASSUME i <= p
        PROVE  all[i] = IF i < p THEN s[i] ELSE e
    <3>1. i \in 1 .. p /\ all[i] = front[i]
      BY <1>5, <1>8, <2>1 DEF all
    <3> QED
      BY <1>4, <3>1
  <2>2. ASSUME i > p
        PROVE  all[i] = s[i - 1]
    <3>1. all[i] = SubSeq(s, p, Len(s))[i - p]
      BY <1>5, <1>8, <2>2 DEF all
    <3> QED
      BY <1>6, <2>2, <3>1
  <2>3. CASE i <= p
    BY <1>8, <2>1, <2>3
  <2>4. CASE i > p
    BY <1>8, <2>2, <2>4
  <2> QED
    BY <1>8, <2>3, <2>4
<1> HIDE DEF all
<1> QED
  BY <1>5, <1>7, <1>9 DEF all

\* The entries behind one that goes close up.
LEMMA RemoveAtIs ==
  ASSUME NEW S, NEW s \in Seq(S), NEW p \in 1 .. Len(s)
  PROVE  /\ RemoveAt(s, p) \in Seq(S) /\ Len(RemoveAt(s, p)) = Len(s) - 1
         /\ \A i \in 1 .. Len(s) - 1 : RemoveAt(s, p)[i] = IF i < p THEN s[i] ELSE s[i + 1]
<1>1. /\ SubSeq(s, 1, p - 1) \in Seq(S) /\ Len(SubSeq(s, 1, p - 1)) = p - 1
      /\ \A i \in 1 .. p - 1 : SubSeq(s, 1, p - 1)[i] = s[i]
  BY LenProperties, SubSeqProperties
<1>2. /\ SubSeq(s, p + 1, Len(s)) \in Seq(S) /\ Len(SubSeq(s, p + 1, Len(s))) = Len(s) - p
      /\ \A i \in 1 .. Len(s) - p : SubSeq(s, p + 1, Len(s))[i] = s[p + i]
  BY LenProperties, SubSeqProperties
<1> DEFINE front == SubSeq(s, 1, p - 1)
           back == SubSeq(s, p + 1, Len(s))
<1>3. RemoveAt(s, p) = front \o back
  BY DEF RemoveAt
<1> HIDE DEF front, back
<1>4. front \in Seq(S) /\ Len(front) = p - 1 /\ \A i \in 1 .. p - 1 : front[i] = s[i]
  BY <1>1 DEF front
<1>5. /\ back \in Seq(S) /\ Len(back) = Len(s) - p
      /\ \A i \in 1 .. Len(s) - p : back[i] = s[p + i]
  BY <1>2 DEF back
<1>6. /\ front \o back \in Seq(S) /\ Len(front \o back) = Len(front) + Len(back)
      /\ \A i \in 1 .. Len(front) + Len(back) : (front \o back)[i] =
            IF i <= Len(front) THEN front[i] ELSE back[i - Len(front)]
  BY <1>4, <1>5, ConcatProperties
<1>7. p \in Nat /\ Len(s) \in Nat /\ Len(front) + Len(back) = Len(s) - 1
  BY <1>4, <1>5, LenProperties
<1>8. ASSUME NEW i \in 1 .. Len(s) - 1
      PROVE  (front \o back)[i] = IF i < p THEN s[i] ELSE s[i + 1]
  <2>1. ASSUME i < p
        PROVE  (front \o back)[i] = s[i]
    BY <1>4, <1>6, <1>7, <2>1
  <2>2. ASSUME i >= p
        PROVE  (front \o back)[i] = s[i + 1]
    <3>1. (front \o back)[i] = back[i - (p - 1)]
      BY <1>4, <1>6, <1>7, <2>2
    <3>2. i - (p - 1) \in 1 .. Len(s) - p /\ p + (i - (p - 1)) = i + 1
      BY <1>7, <2>2
    <3> QED
      BY <1>5, <3>1, <3>2
  <2> QED
    BY <1>7, <2>1, <2>2
<1> QED
  BY <1>3, <1>6, <1>7, <1>8

\* A directory has each name once, so it has no more entries than there are names.
LEMMA EntriesAre ==
  ASSUME NEW s
  PROVE  /\ s \in SeqOf(Name, Cardinality(Name)) => s \in Seq(Name)
         /\ s \in Seq(Name) /\ IsInjective(s) =>
              Len(s) <= Cardinality(Name) /\ s \in SeqOf(Name, Cardinality(Name))
<1>1. Cardinality(Name) \in Nat
  BY NameAssumption, FS_CardinalityType
<1>2. ASSUME s \in SeqOf(Name, Cardinality(Name))
      PROVE  s \in Seq(Name)
  <2>1. PICK m \in 0 .. Cardinality(Name) : s \in [1 .. m -> Name]
    BY <1>2 DEF SeqOf
  <2>2. m \in Nat
    BY <1>1
  <2> QED
    BY <2>1, <2>2, SeqDef
<1>3. ASSUME s \in Seq(Name), IsInjective(s)
      PROVE  Len(s) <= Cardinality(Name) /\ s \in SeqOf(Name, Cardinality(Name))
  <2>1. Len(s) \in Nat /\ s \in [1 .. Len(s) -> Name]
    BY <1>3, LenProperties
  <2>2. s \in Injection(1 .. Len(s), Name)
    BY <1>3, <2>1 DEF Injection
  <2>3. Cardinality(1 .. Len(s)) <= Cardinality(Name)
    BY <2>2, NameAssumption, FS_Injection
  <2>4. Cardinality(1 .. Len(s)) = Len(s)
    BY <2>1, FS_Interval
  <2> QED
    BY <1>1, <2>1, <2>3, <2>4 DEF SeqOf
<1> QED
  BY <1>2, <1>3

\* A new entry leaves those after any index after it, and shifts at most one past it.
LEMMA InsertShifts ==
  ASSUME NEW s \in Seq(Name), IsInjective(s), NEW p \in 1 .. Len(s) + 1,
         NEW n \in Name \ ToSet(s), NEW k \in Nat
  PROVE  LET t == InsertAt(s, p, n)
         IN  /\ t \in Seq(Name) /\ IsInjective(t)
             /\ ToSet(s) \subseteq ToSet(t)
             /\ After(s, k) \subseteq After(t, k)
             /\ \E y \in Name : After(t, k) \subseteq After(s, k) \cup {y}
<1> DEFINE t == InsertAt(s, p, n)
<1>1. /\ t \in Seq(Name) /\ Len(t) = Len(s) + 1
      /\ \A i \in 1 .. Len(s) + 1 : t[i] =
            IF i < p THEN s[i] ELSE IF i = p THEN n ELSE s[i - 1]
  BY InsertAtIs
<1> HIDE DEF t
<1>2. /\ Len(s) \in Nat /\ DOMAIN s = 1 .. Len(s) /\ DOMAIN t = 1 .. Len(s) + 1
      /\ \A i \in 1 .. Len(s) : s[i] \in Name /\ s[i] # n
      /\ \A i, j \in 1 .. Len(s) : s[i] = s[j] => i = j
  BY <1>1, LenProperties DEF ToSet, IsInjective
<1>3. IsInjective(t)
  <2>1. ASSUME NEW i \in 1 .. Len(s) + 1, NEW j \in 1 .. Len(s) + 1, t[i] = t[j]
        PROVE  i = j
    BY <1>1, <1>2, <2>1
  <2> QED
    BY <1>2, <2>1 DEF IsInjective
<1>4. \A i \in 1 .. Len(s) : \E j \in 1 .. Len(s) + 1 : j >= i /\ t[j] = s[i]
  <2> SUFFICES ASSUME NEW i \in 1 .. Len(s)
               PROVE  \E j \in 1 .. Len(s) + 1 : j >= i /\ t[j] = s[i]
    OBVIOUS
  <2>1. CASE i < p
    BY <1>1, <1>2, <2>1
  <2>2. CASE i >= p
    <3>1. i + 1 \in 1 .. Len(s) + 1 /\ ~(i + 1 < p) /\ i + 1 # p /\ i + 1 - 1 = i
      BY <1>2, <2>2
    <3>2. t[i + 1] = s[i + 1 - 1]
      BY <1>1, <3>1
    <3>3. t[i + 1] = s[i] /\ i + 1 >= i
      BY <3>1, <3>2
    <3> QED
      BY <3>1, <3>3
  <2> QED
    BY <1>2, <2>1, <2>2
<1>5. ToSet(s) \subseteq ToSet(t) /\ After(s, k) \subseteq After(t, k)
  <2>1. ToSet(s) \subseteq ToSet(t)
    BY <1>2, <1>4 DEF ToSet
  <2>2. ASSUME NEW i \in k + 1 .. Len(s)
        PROVE  s[i] \in After(t, k)
    <3>1. i \in 1 .. Len(s)
      BY <1>2
    <3>2. PICK j \in 1 .. Len(s) + 1 : j >= i /\ t[j] = s[i]
      BY <1>4, <3>1
    <3>3. j \in k + 1 .. Len(t)
      BY <1>1, <1>2, <3>2
    <3> QED
      BY <3>2, <3>3 DEF After
  <2> QED
    BY <2>1, <2>2 DEF After
<1>6. \E y \in Name : After(t, k) \subseteq After(s, k) \cup {y}
  <2>1. CASE p > k
    <3>1. ASSUME NEW i \in k + 1 .. Len(t), t[i] # n
          PROVE  t[i] \in After(s, k)
      <4>1. i \in 1 .. Len(s) + 1 /\ i # p
        BY <1>1, <1>2, <3>1
      <4>2. CASE i < p
        <5>1. i \in k + 1 .. Len(s) /\ t[i] = s[i]
          BY <1>1, <1>2, <4>1, <4>2
        <5> QED
          BY <5>1 DEF After
      <4>3. CASE i > p
        <5>1. i - 1 \in k + 1 .. Len(s)
          BY <1>2, <2>1, <4>1, <4>3
        <5>2. t[i] = s[i - 1]
          BY <1>1, <4>1, <4>3
        <5> QED
          BY <5>1, <5>2 DEF After
      <4> QED
        BY <1>2, <4>1, <4>2, <4>3
    <3> QED
      BY <3>1 DEF After
  <2>2. CASE p <= k /\ k <= Len(s)
    <3>1. ASSUME NEW i \in k + 1 .. Len(t), i # k + 1
          PROVE  t[i] \in After(s, k)
      BY <1>1, <1>2, <2>2, <3>1 DEF After
    <3>2. t[k + 1] \in Name
      BY <1>1, <1>2, <2>2
    <3>3. After(t, k) \subseteq After(s, k) \cup {t[k + 1]}
      BY <3>1 DEF After
    <3> QED
      BY <3>2, <3>3
  <2>3. CASE k > Len(s)
    BY <1>1, <1>2, <2>3 DEF After
  <2> QED
    BY <1>2, <2>1, <2>2, <2>3
<1> QED
  BY <1>1, <1>3, <1>5, <1>6, Zenon DEF t

\* An entry that goes moves at most one other in front of an index.
LEMMA RemoveShifts ==
  ASSUME NEW s \in Seq(Name), IsInjective(s), NEW p \in 1 .. Len(s), NEW k \in Nat
  PROVE  LET t == RemoveAt(s, p)
         IN  /\ t \in Seq(Name) /\ IsInjective(t)
             /\ ToSet(s) \ {s[p]} \subseteq ToSet(t)
             /\ After(t, k) \subseteq After(s, k)
             /\ \E y \in Name : After(s, k) \subseteq After(t, k) \cup {y, s[p]}
<1> DEFINE t == RemoveAt(s, p)
<1>1. /\ t \in Seq(Name) /\ Len(t) = Len(s) - 1
      /\ \A i \in 1 .. Len(s) - 1 : t[i] = IF i < p THEN s[i] ELSE s[i + 1]
  BY RemoveAtIs
<1> HIDE DEF t
<1>2. /\ Len(s) \in Nat /\ DOMAIN s = 1 .. Len(s) /\ DOMAIN t = 1 .. Len(s) - 1
      /\ \A i \in 1 .. Len(s) : s[i] \in Name
      /\ \A i, j \in 1 .. Len(s) : s[i] = s[j] => i = j
  BY <1>1, LenProperties DEF IsInjective
<1>3. IsInjective(t)
  <2> DEFINE from(i) == IF i < p THEN i ELSE i + 1
  <2>1. ASSUME NEW i \in 1 .. Len(s) - 1, NEW j \in 1 .. Len(s) - 1, t[i] = t[j]
        PROVE  i = j
    <3>1. /\ from(i) \in 1 .. Len(s) /\ from(j) \in 1 .. Len(s)
          /\ from(i) = from(j) => i = j
      BY <1>2
    <3>2. t[i] = s[from(i)] /\ t[j] = s[from(j)]
      BY <1>1
    <3>3. s[from(i)] = s[from(j)]
      BY <2>1, <3>2
    <3> HIDE DEF from
    <3> QED
      BY <1>2, <3>1, <3>3
  <2> QED
    BY <1>2, <2>1 DEF IsInjective
<1>4. \A i \in 1 .. Len(t) : \E j \in 1 .. Len(s) : j >= i /\ s[j] = t[i]
  BY <1>1, <1>2
<1>5. After(t, k) \subseteq After(s, k)
  <2>1. ASSUME NEW i \in k + 1 .. Len(t)
        PROVE  t[i] \in After(s, k)
    <3>1. i \in 1 .. Len(t)
      BY <1>1, <1>2
    <3>2. PICK j \in 1 .. Len(s) : j >= i /\ s[j] = t[i]
      BY <1>4, <3>1
    <3>3. j \in k + 1 .. Len(s)
      BY <1>1, <1>2, <3>2
    <3> QED
      BY <3>2, <3>3 DEF After
  <2> QED
    BY <2>1 DEF After
<1>6. \A i \in 1 .. Len(s) : i < p => i \in 1 .. Len(t) /\ t[i] = s[i]
  BY <1>1, <1>2
<1>7. \A i \in 1 .. Len(s) : i > p => i - 1 \in 1 .. Len(t) /\ t[i - 1] = s[i]
  <2> SUFFICES ASSUME NEW i \in 1 .. Len(s), i > p
               PROVE  i - 1 \in 1 .. Len(t) /\ t[i - 1] = s[i]
    OBVIOUS
  <2>1. i - 1 \in 1 .. Len(s) - 1 /\ ~(i - 1 < p) /\ i - 1 + 1 = i
    BY <1>2
  <2>2. t[i - 1] = s[i - 1 + 1]
    BY <1>1, <2>1
  <2> QED
    BY <1>1, <2>1, <2>2
<1>8. ToSet(s) \ {s[p]} \subseteq ToSet(t)
  <2>1. ASSUME NEW i \in 1 .. Len(s), i # p
        PROVE  s[i] \in ToSet(t)
    <3>1. CASE i < p
      BY <1>1, <1>2, <1>6, <3>1 DEF ToSet
    <3>2. CASE i > p
      BY <1>1, <1>2, <1>7, <3>2 DEF ToSet
    <3> QED
      BY <1>2, <2>1, <3>1, <3>2
  <2> QED
    BY <1>2, <2>1 DEF ToSet
<1>9. \E y \in Name : After(s, k) \subseteq After(t, k) \cup {y, s[p]}
  <2>1. ASSUME NEW i \in k + 1 .. Len(s), i # k + 1, i # p
        PROVE  s[i] \in After(t, k)
    <3>1. CASE i < p
      <4>1. i \in k + 1 .. Len(t) /\ t[i] = s[i]
        BY <1>1, <1>2, <1>6, <3>1
      <4> QED
        BY <4>1 DEF After
    <3>2. CASE i > p
      <4>1. i - 1 \in k + 1 .. Len(t) /\ t[i - 1] = s[i]
        BY <1>1, <1>2, <1>7, <2>1, <3>2
      <4> QED
        BY <4>1 DEF After
    <3> QED
      BY <1>2, <2>1, <3>1, <3>2
  <2>2. CASE k < Len(s)
    <3>1. s[k + 1] \in Name
      BY <1>2, <2>2
    <3>2. After(s, k) \subseteq After(t, k) \cup {s[k + 1], s[p]}
      BY <2>1 DEF After
    <3> QED
      BY <3>1, <3>2
  <2>3. CASE k >= Len(s)
    <3>1. After(s, k) = {} /\ s[p] \in Name
      BY <1>2, <2>3 DEF After
    <3> QED
      BY <3>1
  <2> QED
    BY <1>2, <2>2, <2>3
<1> QED
  BY <1>1, <1>3, <1>5, <1>8, <1>9, Zenon DEF t

\* The index moves past one entry, if there is one.
LEMMA IndexMovesOn ==
  ASSUME NEW s \in Seq(Name), IsInjective(s), NEW k \in Nat
  PROVE  /\ k < Len(s) => /\ After(s, k) = After(s, k + 1) \cup {s[k + 1]}
                          /\ s[k + 1] \in Name \ After(s, k + 1)
         /\ k >= Len(s) => After(s, k) = {}
<1>1. /\ Len(s) \in Nat /\ DOMAIN s = 1 .. Len(s)
      /\ \A i \in 1 .. Len(s) : s[i] \in Name
      /\ \A i, j \in 1 .. Len(s) : s[i] = s[j] => i = j
  BY LenProperties DEF IsInjective
<1>2. ASSUME k < Len(s)
      PROVE  /\ After(s, k) = After(s, k + 1) \cup {s[k + 1]}
             /\ s[k + 1] \in Name \ After(s, k + 1)
  <2>1. k + 1 \in 1 .. Len(s) /\ k + 1 .. Len(s) = (k + 1 + 1 .. Len(s)) \cup {k + 1}
    BY <1>1, <1>2
  <2>2. After(s, k) = After(s, k + 1) \cup {s[k + 1]}
    BY <2>1 DEF After
  <2>3. \A i \in k + 1 + 1 .. Len(s) : s[i] # s[k + 1]
    BY <1>1, <2>1
  <2> QED
    BY <1>1, <2>1, <2>2, <2>3 DEF After
<1>3. k >= Len(s) => After(s, k) = {}
  BY <1>1 DEF After
<1> QED
  BY <1>2, <1>3

-------------------------------------------------------------------------------
(* Types *)

\* Every directory that Init may start from has each of its names once.
LEMMA InitEntries == Init => entries \in Seq(Name) /\ IsInjective(entries)
<1>1. /\ SetToSeq(Name) \in [1 .. Cardinality(Name) -> Name] /\ IsInjective(SetToSeq(Name))
      /\ Cardinality(Name) \in Nat
  <2>1. Cardinality(Name) \in Nat /\ ExistsBijection(1 .. Cardinality(Name), Name)
    BY NameAssumption, FS_CardinalityType
  <2>2. \E f \in [1 .. Cardinality(Name) -> Name] : IsInjective(f)
    BY <2>1 DEF ExistsBijection, Bijection, Injection
  <2> QED
    BY <2>1, <2>2 DEF SetToSeq
<1> SUFFICES ASSUME NEW n \in 0 .. Cardinality(Name)
             PROVE  /\ SubSeq(SetToSeq(Name), 1, n) \in Seq(Name)
                    /\ IsInjective(SubSeq(SetToSeq(Name), 1, n))
  BY DEF Init
<1> DEFINE s == SetToSeq(Name)
           t == SubSeq(s, 1, n)
<1>2. t \in Seq(Name) /\ Len(t) = n /\ \A i \in 1 .. n : t[i] = s[i]
  <2> HIDE DEF s
  <2>1. n \in Nat /\ \A i \in 1 .. n : s[i] \in Name
    BY <1>1 DEF s
  <2> QED
    BY <2>1, SubSeqProperties
<1>3. \A i, j \in 1 .. n : s[i] = s[j] => i = j
  BY <1>1 DEF IsInjective
<1>4. DOMAIN t = 1 .. n
  BY <1>2, LenProperties
<1> HIDE DEF t, s
<1> QED
  BY <1>2, <1>3, <1>4 DEF IsInjective, t, s

\* What the directory is after an entry has come or gone.
LEMMA EntriesStep ==
  ASSUME entries \in Seq(Name), IsInjective(entries), NEW n \in Name,
         CreateEntry(n) \/ RemoveEntry(n)
  PROVE  entries' \in Seq(Name) /\ IsInjective(entries')
<1>1. CASE CreateEntry(n)
  BY <1>1, InsertShifts DEF CreateEntry
<1>2. CASE RemoveEntry(n)
  BY <1>2, RemoveShifts DEF RemoveEntry
<1> QED
  BY <1>1, <1>2

\* The store and its readers, apart from the directory itself.
StoreType ==
  /\ next_id \in 0 .. MaxId + 1
  /\ dir_name_map \in [Id -> Path \cup {None}]
  /\ dir_iter_map \in [Id -> (0 .. PastAll) \cup {None}]
  /\ \A id \in Id : /\ id \in Open <=> dir_iter_map[id] # None
                    /\ id \in Open => id < next_id
  /\ reads \in [Caller -> (0 .. next_id - 1) \cup {None}]
  /\ answer \in [Caller -> {"more", "end", "err"}]

\* An item is an entry, an error or the end.
LEMMA ItemType ==
  ASSUME entries \in Seq(Name), NEW idx \in Nat, NEW broken \in Nat
  PROVE  Item(idx, broken) \in Name \cup {"end", "err"}
BY LenProperties DEF Item

\* An open shares an id with its index, or takes the next one with index 0.
LEMMA OpenType ==
  ASSUME StoreType, NEW c \in Caller, NEW path \in Path, OpenDir(c, path)
  PROVE  StoreType'
<1>1. CASE \E id \in Open : dir_name_map[id] = path /\ share(c, id)
  <2>1. PICK id \in Open : share(c, id)
    BY <1>1
  <2>2. id \in 0 .. next_id - 1
    BY <2>1, BoundAssumption DEF StoreType, Open, Id
  <2> QED
    BY <2>1, <2>2 DEF StoreType, OpenDir, share, store, Open
<1>2. CASE insert_dir(path) /\ reads' = [reads EXCEPT ![c] = next_id]
  <2>1. path # None /\ 0 \in 0 .. PastAll /\ None # 0
    BY NoneAssumption, NameAssumption, FS_CardinalityType DEF PastAll
  <2>2. next_id \in Id /\ next_id \in Nat /\ next_id' \in 0 .. MaxId + 1 /\ next_id' = next_id + 1
    BY <1>2, BoundAssumption DEF insert_dir, Id
  <2>3. /\ dir_name_map' \in [Id -> Path \cup {None}]
        /\ dir_iter_map' \in [Id -> (0 .. PastAll) \cup {None}]
    BY <1>2, <2>1 DEF StoreType, insert_dir
  <2>4. \A id \in Id : /\ id \in Open' <=> dir_iter_map'[id] # None
                       /\ id \in Open' => id < next_id'
    BY <1>2, <2>1, <2>2 DEF StoreType, insert_dir, Open, Id
  <2>5. reads' \in [Caller -> (0 .. next_id' - 1) \cup {None}]
    BY <1>2, <2>2 DEF StoreType
  <2>6. answer' \in [Caller -> {"more", "end", "err"}]
    BY DEF StoreType, OpenDir
  <2> QED
    BY <2>2, <2>3, <2>4, <2>5, <2>6 DEF StoreType
<1> QED
  BY <1>1, <1>2 DEF OpenDir

\* A read moves one index on and says something.
LEMMA ReadType ==
  ASSUME entries \in Seq(Name), StoreType, NEW c \in Caller, ReadDir(c)
  PROVE  StoreType'
<1>1. UNCHANGED <<next_id, dir_name_map, reads>> /\ Open' = Open
  BY DEF ReadDir, Open
<1>2. CASE Answers(c, "err") /\ UNCHANGED dir_iter_map
  BY <1>1, <1>2 DEF StoreType, Answers
<1>3. ASSUME NEW id \in Open, NEW broken \in Nat, read_next_dirent(c, id, broken)
      PROVE  StoreType'
  <2>1. PastAll \in Nat
    BY NameAssumption, FS_CardinalityType DEF PastAll
  <2>2. id \in Id /\ dir_iter_map[id] \in 0 .. PastAll
    BY DEF StoreType, Open
  <2>3. Capped(dir_iter_map[id] + 1, PastAll) \in 0 .. PastAll
    BY <2>1, <2>2 DEF Capped
  <2>4. None \notin 0 .. PastAll
    BY <2>1, NoneAssumption
  <2>5. /\ dir_iter_map' \in [Id -> (0 .. PastAll) \cup {None}]
        /\ \A i \in Id : dir_iter_map'[i] # None <=> dir_iter_map[i] # None
    BY <1>3, <2>2, <2>3, <2>4 DEF StoreType, read_next_dirent, Advance
  <2>6. answer' \in [Caller -> {"more", "end", "err"}]
    <3>1. Item(dir_iter_map[id], broken) \in Name \cup {"end", "err"}
      BY <2>1, <2>2, ItemType
    <3> QED
      BY <1>3, <3>1 DEF StoreType, read_next_dirent, Answers
  <2> QED
    BY <1>1, <2>5, <2>6 DEF StoreType
<1>4. /\ Unbroken \in Nat
      /\ \A broken : broken \in 1 .. Len(entries) + 1 => broken \in Nat
  BY NameAssumption, FS_CardinalityType, LenProperties DEF PastAll, Unbroken
<1> QED
  BY <1>2, <1>3, <1>4 DEF ReadDir

\* A closed id loses its name and its index.
LEMMA CloseType ==
  ASSUME StoreType, NEW id \in Id, close_dir(id),
         next_id' = next_id, reads' \in [Caller -> (0 .. next_id - 1) \cup {None}],
         answer' \in [Caller -> {"more", "end", "err"}]
  PROVE  StoreType'
BY DEF StoreType, close_dir, Open

\* The maps agree on what is open, ids are given out in order, and indices, answers
\* and the directory are what they should be, whoever comes and goes.
THEOREM TypeCorrect == Spec => []TypeOK
<1> DEFINE EntriesOK == entries \in Seq(Name) /\ IsInjective(entries)
           BoundsOK == changes \in 0 .. MaxChanges /\ faults \in 0 .. MaxFaults
           Typed == EntriesOK /\ StoreType /\ BoundsOK
<1>1. ASSUME Init
      PROVE  Typed
  <2>1. Open = {}
    BY <1>1 DEF Init, Open
  <2> QED
    BY <1>1, <2>1, InitEntries, BoundAssumption DEF Init, StoreType
<1>2. ASSUME Typed, [Next]_vars
      PROVE  Typed'
  <2>1. ASSUME NEW c \in Caller, NEW path \in Path, OpenDir(c, path)
        PROVE  Typed'
    BY <1>2, <2>1, OpenType DEF OpenDir
  <2>2. ASSUME NEW c \in Caller, ReadDir(c)
        PROVE  Typed'
    <3>1. BoundsOK'
      BY <1>2, <2>2, BoundAssumption DEF ReadDir
    <3> QED
      BY <1>2, <2>2, <3>1, ReadType DEF ReadDir
  <2>3. ASSUME NEW c \in Caller, CloseDir(c)
        PROVE  Typed'
    <3>1. /\ reads' \in [Caller -> (0 .. next_id - 1) \cup {None}] /\ next_id' = next_id
          /\ answer' \in [Caller -> {"more", "end", "err"}]
      BY <1>2, <2>3 DEF CloseDir, StoreType, Answers
    <3>2. CASE reads[c] \in Open
      <4>1. reads[c] \in Id /\ close_dir(reads[c])
        BY <2>3, <3>2 DEF CloseDir, Open
      <4> QED
        BY <1>2, <2>3, <3>1, <4>1, CloseType DEF CloseDir
    <3>3. CASE reads[c] \notin Open
      <4>1. UNCHANGED <<dir_name_map, dir_iter_map>> /\ Open' = Open
        BY <2>3, <3>3 DEF CloseDir, Open
      <4>2. StoreType'
        BY <1>2, <3>1, <4>1 DEF StoreType
      <4> QED
        BY <1>2, <2>3, <4>2 DEF CloseDir
    <3> QED
      BY <3>2, <3>3
  <2>4. ASSUME NEW path \in Path, DeleteDir(path)
        PROVE  Typed'
    <3>1. PICK id \in Open : close_dir(id)
      BY <2>4 DEF DeleteDir
    <3>2. id \in Id
      BY DEF Open
    <3> QED
      BY <1>2, <2>4, <3>1, <3>2, CloseType DEF DeleteDir, StoreType
  <2>5. ASSUME NEW n \in Name, CreateEntry(n) \/ RemoveEntry(n)
        PROVE  Typed'
    <3>1. Change
      BY <2>5 DEF CreateEntry, RemoveEntry
    <3>2. EntriesOK'
      BY <1>2, <2>5, EntriesStep
    <3>3. StoreType'
      BY <1>2, <3>1 DEF Change, store, StoreType, Open
    <3>4. BoundsOK'
      BY <1>2, <3>1, BoundAssumption DEF Change
    <3> QED
      BY <3>2, <3>3, <3>4
  <2>6. CASE UNCHANGED vars
    BY <1>2, <2>6 DEF vars, store, StoreType, Open
  <2> QED
    BY <1>2, <2>1, <2>2, <2>3, <2>4, <2>5, <2>6 DEF Next
<1>3. Typed => TypeOK
  BY EntriesAre DEF TypeOK, StoreType
<1> QED
  BY <1>1, <1>2, <1>3, PTL DEF Spec

-------------------------------------------------------------------------------
(* Scans *)

\* What a scan is measured by is finite.
LEMMA Finite ==
  ASSUME NEW scan \in ScanRecord, NEW ahead
  PROVE  /\ IsFiniteSet(Name \X (1 .. MaxSeen)) /\ IsFiniteSet(Name)
         /\ IsFiniteSet(Due(scan, ahead)) /\ IsFiniteSet(Missed(scan, ahead))
<1>1. IsFiniteSet(Name) /\ IsFiniteSet(1 .. MaxSeen)
  BY NameAssumption, BoundAssumption, FS_Interval DEF MaxSeen
<1>2. IsFiniteSet(Name \X (1 .. MaxSeen))
  BY <1>1, FS_Product
<1>3. Due(scan, ahead) \subseteq Name \X (1 .. MaxSeen) /\ Missed(scan, ahead) \subseteq Name
  BY DEF Due, Missed, ScanRecord
<1> QED
  BY <1>1, <1>2, <1>3, FS_Subset

\* A set that one element more than T covers has at most one more.
LEMMA OneMore ==
  ASSUME NEW S, NEW T, NEW x, IsFiniteSet(T), S \subseteq T \cup {x}
  PROVE  Cardinality(S) <= Cardinality(T) + 1
<1>1. IsFiniteSet(T \cup {x}) /\ Cardinality(T \cup {x}) <= Cardinality(T) + 1
      /\ Cardinality(T) \in Nat
  BY FS_AddElement, FS_CardinalityType
<1>2. /\ IsFiniteSet(S) /\ Cardinality(S) <= Cardinality(T \cup {x})
  BY <1>1, FS_Subset
<1> QED
  BY <1>1, <1>2, FS_CardinalityType

\* A part has no more than the whole.
LEMMA NoMore ==
  ASSUME NEW S, NEW T, IsFiniteSet(T), S \subseteq T
  PROVE  Cardinality(S) <= Cardinality(T)
BY FS_Subset

\* A scan starts with everything ahead of it.
LEMMA StartsPaid ==
  ASSUME NEW s \in Seq(Name)
  PROVE  Paid(s, 0, Fresh(ToSet(s))) /\ Fresh({}) \in ScanRecord
<1> DEFINE scan == Fresh(ToSet(s))
<1>1. ToSet(s) \subseteq Name /\ After(s, 0) = ToSet(s)
  BY LenProperties DEF ToSet, After
<1>2. scan \in ScanRecord /\ Fresh({}) \in ScanRecord
  BY <1>1, BoundAssumption DEF Fresh, ScanRecord, MaxSeen
<1>3. Due(scan, After(s, 0)) = {} /\ Missed(scan, After(s, 0)) = {}
  BY <1>1 DEF Due, Missed, Fresh
<1>4. scan.stayed = ToSet(s) /\ scan.came = 0 /\ scan.lost = 0
  BY DEF Fresh
<1> HIDE DEF scan
<1>5. /\ Cardinality(Due(scan, After(s, 0))) <= scan.came
      /\ Cardinality(Missed(scan, After(s, 0))) <= scan.lost
  <2>1. Cardinality({}) = 0
    BY FS_EmptySet
  <2>2. Cardinality(Due(scan, After(s, 0))) = 0 /\ Cardinality(Missed(scan, After(s, 0))) = 0
    BY <1>3, <2>1
  <2> QED
    BY <1>4, <2>2
<1>6. Paid(s, 0, scan)
  BY <1>2, <1>4, <1>5 DEF Paid
<1> QED
  BY <1>2, <1>6 DEF scan

\* An entry that is handed out is no longer ahead: if it is one repeated, it was due.
LEMMA EntryPaid ==
  ASSUME NEW s \in Seq(Name), IsInjective(s), NEW k \in Nat, k < Len(s),
         NEW scan, Paid(s, k, scan), NEW new \in ScanRecord,
         new.seen = [scan.seen EXCEPT ![s[k + 1]] = Capped(@ + 1, MaxSeen)],
         new.stayed = scan.stayed, new.came = scan.came, new.lost = scan.lost,
         scan.hushed => new.hushed
  PROVE  Paid(s, k + 1, new) /\ Later(scan, new)
<1>0. /\ After(s, k) = After(s, k + 1) \cup {s[k + 1]}
      /\ s[k + 1] \in Name \ After(s, k + 1)
  BY IndexMovesOn
<1> DEFINE n == s[k + 1]
           here == After(s, k)
           there == After(s, k + 1)
<1>1. here = there \cup {n} /\ n \in Name \ there
  BY <1>0, Zenon
<1> HIDE DEF n, here, there
<1>2. scan \in ScanRecord /\ scan.seen \in [Name -> 0 .. MaxSeen] /\ MaxSeen \in Nat \ {0}
  <2>1. scan \in ScanRecord
    BY DEF Paid
  <2>2. scan.seen \in [Name -> 0 .. MaxSeen]
    BY <2>1 DEF ScanRecord
  <2>3. MaxSeen \in Nat \ {0}
    BY BoundAssumption DEF MaxSeen
  <2> QED
    BY <2>1, <2>2, <2>3
<1>3. /\ new.seen[n] <= scan.seen[n] + 1 /\ new.seen[n] # 0 /\ new.seen[n] \in Nat
      /\ \A m \in Name \ {n} : new.seen[m] = scan.seen[m]
  BY <1>1, <1>2 DEF Capped, n
<1>4. Due(new, there) \subseteq Due(scan, here)
  <2> SUFFICES ASSUME NEW m \in Name, NEW j \in 1 .. MaxSeen,
                      j <= new.seen[m], j = new.seen[m] => m \in there
               PROVE  j <= scan.seen[m] /\ (j = scan.seen[m] => m \in here)
    BY DEF Due
  <2>1. CASE m = n
    BY <1>1, <1>2, <1>3, <2>1
  <2>2. CASE m # n
    BY <1>1, <1>3, <2>2
  <2> QED
    BY <2>1, <2>2
<1>5. Missed(new, there) \subseteq Missed(scan, here)
  BY <1>1, <1>2, <1>3 DEF Missed, ScanRecord
<1>6. /\ Cardinality(Due(new, there)) <= Cardinality(Due(scan, here))
      /\ Cardinality(Missed(new, there)) <= Cardinality(Missed(scan, here))
  BY <1>2, <1>4, <1>5, Finite, NoMore
<1>7. /\ Cardinality(Due(new, there)) \in Nat /\ Cardinality(Missed(new, there)) \in Nat
      /\ Cardinality(Due(scan, here)) \in Nat /\ Cardinality(Missed(scan, here)) \in Nat
  BY <1>2, Finite, FS_CardinalityType
<1>8. Paid(s, k + 1, new)
  <2>1. /\ scan.came \in Nat /\ scan.lost \in Nat /\ scan.hushed \in BOOLEAN
        /\ Cardinality(Due(scan, here)) <= scan.came
        /\ ~scan.hushed => Cardinality(Missed(scan, here)) <= scan.lost
        /\ scan.stayed \subseteq ToSet(s)
    BY DEF Paid, ScanRecord, here
  <2>2. /\ Cardinality(Due(new, there)) <= new.came
        /\ ~new.hushed => Cardinality(Missed(new, there)) <= new.lost
    BY <1>6, <1>7, <2>1
  <2> QED
    BY <2>1, <2>2 DEF Paid, there
<1>9. scan.lost \in Nat /\ scan.stayed \subseteq Name
  BY <1>2 DEF ScanRecord
<1>10. ASSUME NEW m \in Name, new.seen[m] = 0
       PROVE  scan.seen[m] = 0
  BY <1>3, <1>10
<1>11. scan.lost <= new.lost
  BY <1>9
<1>12. Later(scan, new)
  BY <1>10, <1>11 DEF Later
<1> QED
  BY <1>8, <1>12

\* A read that hands nothing out either has the end in front of it, or reports an
\* error and misses one entry, or has hushed one up.
LEMMA NothingPaid ==
  ASSUME NEW s \in Seq(Name), IsInjective(s), NEW k \in Nat, NEW j \in {k, k + 1},
         NEW scan, Paid(s, k, scan), NEW new \in ScanRecord,
         new.seen = scan.seen, new.stayed = scan.stayed, new.came = scan.came,
         scan.hushed => new.hushed,
         \/ new.lost = scan.lost /\ (new.hushed \/ k >= Len(s))
         \/ new.lost = scan.lost + 1
  PROVE  Paid(s, j, new) /\ Later(scan, new)
<1> DEFINE here == After(s, k)
           there == After(s, j)
<1>1. there \subseteq here /\ \E y : here \subseteq there \cup {y}
  <2>1. /\ Len(s) \in Nat
        /\ k < Len(s) => After(s, k) = After(s, k + 1) \cup {s[k + 1]}
        /\ k >= Len(s) => After(s, k) = {}
    BY IndexMovesOn, LenProperties
  <2>2. there \subseteq here
    BY <2>1 DEF After
  <2>3. CASE j = k
    BY <2>2, <2>3
  <2>4. CASE j = k + 1 /\ k < Len(s)
    <3>1. here \subseteq there \cup {s[k + 1]}
      BY <2>1, <2>4
    <3> QED
      BY <2>2, <3>1
  <2>5. CASE k >= Len(s)
    <3>1. here = {}
      BY <2>1, <2>5
    <3> QED
      BY <2>2, <3>1
  <2> QED
    BY <2>1, <2>3, <2>4, <2>5
<1>2. k >= Len(s) => here = {}
  BY IndexMovesOn
<1> HIDE DEF here, there
<1>3. /\ scan \in ScanRecord /\ scan.came \in Nat /\ scan.lost \in Nat /\ scan.hushed \in BOOLEAN
      /\ Cardinality(Due(scan, here)) <= scan.came
      /\ ~scan.hushed => Cardinality(Missed(scan, here)) <= scan.lost
      /\ scan.stayed \subseteq ToSet(s)
  BY DEF Paid, ScanRecord, here
<1>4. /\ Cardinality(Due(new, there)) \in Nat /\ Cardinality(Missed(new, there)) \in Nat
      /\ Cardinality(Due(scan, here)) \in Nat /\ Cardinality(Missed(scan, here)) \in Nat
  BY <1>3, Finite, FS_CardinalityType
<1>5. Cardinality(Due(new, there)) <= new.came
  <2>1. Due(new, there) \subseteq Due(scan, here)
    BY <1>1 DEF Due
  <2>2. Cardinality(Due(new, there)) <= Cardinality(Due(scan, here))
    BY <1>3, <2>1, Finite, NoMore
  <2> QED
    BY <1>3, <1>4, <2>2
<1>6. ASSUME ~new.hushed
      PROVE  Cardinality(Missed(new, there)) <= new.lost
  <2>1. CASE new.lost = scan.lost /\ k >= Len(s)
    <3>1. Missed(new, there) \subseteq Missed(scan, here)
      BY <1>2, <2>1 DEF Missed
    <3>2. Cardinality(Missed(new, there)) <= Cardinality(Missed(scan, here))
      BY <1>3, <3>1, Finite, NoMore
    <3> QED
      BY <1>3, <1>4, <1>6, <2>1, <3>2
  <2>2. CASE new.lost = scan.lost + 1
    <3>1. PICK y : here \subseteq there \cup {y}
      BY <1>1
    <3>2. Missed(new, there) \subseteq Missed(scan, here) \cup {y}
      BY <3>1 DEF Missed
    <3>3. Cardinality(Missed(new, there)) <= Cardinality(Missed(scan, here)) + 1
      BY <1>3, <3>2, Finite, OneMore
    <3> QED
      BY <1>3, <1>4, <1>6, <2>2, <3>3
  <2> QED
    BY <1>6, <2>1, <2>2
<1>7. Paid(s, j, new)
  BY <1>3, <1>5, <1>6 DEF Paid, there
<1> QED
  BY <1>3, <1>7 DEF Later

\* An entry that comes may put one that was handed out ahead again.
LEMMA CreationPaid ==
  ASSUME NEW s \in Seq(Name), IsInjective(s), NEW p \in 1 .. Len(s) + 1,
         NEW n \in Name \ ToSet(s), NEW k \in Nat,
         NEW scan, Paid(s, k, scan), NEW new \in ScanRecord,
         new.seen = scan.seen, new.stayed = scan.stayed, new.came = scan.came + 1,
         new.lost = scan.lost, new.hushed = scan.hushed
  PROVE  Paid(InsertAt(s, p, n), k, new) /\ Later(scan, new)
<1> DEFINE t == InsertAt(s, p, n)
           here == After(s, k)
           there == After(t, k)
<1>1. /\ ToSet(s) \subseteq ToSet(t) /\ here \subseteq there
      /\ \E y \in Name : there \subseteq here \cup {y}
  BY InsertShifts
<1> HIDE DEF t, here, there
<1>2. PICK y \in Name : there \subseteq here \cup {y}
  BY <1>1
<1>3. /\ scan \in ScanRecord /\ scan.came \in Nat /\ scan.lost \in Nat /\ scan.hushed \in BOOLEAN
      /\ Cardinality(Due(scan, here)) <= scan.came
      /\ ~scan.hushed => Cardinality(Missed(scan, here)) <= scan.lost
      /\ scan.stayed \subseteq ToSet(s)
  BY DEF Paid, ScanRecord, here
<1>4. /\ Cardinality(Due(new, there)) \in Nat /\ Cardinality(Missed(new, there)) \in Nat
      /\ Cardinality(Due(scan, here)) \in Nat /\ Cardinality(Missed(scan, here)) \in Nat
  BY <1>3, Finite, FS_CardinalityType
<1>5. Due(new, there) \subseteq Due(scan, here) \cup {<<y, scan.seen[y]>>}
  BY <1>2 DEF Due
<1>6. Missed(new, there) \subseteq Missed(scan, here)
  BY <1>1 DEF Missed
<1>7. /\ Cardinality(Due(new, there)) <= Cardinality(Due(scan, here)) + 1
      /\ Cardinality(Missed(new, there)) <= Cardinality(Missed(scan, here))
  BY <1>3, <1>5, <1>6, Finite, OneMore, NoMore
<1>8. /\ Cardinality(Due(new, there)) <= new.came
      /\ ~new.hushed => Cardinality(Missed(new, there)) <= new.lost
  BY <1>3, <1>4, <1>7
<1>9. Paid(t, k, new)
  BY <1>1, <1>3, <1>8 DEF Paid, there
<1> QED
  BY <1>3, <1>9 DEF Later, t

\* An entry that goes may put one that nobody was handed behind the index.
LEMMA RemovalPaid ==
  ASSUME NEW s \in Seq(Name), IsInjective(s), NEW p \in 1 .. Len(s), NEW k \in Nat,
         NEW scan, Paid(s, k, scan), NEW new \in ScanRecord,
         new.seen = scan.seen, new.stayed = scan.stayed \ {s[p]}, new.came = scan.came,
         new.lost = scan.lost + 1, new.hushed = scan.hushed
  PROVE  Paid(RemoveAt(s, p), k, new) /\ Later(scan, new)
<1> DEFINE t == RemoveAt(s, p)
           here == After(s, k)
           there == After(t, k)
<1>1. /\ ToSet(s) \ {s[p]} \subseteq ToSet(t) /\ there \subseteq here
      /\ \E y \in Name : here \subseteq there \cup {y, s[p]}
  BY RemoveShifts
<1> HIDE DEF t, here, there
<1>2. PICK y \in Name : here \subseteq there \cup {y, s[p]}
  BY <1>1
<1>3. /\ scan \in ScanRecord /\ scan.came \in Nat /\ scan.lost \in Nat /\ scan.hushed \in BOOLEAN
      /\ Cardinality(Due(scan, here)) <= scan.came
      /\ ~scan.hushed => Cardinality(Missed(scan, here)) <= scan.lost
      /\ scan.stayed \subseteq ToSet(s)
  BY DEF Paid, ScanRecord, here
<1>4. /\ Cardinality(Due(new, there)) \in Nat /\ Cardinality(Missed(new, there)) \in Nat
      /\ Cardinality(Due(scan, here)) \in Nat /\ Cardinality(Missed(scan, here)) \in Nat
  BY <1>3, Finite, FS_CardinalityType
<1>5. Due(new, there) \subseteq Due(scan, here)
  BY <1>1 DEF Due
<1>6. Missed(new, there) \subseteq Missed(scan, here) \cup {y}
  BY <1>2 DEF Missed
<1>7. /\ Cardinality(Due(new, there)) <= Cardinality(Due(scan, here))
      /\ Cardinality(Missed(new, there)) <= Cardinality(Missed(scan, here)) + 1
  BY <1>3, <1>5, <1>6, Finite, OneMore, NoMore
<1>8. /\ Cardinality(Due(new, there)) <= new.came
      /\ ~new.hushed => Cardinality(Missed(new, there)) <= new.lost
  BY <1>3, <1>4, <1>7
<1>9. Paid(t, k, new)
  BY <1>1, <1>3, <1>8 DEF Paid, there
<1> QED
  BY <1>3, <1>9 DEF Later, t

\* What the scans need of the types.
LEMMA TypeFacts ==
  ASSUME TypeOK, ScanInv
  PROVE  /\ entries \in Seq(Name) /\ IsInjective(entries)
         /\ Len(entries) \in Nat /\ PastAll \in Nat /\ Len(entries) < PastAll
         /\ Open \subseteq Id /\ \A id \in Open : dir_iter_map[id] \in 0 .. PastAll
         /\ past \in [Id -> ScanRecord]
<1>1. entries \in Seq(Name) /\ IsInjective(entries)
  BY EntriesAre DEF TypeOK
<1>2. Len(entries) \in Nat /\ PastAll \in Nat /\ Len(entries) < PastAll
  BY <1>1, EntriesAre, LenProperties, NameAssumption, FS_CardinalityType DEF PastAll
<1>3. Open \subseteq Id /\ \A id \in Open : dir_iter_map[id] \in 0 .. PastAll
  BY DEF Open, TypeOK
<1> QED
  BY <1>1, <1>2, <1>3 DEF ScanInv

\* A read moves one index on and pays for what it does.
LEMMA ReadPaid ==
  ASSUME TypeOK, ScanInv, NEW c \in Caller, NEW id \in Open, NEW broken \in Nat \ {0},
         read_next_dirent(c, id, broken), UNCHANGED entries
  PROVE  /\ Paid(entries, dir_iter_map'[id], past'[id]) /\ Later(past[id], past'[id])
         /\ Item(dir_iter_map[id], broken) = "end" /\ ~past'[id].hushed =>
              After(entries, dir_iter_map[id]) = {}
<1> DEFINE k == dir_iter_map[id]
           scan == past[id]
           new == past'[id]
           item == Item(k, broken)
<1>1. /\ id \in Id /\ k \in Nat /\ k <= PastAll /\ scan \in ScanRecord
      /\ entries \in Seq(Name) /\ IsInjective(entries)
      /\ Len(entries) \in Nat /\ PastAll \in Nat /\ Len(entries) < PastAll
  BY TypeFacts
<1>2. /\ new.seen = IF item \in Name THEN [scan.seen EXCEPT ![item] = Capped(@ + 1, MaxSeen)]
                                     ELSE scan.seen
      /\ new.lost = IF item = "err" THEN scan.lost + 1 ELSE scan.lost
      /\ new.hushed = (scan.hushed \/ broken <= k)
      /\ new.stayed = scan.stayed /\ new.came = scan.came
      /\ new = [seen |-> new.seen, stayed |-> new.stayed, came |-> new.came,
                lost |-> new.lost, hushed |-> new.hushed]
  <2> DEFINE seen == IF item \in Name THEN [scan.seen EXCEPT ![item] = Capped(scan.seen[item] + 1, MaxSeen)]
                                      ELSE scan.seen
             lost == IF item = "err" THEN scan.lost + 1 ELSE scan.lost
             hushed == scan.hushed \/ broken <= k
  <2>1. past \in [Id -> ScanRecord]
    BY TypeFacts
  <2>2. new = AddRead(scan, item, broken <= k)
    BY <1>1, <2>1 DEF read_next_dirent
  <2> HIDE DEF new, scan, item
  <2>3. AddRead(scan, item, broken <= k) =
          [scan EXCEPT !.seen = seen, !.lost = lost, !.hushed = hushed]
    BY DEF AddRead
  <2> HIDE DEF seen, lost, hushed
  <2>4. new = [seen |-> seen, stayed |-> scan.stayed, came |-> scan.came,
               lost |-> lost, hushed |-> hushed]
    BY <1>1, <2>2, <2>3 DEF ScanRecord
  <2> QED
    BY <2>4 DEF seen, lost, hushed
<1>3. dir_iter_map'[id] = Capped(k + 1, PastAll)
  BY <1>1 DEF read_next_dirent, Advance, TypeOK
<1>4. Paid(entries, k, scan)
  BY <1>1 DEF ScanInv
<1>5. MaxSeen \in Nat
  BY BoundAssumption DEF MaxSeen
<1>6. new \in ScanRecord
  <2>1. new.seen \in [Name -> 0 .. MaxSeen]
    BY <1>1, <1>2, <1>5 DEF ScanRecord, Capped
  <2>2. new.lost \in Nat /\ new.stayed \in SUBSET Name /\ new.came \in Nat
    BY <1>1, <1>2 DEF ScanRecord
  <2>3. new.hushed \in BOOLEAN
    BY <1>2
  <2> HIDE DEF new
  <2> QED
    BY <1>2, <2>1, <2>2, <2>3 DEF ScanRecord
<1>7. dir_iter_map'[id] \in {k, k + 1} /\ (k < Len(entries) => dir_iter_map'[id] = k + 1)
  BY <1>1, <1>3 DEF Capped
<1> HIDE DEF new, scan
<1>8. CASE broken > k + 1 /\ k < Len(entries)
  <2>1. item = entries[k + 1] /\ item \in Name
    <3>1. k + 1 \in 1 .. Len(entries) /\ broken # k + 1
      BY <1>1, <1>8
    <3>2. entries[k + 1] \in Name
      BY <1>1, <3>1, ElementOfSeq
    <3> QED
      BY <1>8, <3>1, <3>2 DEF Item
  <2>2. item # "err" /\ item # "end" /\ ~(broken <= k)
    BY <1>1, <1>8, <2>1, NameAssumption
  <2>3. /\ new.seen = [scan.seen EXCEPT ![entries[k + 1]] = Capped(scan.seen[entries[k + 1]] + 1, MaxSeen)]
        /\ new.lost = scan.lost /\ dir_iter_map'[id] = k + 1
    BY <1>2, <1>7, <1>8, <2>1, <2>2
  <2>4. Paid(entries, k + 1, new) /\ Later(scan, new)
    BY <1>1, <1>2, <1>4, <1>6, <1>8, <2>3, EntryPaid
  <2> QED
    BY <2>2, <2>3, <2>4 DEF new, scan
<1>9. CASE broken = k + 1
  <2>1. item = "err" /\ item \notin Name
    BY <1>9, NameAssumption DEF Item
  <2>2. Paid(entries, dir_iter_map'[id], new) /\ Later(scan, new)
    BY <1>1, <1>2, <1>4, <1>6, <1>7, <2>1, NothingPaid
  <2> QED
    BY <2>1, <2>2 DEF new, scan
<1>10. CASE broken # k + 1 /\ ~(broken > k + 1 /\ k < Len(entries))
  <2>1. item = "end" /\ item \notin Name
    BY <1>10, NameAssumption DEF Item
  <2>2. CASE broken <= k
    <3>1. new.hushed
      BY <1>2, <2>2
    <3>2. Paid(entries, dir_iter_map'[id], new) /\ Later(scan, new)
      BY <1>1, <1>2, <1>4, <1>6, <1>7, <2>1, <3>1, NothingPaid
    <3> QED
      BY <3>1, <3>2 DEF new, scan
  <2>3. CASE k >= Len(entries)
    <3>1. Paid(entries, dir_iter_map'[id], new) /\ Later(scan, new)
      BY <1>1, <1>2, <1>4, <1>6, <1>7, <2>1, <2>3, NothingPaid
    <3>2. After(entries, k) = {}
      BY <1>1, <2>3, IndexMovesOn
    <3> QED
      BY <3>1, <3>2 DEF new, scan
  <2> QED
    BY <1>1, <1>10, <2>2, <2>3
<1> QED
  BY <1>8, <1>9, <1>10

\* A scan that a step leaves alone stays paid for.
LEMMA OthersPaid ==
  ASSUME ScanInv, NEW id \in Id,
         UNCHANGED <<entries, dir_name_map[id], dir_iter_map[id], past[id]>>
  PROVE  /\ IF id \in Open' THEN Paid(entries, dir_iter_map[id], past[id])' ELSE past'[id] = Fresh({})
         /\ id \in Open' => id \in Open /\ Later(past[id], past'[id])
<1>1. id \in Open' <=> id \in Open
  BY DEF Open
<1>2. IF id \in Open THEN Paid(entries, dir_iter_map[id], past[id]) ELSE past[id] = Fresh({})
  BY DEF ScanInv
<1>3. Paid(entries, dir_iter_map[id], past[id]) => Later(past[id], past[id])
  BY DEF Later, Paid, ScanRecord
<1> QED
  BY <1>1, <1>2, <1>3

\* Each step pays for what it does to any scan, and begins one only with a new id.
LEMMA ScanStep ==
  ASSUME TypeOK, ScanInv, [Next]_vars
  PROVE  /\ ScanInv'
         /\ \A id \in Open' : (id \in Open /\ Later(past[id], past'[id])) \/ id = next_id
<1> USE DEF Id
<1>1. /\ entries \in Seq(Name) /\ IsInjective(entries) /\ Len(entries) \in Nat
      /\ Open \subseteq Id /\ \A id \in Open : dir_iter_map[id] \in Nat
      /\ past \in [Id -> ScanRecord] /\ PastAll \in Nat
  BY TypeFacts
<1>2. /\ dir_name_map \in [Id -> Path \cup {None}]
      /\ dir_iter_map \in [Id -> (0 .. PastAll) \cup {None}]
  BY DEF TypeOK
<1> DEFINE Kept(id) == IF id \in Open THEN Paid(entries, dir_iter_map[id], past[id])
                                      ELSE past[id] = Fresh({})
           Goes(id) == Kept(id)' /\ (id \in Open' => \/ id \in Open /\ Later(past[id], past'[id])
                                             \/ id = next_id)
<1>3. SUFFICES past' \in [Id -> ScanRecord] /\ \A id \in Id : Goes(id)
  BY DEF ScanInv, Open
<1>4. ASSUME NEW id \in Id,
             UNCHANGED <<entries, dir_name_map[id], dir_iter_map[id], past[id]>>
      PROVE  Goes(id)
  BY <1>4, OthersPaid
<1>5. ASSUME NEW id \in Id, close_dir(id), UNCHANGED entries
      PROVE  past' \in [Id -> ScanRecord] /\ \A i \in Id : Goes(i)
  <2>1. past' \in [Id -> ScanRecord]
    BY <1>1, <1>5, StartsPaid DEF close_dir
  <2>2. Goes(id)
    BY <1>1, <1>2, <1>5 DEF close_dir, Open
  <2>3. ASSUME NEW i \in Id \ {id}
        PROVE  UNCHANGED <<entries, dir_name_map[i], dir_iter_map[i], past[i]>>
    BY <1>1, <1>2, <1>5 DEF close_dir
  <2> QED
    BY <1>4, <2>1, <2>2, <2>3
<1>6. ASSUME UNCHANGED <<entries, dir_name_map, dir_iter_map, past>>
      PROVE  past' \in [Id -> ScanRecord] /\ \A i \in Id : Goes(i)
  BY <1>1, <1>4, <1>6
<1>7. ASSUME NEW c \in Caller, NEW path \in Path, OpenDir(c, path)
      PROVE  past' \in [Id -> ScanRecord] /\ \A i \in Id : Goes(i)
  <2>1. CASE \E id \in Open : share(c, id)
    BY <1>6, <1>7, <2>1 DEF share, store, OpenDir
  <2>2. CASE insert_dir(path) /\ past' = [past EXCEPT ![next_id] = Fresh(ToSet(entries))]
    <3>1. entries' = entries /\ \E id \in Id : id = next_id
      BY <1>7, <2>2 DEF OpenDir, insert_dir
    <3> PICK id \in Id : id = next_id
      BY <3>1
    <3>2. dir_iter_map'[id] = 0 /\ past'[id] = Fresh(ToSet(entries))
      BY <1>1, <1>2, <2>2 DEF insert_dir
    <3>3. id \in Open'
      BY <1>2, <2>2, NoneAssumption DEF insert_dir, Open
    <3>4. Goes(id)
      BY <1>1, <3>1, <3>2, <3>3, StartsPaid
    <3>5. past' \in [Id -> ScanRecord]
      <4>1. Fresh(ToSet(entries)) \in ScanRecord
        BY <1>1, StartsPaid DEF Paid
      <4> QED
        BY <1>1, <2>2, <4>1
    <3>6. ASSUME NEW i \in Id \ {id}
          PROVE  UNCHANGED <<entries, dir_name_map[i], dir_iter_map[i], past[i]>>
      BY <1>1, <1>2, <2>2, <3>1 DEF insert_dir
    <3> QED
      BY <1>4, <3>4, <3>5, <3>6
  <2> QED
    BY <1>7, <2>1, <2>2 DEF OpenDir
<1>8. ASSUME NEW c \in Caller, ReadDir(c)
      PROVE  past' \in [Id -> ScanRecord] /\ \A i \in Id : Goes(i)
  <2>1. UNCHANGED <<entries, dir_name_map>>
    BY <1>8 DEF ReadDir
  <2>2. ASSUME NEW id \in Open, NEW broken \in Nat \ {0}, read_next_dirent(c, id, broken)
        PROVE  past' \in [Id -> ScanRecord] /\ \A i \in Id : Goes(i)
    <3>1. Paid(entries, dir_iter_map'[id], past'[id]) /\ Later(past[id], past'[id])
      BY <2>1, <2>2, ReadPaid
    <3>2. id \in Open'
      BY <2>1 DEF Open
    <3>3. Goes(id)
      BY <2>1, <3>1, <3>2
    <3>4. past' \in [Id -> ScanRecord]
      BY <1>1, <2>2, <3>1 DEF read_next_dirent, Paid
    <3>5. ASSUME NEW i \in Id \ {id}
          PROVE  UNCHANGED <<entries, dir_name_map[i], dir_iter_map[i], past[i]>>
      BY <1>1, <1>2, <2>1, <2>2 DEF read_next_dirent, Advance
    <3> QED
      BY <1>4, <3>3, <3>4, <3>5
  <2>3. Unbroken \in Nat \ {0} /\ 1 .. Len(entries) + 1 \subseteq Nat \ {0}
    BY <1>1 DEF Unbroken
  <2>4. CASE UNCHANGED <<dir_iter_map, past>>
    BY <1>6, <2>1, <2>4
  <2> QED
    BY <1>8, <2>2, <2>3, <2>4 DEF ReadDir
<1>9. ASSUME NEW c \in Caller, CloseDir(c)
      PROVE  past' \in [Id -> ScanRecord] /\ \A i \in Id : Goes(i)
  BY <1>1, <1>5, <1>6, <1>9 DEF CloseDir
<1>10. ASSUME NEW path \in Path, DeleteDir(path)
       PROVE  past' \in [Id -> ScanRecord] /\ \A i \in Id : Goes(i)
  BY <1>1, <1>5, <1>10 DEF DeleteDir
<1>11. ASSUME NEW n \in Name, CreateEntry(n)
       PROVE  past' \in [Id -> ScanRecord] /\ \A i \in Id : Goes(i)
  <2>1. /\ UNCHANGED <<dir_name_map, dir_iter_map>> /\ Open' = Open /\ n \in Name \ ToSet(entries)
    BY <1>11 DEF CreateEntry, Change, store, Open
  <2>2. PICK p \in 1 .. Len(entries) + 1 : entries' = InsertAt(entries, p, n)
    BY <1>11 DEF CreateEntry
  <2>3. ASSUME NEW i \in Id
        PROVE  past'[i] \in ScanRecord /\ Goes(i)
    <3>1. past[i] \in ScanRecord /\ Kept(i)
      BY <1>1 DEF ScanInv
    <3>2. past'[i] = [past[i] EXCEPT !.came = IF i \in Open THEN @ + 1 ELSE @]
      BY <1>11 DEF CreateEntry
    <3>3. /\ past'[i].seen = past[i].seen /\ past'[i].stayed = past[i].stayed
          /\ past'[i].lost = past[i].lost /\ past'[i].hushed = past[i].hushed
          /\ past'[i].came = IF i \in Open THEN past[i].came + 1 ELSE past[i].came
          /\ past'[i] \in ScanRecord /\ (i \notin Open => past'[i] = past[i])
      <4>1. CASE i \in Open
        BY <3>1, <3>2, <4>1 DEF ScanRecord
      <4>2. CASE i \notin Open
        <5>1. past'[i] = past[i]
          BY <3>1, <3>2, <4>2 DEF ScanRecord
        <5> QED
          BY <3>1, <4>2, <5>1
      <4> QED
        BY <4>1, <4>2
    <3>4. CASE i \in Open
      <4>1. Paid(entries', dir_iter_map[i], past'[i]) /\ Later(past[i], past'[i])
        BY <1>1, <2>1, <2>2, <3>1, <3>3, <3>4, CreationPaid
      <4> QED
        BY <2>1, <3>3, <3>4, <4>1
    <3>5. CASE i \notin Open
      BY <2>1, <3>1, <3>3, <3>5
    <3> QED
      BY <3>4, <3>5
  <2> QED
    BY <1>11, <2>3 DEF CreateEntry
<1>12. ASSUME NEW n \in Name, RemoveEntry(n)
       PROVE  past' \in [Id -> ScanRecord] /\ \A i \in Id : Goes(i)
  <2>1. /\ UNCHANGED <<dir_name_map, dir_iter_map>> /\ Open' = Open
    BY <1>12 DEF RemoveEntry, Change, store, Open
  <2>2. PICK p \in 1 .. Len(entries) : entries[p] = n /\ entries' = RemoveAt(entries, p)
    BY <1>12 DEF RemoveEntry
  <2>3. ASSUME NEW i \in Id
        PROVE  past'[i] \in ScanRecord /\ Goes(i)
    <3>1. past[i] \in ScanRecord /\ Kept(i)
      BY <1>1 DEF ScanInv
    <3>2. past'[i] = [past[i] EXCEPT !.lost = IF i \in Open THEN @ + 1 ELSE @,
                                     !.stayed = @ \ {n}]
      BY <1>12 DEF RemoveEntry
    <3>3. /\ past'[i].seen = past[i].seen /\ past'[i].stayed = past[i].stayed \ {n}
          /\ past'[i].came = past[i].came /\ past'[i].hushed = past[i].hushed
          /\ past'[i].lost = IF i \in Open THEN past[i].lost + 1 ELSE past[i].lost
          /\ past'[i] \in ScanRecord
      <4> DEFINE old == past[i]
                 lost == IF i \in Open THEN old.lost + 1 ELSE old.lost
      <4>1. /\ old.seen \in [Name -> 0 .. MaxSeen] /\ old.stayed \in SUBSET Name
            /\ old.came \in Nat /\ lost \in Nat /\ old.hushed \in BOOLEAN
        BY <3>1 DEF ScanRecord
      <4>2. past'[i] = [old EXCEPT !.lost = lost, !.stayed = old.stayed \ {n}]
        BY <3>2
      <4>3. old \in ScanRecord
        BY <3>1
      <4> HIDE DEF old, lost
      <4>4. past'[i] = [seen |-> old.seen, stayed |-> old.stayed \ {n}, came |-> old.came,
                        lost |-> lost, hushed |-> old.hushed]
        BY <4>2, <4>3 DEF ScanRecord
      <4>5. old.stayed \ {n} \in SUBSET Name
        BY <4>1
      <4>6. past'[i] \in ScanRecord
        BY <4>1, <4>4, <4>5 DEF ScanRecord
      <4> QED
        BY <4>4, <4>6 DEF old, lost
    <3>4. CASE i \in Open
      <4>1. Paid(entries', dir_iter_map[i], past'[i]) /\ Later(past[i], past'[i])
        BY <1>1, <2>1, <2>2, <3>1, <3>3, <3>4, RemovalPaid
      <4> QED
        BY <2>1, <3>3, <3>4, <4>1
    <3>5. CASE i \notin Open
      <4>1. past[i] = Fresh({})
        BY <3>1, <3>5
      <4>2. /\ past'[i].seen = [m \in Name |-> 0] /\ past'[i].stayed = {}
            /\ past'[i].came = 0 /\ past'[i].lost = 0 /\ past'[i].hushed = FALSE
        BY <3>3, <3>5, <4>1 DEF Fresh
      <4>3. past'[i] = Fresh({})
        BY <3>3, <4>2 DEF Fresh, ScanRecord
      <4> QED
        BY <2>1, <3>3, <3>5, <4>3
    <3> QED
      BY <3>4, <3>5
  <2> QED
    BY <1>12, <2>3 DEF RemoveEntry
<1>13. CASE UNCHANGED vars
  BY <1>6, <1>13 DEF vars, store
<1> QED
  BY <1>7, <1>8, <1>9, <1>10, <1>11, <1>12, <1>13 DEF Next


\* Each scan has paid for its repetitions and its misses.
LEMMA ScanInvariant == Spec => []ScanInv
<1>1. Init => ScanInv
  <2> SUFFICES ASSUME Init PROVE ScanInv
    OBVIOUS
  <2>1. Open = {} /\ past = [id \in Id |-> Fresh({})] /\ Fresh({}) \in ScanRecord
    BY InitEntries, StartsPaid DEF Init, Open
  <2> QED
    BY <2>1 DEF ScanInv
<1> QED
  BY <1>1, ScanStep, TypeCorrect, PTL DEF Spec

\* However callers share an index, and whatever is created and removed meanwhile, a
\* scan repeats no more entries than were created since it began.
THEOREM RepeatsArePaid == Spec => []RepeatsNeedCreate
<1>1. TypeOK /\ ScanInv => RepeatsNeedCreate
  <2> SUFFICES ASSUME TypeOK, ScanInv, NEW id \in Id
               PROVE  Cardinality(Repeats(id)) <= past[id].came
    BY DEF RepeatsNeedCreate
  <2>1. past[id] \in ScanRecord
    BY TypeFacts
  <2>2. CASE id \in Open
    <3> DEFINE due == Due(past[id], After(entries, dir_iter_map[id]))
    <3>1. Repeats(id) \subseteq due
      BY <2>1 DEF Repeats, Due, ScanRecord
    <3>2. IsFiniteSet(due) /\ Cardinality(due) <= past[id].came
      BY <2>1, <2>2, Finite DEF ScanInv, Paid
    <3>3. past[id].came \in Nat
      BY <2>1 DEF ScanRecord
    <3>4. Cardinality(Repeats(id)) <= Cardinality(due) /\ Cardinality(due) \in Nat
          /\ IsFiniteSet(Repeats(id))
      BY <3>1, <3>2, NoMore, FS_Subset, FS_CardinalityType
    <3>5. Cardinality(Repeats(id)) \in Nat
      BY <3>4, FS_CardinalityType
    <3> QED
      BY <3>2, <3>3, <3>4, <3>5
  <2>3. CASE id \notin Open
    <3>1. past[id].came = 0 /\ \A n \in Name : past[id].seen[n] = 0
      BY <2>3 DEF ScanInv, Fresh
    <3>2. Repeats(id) = {}
      BY <3>1, BoundAssumption DEF Repeats, MaxSeen
    <3>3. Cardinality({}) = 0
      BY FS_EmptySet
    <3> QED
      BY <3>1, <3>2, <3>3
  <2> QED
    BY <2>2, <2>3
<1> QED
  BY <1>1, TypeCorrect, ScanInvariant, PTL

\* What a scan has not handed out of what was there all the time.
Unread(scan) == {n \in scan.stayed : scan.seen[n] = 0}

\* Whoever is told of the end has, with those who share the id, been handed all that
\* was there all the time but for one entry for each removal and each error; what is
\* created or removed after the end changes nothing in that.
THEOREM EndIsTheEnd == Spec => []EndMeansAllRead
<1>1. Init => EndMeansAllRead
  BY NoneAssumption DEF Init, EndMeansAllRead
<1>2. ASSUME TypeOK, ScanInv, ScanInv', EndMeansAllRead, [Next]_vars
      PROVE  EndMeansAllRead'
  <2> SUFFICES ASSUME NEW c \in Caller, answer'[c] = "end", reads'[c] \in Open',
                      ~past'[reads'[c]].hushed
               PROVE  Cardinality(Unread(past'[reads'[c]])) <= past'[reads'[c]].lost
    BY DEF EndMeansAllRead, Unread
  <2> PICK id \in Open' : id = reads'[c]
    OBVIOUS
  <2>1. id \in Id /\ past'[id] \in ScanRecord
    BY <1>2 DEF Open, ScanInv
  <2>2. /\ answer \in [Caller -> {"more", "end", "err"}]
        /\ reads \in [Caller -> (0 .. next_id - 1) \cup {None}] /\ next_id \in Nat
    BY <1>2, BoundAssumption DEF TypeOK
  <2>3. ASSUME answer[c] = "end", reads[c] = id
        PROVE  Cardinality(Unread(past'[id])) <= past'[id].lost
    <3>1. id # next_id
      BY <2>1, <2>2, <2>3, NoneAssumption DEF Id
    <3>2. id \in Open /\ Later(past[id], past'[id])
      BY <1>2, <3>1, ScanStep
    <3>3. past[id] \in ScanRecord
      BY <1>2, <2>1 DEF ScanInv
    <3>4. ~past[id].hushed /\ past[id].lost <= past'[id].lost
      BY <3>2 DEF Later
    <3>5. Cardinality(Unread(past[id])) <= past[id].lost
      BY <1>2, <2>3, <3>2, <3>4 DEF EndMeansAllRead, Unread
    <3>6. Unread(past'[id]) \subseteq Unread(past[id]) /\ Unread(past[id]) \subseteq Name
      BY <2>1, <3>2, <3>3 DEF Later, Unread, ScanRecord
    <3>7. IsFiniteSet(Unread(past[id])) /\ IsFiniteSet(Unread(past'[id]))
      BY <3>6, NameAssumption, FS_Subset
    <3>8. /\ Cardinality(Unread(past'[id])) <= Cardinality(Unread(past[id]))
          /\ Cardinality(Unread(past'[id])) \in Nat /\ Cardinality(Unread(past[id])) \in Nat
      BY <3>6, <3>7, NoMore, FS_CardinalityType
    <3>9. past[id].lost \in Nat /\ past'[id].lost \in Nat
      BY <2>1, <3>3 DEF ScanRecord
    <3> QED
      BY <3>4, <3>5, <3>8, <3>9
  <2>4. ASSUME ReadDir(c)
        PROVE  Cardinality(Unread(past'[id])) <= past'[id].lost
    <3>1. reads[c] = id /\ entries' = entries /\ Open' = Open
      BY <2>4 DEF ReadDir, Open
    <3>2. PICK broken \in Nat \ {0} : read_next_dirent(c, id, broken)
      <4>1. Unbroken \in Nat \ {0} /\ 1 .. Len(entries) + 1 \subseteq Nat \ {0}
        BY <1>2, TypeFacts DEF Unbroken
      <4> QED
        BY <2>4, <3>1, <4>1 DEF ReadDir
    <3>3. Item(dir_iter_map[id], broken) = "end"
      BY <2>2, <3>2 DEF read_next_dirent, Answers
    <3>4. /\ Paid(entries, dir_iter_map'[id], past'[id])
          /\ After(entries, dir_iter_map[id]) = {}
      BY <1>2, <3>1, <3>2, <3>3, ReadPaid
    <3>5. After(entries, dir_iter_map'[id]) = {}
      <4>1. /\ entries \in Seq(Name) /\ IsInjective(entries) /\ Len(entries) \in Nat
            /\ PastAll \in Nat /\ Len(entries) < PastAll /\ dir_iter_map[id] \in Nat
        BY <1>2, <3>1, TypeFacts
      <4>2. dir_iter_map[id] >= Len(entries)
        <5>1. dir_iter_map[id] < Len(entries) => After(entries, dir_iter_map[id]) # {}
          <6>1. dir_iter_map[id] < Len(entries) => After(entries, dir_iter_map[id])
                  = After(entries, dir_iter_map[id] + 1) \cup {entries[dir_iter_map[id] + 1]}
            BY <4>1, IndexMovesOn
          <6> QED
            BY <6>1
        <5> QED
          BY <3>4, <4>1, <5>1
      <4>3. dir_iter_map'[id] = Capped(dir_iter_map[id] + 1, PastAll)
        BY <1>2, <2>1, <3>2 DEF read_next_dirent, Advance, TypeOK
      <4>4. dir_iter_map'[id] \in Nat /\ dir_iter_map'[id] >= Len(entries)
        BY <4>1, <4>2, <4>3 DEF Capped
      <4> QED
        BY <4>1, <4>4, IndexMovesOn
    <3>6. Missed(past'[id], {}) = Unread(past'[id])
      BY DEF Missed, Unread
    <3> QED
      BY <3>4, <3>5, <3>6 DEF Paid
  <2>5. ASSUME answer'[c] = answer[c], reads'[c] = reads[c]
        PROVE  Cardinality(Unread(past'[id])) <= past'[id].lost
    BY <2>3, <2>5
  <2>6. ASSUME NEW d \in Caller, ReadDir(d) \/ CloseDir(d) \/ \E path \in Path : OpenDir(d, path)
        PROVE  Cardinality(Unread(past'[id])) <= past'[id].lost
    <3>1. d # c => answer'[c] = answer[c] /\ reads'[c] = reads[c]
      BY <2>2, <2>6 DEF ReadDir, CloseDir, OpenDir, share, read_next_dirent, Answers
    <3>2. d = c => ReadDir(c)
      BY <2>2, <2>6 DEF CloseDir, OpenDir, Answers
    <3> QED
      BY <2>4, <2>5, <3>1, <3>2
  <2>7. ASSUME \/ \E path \in Path : DeleteDir(path)
               \/ \E n \in Name : CreateEntry(n) \/ RemoveEntry(n)
               \/ UNCHANGED vars
        PROVE  Cardinality(Unread(past'[id])) <= past'[id].lost
    <3>1. answer' = answer /\ reads' = reads
      BY <2>7 DEF DeleteDir, CreateEntry, RemoveEntry, Change, vars
    <3> QED
      BY <2>5, <3>1
  <2> QED
    BY <1>2, <2>6, <2>7 DEF Next
<1> QED
  BY <1>1, <1>2, TypeCorrect, ScanInvariant, PTL DEF Spec
===============================================================================
