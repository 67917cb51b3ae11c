--------------------------- MODULE History_proofs ---------------------------
(***************************************************************************)
(* What a bounded buffer keeps of a history, and the index arithmetic of a *)
(* ring of slots: shared by the proofs about the screen's scrollback, the  *)
(* ring that holds it, and the action log.                                 *)
(***************************************************************************)
EXTENDS History, SequenceTheorems, TLAPS

\* What a bounded buffer keeps, and how much.
LEMMA KeepType ==
    ASSUME NEW S, NEW s \in Seq(S), NEW cap \in Nat
    PROVE /\ Keep(cap, s) \in Seq(S)
          /\ Len(Keep(cap, s)) = IF Len(s) > cap THEN cap ELSE Len(s)
          /\ \A i \in 1 .. Len(Keep(cap, s)) :
                Keep(cap, s)[i] = s[Len(s) - Len(Keep(cap, s)) + i]
<1>1. CASE Len(s) > cap
  <2>1. /\ Len(s) - cap + 1 \in 1 .. Len(s) + 1
        /\ Len(s) \in Nat
    BY <1>1, LenProperties
  <2>2. Keep(cap, s) = SubSeq(s, Len(s) - cap + 1, Len(s))
    BY <1>1 DEF Keep
  <2> QED BY <1>1, <2>1, <2>2, SubSeqProperties
<1>2. CASE ~(Len(s) > cap)
  BY <1>2, LenProperties DEF Keep
<1> QED BY <1>1, <1>2

\* Putting one more item into a buffer that is not full.
LEMMA KeepAppend ==
    ASSUME NEW S, NEW s \in Seq(S), NEW x \in S, NEW cap \in Nat \ {0},
           Len(s) < cap
    PROVE Keep(cap, Append(s, x)) = Append(s, x)
<1>1. Len(s) \in Nat /\ Len(Append(s, x)) = Len(s) + 1
  BY LenProperties, AppendProperties
<1>2. ~(Len(Append(s, x)) > cap)
  BY <1>1
<1> QED BY <1>2 DEF Keep

\* Putting one more item into a full buffer: the oldest leaves.
LEMMA KeepFull ==
    ASSUME NEW S, NEW s \in Seq(S), NEW x \in S, NEW cap \in Nat \ {0},
           Len(s) = cap
    PROVE /\ Keep(cap, Append(s, x)) \in Seq(S)
          /\ Len(Keep(cap, Append(s, x))) = cap
          /\ \A i \in 1 .. cap : Keep(cap, Append(s, x))[i] =
                                    IF i < cap THEN s[i + 1] ELSE x
<1> DEFINE a == Append(s, x)
<1>1. /\ a \in Seq(S) /\ Len(a) = cap + 1
      /\ \A i \in 1 .. cap : a[i] = s[i]
      /\ a[cap + 1] = x
  BY AppendProperties
<1> HIDE DEF a
<1>2. cap \in Nat /\ Len(a) > cap
  BY <1>1
<1>3. /\ Keep(cap, a) \in Seq(S)
      /\ Len(Keep(cap, a)) = IF Len(a) > cap THEN cap ELSE Len(a)
      /\ \A i \in 1 .. Len(Keep(cap, a)) :
            Keep(cap, a)[i] = a[Len(a) - Len(Keep(cap, a)) + i]
  BY <1>1, <1>2, KeepType
<1>4. \A i \in 1 .. cap : Keep(cap, a)[i] = a[i + 1]
  BY <1>1, <1>2, <1>3
<1>5. \A i \in 1 .. cap : a[i + 1] = IF i < cap THEN s[i + 1] ELSE x
  BY <1>1
<1>6. Len(Keep(cap, a)) = cap
  BY <1>2, <1>3
<1> QED BY <1>3, <1>4, <1>5, <1>6 DEF a

\* What has left the buffer does not matter to what comes into it.
LEMMA KeepKeep ==
    ASSUME NEW S, NEW s \in Seq(S), NEW x \in S, NEW cap \in Nat \ {0}
    PROVE Keep(cap, Append(Keep(cap, s), x)) = Keep(cap, Append(s, x))
<1> DEFINE t == Keep(cap, s)
           a == Append(s, x)
<1>1. Len(s) \in Nat /\ cap \in Nat
  BY LenProperties
<1>2. CASE Len(s) < cap
  <2>1. t = s
    BY <1>1, <1>2 DEF Keep
  <2> QED BY <2>1
<1>3. CASE ~(Len(s) < cap)
  <2>1. /\ t \in Seq(S) /\ Len(t) = cap
        /\ \A i \in 1 .. cap : t[i] = s[Len(s) - cap + i]
    <3> HIDE DEF t
    <3>1. /\ t \in Seq(S)
          /\ Len(t) = IF Len(s) > cap THEN cap ELSE Len(s)
          /\ \A i \in 1 .. Len(t) : t[i] = s[Len(s) - Len(t) + i]
      BY <1>1, KeepType DEF t
    <3>2. Len(t) = cap
      BY <1>1, <1>3, <3>1
    <3> QED BY <3>1, <3>2
  <2>2. /\ a \in Seq(S) /\ Len(a) = Len(s) + 1
        /\ \A i \in 1 .. Len(s) : a[i] = s[i]
        /\ a[Len(s) + 1] = x
    BY AppendProperties
  <2> HIDE DEF t, a
  <2>3. /\ Keep(cap, Append(t, x)) \in Seq(S)
        /\ Len(Keep(cap, Append(t, x))) = cap
        /\ \A i \in 1 .. cap : Keep(cap, Append(t, x))[i] =
                                  IF i < cap THEN t[i + 1] ELSE x
    <3>1. t \in Seq(S) /\ Len(t) = cap
      BY <2>1
    <3>2. /\ Keep(cap, Append(t, x)) \in Seq(S)
          /\ Len(Keep(cap, Append(t, x))) = cap
      BY ONLY <3>1, x \in S, cap \in Nat \ {0}, KeepFull
    <3>3. \A i \in 1 .. cap : Keep(cap, Append(t, x))[i] =
                               IF i < cap THEN t[i + 1] ELSE x
      BY ONLY <3>1, x \in S, cap \in Nat \ {0}, KeepFull
    <3> QED BY <3>2, <3>3
  <2>4. /\ Keep(cap, a) \in Seq(S) /\ Len(Keep(cap, a)) = cap
        /\ \A i \in 1 .. cap : Keep(cap, a)[i] = a[Len(a) - cap + i]
    <3>1. /\ Keep(cap, a) \in Seq(S)
          /\ Len(Keep(cap, a)) = IF Len(a) > cap THEN cap ELSE Len(a)
          /\ \A i \in 1 .. Len(Keep(cap, a)) :
                Keep(cap, a)[i] = a[Len(a) - Len(Keep(cap, a)) + i]
      BY <1>1, <2>2, KeepType
    <3>2. Len(Keep(cap, a)) = cap
      BY <1>1, <1>3, <2>2, <3>1
    <3> QED BY <3>1, <3>2
  <2>5. \A i \in 1 .. cap : Keep(cap, Append(t, x))[i] = Keep(cap, a)[i]
    <3> SUFFICES ASSUME NEW i \in 1 .. cap
                 PROVE Keep(cap, Append(t, x))[i] = Keep(cap, a)[i]
      OBVIOUS
    <3>1. CASE i < cap
      <4>1. i + 1 \in 1 .. cap
        BY <1>1, <3>1
      <4>2. Keep(cap, Append(t, x))[i] = s[Len(s) - cap + (i + 1)]
        BY <2>1, <2>3, <3>1, <4>1
      <4>3. /\ Len(s) - cap + (i + 1) = Len(a) - cap + i
            /\ Len(a) - cap + i \in 1 .. Len(s)
        <5>1. Len(a) = Len(s) + 1 /\ i \in Nat /\ i >= 1
          BY <1>1, <2>2
        <5> QED BY <1>1, <1>3, <3>1, <5>1
      <4> QED BY <2>2, <2>4, <4>2, <4>3
    <3>2. CASE i = cap
      BY <1>1, <1>3, <2>2, <2>3, <2>4, <3>2
    <3> QED BY <3>1, <3>2
  <2>6. Keep(cap, Append(t, x)) = Keep(cap, a)
    BY <2>3, <2>4, <2>5, SeqEqual
  <2> QED BY <2>6 DEF t, a
<1> QED BY <1>2, <1>3
-----------------------------------------------------------------------------
\* The remainder of a division is the only one there is.
LEMMA RemainderUnique ==
    ASSUME NEW c \in Nat \ {0}, NEW q \in Nat, NEW r \in 0 .. c - 1
    PROVE ((c * q) + r) % c = r
<1> DEFINE x == (c * q) + r
           p == x \div c
           m == x % c
<1>1. x \in Nat
  OBVIOUS
<1>2. x = (c * p) + m /\ m \in 0 .. c - 1 /\ p \in Nat
  BY <1>1
<1>3. (c * p) + m = (c * q) + r
  BY <1>2
<1> HIDE DEF x, p, m
<1>4. ASSUME p > q PROVE FALSE
  <2>1. p = q + 1 + (p - q - 1) /\ p - q - 1 \in Nat
    BY <1>2, <1>4
  <2>2. c * p = (c * q) + c + (c * (p - q - 1)) /\ c * (p - q - 1) >= 0
    BY <2>1
  <2> QED BY <1>2, <1>3, <2>2
<1>5. ASSUME p < q PROVE FALSE
  <2>1. q = p + 1 + (q - p - 1) /\ q - p - 1 \in Nat
    BY <1>2, <1>5
  <2>2. c * q = (c * p) + c + (c * (q - p - 1)) /\ c * (q - p - 1) >= 0
    BY <1>2, <2>1
  <2> QED BY <1>2, <1>3, <2>2
<1>6. p = q
  BY <1>2, <1>4, <1>5
<1>7. m = r
  BY <1>2, <1>3, <1>6
<1> QED BY <1>7 DEF m, x

\* One step round a ring of c slots, and any step of less than a round.
LEMMA StepRound ==
    ASSUME NEW c \in Nat \ {0}, NEW a \in Nat, NEW i \in 0 .. c
    PROVE /\ (a + i) % c \in 0 .. c - 1
          /\ (a + i) % c = IF (a % c) + i < c THEN (a % c) + i
                                              ELSE (a % c) + i - c
<1> DEFINE q == a \div c
           r == a % c
<1>1. a = (c * q) + r /\ r \in 0 .. c - 1 /\ q \in Nat
  OBVIOUS
<1> HIDE DEF q, r
<1>2. CASE r + i < c
  <2>1. a + i = (c * q) + (r + i) /\ r + i \in 0 .. c - 1
    BY <1>1, <1>2
  <2>2. (a + i) % c = r + i
    BY <1>1, <2>1, RemainderUnique
  <2> QED BY <1>2, <2>1, <2>2 DEF r
<1>3. CASE ~(r + i < c)
  <2>1. r + i - c \in 0 .. c - 1 /\ q + 1 \in Nat
    BY <1>1, <1>3, SMTT(20)
  <2>2. a + i = (c * (q + 1)) + (r + i - c)
    <3>1. c * (q + 1) = (c * q) + c
      BY <1>1
    <3> QED BY <1>1, <3>1
  <2>3. (a + i) % c = r + i - c
    BY <2>1, <2>2, RemainderUnique
  <2> QED BY <1>3, <2>1, <2>3 DEF r
<1> QED BY <1>2, <1>3

LEMMA SmallRemainder ==
    ASSUME NEW c \in Nat \ {0}, NEW a \in 0 .. c - 1 PROVE a % c = a
<1>1. a = (c * 0) + a
  OBVIOUS
<1> QED BY <1>1, RemainderUnique

\* A round further on is the same slot.
LEMMA RoundLater ==
    ASSUME NEW c \in Nat \ {0}, NEW a \in Nat, NEW i \in 0 .. c
    PROVE (((a + c) % c) + i) % c = (a + i) % c
<1>1. c \in 0 .. c /\ a % c \in Nat /\ a % c < c
  OBVIOUS
<1>2. (a + c) % c = a % c
  <2>1. (a + c) % c = IF (a % c) + c < c THEN (a % c) + c ELSE (a % c) + c - c
    BY <1>1, StepRound
  <2> QED BY <1>1, <2>1
<1>3. /\ ((a % c) + i) % c = IF ((a % c) % c) + i < c THEN ((a % c) % c) + i
                                                   ELSE ((a % c) % c) + i - c
      /\ (a + i) % c = IF (a % c) + i < c THEN (a % c) + i
                                          ELSE (a % c) + i - c
  BY <1>1, StepRound
<1>4. (a % c) % c = a % c
  BY <1>1, SmallRemainder
<1> QED BY <1>2, <1>3, <1>4
=============================================================================
