-------------------------- MODULE Connection_proofs --------------------------
(***************************************************************************)
(* A connection.  No handle of it leaks and none of another's is touched,  *)
(* for any number of handles and of other goroutines' ones: by what each   *)
(* kind of connection holds before each call of its opening, and before    *)
(* each use of its closing.  And its bytes on their way to the screen, all *)
(* of them, however they are cut and whoever writes between.               *)
(***************************************************************************)
EXTENDS Connection, SharedScreen, SequenceTheorems, FiniteSetTheorems, TLAPS

(***************************************************************************)
(* The tables of calls: what is held before each call, and after the last. *)
(***************************************************************************)
KeptWindows ==
    <<{}, {"inRead", "inWrite"}, Pipes, Started,
      Started \union {"attrs"}, Started \union {"attrs"}, Started \union {"attrs"},
      Started \union {"attrs", "proc"}>>
KeptLinux ==
    <<{}, {"master"}, {"master"}, {"master"}, {"master", "slave"},
      {"master", "slave"}, {"master", "proc"}>>
KeptSSH ==
    <<{}, {}, {"agent"}, {"agent"}, {"agent", "client"},
      {"agent", "client", "session"}, {"agent", "client", "session"}>>
KeptMUD == <<{}, {"socket"}>>

Kept == CASE kind = "windows" -> KeptWindows
          [] kind = "linux"   -> KeptLinux
          [] kind = "ssh"     -> KeptSSH
          [] kind = "mud"     -> KeptMUD

\* A call made while the names in k are held leaves those in l held, takes two
\* handles at most, and gives up all but the agent's when it fails.
Fits(call, k, l) ==
    /\ l = (k \union call.takes) \ call.gives
    /\ call.gives \subseteq k \union call.takes /\ "agent" \notin call.gives
    /\ k \ {"agent"} \subseteq call.undo
    /\ call.takes \subseteq Names \ k
    /\ "agent" \in call.takes => call.gives = {}
    /\ \E p, q : call.takes \subseteq {p, q}
    /\ \E a, b, c, d \in Names : k \subseteq {a, b, c, d}

LEMMA WindowsFits ==
    /\ Len(OpenWindows) = 7
    /\ \A i \in 1 .. 7 : Fits(OpenWindows[i], KeptWindows[i], KeptWindows[i + 1])
<1> USE DEF OpenWindows, KeptWindows, Call, Fits, Pipes, Started, Names
<1>1. Fits(OpenWindows[1], KeptWindows[1], KeptWindows[2])
  OBVIOUS
<1>2. Fits(OpenWindows[2], KeptWindows[2], KeptWindows[3])
  OBVIOUS
<1>3. Fits(OpenWindows[3], KeptWindows[3], KeptWindows[4])
  OBVIOUS
<1>4. Fits(OpenWindows[4], KeptWindows[4], KeptWindows[5])
  OBVIOUS
<1>5. Fits(OpenWindows[5], KeptWindows[5], KeptWindows[6])
  OBVIOUS
<1>6. Fits(OpenWindows[6], KeptWindows[6], KeptWindows[7])
  OBVIOUS
<1>7. Fits(OpenWindows[7], KeptWindows[7], KeptWindows[8])
  OBVIOUS
<1>8. Len(OpenWindows) = 7
  OBVIOUS
<1> HIDE DEF OpenWindows, KeptWindows, Fits
<1> QED BY <1>1, <1>2, <1>3, <1>4, <1>5, <1>6, <1>7, <1>8

LEMMA LinuxFits ==
    /\ Len(OpenLinux) = 6
    /\ \A i \in 1 .. 6 : Fits(OpenLinux[i], KeptLinux[i], KeptLinux[i + 1])
<1> USE DEF OpenLinux, KeptLinux, Call, Fits, Names
<1>1. Fits(OpenLinux[1], KeptLinux[1], KeptLinux[2])
  OBVIOUS
<1>2. Fits(OpenLinux[2], KeptLinux[2], KeptLinux[3])
  OBVIOUS
<1>3. Fits(OpenLinux[3], KeptLinux[3], KeptLinux[4])
  OBVIOUS
<1>4. Fits(OpenLinux[4], KeptLinux[4], KeptLinux[5])
  OBVIOUS
<1>5. Fits(OpenLinux[5], KeptLinux[5], KeptLinux[6])
  OBVIOUS
<1>6. Fits(OpenLinux[6], KeptLinux[6], KeptLinux[7])
  OBVIOUS
<1>7. Len(OpenLinux) = 6
  OBVIOUS
<1> HIDE DEF OpenLinux, KeptLinux, Fits
<1> QED BY <1>1, <1>2, <1>3, <1>4, <1>5, <1>6, <1>7

LEMMA SSHFits ==
    /\ Len(DialSSH) = 6
    /\ \A i \in 1 .. 6 : Fits(DialSSH[i], KeptSSH[i], KeptSSH[i + 1])
<1> USE DEF DialSSH, KeptSSH, Call, Fits, Names
<1>1. Fits(DialSSH[1], KeptSSH[1], KeptSSH[2])
  OBVIOUS
<1>2. Fits(DialSSH[2], KeptSSH[2], KeptSSH[3])
  OBVIOUS
<1>3. Fits(DialSSH[3], KeptSSH[3], KeptSSH[4])
  OBVIOUS
<1>4. Fits(DialSSH[4], KeptSSH[4], KeptSSH[5])
  OBVIOUS
<1>5. Fits(DialSSH[5], KeptSSH[5], KeptSSH[6])
  OBVIOUS
<1>6. Fits(DialSSH[6], KeptSSH[6], KeptSSH[7])
  OBVIOUS
<1>7. Len(DialSSH) = 6
  OBVIOUS
<1> HIDE DEF DialSSH, KeptSSH, Fits
<1> QED BY <1>1, <1>2, <1>3, <1>4, <1>5, <1>6, <1>7

LEMMA MUDFits == Len(DialMUD) = 1 /\ Fits(DialMUD[1], KeptMUD[1], KeptMUD[2])
BY DEF DialMUD, KeptMUD, Call, Fits, Names

\* What is still to be closed at a step of Close.
Rest(i) == {Order[j] : j \in i .. Len(Order)}

LEMMA CallsFit ==
    ASSUME kind \in Kinds
    PROVE /\ Len(Calls) \in Nat
          /\ Kept[1] = {}
          /\ \A i \in 1 .. Len(Calls) : Fits(Calls[i], Kept[i], Kept[i + 1])
<1>1. CASE kind = "windows"
  <2>1. Calls = OpenWindows /\ Kept = KeptWindows
    BY <1>1 DEF Calls, Kept
  <2>2. KeptWindows[1] = {}
    BY DEF KeptWindows
  <2> QED BY <2>1, <2>2, WindowsFits
<1>2. CASE kind = "linux"
  <2>1. Calls = OpenLinux /\ Kept = KeptLinux
    BY <1>2 DEF Calls, Kept
  <2>2. KeptLinux[1] = {}
    BY DEF KeptLinux
  <2> QED BY <2>1, <2>2, LinuxFits
<1>3. CASE kind = "ssh"
  <2>1. Calls = DialSSH /\ Kept = KeptSSH
    BY <1>3 DEF Calls, Kept
  <2>2. KeptSSH[1] = {}
    BY DEF KeptSSH
  <2> QED BY <2>1, <2>2, SSHFits
<1>4. CASE kind = "mud"
  <2>1. Calls = DialMUD /\ Kept = KeptMUD
    BY <1>4 DEF Calls, Kept
  <2>2. KeptMUD[1] = {}
    BY DEF KeptMUD
  <2> QED BY <2>1, <2>2, MUDFits
<1> QED BY <1>1, <1>2, <1>3, <1>4 DEF Kinds

\* Close uses what opening has left, but for the agent's socket.
LEMMA OrderFits ==
    ASSUME kind \in Kinds
    PROVE /\ Len(Order) \in Nat
          /\ \A j \in 1 .. Len(Order) : Order[j] \in Names \ {"agent"}
          /\ Rest(1) = Kept[Len(Calls) + 1] \ {"agent"}
<1>1. CASE kind = "windows"
  <2> DEFINE o == <<"proc", "proc", "attrs", "console", "outRead", "inWrite">>
  <2>1. Order = o /\ Len(Order) = 6
    BY <1>1 DEF Order
  <2>2. Kept[Len(Calls) + 1] = Started \union {"attrs", "proc"}
    <3>1. Calls = OpenWindows /\ Kept = KeptWindows
      BY <1>1 DEF Calls, Kept
    <3> QED BY <3>1, WindowsFits DEF KeptWindows
  <2>3. Rest(1) = {o[1], o[2], o[3], o[4], o[5], o[6]}
    BY <2>1 DEF Rest
  <2> QED BY <2>1, <2>2, <2>3 DEF Started, Names
<1>2. CASE kind = "linux"
  <2> DEFINE o == <<"proc", "proc", "master">>
  <2>1. Order = o /\ Len(Order) = 3
    BY <1>2 DEF Order
  <2>2. Kept[Len(Calls) + 1] = {"master", "proc"}
    <3>1. Calls = OpenLinux /\ Kept = KeptLinux
      BY <1>2 DEF Calls, Kept
    <3> QED BY <3>1, LinuxFits DEF KeptLinux
  <2>3. Rest(1) = {o[1], o[2], o[3]}
    BY <2>1 DEF Rest
  <2> QED BY <2>1, <2>2, <2>3 DEF Names
<1>3. CASE kind = "ssh"
  <2> DEFINE o == <<"session", "client">>
  <2>1. Order = o /\ Len(Order) = 2
    BY <1>3 DEF Order
  <2>2. Kept[Len(Calls) + 1] = {"agent", "client", "session"}
    <3>1. Calls = DialSSH /\ Kept = KeptSSH
      BY <1>3 DEF Calls, Kept
    <3> QED BY <3>1, SSHFits DEF KeptSSH
  <2>3. Rest(1) = {o[1], o[2]}
    BY <2>1 DEF Rest
  <2> QED BY <2>1, <2>2, <2>3 DEF Names
<1>4. CASE kind = "mud"
  <2> DEFINE o == <<"socket">>
  <2>1. Order = o /\ Len(Order) = 1
    BY <1>4 DEF Order
  <2>2. Kept[Len(Calls) + 1] = {"socket"}
    <3>1. Calls = DialMUD /\ Kept = KeptMUD
      BY <1>4 DEF Calls, Kept
    <3> QED BY <3>1, MUDFits DEF KeptMUD
  <2>3. Rest(1) = {o[1]}
    BY <2>1 DEF Rest
  <2> QED BY <2>1, <2>2, <2>3 DEF Names
<1> QED BY <1>1, <1>2, <1>3, <1>4 DEF Kinds
-----------------------------------------------------------------------------
(***************************************************************************)
(* The invariant: where the handles are.                                   *)
(***************************************************************************)
\* The connection has no handles but those of the names in k, and has these; it
\* may do without an agent.
HeldBy(o, t, k) ==
    /\ {h \in Handles : t[h] = "conn"} \subseteq {o[n] : n \in k}
    /\ \A n \in k \ {"agent"} : o[n] \in Handles /\ t[o[n]] = "conn"
    /\ \A m, n \in k \ {"agent"} : o[m] = o[n] => m = n
Held(k) == HeldBy(own, table, k)

TypeInv ==
    /\ kind \in Kinds /\ pc \in {"open", "failed", "running", "closing", "exited"}
    /\ step \in Nat \ {0} /\ closes \in Nat
    /\ own \in [Names -> Handles \union {0}] /\ dropped \in SUBSET Names
    /\ table \in [Handles -> {"free", "conn", "other"}]
    /\ Cardinality(Owned("other")) <= MaxOthers

OpenInv ==
    /\ pc = "open" => step <= Len(Calls) + 1 /\ Held(Kept[step])
    /\ pc = "running" => Held(Kept[Len(Calls) + 1])
    /\ pc = "failed" => Held({"agent"})
    /\ pc \in {"open", "running", "failed"} =>
          closes = 0 /\ touched = {} /\ dropped = {}

\* In the first Close what it has still to use is held, and what it has used up
\* is known to be released; in the second nothing is held any more.
CloseInv ==
    /\ pc = "closing" => step <= Len(Order) + 1 /\ closes \in 1 .. 2
    /\ pc = "closing" /\ closes = 1 =>
          /\ Held(Rest(step) \union {"agent"})
          /\ dropped \intersect Rest(step) = {}
          /\ kind # "windows" => Rest(1) \subseteq dropped \union Rest(step)
    /\ pc = "closing" /\ closes = 2 =>
          /\ kind \in {"windows", "linux"} /\ Owned("conn") \subseteq {own["agent"]}
          /\ kind = "linux" => Rest(1) \subseteq dropped

Inv == TypeInv /\ OpenInv /\ CloseInv /\ ClosesItsOwn

LEMMA InitInv == Init => Inv
<1> SUFFICES ASSUME Init PROVE Inv
  OBVIOUS
<1>1. /\ kind \in Kinds /\ pc = "open" /\ step = 1 /\ closes = 0
      /\ dropped = {} /\ touched = {}
  BY DEF Init
<1>2. own \in [Names -> {0}] /\ table \in [Handles -> {"free"}]
  BY DEF Init
<1>3. Owned("other") = {} /\ Owned("conn") = {}
  BY <1>2 DEF Owned
<1>4. Cardinality(Owned("other")) <= MaxOthers
  BY <1>3, FS_EmptySet, HandlesAssumption
<1>5. own \in [Names -> Handles \union {0}]
  BY <1>2
<1>6. table \in [Handles -> {"free", "conn", "other"}]
  BY <1>2
<1>7. TypeInv
  BY <1>1, <1>4, <1>5, <1>6 DEF TypeInv
<1>8. Held(Kept[1])
  BY <1>1, <1>3, CallsFit DEF Held, HeldBy, Owned
<1>9. OpenInv /\ CloseInv /\ ClosesItsOwn
  BY <1>1, <1>8, CallsFit DEF OpenInv, CloseInv, ClosesItsOwn
<1> QED BY <1>7, <1>9 DEF Inv

LEMMA OneMore ==
    ASSUME NEW S, NEW n \in Nat, IsFiniteSet(S), Cardinality(S) <= n, NEW x
    PROVE /\ IsFiniteSet(S \union {x})
          /\ Cardinality(S \union {x}) \in Nat /\ Cardinality(S \union {x}) <= n + 1
<1>1. /\ IsFiniteSet(S \union {x})
      /\ Cardinality(S \union {x}) = IF x \in S THEN Cardinality(S)
                                     ELSE Cardinality(S) + 1
  BY FS_AddElement
<1>2. Cardinality(S) \in Nat
  BY FS_CardinalityType
<1> QED BY <1>1, <1>2

\* There are free handles for a call that takes two at most.
LEMMA TwoFree ==
    ASSUME TypeInv, NEW k \in SUBSET Names, Held(k),
           \E a, b, c, d \in Names : k \subseteq {a, b, c, d}
    PROVE \E x, y \in Owned("free") : x # y
<1>1. PICK a \in Names, b \in Names, c \in Names, d \in Names :
         k \subseteq {a, b, c, d}
  OBVIOUS
<1> DEFINE A == {own[a]}  B == A \union {own[b]}
           C == B \union {own[c]}  D == C \union {own[d]}
<1>2. Owned("conn") \subseteq D
  BY <1>1 DEF Held, HeldBy, Owned
<1>3. IsFiniteSet(D) /\ Cardinality(D) \in Nat /\ Cardinality(D) <= 4
  <2> HIDE DEF D
  <2>1. IsFiniteSet(A) /\ Cardinality(A) <= 1
    <3>1. IsFiniteSet(A) /\ Cardinality(A) = 1
      BY FS_Singleton
    <3> QED BY <3>1
  <2> HIDE DEF A, C
  <2>2. IsFiniteSet(B) /\ Cardinality(B) \in Nat /\ Cardinality(B) <= 1 + 1
    BY <2>1, OneMore
  <2> HIDE DEF B
  <2>3. IsFiniteSet(C) /\ Cardinality(C) \in Nat /\ Cardinality(C) <= 2 + 1
    <3>1. Cardinality(B) <= 2
      BY <2>2
    <3> QED BY <2>2, <3>1, OneMore DEF C
  <2>4. IsFiniteSet(D) /\ Cardinality(D) \in Nat /\ Cardinality(D) <= 3 + 1
    <3>1. Cardinality(C) <= 3
      BY <2>3
    <3> QED BY <2>3, <3>1, OneMore DEF D
  <2> QED BY <2>4
<1> HIDE DEF A, B, C, D
<1> DEFINE O == Owned("other")
<1>4. IsFiniteSet(O) /\ Cardinality(O) \in Nat /\ Cardinality(O) <= MaxOthers
  <2>1. O \in SUBSET Handles
    BY DEF Owned
  <2> QED BY <2>1, HandlesAssumption, FS_Subset, FS_CardinalityType DEF TypeInv
<1> DEFINE U == D \union O
<1>5. IsFiniteSet(U) /\ Cardinality(U) \in Nat /\ Cardinality(U) <= 4 + MaxOthers
  <2>1. /\ IsFiniteSet(U)
        /\ Cardinality(U) = Cardinality(D) + Cardinality(O) - Cardinality(D \cap O)
    BY <1>3, <1>4, FS_Union
  <2>2. Cardinality(D \cap O) \in Nat
    BY <1>3, FS_Subset, FS_CardinalityType
  <2>3. Cardinality(U) \in Nat
    BY <2>1, FS_CardinalityType
  <2> QED BY <1>3, <1>4, <2>1, <2>2, <2>3, HandlesAssumption
<1>6. Handles \subseteq U \union Owned("free")
  BY <1>2 DEF Owned, TypeInv
<1> HIDE DEF U, O
<1> SUFFICES ASSUME \A x, y \in Owned("free") : x = y PROVE FALSE
  OBVIOUS
<1>7. \E x : Handles \subseteq U \union {x}
  BY <1>6
<1>8. PICK x : Handles \subseteq U \union {x}
  BY <1>7
<1> DEFINE V == U \union {x}
<1>9. IsFiniteSet(V) /\ Cardinality(V) \in Nat /\ Cardinality(V) <= 5 + MaxOthers
  <2>1. 4 + MaxOthers \in Nat
    BY HandlesAssumption
  <2>2. /\ IsFiniteSet(V) /\ Cardinality(V) \in Nat
        /\ Cardinality(V) <= (4 + MaxOthers) + 1
    BY <1>5, <2>1, OneMore
  <2> QED BY <2>2, HandlesAssumption
<1>10. Cardinality(Handles) <= Cardinality(V) /\ Cardinality(Handles) \in Nat
  BY <1>8, <1>9, FS_Subset, FS_CardinalityType, HandlesAssumption
<1> QED BY <1>9, <1>10, HandlesAssumption

LEMMA GivenType ==
    ASSUME TypeInv, NEW k \in SUBSET Names, Held(k),
           \E a, b, c, d \in Names : k \subseteq {a, b, c, d},
           NEW names, \E p, q : names \subseteq {p, q}
    PROVE /\ Given(names) \in [names -> Owned("free")]
          /\ \A m, n \in names : Given(names)[m] = Given(names)[n] => m = n
<1>1. PICK x \in Owned("free"), y \in Owned("free") : x # y
  BY TwoFree
<1>2. PICK p, q : names \subseteq {p, q}
  OBVIOUS
<1> DEFINE f == [n \in names |-> IF n = p THEN x ELSE y]
<1>3. f \in [names -> Owned("free")]
  OBVIOUS
<1>4. \A m, n \in names : f[m] = f[n] => m = n
  BY <1>1, <1>2
<1> HIDE DEF f
<1>5. \E g \in [names -> Owned("free")] : \A m, n \in names : g[m] = g[n] => m = n
  BY <1>3, <1>4
<1> QED BY <1>5 DEF Given
-----------------------------------------------------------------------------
\* The tables do not change with the state.
LEMMA KindKept ==
    ASSUME UNCHANGED kind
    PROVE /\ Calls' = Calls /\ Kept' = Kept /\ Order' = Order
          /\ KnowsReleased' = KnowsReleased /\ \A i : Rest(i)' = Rest(i)
BY DEF Calls, Kept, Order, KnowsReleased, Rest

\* As few handles as before are others'.
LEMMA OthersKept ==
    ASSUME TypeInv, Owned("other")' \subseteq Owned("other")
    PROVE Cardinality(Owned("other")') <= MaxOthers
<1>1. IsFiniteSet(Owned("other"))
  <2>1. Owned("other") \in SUBSET Handles
    BY DEF Owned
  <2> QED BY <2>1, HandlesAssumption, FS_Subset
<1>2. /\ Cardinality(Owned("other")') <= Cardinality(Owned("other"))
      /\ IsFiniteSet(Owned("other")')
  BY <1>1, FS_Subset
<1>3. Cardinality(Owned("other")') \in Nat /\ Cardinality(Owned("other")) \in Nat
  BY <1>1, <1>2, FS_CardinalityType
<1> QED BY <1>2, <1>3, HandlesAssumption DEF TypeInv

\* A call that succeeds, in the terms of the invariant: the names taken get free
\* handles, the names given lose theirs.
Acquires(k, l, call, given, now, gone) ==
    /\ k \in SUBSET Names /\ Held(k) /\ Fits(call, k, l)
    /\ given = Given(call.takes)
    /\ now = [n \in Names |-> IF n \in call.takes THEN given[n] ELSE own[n]]
    /\ gone = {now[n] : n \in call.gives}
    /\ own' = now
    /\ table' = [h \in Handles |-> CASE h \in gone -> "free"
                                    [] h \in Range(given) \ gone -> "conn"
                                    [] OTHER -> table[h]]

LEMMA AcquireHeld ==
    ASSUME TypeInv, NEW k, NEW l, NEW call, NEW given, NEW now, NEW gone,
           Acquires(k, l, call, given, now, gone)
    PROVE /\ HeldBy(own', table', l) /\ Owned("other")' \subseteq Owned("other")
          /\ own' \in [Names -> Handles \union {0}]
          /\ table' \in [Handles -> {"free", "conn", "other"}]
<1> USE DEF Acquires
<1>1. /\ given \in [call.takes -> Owned("free")]
      /\ \A m, n \in call.takes : given[m] = given[n] => m = n
  BY GivenType DEF Fits
<1>2. Range(given) = {given[n] : n \in call.takes}
  BY <1>1 DEF Range
<1>3. /\ \A n \in call.takes : given[n] \in Handles /\ table[given[n]] = "free"
      /\ call.takes \subseteq Names /\ call.takes \intersect k = {}
      /\ call.gives \subseteq k \union call.takes /\ "agent" \notin call.gives
      /\ l = (k \union call.takes) \ call.gives
  BY <1>1 DEF Owned, Fits
<1>4. /\ \A n \in call.takes : own'[n] = given[n]
      /\ \A n \in k : own'[n] = own[n]
      /\ \A n \in call.gives : own'[n] \in gone
      /\ \A h \in gone : \E n \in call.gives : own'[n] = h
  BY <1>3
<1>5. /\ \A h \in gone \intersect Handles : table'[h] = "free"
      /\ \A h \in Handles \ gone :
            /\ h \in Range(given) => table'[h] = "conn"
            /\ h \notin Range(given) => table'[h] = table[h]
  OBVIOUS
<1>6. own' \in [Names -> Handles \union {0}]
  BY <1>3 DEF TypeInv
<1>7. table' \in [Handles -> {"free", "conn", "other"}]
  <2>1. \A h \in Handles : table'[h] \in {"free", "conn", "other"}
    BY <1>5 DEF TypeInv
  <2> QED BY <2>1
<1>8. Owned("other")' \subseteq Owned("other")
  BY <1>5 DEF Owned
<1>9. /\ \A n \in k \ {"agent"} : own[n] \in Handles /\ table[own[n]] = "conn"
      /\ \A m, n \in k \ {"agent"} : own[m] = own[n] => m = n
      /\ \A h \in Handles : table[h] = "conn" => \E n \in k : own[n] = h
  BY DEF Held, HeldBy
<1>10. ASSUME NEW m \in (k \union call.takes) \ {"agent"},
              NEW n \in (k \union call.takes) \ {"agent"}, own'[m] = own'[n]
       PROVE m = n
  <2>1. CASE m \in call.takes /\ n \in call.takes
    BY ONLY <1>1, <1>4, <1>10, <2>1
  <2>2. CASE m \in k /\ n \in k
    BY ONLY <1>4, <1>9, <1>10, <2>2
  <2>3. CASE m \in call.takes /\ n \in k
    BY ONLY <1>3, <1>4, <1>9, <1>10, <2>3
  <2>4. CASE m \in k /\ n \in call.takes
    BY ONLY <1>3, <1>4, <1>9, <1>10, <2>4
  <2> QED BY <2>1, <2>2, <2>3, <2>4
<1>11. ASSUME NEW n \in l \ {"agent"} PROVE own'[n] \in Handles \ gone
  <2>1. n \in (k \union call.takes) \ {"agent"} /\ n \notin call.gives
    BY ONLY <1>3, <1>11
  <2>2. own'[n] \in Handles
    BY ONLY <1>3, <1>4, <1>9, <2>1
  <2>3. ASSUME own'[n] \in gone PROVE FALSE
    <3>1. PICK g \in call.gives : own'[g] = own'[n]
      BY ONLY <1>4, <2>3
    <3>2. g \in (k \union call.takes) \ {"agent"}
      BY ONLY <1>3, <3>1
    <3> QED BY ONLY <1>10, <2>1, <3>1, <3>2
  <2> QED BY <2>2, <2>3
<1>12. \A n \in l \ {"agent"} : table'[own'[n]] = "conn"
  <2> SUFFICES ASSUME NEW n \in l \ {"agent"} PROVE table'[own'[n]] = "conn"
    OBVIOUS
  <2>1. CASE n \in call.takes
    <3>1. own'[n] \in Range(given) /\ own'[n] \in Handles \ gone
      BY ONLY <1>2, <1>4, <1>11, <2>1, n \in l \ {"agent"}
    <3> QED BY ONLY <1>5, <3>1
  <2>2. CASE n \in k
    <3>1. /\ own'[n] = own[n] /\ table[own[n]] = "conn"
          /\ own'[n] \in Handles \ gone
      BY ONLY <1>4, <1>9, <1>11, <2>2, n \in l \ {"agent"}
    <3>2. own'[n] \notin Range(given)
      BY ONLY <1>2, <1>3, <3>1
    <3> QED BY ONLY <1>5, <3>1, <3>2
  <2> QED BY <1>3, <2>1, <2>2
<1>13. \A h \in Handles : table'[h] = "conn" => \E n \in l : own'[n] = h
  <2> SUFFICES ASSUME NEW h \in Handles, table'[h] = "conn"
               PROVE \E n \in l : own'[n] = h
    OBVIOUS
  <2>1. h \notin gone
    BY <1>5
  <2>2. CASE h \in Range(given)
    <3>1. PICK n \in call.takes : given[n] = h
      BY ONLY <1>2, <2>2
    <3> QED BY ONLY <1>3, <1>4, <2>1, <3>1
  <2>3. CASE h \notin Range(given)
    <3>1. table[h] = "conn"
      BY <1>5, <2>1, <2>3
    <3>2. PICK n \in k : own[n] = h
      BY ONLY <1>9, <3>1, h \in Handles
    <3> QED BY ONLY <1>3, <1>4, <2>1, <3>2
  <2> QED BY <2>2, <2>3
<1>14. HeldBy(own', table', l)
  BY <1>3, <1>10, <1>11, <1>12, <1>13 DEF HeldBy
<1> QED BY <1>6, <1>7, <1>8, <1>14

\* The call an open connection is at.
LEMMA CallFits ==
    ASSUME Inv, Opening
    PROVE /\ step \in 1 .. Len(Calls) /\ Fits(Calls[step], Kept[step], Kept[step + 1])
          /\ Kept[step] \in SUBSET Names /\ Held(Kept[step])
<1>1. /\ kind \in Kinds /\ step \in 1 .. Len(Calls) /\ Held(Kept[step])
      /\ Len(Calls) \in Nat
  BY CallsFit DEF Inv, TypeInv, OpenInv, Opening
<1>2. Fits(Calls[step], Kept[step], Kept[step + 1])
  BY <1>1, CallsFit
<1>3. Kept[step] \in SUBSET Names
  BY <1>2 DEF Fits
<1> QED BY <1>1, <1>2, <1>3

\* What is the same in every step of opening.
LEMMA StillOpening ==
    ASSUME Inv, pc = "open", UNCHANGED <<kind, closes, dropped, touched>>,
           pc' \in {"open", "running", "failed"}
    PROVE /\ CloseInv' /\ ClosesItsOwn'
          /\ closes' = 0 /\ touched' = {} /\ dropped' = {}
BY DEF Inv, OpenInv, CloseInv, ClosesItsOwn

LEMMA AcquireStep == ASSUME Inv, Acquire PROVE Inv'
<1> DEFINE call == Calls[step]
           given == Given(call.takes)
           now == [n \in Names |-> IF n \in call.takes THEN given[n] ELSE own[n]]
           gone == {now[n] : n \in call.gives}
<1>1. /\ Opening /\ pc = "open" /\ pc' = "open" /\ step' = step + 1
      /\ UNCHANGED <<kind, closes, dropped, touched>>
      /\ own' = now
      /\ table' = [h \in Handles |-> CASE h \in gone -> "free"
                                      [] h \in Range(given) \ gone -> "conn"
                                      [] OTHER -> table[h]]
  BY DEF Acquire, Opening
<1>2. /\ step \in 1 .. Len(Calls) /\ Fits(call, Kept[step], Kept[step + 1])
      /\ Kept[step] \in SUBSET Names /\ Held(Kept[step])
      /\ TypeInv
  BY <1>1, CallFits DEF Inv
<1>3. /\ HeldBy(own', table', Kept[step + 1])
      /\ Owned("other")' \subseteq Owned("other")
      /\ own' \in [Names -> Handles \union {0}]
      /\ table' \in [Handles -> {"free", "conn", "other"}]
  <2>1. \E k, l, c, g, w, f :
           k = Kept[step] /\ l = Kept[step + 1] /\ c = call /\ g = given
           /\ w = now /\ f = gone
    OBVIOUS
  <2>2. PICK k, l, c, g, w, f :
           k = Kept[step] /\ l = Kept[step + 1] /\ c = call /\ g = given
           /\ w = now /\ f = gone
    BY <2>1
  <2>3. TypeInv /\ Acquires(k, l, c, g, w, f)
    BY <1>1, <1>2, <2>2 DEF Acquires
  <2>4. /\ HeldBy(own', table', l) /\ Owned("other")' \subseteq Owned("other")
        /\ own' \in [Names -> Handles \union {0}]
        /\ table' \in [Handles -> {"free", "conn", "other"}]
    BY ONLY <2>3, AcquireHeld
  <2> QED BY <2>2, <2>4
<1> HIDE DEF call, given, now, gone
<1>4. TypeInv'
  <2>1. Cardinality(Owned("other")') <= MaxOthers
    BY <1>2, <1>3, OthersKept
  <2> QED BY <1>1, <1>2, <1>3, <2>1 DEF TypeInv
<1>5. OpenInv'
  <2>1. Len(Calls) \in Nat
    BY <1>2, CallsFit DEF TypeInv
  <2> QED BY <1>1, <1>2, <1>3, <2>1, KindKept, StillOpening DEF OpenInv, Held
<1> QED BY <1>1, <1>4, <1>5, StillOpening DEF Inv

\* The handle stays at 0, and so it does not count.
LEMMA NoAgentStep == ASSUME Inv, NoAgent PROVE Inv'
<1>1. /\ Opening /\ Calls[step].takes = {"agent"} /\ pc' = pc /\ pc = "open"
      /\ step' = step + 1
      /\ UNCHANGED <<kind, closes, own, dropped, table, touched>>
  BY DEF NoAgent, Opening
<1>2. /\ step \in 1 .. Len(Calls) /\ Fits(Calls[step], Kept[step], Kept[step + 1])
      /\ Held(Kept[step])
  BY <1>1, CallFits
<1>3. Kept[step + 1] = Kept[step] \union {"agent"}
  BY <1>1, <1>2 DEF Fits
<1>4. Held(Kept[step + 1])
  BY <1>2, <1>3 DEF Held, HeldBy
<1>5. TypeInv'
  BY <1>1 DEF Inv, TypeInv, Owned
<1>6. OpenInv'
  <2>1. Len(Calls) \in Nat
    BY CallsFit DEF Inv, TypeInv
  <2> QED BY <1>1, <1>2, <1>4, <2>1, KindKept, StillOpening DEF OpenInv, Held
<1> QED BY <1>1, <1>5, <1>6, StillOpening DEF Inv

\* What the failing call undoes is all that is held, but for the agent's socket.
LEMMA OpenFailsStep == ASSUME Inv, OpenFails PROVE Inv'
<1> DEFINE undone == HandlesOf(Calls[step].undo)
<1>1. /\ Opening /\ pc = "open" /\ pc' = "failed"
      /\ UNCHANGED <<kind, step, closes, own, dropped, touched>>
      /\ table' = [h \in Handles |-> IF h \in undone THEN "free" ELSE table[h]]
  BY DEF OpenFails, Opening
<1>2. Held(Kept[step]) /\ Kept[step] \ {"agent"} \subseteq Calls[step].undo
  BY <1>1, CallFits DEF Fits
<1>3. \A n \in Kept[step] \ {"agent"} : own[n] \in undone
  BY <1>2 DEF HandlesOf
<1> HIDE DEF undone
<1>4. /\ table' \in [Handles -> {"free", "conn", "other"}]
      /\ \A h \in Handles : table'[h] = IF h \in undone THEN "free" ELSE table[h]
  BY <1>1 DEF Inv, TypeInv
<1>5. TypeInv'
  <2>1. Owned("other")' \subseteq Owned("other")
    BY <1>4 DEF Owned
  <2>2. Cardinality(Owned("other")') <= MaxOthers
    BY <2>1, OthersKept DEF Inv
  <2> QED BY <1>1, <1>4, <2>2 DEF Inv, TypeInv
<1>6. Held({"agent"})'
  <2>1. \A h \in Handles : table'[h] = "conn" => h = own["agent"]
    BY <1>2, <1>3, <1>4 DEF Held, HeldBy
  <2> QED BY <1>1, <2>1 DEF Held, HeldBy
<1>7. OpenInv'
  BY <1>1, <1>6, StillOpening DEF OpenInv
<1> QED BY <1>1, <1>5, <1>7, StillOpening DEF Inv

LEMMA OpenReturnsStep == ASSUME Inv, OpenReturns PROVE Inv'
<1>1. /\ pc = "open" /\ step > Len(Calls) /\ pc' = "running"
      /\ UNCHANGED <<kind, step, closes, own, dropped, table, touched>>
  BY DEF OpenReturns
<1>2. TypeInv'
  BY <1>1 DEF Inv, TypeInv, Owned
<1>3. step = Len(Calls) + 1
  BY <1>1, CallsFit DEF Inv, TypeInv, OpenInv
<1>4. OpenInv'
  BY <1>1, <1>3, KindKept, StillOpening DEF Inv, OpenInv, Held
<1> QED BY <1>1, <1>2, <1>4, StillOpening DEF Inv
-----------------------------------------------------------------------------
LEMMA CloseBeginsStep == ASSUME Inv, CloseBegins PROVE Inv'
<1>1. /\ pc' = "closing" /\ closes' = closes + 1 /\ step' = 1
      /\ UNCHANGED <<kind, own, dropped, table, touched>>
      /\ \/ pc = "running" /\ closes = 0
         \/ pc = "closing" /\ step > Len(Order) /\ closes < MaxCloses
  BY DEF CloseBegins, Closed
<1>2. TypeInv'
  BY <1>1 DEF Inv, TypeInv, Owned
<1>3. /\ kind \in Kinds /\ Len(Order) \in Nat /\ Len(Order)' = Len(Order)
      /\ Rest(1)' = Rest(1) /\ "agent" \notin Rest(1)
  BY <1>1, OrderFits, KindKept DEF Inv, TypeInv
<1>4. CASE pc = "running"
  <2>1. Held(Rest(1) \union {"agent"})
    BY <1>3, <1>4, OrderFits DEF Inv, OpenInv, Held, HeldBy
  <2>2. closes' = 1 /\ dropped' = {} /\ touched' = {}
    BY <1>1, <1>4 DEF Inv, OpenInv
  <2>3. CloseInv'
    <3>1. Order' = Order
      BY <1>1, KindKept
    <3>2. Held(Rest(step) \union {"agent"})'
      BY <1>1, <2>1, <3>1 DEF Held, Rest
    <3>3. step' <= Len(Order)' + 1 /\ closes' \in 1 .. 2 /\ closes' # 2
      BY <1>1, <1>3, <2>2
    <3>4. Rest(1)' \subseteq dropped' \union Rest(step)'
      BY <1>1, <3>1 DEF Rest
    <3> QED BY <2>2, <3>2, <3>3, <3>4 DEF CloseInv
  <2> QED BY <1>1, <1>2, <2>2, <2>3 DEF Inv, OpenInv, ClosesItsOwn
<1>5. CASE pc = "closing" /\ step > Len(Order) /\ closes < MaxCloses
  <2>1. kind \in {"windows", "linux"} /\ closes = 1 /\ closes' = 2
    BY <1>1, <1>5 DEF Inv, CloseInv, MaxCloses
  <2>2. Rest(step) = {}
    BY <1>3, <1>5 DEF Rest, Inv, TypeInv
  <2>3. Held({"agent"})
    BY <1>5, <2>1, <2>2 DEF Inv, CloseInv
  <2>4. Owned("conn") \subseteq {own["agent"]}
    BY <2>3 DEF Held, HeldBy, Owned
  <2>5. kind = "linux" => Rest(1) \subseteq dropped
    BY <1>5, <2>1, <2>2 DEF Inv, CloseInv
  <2>6. CloseInv'
    BY <1>1, <1>3, <2>1, <2>4, <2>5 DEF CloseInv, Owned
  <2> QED BY <1>1, <1>2, <1>5, <2>1, <2>6 DEF Inv, OpenInv, ClosesItsOwn
<1> QED BY <1>1, <1>4, <1>5

\* One use of a handle in Close.  The last use of a name in the first Close
\* releases it; in the second Close only Windows' bare handles are used again.
LEMMA TouchStep == ASSUME Inv, Touch PROVE Inv'
<1> DEFINE name == Order[step]
           h == own[name]
<1>1. /\ pc = "closing" /\ pc' = "closing" /\ step <= Len(Order) /\ step' = step + 1
      /\ UNCHANGED <<kind, closes, own>>
      /\ \/ name \in dropped /\ UNCHANGED <<table, touched, dropped>>
         \/ /\ name \notin dropped
            /\ touched' = touched \union {table[h]}
            /\ table' = IF Releases THEN [table EXCEPT ![h] = "free"] ELSE table
            /\ dropped' = IF Releases THEN dropped \union ({name} \intersect KnowsReleased)
                                      ELSE dropped
  BY DEF Touch
<1>2. /\ kind \in Kinds /\ Len(Order) \in Nat /\ Order' = Order
      /\ step \in 1 .. Len(Order) /\ closes \in 1 .. 2
      /\ name \in Names \ {"agent"} /\ table \in [Handles -> {"free", "conn", "other"}]
      /\ dropped \in SUBSET Names
  BY <1>1, OrderFits, KindKept DEF Inv, TypeInv, CloseInv
<1>3. /\ Rest(step) = {name} \union Rest(step + 1)
      /\ Rest(step)' = Rest(step + 1)
      /\ Rest(1)' = Rest(1)
      /\ Releases <=> name \notin Rest(step + 1)
  BY <1>1, <1>2 DEF Rest, Releases
<1> HIDE DEF name, h
<1>4. /\ table' \in [Handles -> {"free", "conn", "other"}] /\ dropped' \in SUBSET Names
      /\ \A g \in Handles : table'[g] # table[g] => table'[g] = "free"
  BY <1>1, <1>2
<1>5. TypeInv'
  <2>1. Owned("other")' \subseteq Owned("other")
    BY <1>4 DEF Owned
  <2>2. Cardinality(Owned("other")') <= MaxOthers
    BY <2>1, OthersKept DEF Inv
  <2> QED BY <1>1, <1>4, <2>2 DEF Inv, TypeInv
<1>6. OpenInv'
  BY <1>1 DEF OpenInv
<1>7. CASE closes = 1
  <2>1. /\ Held(Rest(step) \union {"agent"}) /\ dropped \intersect Rest(step) = {}
        /\ kind # "windows" => Rest(1) \subseteq dropped \union Rest(step)
        /\ touched \subseteq {"conn"}
    BY <1>1, <1>7 DEF Inv, CloseInv, ClosesItsOwn
  <2>2. name \notin dropped /\ h \in Handles /\ table[h] = "conn"
    BY <1>2, <1>3, <2>1 DEF Held, HeldBy, h
  <2>3. touched' \subseteq {"conn"}
    BY <1>1, <2>1, <2>2
  <2>4. /\ HeldBy(own, table', Rest(step + 1) \union {"agent"})
        /\ dropped' \intersect Rest(step + 1) = {}
        /\ kind # "windows" => Rest(1) \subseteq dropped' \union Rest(step + 1)
    <3>1. CASE Releases
      <4>1. /\ name \notin Rest(step + 1)
            /\ table' = [table EXCEPT ![h] = "free"]
            /\ dropped' = dropped \union ({name} \intersect KnowsReleased)
        BY <1>1, <1>3, <2>2, <3>1
      <4>2. HeldBy(own, table', Rest(step + 1) \union {"agent"})
        BY <1>2, <1>3, <2>1, <2>2, <4>1 DEF Held, HeldBy, h
      <4>3. dropped' \intersect Rest(step + 1) = {}
        BY <1>3, <2>1, <4>1
      <4>4. kind # "windows" => name \in KnowsReleased
        BY <1>2 DEF KnowsReleased
      <4> QED BY <1>3, <2>1, <4>1, <4>2, <4>3, <4>4
    <3>2. CASE ~Releases
      <4>1. UNCHANGED <<table, dropped>> /\ Rest(step + 1) = Rest(step)
        BY <1>1, <1>3, <2>2, <3>2
      <4> QED BY <2>1, <4>1 DEF Held
    <3> QED BY <3>1, <3>2
  <2>5. Held(Rest(step) \union {"agent"})'
    <3>1. (Rest(step) \union {"agent"})' = Rest(step + 1) \union {"agent"}
      BY <1>3
    <3> QED BY <1>1, <2>4, <3>1 DEF Held
  <2>6. CloseInv'
    BY <1>1, <1>2, <1>3, <1>7, <2>4, <2>5 DEF CloseInv
  <2> QED BY <1>1, <1>5, <1>6, <2>3, <2>6 DEF Inv, ClosesItsOwn
<1>8. CASE closes = 2
  <2>1. /\ kind \in {"windows", "linux"} /\ Owned("conn") \subseteq {own["agent"]}
        /\ kind = "linux" => Rest(1) \subseteq dropped
    BY <1>1, <1>8 DEF Inv, CloseInv
  <2>2. Owned("conn")' \subseteq {own["agent"]}
    BY <1>4, <2>1 DEF Owned
  <2>3. kind = "linux" => UNCHANGED <<touched, dropped>>
    <3>1. name \in Rest(1)
      BY <1>2 DEF name, Rest
    <3> QED BY <1>1, <2>1, <3>1
  <2> QED BY <1>1, <1>2, <1>3, <1>5, <1>6, <1>8, <2>1, <2>2, <2>3
          DEF Inv, CloseInv, ClosesItsOwn
<1> QED BY <1>2, <1>7, <1>8

LEMMA MainReturnsStep == ASSUME Inv, MainReturns PROVE Inv'
<1>1. pc' = "exited" /\ UNCHANGED <<kind, step, closes, own, dropped, table, touched>>
  BY DEF MainReturns
<1> QED BY <1>1 DEF Inv, TypeInv, Owned, OpenInv, CloseInv, ClosesItsOwn

\* The others take only what is free, and give back only what is theirs.
LEMMA OthersStep == ASSUME Inv, OtherOpens \/ OtherCloses PROVE Inv'
<1>1. /\ UNCHANGED <<kind, pc, step, closes, own, dropped, touched>>
      /\ table \in [Handles -> {"free", "conn", "other"}]
  BY DEF OtherOpens, OtherCloses, Inv, TypeInv
<1>2. PICK g \in Handles, s \in {"free", "other"} :
         table[g] # "conn" /\ table' = [table EXCEPT ![g] = s]
  BY DEF OtherOpens, OtherCloses, Owned
<1>3. /\ table' \in [Handles -> {"free", "conn", "other"}]
      /\ \A h \in Handles : table'[h] = "conn" <=> table[h] = "conn"
  BY <1>1, <1>2
<1>4. Cardinality(Owned("other")') <= MaxOthers
  <2>1. CASE OtherOpens
    <3>1. PICK h \in Owned("free") : table' = [table EXCEPT ![h] = "other"]
      BY <2>1 DEF OtherOpens
    <3>2. Owned("other")' = Owned("other") \union {h}
      BY <1>1, <3>1 DEF Owned
    <3>3. IsFiniteSet(Owned("other"))
      <4>1. Owned("other") \in SUBSET Handles
        BY DEF Owned
      <4> QED BY <4>1, HandlesAssumption, FS_Subset
    <3>4. Cardinality(Owned("other")) \in Nat /\ Cardinality(Owned("other")) < MaxOthers
      BY <2>1, <3>3, FS_CardinalityType DEF OtherOpens
    <3>5. /\ Cardinality(Owned("other") \union {h}) <= Cardinality(Owned("other")) + 1
          /\ Cardinality(Owned("other") \union {h}) \in Nat
      BY <3>3, <3>4, OneMore
    <3> QED BY <3>2, <3>4, <3>5, HandlesAssumption
  <2>2. CASE OtherCloses
    <3>1. Owned("other")' \subseteq Owned("other")
      BY <1>1, <2>2 DEF OtherCloses, Owned
    <3> QED BY <3>1, OthersKept DEF Inv
  <2> QED BY <2>1, <2>2
<1>5. TypeInv'
  BY <1>1, <1>3, <1>4 DEF Inv, TypeInv
<1>6. \A k : HeldBy(own, table, k) => HeldBy(own, table', k)
  BY <1>3 DEF HeldBy
<1>7. Owned("conn")' = Owned("conn")
  BY <1>3 DEF Owned
<1>8. OpenInv'
  BY <1>1, <1>6, KindKept DEF Inv, OpenInv, Held
<1>9. CloseInv'
  BY <1>1, <1>6, <1>7, KindKept DEF Inv, CloseInv, Held, Rest
<1> QED BY <1>1, <1>5, <1>8, <1>9 DEF Inv, ClosesItsOwn

LEMMA InvStep == Inv /\ [Next]_vars => Inv'
<1> SUFFICES ASSUME Inv, [Next]_vars PROVE Inv'
  OBVIOUS
<1>1. CASE UNCHANGED vars
  BY <1>1, KindKept DEF vars, Inv, TypeInv, Owned, OpenInv, CloseInv, ClosesItsOwn,
     Held, Rest
<1> QED BY <1>1, AcquireStep, NoAgentStep, OpenFailsStep, OpenReturnsStep,
        CloseBeginsStep, TouchStep, MainReturnsStep, OthersStep DEF Next

\* HandlesComeBack: for any number of handles, whichever call of opening fails
\* and whatever others do, no handle is left but the agent's socket.
THEOREM HandlesComeBack == Spec => []NothingLeaks
<1>1. Inv => NothingLeaks
  <2> SUFFICES ASSUME Inv, pc = "failed" \/ Closed
               PROVE Owned("conn") \subseteq {own["agent"]}
    BY DEF NothingLeaks
  <2>1. CASE pc = "failed"
    BY <2>1 DEF Inv, OpenInv, Held, HeldBy, Owned
  <2>2. CASE Closed /\ closes = 1
    <3>1. pc = "closing" /\ step > Len(Order) /\ Held(Rest(step) \union {"agent"})
      BY <2>2 DEF Closed, Inv, CloseInv
    <3>2. Rest(step) = {}
      BY <3>1, OrderFits DEF Rest, Inv, TypeInv
    <3> QED BY <3>1, <3>2 DEF Held, HeldBy, Owned
  <2>3. CASE Closed /\ closes = 2
    BY <2>3 DEF Closed, Inv, CloseInv
  <2> QED BY <2>1, <2>2, <2>3 DEF Closed, Inv, CloseInv
<1> QED BY <1>1, InitInv, InvStep, PTL DEF Spec

\* OwnHandlesOnly: for any number of handles and whatever others do with theirs,
\* closing uses none but the connection's own, unless a Windows PTY is closed twice.
THEOREM OwnHandlesOnly == Spec => []ClosesItsOwn
<1>1. Inv => ClosesItsOwn
  BY DEF Inv
<1> QED BY <1>1, InitInv, InvStep, PTL DEF Spec
-----------------------------------------------------------------------------
(***************************************************************************)
(* Induction.  A set of numbers, or of sequences, that holds the first and *)
(* with each the next holds all of them: what is left out would have a     *)
(* least number.                                                           *)
(***************************************************************************)
LEMMA LeastNumber ==
    ASSUME NEW N \in Nat, NEW B \in SUBSET (0 .. N), B # {}
    PROVE \E m \in B : \A k \in B : m <= k
<1> DEFINE S == 0 .. N
           T == {0 .. m : m \in B}
<1>1. IsFiniteSet(S)
  BY FS_Interval
<1>2. IsWellFoundedOn(StrictSubsetOrdering(S), SUBSET S)
  <2> HIDE DEF S
  <2>1. FiniteSubsetsOf(S) = SUBSET S
    BY <1>1, FS_FiniteSubsetsOfFinite
  <2> QED BY <2>1, FS_StrictSubsetOrderingWellFounded
<1>3. T \subseteq SUBSET S /\ T # {}
  <2>1. \A m \in B : 0 .. m \subseteq S
    OBVIOUS
  <2>2. PICK m : m \in B
    OBVIOUS
  <2> HIDE DEF S
  <2>3. 0 .. m \in T
    BY <2>2
  <2> QED BY <2>1, <2>3
<1>4. PICK x \in T : \A y \in T : ~(<<y, x>> \in StrictSubsetOrdering(S))
  <2> HIDE DEF S, T
  <2> QED BY <1>2, <1>3, WFMin
<1>5. PICK m \in B : x = 0 .. m
  OBVIOUS
<1>6. ASSUME NEW k \in B, k < m PROVE FALSE
  <2>1. 0 .. k \in T /\ 0 .. k \subseteq S /\ 0 .. m \subseteq S
    BY <1>3
  <2>2. 0 .. k \subseteq 0 .. m /\ 0 .. k # 0 .. m
    BY <1>6
  <2> HIDE DEF S, T
  <2>3. <<0 .. k, x>> \in StrictSubsetOrdering(S)
    BY <1>5, <2>1, <2>2 DEF StrictSubsetOrdering
  <2> QED BY <1>4, <2>1, <2>3
<1> QED BY <1>6

LEMMA NumberByNumber ==
    ASSUME NEW S, 0 \in S, \A n \in Nat : n \in S => n + 1 \in S
    PROVE Nat \subseteq S
<1> SUFFICES ASSUME NEW N \in Nat, N \notin S PROVE FALSE
  OBVIOUS
<1> DEFINE B == {k \in 0 .. N : k \notin S}
<1>1. B \in SUBSET (0 .. N) /\ B # {}
  OBVIOUS
<1>2. PICK m \in B : \A k \in B : m <= k
  BY <1>1, LeastNumber
<1>3. m # 0 /\ m - 1 \in 0 .. N /\ m - 1 + 1 = m
  BY <1>2
<1> QED BY <1>2, <1>3

LEMMA ByteByByte ==
    ASSUME NEW D, NEW S, <<>> \in S,
           \A s \in Seq(D), d \in D : s \in S => Append(s, d) \in S
    PROVE Seq(D) \subseteq S
<1> DEFINE Long(n) == \A s \in Seq(D) : Len(s) = n => s \in S
           T == {n \in Nat : Long(n)}
<1>1. 0 \in T
  BY EmptySeq
<1>2. ASSUME NEW n \in Nat, Long(n) PROVE Long(n + 1)
  <2> SUFFICES ASSUME NEW s \in Seq(D), Len(s) = n + 1 PROVE s \in S
    OBVIOUS
  <2>1. PICK t \in Seq(D), d \in D : s = Append(t, d)
    BY EmptySeq, SequenceEmptyOrAppend
  <2>2. Len(t) = n
    BY <2>1, AppendProperties, LenProperties
  <2> QED BY <1>2, <2>1, <2>2
<1> HIDE DEF Long
<1>3. \A n \in Nat : n \in T => n + 1 \in T
  BY <1>2
<1>4. Nat \subseteq T
  <2> HIDE DEF T
  <2> QED BY <1>1, <1>3, NumberByNumber
<1> QED BY <1>4, LenProperties DEF Long
-----------------------------------------------------------------------------
(***************************************************************************)
(* The folds of Feed and Joined, unfolded from the right.  FoldLeft is a   *)
(* function of sets of indices, defined by recursion: that there is one is *)
(* proved by induction.                                                    *)
(***************************************************************************)
Step(what, x, y) == IF what = "feed" THEN Consume(x, y) ELSE x \o y.bytes

\* f holds the fold of every subset of the first n indices of s.
Table(what, base, s, n, f) ==
    f = [I \in SUBSET (1 .. n) |->
            IF I = {} THEN base ELSE Step(what, f[I \ {Max(I)}], s[Max(I)])]

LEMMA MaxOfNumbers ==
    ASSUME NEW I, NEW n \in I, \A i \in I : i \in Int /\ i <= n
    PROVE Max(I) = n
<1>1. /\ \A y \in I : n >= y
      /\ \A x \in I : (\A y \in I : x >= y) => x = n
  OBVIOUS
<1> QED BY ONLY <1>1, n \in I DEF Max

LEMMA TableExists ==
    ASSUME NEW what, NEW base, NEW s
    PROVE \A n \in Nat : \E f : Table(what, base, s, n, f)
<1> DEFINE T == {n \in Nat : \E f : Table(what, base, s, n, f)}
<1>1. 0 \in T
  <2>1. SUBSET (1 .. 0) = {{}}
    OBVIOUS
  <2>2. Table(what, base, s, 0, [I \in SUBSET (1 .. 0) |-> base])
    BY <2>1 DEF Table
  <2> QED BY <2>2
<1>2. ASSUME NEW n \in Nat, NEW f, Table(what, base, s, n, f)
      PROVE \E g : Table(what, base, s, n + 1, g)
  <2> DEFINE Value(I) == IF n + 1 \in I THEN Step(what, f[I \ {n + 1}], s[n + 1])
                         ELSE f[I]
             g == [I \in SUBSET (1 .. n + 1) |-> Value(I)]
  <2>1. ASSUME NEW I \in SUBSET (1 .. n + 1)
        PROVE g[I] = IF I = {} THEN base
                     ELSE Step(what, g[I \ {Max(I)}], s[Max(I)])
    <3>1. CASE n + 1 \in I
      <4>1. Max(I) = n + 1
        <5>1. \A i \in I : i \in Int /\ i <= n + 1
          OBVIOUS
        <5> QED BY <3>1, <5>1, MaxOfNumbers
      <4>2. I \ {n + 1} \in SUBSET (1 .. n + 1) /\ n + 1 \notin I \ {n + 1}
        OBVIOUS
      <4>3. g[I \ {n + 1}] = f[I \ {n + 1}]
        BY <4>2
      <4>4. g[I] = Step(what, f[I \ {n + 1}], s[n + 1])
        BY <3>1
      <4> QED BY <3>1, <4>1, <4>3, <4>4
    <3>2. CASE n + 1 \notin I
      <4>1. I \in SUBSET (1 .. n)
        BY <3>2
      <4>2. g[I] = f[I]
        BY <3>2
      <4>3. f[I] = IF I = {} THEN base
                   ELSE Step(what, f[I \ {Max(I)}], s[Max(I)])
        BY <1>2, <4>1 DEF Table
      <4>4. g[I \ {Max(I)}] = f[I \ {Max(I)}]
        BY <3>2
      <4> QED BY <4>2, <4>3, <4>4
    <3> QED BY <3>1, <3>2
  <2>2. g = [I \in SUBSET (1 .. n + 1) |->
                IF I = {} THEN base
                ELSE Step(what, g[I \ {Max(I)}], s[Max(I)])]
    <3>1. g = [I \in SUBSET (1 .. n + 1) |-> g[I]]
      OBVIOUS
    <3> HIDE DEF g
    <3> QED BY <2>1, <3>1
  <2> QED BY <2>2 DEF Table
<1>3. \A n \in Nat : n \in T => n + 1 \in T
  BY <1>2
<1>4. Nat \subseteq T
  <2> HIDE DEF T
  <2> QED BY <1>1, <1>3, NumberByNumber
<1> QED BY <1>4

\* The fold of nothing.
LEMMA TableStart ==
    \A what, base, s, f : \A n \in Nat :
        Table(what, base, s, n, f) => f[1 .. 0] = base
<1> TAKE what, base, s, f
<1> TAKE n \in Nat
<1> HAVE Table(what, base, s, n, f)
<1>1. 1 .. 0 = {} /\ {} \in SUBSET (1 .. n)
  OBVIOUS
<1>2. f[{}] = base
  BY <1>1 DEF Table
<1> QED BY <1>1, <1>2

\* The fold of the first n: that of the first n - 1, and a step.
LEMMA TableSteps ==
    \A what, base, s, f : \A n \in Nat :
        Table(what, base, s, n, f) =>
            /\ f[1 .. 0] = base
            /\ \A k \in 1 .. n : f[1 .. k] = Step(what, f[1 .. k - 1], s[k])
<1> TAKE what, base, s, f
<1> TAKE n \in Nat
<1> HAVE Table(what, base, s, n, f)
<1>1. \A I \in SUBSET (1 .. n) :
         f[I] = IF I = {} THEN base
                ELSE Step(what, f[I \ {Max(I)}], s[Max(I)])
  BY DEF Table
<1>2. f[1 .. 0] = base
  BY TableStart
<1>3. ASSUME NEW k \in 1 .. n PROVE f[1 .. k] = Step(what, f[1 .. k - 1], s[k])
  <2>1. /\ 1 .. k \in SUBSET (1 .. n) /\ 1 .. k # {}
        /\ (1 .. k) \ {k} = 1 .. k - 1 /\ k \in 1 .. k
    OBVIOUS
  <2>2. Max(1 .. k) = k
    <3>1. \A i \in 1 .. k : i \in Int /\ i <= k
      OBVIOUS
    <3> QED BY <2>1, <3>1, MaxOfNumbers
  <2> QED BY <1>1, <2>1, <2>2
<1> QED BY <1>2, <1>3

\* Two tables agree as far as the sequences do.
LEMMA TablesAgree ==
    ASSUME NEW what, NEW base, NEW s, NEW t, NEW n \in Nat, NEW m \in Nat,
           NEW f, NEW g,
           Table(what, base, s, n, f), Table(what, base, t, m, g),
           n <= m, \A i \in 1 .. n : s[i] = t[i]
    PROVE f[1 .. n] = g[1 .. n]
<1>1. /\ f[1 .. 0] = base
      /\ \A k \in 1 .. n : f[1 .. k] = Step(what, f[1 .. k - 1], s[k])
  BY ONLY n \in Nat, Table(what, base, s, n, f), TableSteps
<1>2. /\ g[1 .. 0] = base
      /\ \A k \in 1 .. m : g[1 .. k] = Step(what, g[1 .. k - 1], t[k])
  BY ONLY m \in Nat, Table(what, base, t, m, g), TableSteps
<1> DEFINE T == {k \in Nat : k <= n => f[1 .. k] = g[1 .. k]}
<1>3. 0 \in T
  BY <1>1, <1>2
<1>4. ASSUME NEW k \in Nat, k \in T PROVE k + 1 \in T
  <2>1. CASE k + 1 <= n
    <3>1. k + 1 \in 1 .. n /\ k + 1 \in 1 .. m /\ k + 1 - 1 = k /\ k <= n
      BY <2>1
    <3>2. f[1 .. k + 1] = Step(what, f[1 .. k], s[k + 1])
      BY <1>1, <3>1
    <3>3. g[1 .. k + 1] = Step(what, g[1 .. k], t[k + 1])
      BY <1>2, <3>1
    <3> QED BY <1>4, <3>1, <3>2, <3>3
  <2> QED BY <2>1
<1>5. Nat \subseteq T
  <2> HIDE DEF T
  <2> QED BY <1>3, <1>4, NumberByNumber
<1> QED BY <1>5

LEMMA FeedIsTable ==
    ASSUME NEW p, NEW data \in Seq(Bytes)
    PROVE \E f : Table("feed", p, data, Len(data), f) /\ Feed(p, data) = f[1 .. Len(data)]
<1> DEFINE Is(f) == f = [I \in SUBSET (DOMAIN data) |->
                            IF I = {} THEN p
                            ELSE Consume(f[I \ {Max(I)}], data[Max(I)])]
<1>1. Feed(p, data) = (CHOOSE f : Is(f))[DOMAIN data]
  BY DEF Feed, FoldLeft, MapThenFoldSet
<1>2. \A f : Is(f) <=> Table("feed", p, data, Len(data), f)
  BY LenProperties DEF Table, Step
<1>3. \E f : Is(f)
  BY <1>2, TableExists, LenProperties
<1>4. Is(CHOOSE f : Is(f))
  <2> HIDE DEF Is
  <2> QED BY <1>3
<1> HIDE DEF Is
<1> QED BY <1>1, <1>2, <1>4, LenProperties

LEMMA JoinedIsTable ==
    ASSUME NEW S, NEW events \in Seq(S)
    PROVE \E f : /\ Table("join", <<>>, events, Len(events), f)
                 /\ Joined(events) = f[1 .. Len(events)]
<1> DEFINE Is(f) == f = [I \in SUBSET (DOMAIN events) |->
                            IF I = {} THEN <<>>
                            ELSE f[I \ {Max(I)}] \o events[Max(I)].bytes]
<1>1. Joined(events) = (CHOOSE f : Is(f))[DOMAIN events]
  BY DEF Joined, FoldLeft, MapThenFoldSet
<1>2. \A f : Is(f) <=> Table("join", <<>>, events, Len(events), f)
  BY LenProperties DEF Table, Step
<1>3. \E f : Is(f)
  BY <1>2, TableExists, LenProperties
<1>4. Is(CHOOSE f : Is(f))
  <2> HIDE DEF Is
  <2> QED BY <1>3
<1> HIDE DEF Is
<1> QED BY <1>1, <1>2, <1>4, LenProperties

\* One step more of a table: what is read of it after one more item.
LEMMA TableAppend ==
    ASSUME NEW what, NEW base, NEW S, NEW s \in Seq(S), NEW x \in S,
           NEW f, NEW g, Table(what, base, s, Len(s), f),
           Table(what, base, Append(s, x), Len(Append(s, x)), g)
    PROVE g[1 .. Len(Append(s, x))] = Step(what, f[1 .. Len(s)], x)
<1> DEFINE t == Append(s, x)
           n == Len(s)
<1>1. /\ n \in Nat /\ Len(t) = n + 1 /\ t[n + 1] = x
      /\ \A i \in 1 .. n : s[i] = t[i]
  BY AppendProperties, LenProperties
<1> HIDE DEF t, n
<1>2. Table(what, base, s, n, f) /\ Table(what, base, t, n + 1, g)
  BY <1>1 DEF t, n
<1>3. f[1 .. n] = g[1 .. n]
  <2>1. n + 1 \in Nat /\ n <= n + 1
    BY <1>1
  <2> QED BY <1>1, <1>2, <2>1, TablesAgree
<1>4. \A k \in 1 .. n + 1 : g[1 .. k] = Step(what, g[1 .. k - 1], t[k])
  <2>1. n + 1 \in Nat
    BY <1>1
  <2>2. Table(what, base, t, n + 1, g)
    BY <1>2
  <2> QED BY ONLY <2>1, <2>2, TableSteps
<1>5. n + 1 \in 1 .. n + 1 /\ n + 1 - 1 = n
  BY <1>1
<1>6. g[1 .. n + 1] = Step(what, g[1 .. n], x)
  BY <1>1, <1>4, <1>5
<1> QED BY <1>1, <1>3, <1>6 DEF t, n

LEMMA FeedNothing == ASSUME NEW p PROVE Feed(p, <<>>) = p
<1>1. <<>> \in Seq(Bytes) /\ Len(<<>>) = 0
  BY EmptySeq
<1>2. PICK f : Table("feed", p, <<>>, 0, f) /\ Feed(p, <<>>) = f[1 .. 0]
  BY <1>1, FeedIsTable
<1>3. f[1 .. 0] = p
  <2>1. Table("feed", p, <<>>, 0, f) /\ 0 \in Nat
    BY <1>2
  <2> QED BY ONLY <2>1, TableStart
<1> QED BY <1>2, <1>3

LEMMA FeedOneMore ==
    ASSUME NEW p, NEW d \in Seq(Bytes), NEW b \in Bytes
    PROVE Feed(p, Append(d, b)) = Consume(Feed(p, d), b)
<1>1. Append(d, b) \in Seq(Bytes)
  BY AppendProperties
<1>2. PICK f : Table("feed", p, d, Len(d), f) /\ Feed(p, d) = f[1 .. Len(d)]
  BY FeedIsTable
<1>3. PICK g : /\ Table("feed", p, Append(d, b), Len(Append(d, b)), g)
               /\ Feed(p, Append(d, b)) = g[1 .. Len(Append(d, b))]
  BY <1>1, FeedIsTable
<1>4. g[1 .. Len(Append(d, b))] = Step("feed", f[1 .. Len(d)], b)
  BY ONLY <1>2, <1>3, TableAppend, d \in Seq(Bytes), b \in Bytes
<1> QED BY <1>2, <1>3, <1>4 DEF Step

LEMMA JoinedNothing == Joined(<<>>) = <<>>
<1>1. <<>> \in Seq({}) /\ Len(<<>>) = 0
  BY EmptySeq
<1>2. PICK f : Table("join", <<>>, <<>>, 0, f) /\ Joined(<<>>) = f[1 .. 0]
  BY <1>1, JoinedIsTable
<1>3. f[1 .. 0] = <<>>
  <2>1. Table("join", <<>>, <<>>, 0, f) /\ 0 \in Nat
    BY <1>2
  <2> QED BY ONLY <2>1, TableStart
<1> QED BY <1>2, <1>3

LEMMA JoinedOneMore ==
    ASSUME NEW S, NEW events \in Seq(S), NEW e \in S
    PROVE Joined(Append(events, e)) = Joined(events) \o e.bytes
<1>1. Append(events, e) \in Seq(S)
  BY AppendProperties
<1>2. PICK f : /\ Table("join", <<>>, events, Len(events), f)
               /\ Joined(events) = f[1 .. Len(events)]
  BY JoinedIsTable
<1>3. PICK g : /\ Table("join", <<>>, Append(events, e), Len(Append(events, e)), g)
               /\ Joined(Append(events, e)) = g[1 .. Len(Append(events, e))]
  BY <1>1, JoinedIsTable
<1>4. g[1 .. Len(Append(events, e))] = Step("join", f[1 .. Len(events)], e)
  BY ONLY <1>2, <1>3, TableAppend, events \in Seq(S), e \in S
<1> QED BY <1>2, <1>3, <1>4 DEF Step
-----------------------------------------------------------------------------
(***************************************************************************)
(* What one byte does to the parser.  Consume is a flush of a broken rune, *)
(* if there is one, and then one of three ways to take the byte; each      *)
(* either completes an event or adds the byte to an accumulator.           *)
(***************************************************************************)
EventKinds == {"text", "control", "rune", "bad", "csi", "osc", "esc", "unknown",
               "dropped"}
Event == [kind : EventKinds, bytes : Seq(Bytes)]

IsState(p) ==
    /\ p = [esc |-> p.esc, utf8 |-> p.utf8, title |-> p.title, out |-> p.out]
    /\ p.esc \in Seq(Bytes) /\ p.utf8 \in Seq(Bytes) /\ p.out \in Seq(Event)

Flushed(p, b) == IF p.utf8 # <<>> /\ BreaksRune(b) THEN FlushRune(p) ELSE p
Taken(q, b) ==
    IF q.utf8 # <<>> /\ b = Cont THEN ContinueRune(q)
    ELSE IF q.esc # <<>> THEN HandleEsc(q, Append(q.esc, b))
    ELSE Plain(q, b)

LEMMA ConsumeIs == ASSUME NEW p, NEW b PROVE Consume(p, b) = Taken(Flushed(p, b), b)
BY DEF Consume, Taken, Flushed

\* r is q with one event more and an accumulator emptied, or without an event.
Shows(q, r, what, bytes, esc, utf8) ==
    /\ r = [esc |-> esc, utf8 |-> utf8, title |-> r.title, out |-> r.out]
    /\ r.out = Append(q.out, [kind |-> what, bytes |-> bytes])
Gathers(q, r, esc, utf8) ==
    r = [esc |-> esc, utf8 |-> utf8, title |-> r.title, out |-> q.out]

LEMMA ShowsState ==
    ASSUME NEW q, IsState(q), NEW r, NEW what \in EventKinds,
           NEW bytes \in Seq(Bytes), NEW e \in Seq(Bytes), NEW u \in Seq(Bytes),
           Shows(q, r, what, bytes, e, u)
    PROVE IsState(r) /\ r.esc = e /\ r.utf8 = u
<1>1. [kind |-> what, bytes |-> bytes] \in Event
  BY DEF Event
<1>2. r.esc = e /\ r.utf8 = u
  BY DEF Shows
<1>3. r.out \in Seq(Event)
  BY <1>1, AppendProperties DEF Shows, IsState
<1> QED BY <1>2, <1>3 DEF IsState, Shows

LEMMA GathersState ==
    ASSUME NEW q, IsState(q), NEW r, NEW e \in Seq(Bytes), NEW u \in Seq(Bytes),
           Gathers(q, r, e, u)
    PROVE IsState(r) /\ r.esc = e /\ r.utf8 = u /\ r.out = q.out
<1>1. r.esc = e /\ r.utf8 = u /\ r.out = q.out
  BY DEF Gathers
<1> QED BY <1>1 DEF IsState, Gathers

LEMMA FlushShows ==
    ASSUME NEW p, IsState(p), NEW b
    PROVE IF p.utf8 # <<>> /\ b # Cont
          THEN Shows(p, Flushed(p, b), "bad", p.utf8, p.esc, <<>>)
          ELSE Flushed(p, b) = p
BY DEF IsState, Flushed, FlushRune, Emit, Shows, BreaksRune

LEMMA RuneShows ==
    ASSUME NEW q, IsState(q)
    PROVE LET u == Append(q.utf8, Cont) IN
          IF Len(u) >= utf8SeqLen(u[1])
          THEN Shows(q, ContinueRune(q), "rune", u, q.esc, <<>>)
          ELSE Gathers(q, ContinueRune(q), q.esc, u)
BY DEF IsState, ContinueRune, Emit, Shows, Gathers

LEMMA PlainShows ==
    ASSUME NEW q, IsState(q), NEW b \in Bytes
    PROVE /\ b = ESC => Gathers(q, Plain(q, b), <<ESC>>, q.utf8)
          /\ b \in Lead => Gathers(q, Plain(q, b), q.esc, <<b>>)
          /\ b \in Control => Shows(q, Plain(q, b), "control", <<b>>, q.esc, q.utf8)
          /\ b \notin {ESC} \union Lead \union Control
             => Shows(q, Plain(q, b), "text", <<b>>, q.esc, q.utf8)
<1>1. CASE b = ESC
  BY <1>1 DEF IsState, Plain, Gathers, ESC, Lead, Control, BEL
<1>2. CASE b \in Lead
  BY <1>2 DEF IsState, Plain, Gathers, ESC, Lead, Control, BEL
<1>3. CASE b \in Control
  BY <1>3 DEF IsState, Plain, Shows, Emit, ESC, Lead, Control, BEL
<1>4. CASE b # ESC /\ b \notin Lead /\ b \notin Control
  BY <1>4 DEF IsState, Plain, Shows, Emit, ESC, Lead, Control, BEL
<1> QED BY <1>1, <1>2, <1>3, <1>4 DEF ESC, Lead, Control, BEL

\* What becomes of the bytes of an escape sequence: the kind of event, or "wait".
OverLimit(e, limit) == IF Len(e) > limit THEN "dropped" ELSE "wait"
Verdict(e) ==
    IF e[2] = "]"
    THEN IF \/ e[Len(e)] = BEL
            \/ e[Len(e) - 1] = ESC /\ e[Len(e)] = "\\"
         THEN "osc" ELSE OverLimit(e, OscLimit)
    ELSE IF e[2] = "["
    THEN IF Len(e) < 3 THEN "wait"
         ELSE IF e[Len(e)] \in Final THEN "csi" ELSE OverLimit(e, CsiLimit)
    ELSE IF e[2] \in Known THEN "esc"
    ELSE IF e[2] \in Final THEN "unknown" ELSE "wait"

LEMMA EndsIs ==
    ASSUME NEW q, IsState(q), NEW what, NEW e
    PROVE Ends(q, what, e) =
              [esc |-> <<>>, utf8 |-> q.utf8, title |-> q.title,
               out |-> Append(q.out, [kind |-> what, bytes |-> e])]
<1> DEFINE o == Append(q.out, [kind |-> what, bytes |-> e])
<1>1. Emit(q, what, e) =
          [esc |-> q.esc, utf8 |-> q.utf8, title |-> q.title, out |-> o]
  <2>1. Emit(q, what, e) = [q EXCEPT !.out = o]
    BY DEF Emit
  <2>2. q = [esc |-> q.esc, utf8 |-> q.utf8, title |-> q.title, out |-> q.out]
    BY DEF IsState
  <2> HIDE DEF o
  <2> QED BY <2>1, <2>2
<1> HIDE DEF o
<1>2. Ends(q, what, e) =
          [esc |-> <<>>, utf8 |-> q.utf8, title |-> q.title, out |-> o]
  BY <1>1 DEF Ends
<1> QED BY <1>2 DEF o

LEMMA EscShows ==
    ASSUME NEW q, IsState(q), NEW e
    PROVE IF Verdict(e) = "wait"
          THEN Gathers(q, HandleEsc(q, e), e, q.utf8)
          ELSE Shows(q, HandleEsc(q, e), Verdict(e), e, <<>>, q.utf8)
<1> DEFINE r == HandleEsc(q, e)
<1>1. Gathers(q, Waits(q, e), e, q.utf8)
  BY DEF IsState, Waits, Gathers
<1>2. ASSUME NEW what PROVE Shows(q, Ends(q, what, e), what, e, <<>>, q.utf8)
  BY EndsIs DEF Shows
<1>3. ASSUME NEW t PROVE Shows(q, EndsOSC(q, e, t), "osc", e, <<>>, q.utf8)
  BY EndsIs DEF EndsOSC, Shows
<1>4. ASSUME NEW limit
      PROVE IF OverLimit(e, limit) = "wait"
            THEN Gathers(q, DropsOver(q, e, limit), e, q.utf8)
            ELSE Shows(q, DropsOver(q, e, limit), OverLimit(e, limit), e, <<>>, q.utf8)
  BY <1>1, <1>2 DEF DropsOver, OverLimit
<1>5. CASE e[2] = "]"
  <2>1. HandleEsc(q, e) = OSC(q, e)
    BY <1>5 DEF HandleEsc, Known
  <2> QED BY <1>3, <1>4, <1>5, <2>1 DEF OSC, Verdict
<1>6. CASE e[2] = "["
  <2>1. HandleEsc(q, e) = CSI(q, e)
    BY <1>6 DEF HandleEsc, Known
  <2> QED BY <1>1, <1>2, <1>4, <1>6, <2>1 DEF CSI, Verdict
<1>7. CASE e[2] # "]" /\ e[2] # "[" /\ e[2] \in Known
  <2>1. HandleEsc(q, e) = KnownEsc(q, e)
    BY <1>7 DEF HandleEsc, Known
  <2> QED BY <1>2, <1>7, <2>1 DEF KnownEsc, Verdict
<1>8. CASE e[2] # "]" /\ e[2] # "[" /\ e[2] \notin Known
  <2>1. HandleEsc(q, e) = UnknownEsc(q, e)
    BY <1>8 DEF HandleEsc, Known
  <2> QED BY <1>1, <1>2, <1>8, <2>1 DEF UnknownEsc, Verdict
<1> QED BY <1>5, <1>6, <1>7, <1>8
-----------------------------------------------------------------------------
(***************************************************************************)
(* The sentences of the grammar by their indices, and the start of one, as *)
(* an accumulator holds it.                                                *)
(***************************************************************************)
EndsAt(s, i) == \/ s[i] = BEL
                \/ i >= 4 /\ s[i - 1] = ESC /\ s[i] = "\\"

OpenRune(u) ==
    \/ u = <<>>
    \/ /\ u # <<>> /\ u[1] \in Lead /\ Len(u) < utf8SeqLen(u[1])
       /\ \A i \in 2 .. Len(u) : u[i] = Cont
OpenCSI(e) ==
    /\ e[2] = "[" /\ (Len(e) = 2 \/ Len(e) <= CsiLimit)
    /\ \A i \in 3 .. Len(e) : e[i] \notin Final
OpenOSC(e) ==
    /\ e[2] = "]" /\ Len(e) <= OscLimit
    /\ \A i \in 3 .. Len(e) : ~EndsAt(e, i)
OpenEsc(e) ==
    \/ e = <<>>
    \/ e = <<ESC>>
    \/ /\ Len(e) >= 2 /\ e[1] = ESC
       /\ OpenCSI(e) \/ OpenOSC(e) \/ e[2] \notin Known \union Final

\* A rune and an escape sequence are not under way at once.
Open(p) == OpenRune(p.utf8) /\ OpenEsc(p.esc) /\ (p.utf8 = <<>> \/ p.esc = <<>>)

LEMMA RuneBytes ==
    ASSUME NEW s \in Seq(Bytes), s # <<>>, s[1] \in Lead,
           Len(s) <= utf8SeqLen(s[1]), \A i \in 2 .. Len(s) : s[i] = Cont
    PROVE IsRune(s)
<1>1. None(Tail(s), Bytes \ {Cont})
  <2>1. /\ Len(Tail(s)) = Len(s) - 1 /\ Len(s) \in Nat
        /\ \A i \in 1 .. Len(Tail(s)) : Tail(s)[i] = s[i + 1]
        /\ DOMAIN Tail(s) = 1 .. Len(Tail(s))
    BY LenProperties, HeadTailProperties, EmptySeq
  <2>2. ASSUME NEW i \in DOMAIN Tail(s) PROVE Tail(s)[i] = Cont
    <3>1. i + 1 \in 2 .. Len(s)
      BY <2>1
    <3> QED BY <2>1, <3>1
  <2> QED BY <2>2 DEF None
<1> QED BY <1>1 DEF IsRune

LEMMA CsiBytes ==
    ASSUME NEW s \in Seq(Bytes), Len(s) >= 2, s[1] = ESC, s[2] = "[",
           \A i \in 3 .. Len(s) - 1 : s[i] \notin Final
    PROVE IsCSI(s)
<1>1. None(Inner(s), Final)
  <2>1. \A i \in 3 .. Len(s) - 1 : s[i] \in Bytes
    BY LenProperties
  <2>2. Len(s) \in Nat /\ Len(s) - 1 \in Int
    BY LenProperties
  <2>3. /\ Inner(s) \in Seq(Bytes)
        /\ Len(Inner(s)) = IF 3 <= Len(s) - 1 THEN Len(s) - 1 - 3 + 1 ELSE 0
        /\ \A i \in 1 .. Len(s) - 1 - 3 + 1 : Inner(s)[i] = s[3 + i - 1]
    BY <2>1, <2>2, SubSeqProperties DEF Inner
  <2>4. ASSUME NEW i \in DOMAIN Inner(s) PROVE Inner(s)[i] \notin Final
    <3>1. /\ i \in 1 .. Len(s) - 1 - 3 + 1
          /\ 3 + i - 1 \in 3 .. Len(s) - 1
      BY <2>2, <2>3, LenProperties
    <3> QED BY <2>3, <3>1
  <2> QED BY <2>4 DEF None
<1> QED BY <1>1 DEF IsCSI

LEMMA EndedAt ==
    ASSUME NEW s \in Seq(Bytes), NEW i \in 3 .. Len(s)
    PROVE Ended(SubSeq(s, 3, i)) <=> EndsAt(s, i)
<1> DEFINE t == SubSeq(s, 3, i)
<1>1. /\ Len(s) \in Nat /\ Len(t) = i - 2 /\ t # <<>>
      /\ \A k \in 1 .. i - 2 : t[k] = s[k + 2]
  BY LenProperties
<1> HIDE DEF t
<1>2. t[Len(t)] = s[i]
  <2>1. i - 2 \in 1 .. i - 2 /\ i - 2 + 2 = i
    OBVIOUS
  <2> QED BY <1>1, <2>1
<1>3. Len(t) >= 2 <=> i >= 4
  BY <1>1
<1>4. i >= 4 => t[Len(t) - 1] = s[i - 1]
  <2> HAVE i >= 4
  <2>1. i - 3 \in 1 .. i - 2 /\ i - 3 + 2 = i - 1 /\ Len(t) - 1 = i - 3
    BY <1>1
  <2> QED BY <1>1, <2>1
<1>5. Ended(t) <=> EndsAt(s, i)
  BY <1>1, <1>2, <1>3, <1>4 DEF Ended, EndsAt
<1> QED BY <1>5 DEF t

LEMMA OscBytes ==
    ASSUME NEW s \in Seq(Bytes), Len(s) >= 2, s[1] = ESC, s[2] = "]",
           \A i \in 3 .. Len(s) - 1 : ~EndsAt(s, i)
    PROVE IsOSC(s)
<1>1. ASSUME NEW i \in 3 .. Len(s) - 1 PROVE ~Ended(SubSeq(s, 3, i))
  <2>1. i \in 3 .. Len(s)
    BY LenProperties
  <2>2. ~EndsAt(s, i)
    OBVIOUS
  <2> QED BY <2>1, <2>2, EndedAt
<1> QED BY <1>1 DEF IsOSC

\* One byte more of an escape sequence: still the start of one, or one of the
\* grammar.
LEMMA OneMoreOfEsc ==
    ASSUME NEW s \in Seq(Bytes), NEW b \in Bytes, s # <<>>, OpenEsc(s)
    PROVE LET e == Append(s, b) IN
          IF Verdict(e) = "wait" THEN OpenEsc(e)
          ELSE /\ Verdict(e) \in EventKinds
               /\ Grammatical([kind |-> Verdict(e), bytes |-> e])
<1> DEFINE e == Append(s, b)
           n == Len(e)
<1>1. /\ e \in Seq(Bytes) /\ Len(s) \in Nat /\ n = Len(s) + 1 /\ n \in Nat /\ n >= 2
      /\ e[n] = b /\ \A i \in 1 .. n - 1 : e[i] = s[i]
  BY LenProperties, AppendProperties, EmptySeq
<1>2. e[1] = ESC
  <2>1. s[1] = ESC
    BY DEF OpenEsc
  <2>2. 1 \in 1 .. n - 1
    BY <1>1
  <2> HIDE DEF e
  <2> QED BY <1>1, <2>1, <2>2
<1>3. s # <<ESC>> => n >= 3 /\ e[2] = s[2]
  <2> HAVE s # <<ESC>>
  <2>1. Len(s) >= 2
    BY DEF OpenEsc
  <2>2. n >= 3 /\ 2 \in 1 .. n - 1
    BY <1>1, <2>1
  <2> HIDE DEF e
  <2> QED BY <1>1, <2>2
<1>4. s = <<ESC>> => n = 2
  BY <1>1
<1> HIDE DEF e, n
<1> SUFFICES IF Verdict(e) = "wait" THEN OpenEsc(e)
             ELSE /\ Verdict(e) \in EventKinds
                  /\ Grammatical([kind |-> Verdict(e), bytes |-> e])
  BY DEF e
<1>5. CASE e[2] = "]"
  <2>1. \A i \in 3 .. n - 1 : ~EndsAt(e, i)
    <3>1. CASE s = <<ESC>>
      BY <1>1, <1>4, <3>1
    <3>2. CASE s # <<ESC>>
      <4>1. OpenOSC(s)
        BY <1>3, <1>5, <3>2 DEF OpenEsc, OpenCSI, Final
      <4>2. ASSUME NEW i \in 3 .. n - 1 PROVE ~EndsAt(e, i)
        <5>1. ~EndsAt(s, i)
          BY <1>1, <4>1 DEF OpenOSC
        <5>2. i \in 1 .. n - 1 /\ i - 1 \in 1 .. n - 1
          BY <1>1
        <5> QED BY <1>1, <5>1, <5>2 DEF EndsAt
      <4> QED BY <4>2
    <3> QED BY <3>1, <3>2
  <2>2. IsOSC(e)
    BY <1>1, <1>2, <1>5, <2>1, OscBytes DEF n
  <2>3. (e[n] = BEL \/ (e[n - 1] = ESC /\ e[n] = "\\")) <=> n >= 3 /\ EndsAt(e, n)
    BY <1>1, <1>2, <1>5 DEF EndsAt, BEL, ESC
  <2>4. CASE n >= 3 /\ EndsAt(e, n)
    <3>1. Verdict(e) = "osc"
      BY <1>5, <2>3, <2>4 DEF Verdict, n
    <3>2. Ended(SubSeq(e, 3, Len(e)))
      BY <1>1, <2>4, EndedAt DEF n
    <3> QED BY <2>2, <3>1, <3>2 DEF Grammatical, EventKinds
  <2>5. CASE ~(n >= 3 /\ EndsAt(e, n))
    <3>1. Verdict(e) = OverLimit(e, OscLimit)
      BY <1>5, <2>3, <2>5 DEF Verdict, n
    <3>2. CASE n > OscLimit
      <4>1. Verdict(e) = "dropped"
        BY <3>1, <3>2 DEF OverLimit, n
      <4> QED BY <2>2, <3>2, <4>1 DEF Grammatical, EventKinds, n
    <3>3. CASE ~(n > OscLimit)
      <4>1. Verdict(e) = "wait"
        BY <3>1, <3>3 DEF OverLimit, n
      <4>2. \A i \in 3 .. n : ~EndsAt(e, i)
        BY <1>1, <2>1, <2>5
      <4>3. OpenOSC(e)
        BY <1>1, <1>5, <3>3, <4>2, LimitsAssumption DEF OpenOSC, n
      <4> QED BY <1>1, <1>2, <4>1, <4>3 DEF OpenEsc, n
    <3> QED BY <3>2, <3>3
  <2> QED BY <2>4, <2>5
<1>6. CASE e[2] = "["
  <2>1. \A i \in 3 .. n - 1 : e[i] \notin Final
    <3>1. CASE s = <<ESC>>
      BY <1>1, <1>4, <3>1
    <3>2. CASE s # <<ESC>>
      <4>1. OpenCSI(s)
        BY <1>3, <1>6, <3>2 DEF OpenEsc, OpenOSC, Final
      <4>2. ASSUME NEW i \in 3 .. n - 1 PROVE e[i] \notin Final
        BY <1>1, <4>1 DEF OpenCSI
      <4> QED BY <4>2
    <3> QED BY <3>1, <3>2
  <2>2. IsCSI(e)
    BY <1>1, <1>2, <1>6, <2>1, CsiBytes DEF n
  <2>3. CASE n = 2
    <3>1. Verdict(e) = "wait"
      BY <1>6, <2>3 DEF Verdict, n
    <3>2. OpenCSI(e)
      BY <1>6, <2>3 DEF OpenCSI, n
    <3> QED BY <1>1, <1>2, <3>1, <3>2 DEF OpenEsc, n
  <2>4. CASE n >= 3 /\ e[n] \in Final
    <3>1. Verdict(e) = "csi"
      BY <1>1, <1>6, <2>4 DEF Verdict, n
    <3> QED BY <2>2, <2>4, <3>1 DEF Grammatical, EventKinds, n
  <2>5. CASE n >= 3 /\ e[n] \notin Final
    <3>1. Verdict(e) = OverLimit(e, CsiLimit)
      BY <1>1, <1>6, <2>5 DEF Verdict, n
    <3>2. CASE n > CsiLimit
      <4>1. Verdict(e) = "dropped"
        BY <3>1, <3>2 DEF OverLimit, n
      <4> QED BY <2>2, <3>2, <4>1 DEF Grammatical, EventKinds, n
    <3>3. CASE ~(n > CsiLimit)
      <4>1. Verdict(e) = "wait"
        BY <3>1, <3>3 DEF OverLimit, n
      <4>2. \A i \in 3 .. n : e[i] \notin Final
        BY <1>1, <2>1, <2>5
      <4>3. OpenCSI(e)
        BY <1>1, <1>6, <3>3, <4>2, LimitsAssumption DEF OpenCSI, n
      <4> QED BY <1>1, <1>2, <4>1, <4>3 DEF OpenEsc, n
    <3> QED BY <3>2, <3>3
  <2> QED BY <1>1, <2>3, <2>4, <2>5
<1>7. CASE e[2] # "]" /\ e[2] # "[" /\ e[2] \in Known \union Final
  <2>1. n = 2
    <3>1. s # <<ESC>> => ~OpenCSI(s) /\ ~OpenOSC(s)
      BY <1>3, <1>7 DEF OpenCSI, OpenOSC
    <3> QED BY <1>3, <1>4, <1>7, <3>1 DEF OpenEsc
  <2>2. Verdict(e) = IF e[2] \in Known THEN "esc" ELSE "unknown"
    BY <1>7 DEF Verdict
  <2> QED BY <1>2, <1>7, <2>1, <2>2 DEF Grammatical, EventKinds, n
<1>8. CASE e[2] \notin Known \union Final
  <2>1. Verdict(e) = "wait"
    BY <1>8 DEF Verdict, Known, Final
  <2> QED BY <1>1, <1>2, <1>8, <2>1 DEF OpenEsc, n
<1> QED BY <1>5, <1>6, <1>7, <1>8 DEF Final
-----------------------------------------------------------------------------
(***************************************************************************)
(* p has read d: its events are sentences, and their bytes, with those of  *)
(* the accumulators, are d.                                                *)
(***************************************************************************)
Reads(p, d) ==
    /\ IsState(p) /\ Open(p)
    /\ \A i \in DOMAIN p.out : Grammatical(p.out[i])
    /\ Joined(p.out) \in Seq(Bytes)
    /\ Joined(p.out) \o (p.esc \o p.utf8) = d

\* An event of all that is pending.
LEMMA ShowsReads ==
    ASSUME NEW q, IsState(q), \A i \in DOMAIN q.out : Grammatical(q.out[i]),
           Joined(q.out) \in Seq(Bytes),
           NEW what \in EventKinds, NEW bytes \in Seq(Bytes),
           Grammatical([kind |-> what, bytes |-> bytes]),
           NEW r, Shows(q, r, what, bytes, <<>>, <<>>)
    PROVE Reads(r, Joined(q.out) \o bytes)
<1> DEFINE e == [kind |-> what, bytes |-> bytes]
<1>1. IsState(r) /\ r.esc = <<>> /\ r.utf8 = <<>>
  <2>1. <<>> \in Seq(Bytes)
    BY EmptySeq
  <2> QED BY <2>1, ShowsState
<1>2. e \in Event /\ e.bytes = bytes /\ Grammatical(e)
  BY DEF Event
<1>3. r.out = Append(q.out, e) /\ q.out \in Seq(Event)
  BY DEF Shows, IsState
<1> HIDE DEF e
<1>4. Joined(r.out) = Joined(q.out) \o bytes
  BY <1>2, <1>3, JoinedOneMore
<1>5. ASSUME NEW i \in DOMAIN r.out PROVE Grammatical(r.out[i])
  <2>1. /\ Len(q.out) \in Nat /\ Len(r.out) = Len(q.out) + 1 /\ r.out \in Seq(Event)
        /\ r.out[Len(q.out) + 1] = e
        /\ \A k \in 1 .. Len(q.out) : r.out[k] = q.out[k]
    BY <1>2, <1>3, AppendProperties, LenProperties
  <2>2. i # Len(q.out) + 1 => i \in DOMAIN q.out /\ i \in 1 .. Len(q.out)
    BY <1>3, <2>1, LenProperties
  <2> QED BY <1>2, <2>1, <2>2
<1>6. Joined(q.out) \o bytes \in Seq(Bytes)
  BY ConcatProperties
<1>7. (Joined(q.out) \o bytes) \o (<<>> \o <<>>) = Joined(q.out) \o bytes
  BY <1>6, ConcatEmptySeq, EmptySeq
<1>8. Open(r)
  BY <1>1 DEF Open, OpenRune, OpenEsc
<1> QED BY <1>1, <1>4, <1>5, <1>6, <1>7, <1>8 DEF Reads

\* The byte goes to an accumulator.
LEMMA GathersReads ==
    ASSUME NEW q, IsState(q), \A i \in DOMAIN q.out : Grammatical(q.out[i]),
           Joined(q.out) \in Seq(Bytes),
           NEW esc \in Seq(Bytes), NEW utf8 \in Seq(Bytes),
           OpenEsc(esc), OpenRune(utf8), utf8 = <<>> \/ esc = <<>>,
           NEW r, Gathers(q, r, esc, utf8)
    PROVE Reads(r, Joined(q.out) \o (esc \o utf8))
<1>1. IsState(r) /\ r.esc = esc /\ r.utf8 = utf8 /\ r.out = q.out
  BY GathersState
<1> QED BY <1>1 DEF Reads, Open

LEMMA FlushReads ==
    ASSUME NEW p, NEW d, Reads(p, d), NEW b
    PROVE /\ Reads(Flushed(p, b), d)
          /\ Flushed(p, b).utf8 # <<>> => b = Cont
<1>1. CASE p.utf8 # <<>> /\ b # Cont
  <2>1. Shows(p, Flushed(p, b), "bad", p.utf8, <<>>, <<>>)
    BY <1>1, FlushShows DEF Reads, Open
  <2>2. Grammatical([kind |-> "bad", bytes |-> p.utf8])
    <3>1. /\ p.utf8[1] \in Lead /\ Len(p.utf8) < utf8SeqLen(p.utf8[1])
          /\ \A i \in 2 .. Len(p.utf8) : p.utf8[i] = Cont
      BY <1>1 DEF Reads, Open, OpenRune
    <3>2. Len(p.utf8) <= utf8SeqLen(p.utf8[1]) /\ p.utf8 \in Seq(Bytes)
      BY <3>1, LenProperties DEF Reads, IsState, utf8SeqLen
    <3>3. IsRune(p.utf8)
      BY <1>1, <3>1, <3>2, RuneBytes
    <3> QED BY <3>1, <3>3 DEF Grammatical
  <2>3. Reads(Flushed(p, b), Joined(p.out) \o p.utf8)
    <3>1. /\ IsState(p) /\ Joined(p.out) \in Seq(Bytes) /\ p.utf8 \in Seq(Bytes)
          /\ \A i \in DOMAIN p.out : Grammatical(p.out[i])
      BY DEF Reads, IsState
    <3>2. "bad" \in EventKinds
      BY DEF EventKinds
    <3> QED BY ONLY <2>1, <2>2, <3>1, <3>2, ShowsReads
  <2>4. Joined(p.out) \o p.utf8 = d
    <3>1. p.esc = <<>> /\ p.utf8 \in Seq(Bytes)
      BY <1>1 DEF Reads, Open, IsState
    <3>2. p.esc \o p.utf8 = p.utf8
      BY <3>1, ConcatEmptySeq
    <3> QED BY <3>2 DEF Reads
  <2>5. Flushed(p, b).utf8 = <<>>
    BY <2>1 DEF Shows
  <2> QED BY <2>3, <2>4, <2>5
<1>2. CASE ~(p.utf8 # <<>> /\ b # Cont)
  <2>1. Flushed(p, b) = p
    BY <1>2 DEF Flushed, BreaksRune
  <2> QED BY <1>2, <2>1
<1> QED BY <1>1, <1>2

LEMMA OneMoreOfRune ==
    ASSUME NEW u \in Seq(Bytes), OpenRune(u), u # <<>>
    PROVE LET v == Append(u, Cont) IN
          IF Len(v) >= utf8SeqLen(v[1])
          THEN Grammatical([kind |-> "rune", bytes |-> v])
          ELSE OpenRune(v)
<1> DEFINE v == Append(u, Cont)
<1>1. Cont \in Bytes
  BY DEF Bytes
<1>2. /\ v \in Seq(Bytes) /\ v # <<>> /\ Len(v) = Len(u) + 1 /\ Len(u) \in Nat
      /\ Len(u) >= 1 /\ v[Len(u) + 1] = Cont
      /\ \A i \in 1 .. Len(u) : v[i] = u[i]
  BY <1>1, AppendProperties, LenProperties, EmptySeq
<1>3. /\ u[1] \in Lead /\ Len(u) < utf8SeqLen(u[1])
      /\ \A i \in 2 .. Len(u) : u[i] = Cont
  BY DEF OpenRune
<1> HIDE DEF v
<1>4. v[1] = u[1]
  BY <1>2
<1>5. ASSUME NEW i \in 2 .. Len(v) PROVE v[i] = Cont
  <2>1. i # Len(u) + 1 => i \in 2 .. Len(u) /\ i \in 1 .. Len(u)
    BY <1>2
  <2> QED BY <1>2, <1>3, <2>1
<1>6. utf8SeqLen(u[1]) \in Nat
  BY DEF utf8SeqLen
<1>7. Len(v) <= utf8SeqLen(v[1])
  BY <1>2, <1>3, <1>4, <1>6
<1>8. CASE Len(v) >= utf8SeqLen(v[1])
  <2>1. IsRune(v) /\ Len(v) = utf8SeqLen(v[1])
    BY <1>2, <1>3, <1>4, <1>5, <1>6, <1>7, <1>8, RuneBytes
  <2> QED BY <1>8, <2>1 DEF Grammatical, v
<1>9. CASE ~(Len(v) >= utf8SeqLen(v[1]))
  <2>1. OpenRune(v)
    BY <1>2, <1>3, <1>4, <1>5, <1>6, <1>9 DEF OpenRune
  <2> QED BY <1>9, <2>1 DEF v
<1> QED BY <1>8, <1>9

\* A byte that no accumulator takes.
LEMMA PlainReads ==
    ASSUME NEW q, IsState(q), \A i \in DOMAIN q.out : Grammatical(q.out[i]),
           Joined(q.out) \in Seq(Bytes), q.esc = <<>>, q.utf8 = <<>>,
           NEW b \in Bytes
    PROVE Reads(Plain(q, b), Joined(q.out) \o <<b>>)
<1>1. /\ <<b>> \in Seq(Bytes) /\ <<>> \in Seq(Bytes)
      /\ <<b>> \o <<>> = <<b>> /\ <<>> \o <<b>> = <<b>>
      /\ Len(<<b>>) = 1 /\ <<b>>[1] = b /\ <<b>> # <<>>
  <2>1. <<b>> \in Seq(Bytes) /\ <<>> \in Seq(Bytes)
    BY EmptySeq
  <2> QED BY <2>1, ConcatEmptySeq
<1>2. CASE b = ESC
  <2>1. Gathers(q, Plain(q, b), <<b>>, <<>>)
    BY <1>2, PlainShows
  <2>2. OpenEsc(<<b>>) /\ OpenRune(<<>>)
    BY <1>2 DEF OpenEsc, OpenRune
  <2>3. Reads(Plain(q, b), Joined(q.out) \o (<<b>> \o <<>>))
    BY <1>1, <2>1, <2>2, GathersReads
  <2> QED BY <1>1, <2>3
<1>3. CASE b \in Lead
  <2>1. Gathers(q, Plain(q, b), <<>>, <<b>>)
    BY <1>3, PlainShows DEF Lead, ESC
  <2>2. OpenEsc(<<>>) /\ OpenRune(<<b>>)
    BY <1>1, <1>3 DEF OpenEsc, OpenRune, utf8SeqLen
  <2>3. Reads(Plain(q, b), Joined(q.out) \o (<<>> \o <<b>>))
    BY <1>1, <2>1, <2>2, GathersReads
  <2> QED BY <1>1, <2>3
<1>4. CASE b \in Control
  <2>1. Shows(q, Plain(q, b), "control", <<b>>, <<>>, <<>>)
    BY <1>4, PlainShows DEF Control, Lead, ESC, BEL
  <2>2. Grammatical([kind |-> "control", bytes |-> <<b>>])
    BY <1>1, <1>4 DEF Grammatical
  <2> QED BY <1>1, <2>1, <2>2, ShowsReads DEF EventKinds
<1>5. CASE b # ESC /\ b \notin Lead /\ b \notin Control
  <2>1. Shows(q, Plain(q, b), "text", <<b>>, <<>>, <<>>)
    BY <1>5, PlainShows
  <2>2. Grammatical([kind |-> "text", bytes |-> <<b>>])
    BY <1>1, <1>5 DEF Grammatical, None
  <2> QED BY <1>1, <2>1, <2>2, ShowsReads DEF EventKinds
<1> QED BY <1>2, <1>3, <1>4, <1>5

LEMMA TakenReads ==
    ASSUME NEW q, NEW d, Reads(q, d), NEW b \in Bytes,
           q.utf8 # <<>> => b = Cont
    PROVE Reads(Taken(q, b), Append(d, b))
<1> DEFINE j == Joined(q.out)
<1>1. /\ IsState(q) /\ \A i \in DOMAIN q.out : Grammatical(q.out[i])
      /\ j \in Seq(Bytes) /\ q.esc \in Seq(Bytes) /\ q.utf8 \in Seq(Bytes)
      /\ <<>> \in Seq(Bytes)
  BY EmptySeq DEF Reads, IsState
<1>2. \A s \in Seq(Bytes) : j \o s = d => j \o Append(s, b) = Append(d, b)
  <2> SUFFICES ASSUME NEW s \in Seq(Bytes)
               PROVE j \o Append(s, b) = Append(j \o s, b)
    OBVIOUS
  <2>1. Append(s, b) = s \o <<b>> /\ <<b>> \in Seq(Bytes) /\ j \o s \in Seq(Bytes)
    BY <1>1, AppendIsConcat, ConcatProperties
  <2>2. Append(j \o s, b) = (j \o s) \o <<b>>
    BY <2>1, AppendIsConcat
  <2> HIDE DEF j
  <2>3. (j \o s) \o <<b>> = j \o (s \o <<b>>)
    BY <1>1, <2>1, ConcatAssociative
  <2> QED BY <2>1, <2>2, <2>3
<1>3. d = j \o (q.esc \o q.utf8)
  BY DEF Reads
<1>4. CASE q.utf8 # <<>>
  <2> DEFINE v == Append(q.utf8, Cont)
  <2>1. q.esc = <<>> /\ OpenRune(q.utf8) /\ b = Cont
    BY <1>4 DEF Reads, Open
  <2>2. j \o v = Append(d, b) /\ v \in Seq(Bytes) /\ <<>> \o v = v
    <3>1. q.esc \o q.utf8 = q.utf8
      BY <1>1, <2>1, ConcatEmptySeq
    <3>2. j \o v = Append(d, b)
      BY <1>1, <1>2, <1>3, <2>1, <3>1
    <3>3. v \in Seq(Bytes)
      BY <1>1, <2>1, AppendProperties
    <3> QED BY <3>2, <3>3, ConcatEmptySeq
  <2>3. Taken(q, b) = ContinueRune(q)
    BY <1>4, <2>1 DEF Taken
  <2>4. CASE Len(v) >= utf8SeqLen(v[1])
    <3>1. Shows(q, ContinueRune(q), "rune", v, <<>>, <<>>)
      BY <1>1, <2>1, <2>4, RuneShows
    <3>2. Grammatical([kind |-> "rune", bytes |-> v])
      BY <1>1, <1>4, <2>1, <2>4, OneMoreOfRune
    <3>3. "rune" \in EventKinds
      BY DEF EventKinds
    <3>4. Reads(ContinueRune(q), j \o v)
      <4> HIDE DEF v
      <4> QED BY <1>1, <2>2, <3>1, <3>2, <3>3, ShowsReads
    <3> QED BY <2>2, <2>3, <3>4
  <2>5. CASE ~(Len(v) >= utf8SeqLen(v[1]))
    <3>1. Gathers(q, ContinueRune(q), <<>>, v)
      BY <1>1, <2>1, <2>5, RuneShows
    <3>2. OpenRune(v) /\ OpenEsc(<<>>)
      BY <1>1, <1>4, <2>1, <2>5, OneMoreOfRune DEF OpenEsc
    <3>3. Reads(ContinueRune(q), j \o (<<>> \o v))
      <4> HIDE DEF v
      <4> QED BY <1>1, <2>2, <3>1, <3>2, GathersReads
    <3> QED BY <2>2, <2>3, <3>3
  <2> QED BY <2>4, <2>5
<1>5. CASE q.utf8 = <<>> /\ q.esc # <<>>
  <2> DEFINE e == Append(q.esc, b)
             r == HandleEsc(q, e)
  <2>1. j \o e = Append(d, b) /\ e \in Seq(Bytes) /\ e \o <<>> = e
    <3>1. q.esc \o q.utf8 = q.esc
      BY <1>1, <1>5, ConcatEmptySeq
    <3>2. j \o e = Append(d, b)
      BY <1>1, <1>2, <1>3, <3>1
    <3>3. e \in Seq(Bytes)
      BY <1>1, AppendProperties
    <3> QED BY <3>2, <3>3, ConcatEmptySeq
  <2>2. Taken(q, b) = r
    BY <1>5 DEF Taken
  <2>3. IF Verdict(e) = "wait" THEN OpenEsc(e)
        ELSE /\ Verdict(e) \in EventKinds
             /\ Grammatical([kind |-> Verdict(e), bytes |-> e])
    BY <1>1, <1>5, OneMoreOfEsc DEF Reads, Open
  <2> HIDE DEF e
  <2>4. IF Verdict(e) = "wait"
        THEN Gathers(q, r, e, <<>>)
        ELSE Shows(q, r, Verdict(e), e, <<>>, <<>>)
    BY <1>1, <1>5, EscShows
  <2> HIDE DEF r
  <2>5. CASE Verdict(e) = "wait"
    <3>1. OpenEsc(e) /\ OpenRune(<<>>) /\ Gathers(q, r, e, <<>>)
      BY <2>3, <2>4, <2>5 DEF OpenRune
    <3>2. Reads(r, j \o (e \o <<>>))
      BY <1>1, <2>1, <3>1, GathersReads
    <3> QED BY <2>1, <2>2, <3>2
  <2>6. CASE Verdict(e) # "wait"
    <3>1. Reads(r, j \o e)
      BY <1>1, <2>1, <2>3, <2>4, <2>6, ShowsReads
    <3> QED BY <2>1, <2>2, <3>1
  <2> QED BY <2>5, <2>6
<1>6. CASE q.utf8 = <<>> /\ q.esc = <<>>
  <2>1. Taken(q, b) = Plain(q, b)
    BY <1>6 DEF Taken
  <2>2. Reads(Plain(q, b), j \o <<b>>)
    BY <1>1, <1>6, PlainReads
  <2>3. j \o <<b>> = Append(d, b)
    <3>1. d = j
      BY <1>1, <1>3, <1>6, ConcatEmptySeq
    <3> QED BY <1>1, <3>1, AppendIsConcat
  <2> QED BY <2>1, <2>2, <2>3
<1> QED BY <1>4, <1>5, <1>6

\* What the parser has read, it has read byte by byte.
LEMMA ConsumeReads ==
    ASSUME NEW p, NEW d, Reads(p, d), NEW b \in Bytes
    PROVE Reads(Consume(p, b), Append(d, b))
<1>1. /\ Reads(Flushed(p, b), d)
      /\ Flushed(p, b).utf8 # <<>> => b = Cont
  BY FlushReads
<1>2. Reads(Taken(Flushed(p, b), b), Append(d, b))
  BY <1>1, TakenReads
<1> QED BY <1>2, ConsumeIs

LEMMA FeedReads ==
    ASSUME NEW p, NEW d \in Seq(Bytes), Reads(p, d)
    PROVE \A data \in Seq(Bytes) : Reads(Feed(p, data), d \o data)
<1> DEFINE S == {s \in Seq(Bytes) : Reads(Feed(p, s), d \o s)}
<1>1. <<>> \in S
  <2>1. <<>> \in Seq(Bytes) /\ d \o <<>> = d
    BY EmptySeq, ConcatEmptySeq
  <2> QED BY <2>1, FeedNothing
<1>2. ASSUME NEW s \in Seq(Bytes), NEW b \in Bytes, s \in S
      PROVE Append(s, b) \in S
  <2>1. Reads(Feed(p, s), d \o s)
    BY <1>2
  <2>2. Reads(Feed(p, Append(s, b)), Append(d \o s, b))
    BY <2>1, ConsumeReads, FeedOneMore
  <2>3. Append(d \o s, b) = d \o Append(s, b)
    <3>1. /\ <<b>> \in Seq(Bytes) /\ d \o s \in Seq(Bytes)
          /\ Append(s, b) = s \o <<b>>
      BY AppendIsConcat, ConcatProperties
    <3>2. Append(d \o s, b) = (d \o s) \o <<b>>
      BY <3>1, AppendIsConcat
    <3>3. (d \o s) \o <<b>> = d \o (s \o <<b>>)
      BY <3>1, ConcatAssociative
    <3> QED BY <3>1, <3>2, <3>3
  <2>4. Append(s, b) \in Seq(Bytes)
    BY AppendProperties
  <2> QED BY <2>2, <2>3, <2>4
<1>3. Seq(Bytes) \subseteq S
  <2> HIDE DEF S
  <2> QED BY <1>1, <1>2, ByteByByte
<1> QED BY <1>3

\* A Write of two pieces is a Write of the first and then of the second.
LEMMA FeedConcat ==
    ASSUME NEW p, NEW d \in Seq(Bytes)
    PROVE \A data \in Seq(Bytes) : Feed(p, d \o data) = Feed(Feed(p, d), data)
<1> DEFINE S == {s \in Seq(Bytes) : Feed(p, d \o s) = Feed(Feed(p, d), s)}
<1>1. <<>> \in S
  <2>1. <<>> \in Seq(Bytes) /\ d \o <<>> = d
    BY EmptySeq, ConcatEmptySeq
  <2> QED BY <2>1, FeedNothing
<1>2. ASSUME NEW s \in Seq(Bytes), NEW b \in Bytes, s \in S
      PROVE Append(s, b) \in S
  <2>1. Append(d \o s, b) = d \o Append(s, b)
    <3>1. /\ <<b>> \in Seq(Bytes) /\ d \o s \in Seq(Bytes)
          /\ Append(s, b) = s \o <<b>>
      BY AppendIsConcat, ConcatProperties
    <3>2. Append(d \o s, b) = (d \o s) \o <<b>>
      BY <3>1, AppendIsConcat
    <3>3. (d \o s) \o <<b>> = d \o (s \o <<b>>)
      BY <3>1, ConcatAssociative
    <3> QED BY <3>1, <3>2, <3>3
  <2>3. Append(s, b) \in Seq(Bytes)
    BY AppendProperties
  <2>2. d \o s \in Seq(Bytes)
    BY ConcatProperties
  <2>4. Feed(p, Append(d \o s, b)) = Consume(Feed(p, d \o s), b)
    BY <2>2, FeedOneMore
  <2>5. Feed(Feed(p, d), Append(s, b)) = Consume(Feed(Feed(p, d), s), b)
    BY FeedOneMore
  <2> QED BY <1>2, <2>1, <2>3, <2>4, <2>5
<1>3. Seq(Bytes) \subseteq S
  <2> HIDE DEF S
  <2> QED BY <1>1, <1>2, ByteByByte
<1> QED BY <1>3
-----------------------------------------------------------------------------
(***************************************************************************)
(* Two parsers with the same accumulators: p has the events r behind it,   *)
(* and otherwise those of q.  The next bytes make the same of both.        *)
(***************************************************************************)
Tracks(p, q, r) ==
    /\ IsState(p) /\ IsState(q) /\ r \in Seq(Event)
    /\ p.esc = q.esc /\ p.utf8 = q.utf8 /\ p.out = r \o q.out

LEMMA ShowsTracks ==
    ASSUME NEW p, NEW q, NEW r, Tracks(p, q, r),
           NEW what \in EventKinds, NEW bytes \in Seq(Bytes),
           NEW e \in Seq(Bytes), NEW u \in Seq(Bytes),
           NEW p2, NEW q2, Shows(p, p2, what, bytes, e, u),
           Shows(q, q2, what, bytes, e, u)
    PROVE Tracks(p2, q2, r)
<1>1. /\ IsState(p2) /\ p2.esc = e /\ p2.utf8 = u
      /\ IsState(q2) /\ q2.esc = e /\ q2.utf8 = u
  BY ShowsState DEF Tracks
<1> DEFINE v == [kind |-> what, bytes |-> bytes]
<1>2. v \in Event
  BY DEF Event
<1>3. p2.out = Append(p.out, v) /\ q2.out = Append(q.out, v)
  BY DEF Shows
<1> HIDE DEF v
<1>4. p.out = r \o q.out /\ r \in Seq(Event) /\ q.out \in Seq(Event)
  BY DEF Tracks, IsState
<1> DEFINE o == q.out
<1>5. Append(p.out, v) = r \o Append(o, v)
  <2>1. r \in Seq(Event) /\ o \in Seq(Event) /\ p.out = r \o o
    BY <1>4
  <2> HIDE DEF o
  <2>2. /\ <<v>> \in Seq(Event) /\ r \o o \in Seq(Event)
        /\ Append(o, v) = o \o <<v>>
    BY <1>2, <2>1, AppendIsConcat, ConcatProperties
  <2>3. Append(r \o o, v) = (r \o o) \o <<v>>
    BY <1>2, <2>2, AppendIsConcat
  <2>4. (r \o o) \o <<v>> = r \o (o \o <<v>>)
    BY <2>1, <2>2, ConcatAssociative
  <2> QED BY <2>1, <2>2, <2>3, <2>4
<1> QED BY <1>1, <1>3, <1>4, <1>5 DEF Tracks

LEMMA GathersTracks ==
    ASSUME NEW p, NEW q, NEW r, Tracks(p, q, r),
           NEW e \in Seq(Bytes), NEW u \in Seq(Bytes),
           NEW p2, NEW q2, Gathers(p, p2, e, u), Gathers(q, q2, e, u)
    PROVE Tracks(p2, q2, r)
<1>1. /\ IsState(p2) /\ p2.esc = e /\ p2.utf8 = u /\ p2.out = p.out
      /\ IsState(q2) /\ q2.esc = e /\ q2.utf8 = u /\ q2.out = q.out
  BY GathersState DEF Tracks
<1> QED BY <1>1 DEF Tracks

LEMMA FlushTracks ==
    ASSUME NEW p, NEW q, NEW r, Tracks(p, q, r), NEW b
    PROVE Tracks(Flushed(p, b), Flushed(q, b), r)
<1>1. /\ IsState(p) /\ IsState(q) /\ p.esc = q.esc /\ p.utf8 = q.utf8
      /\ q.esc \in Seq(Bytes) /\ q.utf8 \in Seq(Bytes) /\ <<>> \in Seq(Bytes)
      /\ "bad" \in EventKinds
  BY EmptySeq DEF Tracks, IsState, EventKinds
<1>2. CASE q.utf8 # <<>> /\ b # Cont
  <2>1. /\ Shows(p, Flushed(p, b), "bad", q.utf8, q.esc, <<>>)
        /\ Shows(q, Flushed(q, b), "bad", q.utf8, q.esc, <<>>)
    BY <1>1, <1>2, FlushShows
  <2> QED BY <1>1, <2>1, ShowsTracks
<1>3. CASE ~(q.utf8 # <<>> /\ b # Cont)
  BY <1>1, <1>3 DEF Flushed, BreaksRune
<1> QED BY <1>2, <1>3

LEMMA TakenTracks ==
    ASSUME NEW p, NEW q, NEW r, Tracks(p, q, r), NEW b \in Bytes
    PROVE Tracks(Taken(p, b), Taken(q, b), r)
<1>1. /\ IsState(p) /\ IsState(q) /\ p.esc = q.esc /\ p.utf8 = q.utf8
      /\ q.esc \in Seq(Bytes) /\ q.utf8 \in Seq(Bytes)
      /\ <<>> \in Seq(Bytes) /\ <<b>> \in Seq(Bytes)
  BY EmptySeq DEF Tracks, IsState
<1>2. CASE q.utf8 # <<>> /\ b = Cont
  <2> DEFINE v == Append(q.utf8, Cont)
  <2>1. v \in Seq(Bytes)
    BY <1>1, <1>2, AppendProperties
  <2>2. Taken(p, b) = ContinueRune(p) /\ Taken(q, b) = ContinueRune(q)
    BY <1>1, <1>2 DEF Taken
  <2>3. CASE Len(v) >= utf8SeqLen(v[1])
    <3>1. /\ Shows(p, ContinueRune(p), "rune", v, q.esc, <<>>)
          /\ Shows(q, ContinueRune(q), "rune", v, q.esc, <<>>)
      BY <1>1, <2>3, RuneShows
    <3>2. "rune" \in EventKinds
      BY DEF EventKinds
    <3> HIDE DEF v
    <3> QED BY <1>1, <2>1, <2>2, <3>1, <3>2, ShowsTracks
  <2>4. CASE ~(Len(v) >= utf8SeqLen(v[1]))
    <3>1. /\ Gathers(p, ContinueRune(p), q.esc, v)
          /\ Gathers(q, ContinueRune(q), q.esc, v)
      BY <1>1, <2>4, RuneShows
    <3> HIDE DEF v
    <3> QED BY <1>1, <2>1, <2>2, <3>1, GathersTracks
  <2> QED BY <2>3, <2>4
<1>3. CASE ~(q.utf8 # <<>> /\ b = Cont) /\ q.esc # <<>>
  <2> DEFINE e == Append(q.esc, b)
  <2>1. e \in Seq(Bytes)
    BY <1>1, AppendProperties
  <2>2. Taken(p, b) = HandleEsc(p, e) /\ Taken(q, b) = HandleEsc(q, e)
    BY <1>1, <1>3 DEF Taken
  <2> HIDE DEF e
  <2>3. CASE Verdict(e) = "wait"
    <3>1. /\ Gathers(p, HandleEsc(p, e), e, q.utf8)
          /\ Gathers(q, HandleEsc(q, e), e, q.utf8)
      BY <1>1, <2>3, EscShows
    <3> QED BY <1>1, <2>1, <2>2, <3>1, GathersTracks
  <2>4. CASE Verdict(e) # "wait"
    <3>1. /\ Shows(p, HandleEsc(p, e), Verdict(e), e, <<>>, q.utf8)
          /\ Shows(q, HandleEsc(q, e), Verdict(e), e, <<>>, q.utf8)
      BY <1>1, <2>4, EscShows
    <3>2. Verdict(e) \in EventKinds
      BY <2>4 DEF Verdict, OverLimit, EventKinds
    <3> QED BY <1>1, <2>1, <2>2, <3>1, <3>2, ShowsTracks
  <2> QED BY <2>3, <2>4
<1>4. CASE ~(q.utf8 # <<>> /\ b = Cont) /\ q.esc = <<>>
  <2>1. Taken(p, b) = Plain(p, b) /\ Taken(q, b) = Plain(q, b)
    BY <1>1, <1>4 DEF Taken
  <2>2. CASE b = ESC
    <3>1. /\ Gathers(p, Plain(p, b), <<b>>, q.utf8)
          /\ Gathers(q, Plain(q, b), <<b>>, q.utf8)
      BY <1>1, <2>2, PlainShows
    <3> QED BY <1>1, <2>1, <3>1, GathersTracks
  <2>3. CASE b \in Lead
    <3>1. /\ Gathers(p, Plain(p, b), q.esc, <<b>>)
          /\ Gathers(q, Plain(q, b), q.esc, <<b>>)
      BY <1>1, <2>3, PlainShows
    <3> QED BY <1>1, <2>1, <3>1, GathersTracks
  <2>4. CASE b \in Control
    <3>1. /\ Shows(p, Plain(p, b), "control", <<b>>, q.esc, q.utf8)
          /\ Shows(q, Plain(q, b), "control", <<b>>, q.esc, q.utf8)
      BY <1>1, <2>4, PlainShows
    <3>2. "control" \in EventKinds
      BY DEF EventKinds
    <3> QED BY <1>1, <2>1, <3>1, <3>2, ShowsTracks
  <2>5. CASE b \notin {ESC} \union Lead \union Control
    <3>1. /\ Shows(p, Plain(p, b), "text", <<b>>, q.esc, q.utf8)
          /\ Shows(q, Plain(q, b), "text", <<b>>, q.esc, q.utf8)
      BY <1>1, <2>5, PlainShows
    <3>2. "text" \in EventKinds
      BY DEF EventKinds
    <3> QED BY <1>1, <2>1, <3>1, <3>2, ShowsTracks
  <2> QED BY <2>2, <2>3, <2>4, <2>5
<1> QED BY <1>2, <1>3, <1>4

LEMMA FeedTracks ==
    ASSUME NEW p, NEW q, NEW r, Tracks(p, q, r)
    PROVE \A data \in Seq(Bytes) : Tracks(Feed(p, data), Feed(q, data), r)
<1> DEFINE S == {s \in Seq(Bytes) : Tracks(Feed(p, s), Feed(q, s), r)}
<1>1. <<>> \in S
  <2>1. <<>> \in Seq(Bytes)
    BY EmptySeq
  <2> QED BY <2>1, FeedNothing
<1>2. ASSUME NEW s \in Seq(Bytes), NEW b \in Bytes, s \in S
      PROVE Append(s, b) \in S
  <2> DEFINE p1 == Feed(p, s)
             q1 == Feed(q, s)
  <2>1. Tracks(p1, q1, r)
    BY <1>2
  <2>2. /\ Feed(p, Append(s, b)) = Consume(p1, b)
        /\ Feed(q, Append(s, b)) = Consume(q1, b)
    BY FeedOneMore
  <2> HIDE DEF p1, q1
  <2>3. Tracks(Consume(p1, b), Consume(q1, b), r)
    BY <2>1, FlushTracks, TakenTracks, ConsumeIs
  <2>4. Append(s, b) \in Seq(Bytes)
    BY AppendProperties
  <2> QED BY <2>2, <2>3, <2>4
<1>3. Seq(Bytes) \subseteq S
  <2> HIDE DEF S
  <2> QED BY <1>1, <1>2, ByteByByte
<1> QED BY <1>3
-----------------------------------------------------------------------------
(***************************************************************************)
(* The screen that the writers share.  Its parser stands where the parser  *)
(* of the last writer alone would; those of the others would be at rest.   *)
(* That is what a Write leaves, as long as none begins inside a command.   *)
(***************************************************************************)
ScreenInv ==
    /\ IsState(parser) /\ Open(parser) /\ parser.out = <<>>
    /\ fed \in [Writers -> Seq(Bytes)]
    /\ shown \in [Writers -> Seq(Event)]

AloneInv ==
    ~cut => /\ Tracks(Feed(Ground, fed[owner]), parser, shown[owner])
            /\ \A w \in Writers \ {owner} :
                   Tracks(Feed(Ground, fed[w]), Ground, shown[w])

WriteInv == owner \in Writers /\ ScreenInv /\ AloneInv

LEMMA GroundReads == Reads(Ground, <<>>) /\ IsState(Ground) /\ Open(Ground)
<1>1. <<>> \in Seq(Bytes) /\ <<>> \in Seq(Event) /\ <<>> \o (<<>> \o <<>>) = <<>>
  BY EmptySeq, ConcatEmptySeq
<1>2. /\ Ground.esc = <<>> /\ Ground.utf8 = <<>> /\ Ground.out = <<>>
      /\ DOMAIN Ground.out = {}
  BY DEF Ground
<1>3. IsState(Ground)
  BY <1>1 DEF IsState, Ground
<1>4. Open(Ground)
  BY <1>2 DEF Open, OpenRune, OpenEsc
<1> QED BY <1>1, <1>2, <1>3, <1>4, JoinedNothing DEF Reads

\* A parser between two Writes has read what it holds.
LEMMA BetweenWrites ==
    ASSUME NEW p, IsState(p), Open(p), p.out = <<>>
    PROVE p.esc \o p.utf8 \in Seq(Bytes) /\ Reads(p, p.esc \o p.utf8)
<1>1. p.esc \o p.utf8 \in Seq(Bytes) /\ <<>> \in Seq(Bytes) /\ DOMAIN p.out = {}
  BY EmptySeq, ConcatProperties DEF IsState
<1>2. <<>> \o (p.esc \o p.utf8) = p.esc \o p.utf8
  BY <1>1, ConcatEmptySeq
<1> QED BY <1>1, <1>2, JoinedNothing DEF Reads

LEMMA FeedKeeps ==
    ASSUME NEW p, IsState(p), Open(p), p.out = <<>>, NEW data \in Seq(Bytes)
    PROVE IsState(Feed(p, data)) /\ Open(Feed(p, data))
<1>1. Reads(Feed(p, data), (p.esc \o p.utf8) \o data)
  BY BetweenWrites, FeedReads
<1> QED BY <1>1 DEF Reads

\* Taking the events out of a parser.
LEMMA Emptied ==
    ASSUME NEW p, IsState(p)
    PROVE LET e == [p EXCEPT !.out = <<>>] IN
          /\ IsState(e) /\ e.esc = p.esc /\ e.utf8 = p.utf8 /\ e.out = <<>>
          /\ Open(p) => Open(e)
<1> DEFINE e == [p EXCEPT !.out = <<>>]
<1>1. /\ e = [esc |-> p.esc, utf8 |-> p.utf8, title |-> p.title, out |-> <<>>]
      /\ <<>> \in Seq(Event)
  BY EmptySeq DEF IsState
<1> HIDE DEF e
<1>2. e.esc = p.esc /\ e.utf8 = p.utf8 /\ e.title = p.title /\ e.out = <<>>
  BY <1>1
<1>3. IsState(e) /\ (Open(p) => Open(e))
  BY <1>1, <1>2 DEF IsState, Open
<1> QED BY <1>2, <1>3 DEF e

\* p follows e, the events of q taken out, if it follows q: they are behind it.
LEMMA TracksEmptied ==
    ASSUME NEW p, NEW q, NEW r, Tracks(p, q, r)
    PROVE Tracks(p, [q EXCEPT !.out = <<>>], r \o q.out)
<1> DEFINE e == [q EXCEPT !.out = <<>>]
<1>1. /\ IsState(e) /\ e.esc = q.esc /\ e.utf8 = q.utf8 /\ e.out = <<>>
  BY Emptied DEF Tracks
<1> HIDE DEF e
<1>2. r \o q.out \in Seq(Event) /\ p.out = r \o q.out
  BY ConcatProperties DEF Tracks, IsState
<1>3. p.out = (r \o q.out) \o <<>>
  BY <1>2, ConcatEmptySeq
<1>4. Tracks(p, e, r \o q.out)
  BY <1>1, <1>2, <1>3 DEF Tracks
<1> QED BY <1>4 DEF e

\* Which parser at rest it is does not matter.
LEMMA TracksAtRest ==
    ASSUME NEW p, NEW q, NEW r, Tracks(p, q, r), q.out = <<>>,
           NEW q2, IsState(q2), q2.out = <<>>, q2.esc = q.esc, q2.utf8 = q.utf8
    PROVE Tracks(p, q2, r)
BY DEF Tracks

LEMMA WriteInvInit == WriteInit => WriteInv
<1> SUFFICES ASSUME WriteInit PROVE WriteInv
  OBVIOUS
<1>1. /\ <<>> \in Seq(Bytes) /\ <<>> \in Seq(Event) /\ <<>> \o <<>> = <<>>
      /\ Ground.out = <<>>
  BY EmptySeq, ConcatEmptySeq DEF Ground
<1>2. ScreenInv
  BY <1>1, GroundReads DEF ScreenInv, WriteInit
<1>3. Tracks(Feed(Ground, <<>>), Ground, <<>>)
  BY <1>1, GroundReads, FeedNothing DEF Tracks
<1>4. AloneInv
  BY <1>3 DEF AloneInv, WriteInit
<1> QED BY <1>2, <1>4 DEF WriteInv, WriteInit

LEMMA WriteInvNext == WriteInv /\ [WriteNext]_writeVars => WriteInv'
<1> SUFFICES ASSUME WriteInv, [WriteNext]_writeVars PROVE WriteInv'
  OBVIOUS
<1>1. ASSUME NEW w \in Writers, NEW data \in Chunks[w], Write(w, data)
      PROVE WriteInv'
  <2> DEFINE after == Feed(parser, data)
             alone == Feed(Ground, fed[w])
  <2>1. data \in Seq(Bytes)
    BY ChunksAssumption
  <2>2. /\ IsState(parser) /\ Open(parser) /\ parser.out = <<>>
        /\ fed \in [Writers -> Seq(Bytes)] /\ shown \in [Writers -> Seq(Event)]
        /\ owner \in Writers
    BY DEF WriteInv, ScreenInv
  <2>3. IsState(after) /\ Open(after)
    BY <2>1, <2>2, FeedKeeps
  <2>4. /\ parser' = [after EXCEPT !.out = <<>>]
        /\ fed' = [fed EXCEPT ![w] = @ \o data]
        /\ shown' = [shown EXCEPT ![w] = @ \o after.out]
        /\ owner' = w
        /\ cut' = (cut \/ (w # owner /\ UnderWay))
    BY <1>1 DEF Write
  <2> HIDE DEF after
  <2>5. /\ IsState(parser') /\ parser'.esc = after.esc /\ parser'.utf8 = after.utf8
        /\ parser'.out = <<>> /\ Open(parser')
    BY <2>3, <2>4, Emptied
  <2>6. /\ fed'[w] = fed[w] \o data /\ shown'[w] = shown[w] \o after.out
        /\ \A v \in Writers \ {w} : fed'[v] = fed[v] /\ shown'[v] = shown[v]
    BY <2>2, <2>4
  <2>7. ScreenInv'
    <3>1. fed[w] \o data \in Seq(Bytes)
      BY <2>1, <2>2, ConcatProperties
    <3>2. shown[w] \o after.out \in Seq(Event)
      BY <2>2, <2>3, ConcatProperties DEF IsState
    <3>3. fed' \in [Writers -> Seq(Bytes)]
      BY <2>2, <2>4, <3>1
    <3>4. shown' \in [Writers -> Seq(Event)]
      BY <2>2, <2>4, <3>2
    <3> QED BY <2>5, <3>3, <3>4 DEF ScreenInv
  <2>8. ASSUME ~cut'
        PROVE /\ Tracks(Feed(Ground, fed'[w]), parser', shown'[w])
              /\ \A v \in Writers \ {w} :
                     Tracks(Feed(Ground, fed'[v]), Ground, shown'[v])
    <3>1. ~cut /\ (w # owner => parser.esc = <<>> /\ parser.utf8 = <<>>)
      BY <2>4, <2>8 DEF UnderWay
    <3>2. /\ Tracks(Feed(Ground, fed[owner]), parser, shown[owner])
          /\ \A v \in Writers \ {owner} :
                 Tracks(Feed(Ground, fed[v]), Ground, shown[v])
      BY <3>1 DEF WriteInv, AloneInv
    <3>3. IsState(Ground) /\ Ground.out = <<>> /\ Ground.esc = <<>> /\ Ground.utf8 = <<>>
      BY GroundReads DEF Ground
    <3>4. Tracks(alone, parser, shown[w])
      <4>1. CASE w = owner
        BY <3>2, <4>1
      <4>2. CASE w # owner
        <5>1. Tracks(alone, Ground, shown[w])
          BY <3>2, <4>2
        <5>2. parser.esc = Ground.esc /\ parser.utf8 = Ground.utf8
          BY <3>1, <3>3, <4>2
        <5> HIDE DEF alone
        <5> QED BY ONLY <2>2, <3>3, <5>1, <5>2, TracksAtRest
      <4> QED BY <4>1, <4>2
    <3>5. Tracks(Feed(Ground, fed'[w]), parser', shown'[w])
      <4>1. Feed(Ground, fed[w] \o data) = Feed(alone, data)
        BY <2>1, <2>2, FeedConcat
      <4> HIDE DEF alone
      <4>2. Tracks(Feed(alone, data), after, shown[w])
        BY <2>1, <3>4, FeedTracks DEF after
      <4>3. Tracks(Feed(alone, data), [after EXCEPT !.out = <<>>], shown[w] \o after.out)
        BY <4>2, TracksEmptied
      <4> QED BY <2>4, <2>6, <4>1, <4>3
    <3>6. ASSUME NEW v \in Writers \ {w}
          PROVE Tracks(Feed(Ground, fed[v]), Ground, shown[v])
      <4>1. CASE v # owner
        BY <3>2, <4>1
      <4>2. CASE v = owner
        <5>1. parser.esc = Ground.esc /\ parser.utf8 = Ground.utf8
          BY <3>1, <3>3, <3>6, <4>2
        <5>2. Tracks(Feed(Ground, fed[v]), parser, shown[v])
          BY <3>2, <4>2
        <5> QED BY ONLY <2>2, <3>3, <5>1, <5>2, TracksAtRest
      <4> QED BY <4>1, <4>2
    <3> QED BY <2>6, <3>5, <3>6
  <2>9. AloneInv'
    BY <2>4, <2>8 DEF AloneInv
  <2> QED BY <2>4, <2>7, <2>9 DEF WriteInv
<1>2. CASE UNCHANGED writeVars
  BY <1>2 DEF writeVars, WriteInv, ScreenInv, AloneInv
<1> QED BY <1>1, <1>2 DEF WriteNext

LEMMA WriteInvAlways == WriteSpec => []WriteInv
<1> QED BY WriteInvInit, WriteInvNext, PTL DEF WriteSpec

LEMMA EventsAlone ==
    ASSUME WriteInv, ~cut, NEW w \in Writers
    PROVE Feed(Ground, fed[w]).out = shown[w]
<1>1. \E q : Tracks(Feed(Ground, fed[w]), q, shown[w]) /\ q.out = <<>>
  <2>1. Ground.out = <<>> /\ parser.out = <<>>
    BY DEF Ground, WriteInv, ScreenInv
  <2> QED BY <2>1 DEF WriteInv, AloneInv
<1>2. PICK q : Tracks(Feed(Ground, fed[w]), q, shown[w]) /\ q.out = <<>>
  BY <1>1
<1>3. Feed(Ground, fed[w]).out = shown[w] \o <<>> /\ shown[w] \in Seq(Event)
  BY <1>2 DEF Tracks
<1> QED BY <1>3, ConcatEmptySeq

\* BuffersAreBounded: the accumulators of the Screen never grow past the safety
\* valves of handleEsc, whatever the writers send and however it is cut, except
\* after an ESC whose next byte handleEsc does not know.
THEOREM AccumulatorsAreBounded == WriteSpec => []BuffersAreBounded
<1>1. WriteInv => BuffersAreBounded
  <2> SUFFICES ASSUME WriteInv PROVE BuffersAreBounded
    OBVIOUS
  <2>1. OpenEsc(parser.esc) /\ Len(parser.esc) \in Nat
    BY LenProperties DEF WriteInv, ScreenInv, Open, IsState
  <2>2. CASE parser.esc = <<>>
    BY <2>2 DEF BuffersAreBounded
  <2>3. CASE parser.esc = <<ESC>>
    BY <2>3 DEF BuffersAreBounded
  <2>4. CASE parser.esc # <<>> /\ parser.esc # <<ESC>>
    BY <2>1, <2>4 DEF OpenEsc, OpenCSI, OpenOSC, BuffersAreBounded
  <2> QED BY <2>2, <2>3, <2>4
<1> QED BY <1>1, WriteInvAlways, PTL

\* AsIfAlone: goroutines that call Write, none of them inside a command another has
\* begun, get from the screen what each would get alone.
THEOREM WritersDoNotMix == WriteSpec => []AsIfAlone
<1>1. WriteInv => AsIfAlone
  <2> SUFFICES ASSUME WriteInv, ~cut, NEW w \in Writers
               PROVE Feed(Ground, fed[w]).out = shown[w]
    BY DEF AsIfAlone, EachAlone
  <2> QED BY EventsAlone
<1> QED BY <1>1, WriteInvAlways, PTL

\* ReadsTheGrammar: every byte that a goroutine writes is part of one command of
\* the grammar, or of the start of one that an accumulator holds; the commands are
\* cut where Write's cases end them, whatever the Writes are cut into.
THEOREM NoByteLostOrReadTwice == WriteSpec => []ReadsTheGrammar
<1>1. WriteInv => ReadsTheGrammar
  <2> SUFFICES ASSUME WriteInv, ~cut, NEW w \in Writers
               PROVE /\ \A i \in DOMAIN shown[w] : Grammatical(shown[w][i])
                     /\ Joined(shown[w]) \o Pending(w) = fed[w]
    BY DEF ReadsTheGrammar
  <2> DEFINE p == Feed(Ground, fed[w])
  <2>1. fed[w] \in Seq(Bytes) /\ <<>> \in Seq(Bytes)
    BY EmptySeq DEF WriteInv, ScreenInv
  <2>2. Reads(p, fed[w])
    <3>1. Reads(p, <<>> \o fed[w])
      BY <2>1, GroundReads, FeedReads
    <3>2. <<>> \o fed[w] = fed[w]
      BY <2>1, ConcatEmptySeq
    <3> HIDE DEF p
    <3> QED BY <3>1, <3>2
  <2>3. p.out = shown[w]
    BY EventsAlone
  <2>4. p.esc \o p.utf8 = Pending(w)
    <3>1. CASE w = owner
      BY <3>1 DEF WriteInv, AloneInv, Tracks, Pending
    <3>2. CASE w # owner
      <4>1. p.esc = <<>> /\ p.utf8 = <<>>
        BY <3>2 DEF WriteInv, AloneInv, Tracks, Ground
      <4>2. <<>> \o <<>> = <<>>
        BY <2>1, ConcatEmptySeq
      <4> QED BY <3>2, <4>1, <4>2 DEF Pending
    <3> QED BY <3>1, <3>2
  <2> HIDE DEF p
  <2> QED BY <2>2, <2>3, <2>4 DEF Reads
<1> QED BY <1>1, WriteInvAlways, PTL
==============================================================================
