---------------------------- MODULE Pairing_proofs ----------------------------
(***************************************************************************)
(* The safety of a device and a host, for every number of runs, requests,  *)
(* starts and failing calls.  Three invariants, one for each part, and one *)
(* that joins them.                                                        *)
(***************************************************************************)
EXTENDS Pairing, SequenceTheorems, TLAPS

(***************************************************************************)
(* The SSH key.                                                            *)
(***************************************************************************)
FirstKeys == Runs \X {1}

KeyTypeOK ==
    /\ raced \in BOOLEAN
    /\ pc \in [Runs -> {"new", "stat", "read", "generate", "open", "write", "return",
                        "dial", "post", "done", "killed"}]
    /\ round \in [Runs -> 1 .. 2]
    /\ file \in FirstKeys \union {None, Torn}
    /\ fresh \in [Runs -> FirstKeys \union {None}]
    /\ shown \in [Runs -> [1 .. 2 -> FirstKeys \union {None}]]
    /\ used \in [Runs -> FirstKeys \union {None}]

\* Where a run is, and what it has by then.  In its second call it generates no
\* key: it has logged in with one, and the file is never missing again.
RunsInv ==
    \A p \in Runs :
        /\ pc[p] \in {"open", "write"} => fresh[p] # None
        /\ pc[p] = "return" => shown[p][round[p]] # None
        /\ pc[p] \in {"dial", "post"} => round[p] = 1 /\ shown[p][1] # None
        /\ round[p] = 2 => file # None /\ ~Generating(p)

\* Unless two have raced one run at most generates, and there is no key then.
OneGenerator ==
    ~raced => \A p \in Runs : Generating(p) =>
        /\ file \notin Keys
        /\ \A q \in Runs : Generating(q) => p = q

\* ShownIsOnDisk, by the runs.
OnDisk ==
    ~raced => \A p \in Runs :
        /\ \A n \in 1 .. 2 : shown[p][n] \in {file, None}
        /\ used[p] \in {file, None}

KeyInv == KeyTypeOK /\ RunsInv /\ OneGenerator /\ OnDisk

LEMMA FirstKeysAreKeys ==
    FirstKeys \subseteq Keys /\ {None, Torn} \intersect Keys = {} /\ None # Torn
BY NotAKeyAssumption DEF FirstKeys, Keys

LEMMA KeyInit == Init => KeyInv
<1> SUFFICES ASSUME Init PROVE KeyInv
  OBVIOUS
<1>1. KeyTypeOK
  <2>1. /\ file = None /\ raced \in BOOLEAN
    BY DEF Init
  <2>2. /\ pc \in [Runs -> {"new"}] /\ round \in [Runs -> {1}]
        /\ fresh \in [Runs -> {None}] /\ used \in [Runs -> {None}]
        /\ shown \in [Runs -> [1 .. 2 -> {None}]]
    BY DEF Init
  <2> QED BY <2>1, <2>2 DEF KeyTypeOK
<1>2. RunsInv /\ OneGenerator
  BY DEF Init, RunsInv, OneGenerator, Generating
<1>3. OnDisk
  BY DEF Init, OnDisk
<1> QED BY <1>1, <1>2, <1>3 DEF KeyInv

\* The steps of a run.  Those that only change where it is come first.
LEMMA MoveStep ==
    ASSUME KeyInv, NEW p \in Runs, Begin(p) \/ Crash(p) \/ Return(p)
    PROVE KeyInv'
<1>1. KeyTypeOK'
  BY DEF KeyInv, KeyTypeOK, Begin, Crash, Return, Goes
<1>2. RunsInv'
  BY DEF KeyInv, KeyTypeOK, RunsInv, Begin, Crash, Return, Goes, Generating
<1>3. OneGenerator'
  BY DEF KeyInv, KeyTypeOK, OneGenerator, Begin, Crash, Return, Goes,
         Generating
<1>4. OnDisk'
  BY DEF KeyInv, OnDisk, Begin, Crash, Return
<1> QED BY <1>1, <1>2, <1>3, <1>4 DEF KeyInv

LEMMA StatStep == ASSUME KeyInv, NEW p \in Runs, Stat(p) PROVE KeyInv'
<1> USE FirstKeysAreKeys
<1>1. KeyTypeOK'
  BY DEF KeyInv, KeyTypeOK, Stat, Goes
<1>2. RunsInv'
  BY DEF KeyInv, KeyTypeOK, RunsInv, Stat, Goes, Generating
<1>3. OneGenerator'
  BY DEF KeyInv, KeyTypeOK, OneGenerator, Stat, Goes, Generating
<1>4. OnDisk'
  BY DEF KeyInv, OnDisk, Stat
<1> QED BY <1>1, <1>2, <1>3, <1>4 DEF KeyInv

\* A run shows a key: the one its call returns.
LEMMA ShowType ==
    ASSUME KeyTypeOK, NEW p \in Runs, NEW k \in FirstKeys,
           shown' = [shown EXCEPT ![p][round[p]] = k]
    PROVE /\ shown' \in [Runs -> [1 .. 2 -> FirstKeys \union {None}]]
          /\ shown'[p][round[p]] = k
          /\ \A q \in Runs, n \in 1 .. 2 :
                <<q, n>> # <<p, round[p]>> => shown'[q][n] = shown[q][n]
<1>1. round[p] \in 1 .. 2 /\ shown \in [Runs -> [1 .. 2 -> FirstKeys \union {None}]]
  BY DEF KeyTypeOK
<1>2. [shown[p] EXCEPT ![round[p]] = k] \in [1 .. 2 -> FirstKeys \union {None}]
  BY <1>1
<1>3. shown' = [shown EXCEPT ![p] = [shown[p] EXCEPT ![round[p]] = k]]
  OBVIOUS
<1> QED BY <1>1, <1>2, <1>3

LEMMA LoadStep == ASSUME KeyInv, NEW p \in Runs, Load(p) PROVE KeyInv'
<1> USE FirstKeysAreKeys
<1>1. CASE file \notin Keys
  <2>1. pc' = [pc EXCEPT ![p] = "done"] /\ pc[p] = "read"
        /\ UNCHANGED <<file, round, fresh, shown, used, raced>>
    BY <1>1 DEF Load, Fails, Goes
  <2>2. KeyTypeOK' /\ RunsInv' /\ OneGenerator'
    BY <2>1 DEF KeyInv, KeyTypeOK, RunsInv, OneGenerator, Generating
  <2> QED BY <2>1, <2>2 DEF KeyInv, OnDisk
<1>2. CASE file \in Keys
  <2>1. /\ pc' = [pc EXCEPT ![p] = "return"] /\ pc[p] = "read"
        /\ shown' = [shown EXCEPT ![p][round[p]] = file]
        /\ UNCHANGED <<file, round, fresh, used, raced>>
    BY <1>2 DEF Load, Goes
  <2>2. file \in FirstKeys
    BY <1>2 DEF KeyInv, KeyTypeOK
  <2>3. /\ shown' \in [Runs -> [1 .. 2 -> FirstKeys \union {None}]]
        /\ shown'[p][round[p]] = file
        /\ \A q \in Runs, n \in 1 .. 2 :
              <<q, n>> # <<p, round[p]>> => shown'[q][n] = shown[q][n]
    BY <2>1, <2>2, ShowType DEF KeyInv
  <2>4. KeyTypeOK'
    BY <2>1, <2>3 DEF KeyInv, KeyTypeOK
  <2>5. RunsInv'
    BY <2>1, <2>2, <2>3 DEF KeyInv, KeyTypeOK, RunsInv, Generating
  <2>6. OneGenerator'
    BY <2>1 DEF KeyInv, KeyTypeOK, OneGenerator, Generating
  <2>7. OnDisk'
    BY <2>1, <2>3 DEF KeyInv, KeyTypeOK, OnDisk
  <2> QED BY <2>4, <2>5, <2>6, <2>7 DEF KeyInv
<1> QED BY <1>1, <1>2

LEMMA GenerateStep == ASSUME KeyInv, NEW p \in Runs, Generate(p) PROVE KeyInv'
<1> USE FirstKeysAreKeys
\* It is in its first call.
<1>1. <<p, round[p]>> \in FirstKeys
  BY DEF KeyInv, KeyTypeOK, RunsInv, Generate, Goes, Generating, FirstKeys
<1>2. KeyTypeOK'
  BY <1>1 DEF KeyInv, KeyTypeOK, Generate, Goes
<1>3. RunsInv'
  BY <1>1 DEF KeyInv, KeyTypeOK, RunsInv, Generate, Goes, Generating
<1>4. OneGenerator'
  BY DEF KeyInv, KeyTypeOK, OneGenerator, Generate, Goes, Generating
<1>5. OnDisk'
  BY DEF KeyInv, OnDisk, Generate
<1> QED BY <1>2, <1>3, <1>4, <1>5 DEF KeyInv

\* The file is emptied: there was no key, so that none had been shown.
LEMMA OpenStep == ASSUME KeyInv, NEW p \in Runs, Open(p) PROVE KeyInv'
<1> USE FirstKeysAreKeys
<1>1. KeyTypeOK'
  BY DEF KeyInv, KeyTypeOK, Open, Goes
<1>2. RunsInv'
  BY DEF KeyInv, KeyTypeOK, RunsInv, Open, Goes, Generating
<1>3. OneGenerator'
  BY DEF KeyInv, KeyTypeOK, OneGenerator, Open, Goes, Generating
<1>4. OnDisk'
  BY DEF KeyInv, KeyTypeOK, OneGenerator, OnDisk, Open, Goes, Generating
<1> QED BY <1>1, <1>2, <1>3, <1>4 DEF KeyInv

\* A write: the run is the only one at it unless it has raced another.
LEMMA WriteStep == ASSUME KeyInv, NEW p \in Runs, Write(p) PROVE KeyInv'
<1> USE FirstKeysAreKeys
<1>1. fresh[p] \in FirstKeys /\ pc[p] = "write" /\ Generating(p)
  BY DEF KeyInv, KeyTypeOK, RunsInv, Write, Goes, Fails, Generating
<1>2. CASE file' = Torn /\ Fails(p, "write") /\ UNCHANGED shown
  <2>1. pc' = [pc EXCEPT ![p] = "done"] /\ file' = Torn
        /\ UNCHANGED <<round, fresh, shown, used, raced>>
    BY <1>2 DEF Write, Fails, Goes
  <2>2. KeyTypeOK' /\ RunsInv' /\ OneGenerator'
    BY <1>1, <2>1 DEF KeyInv, KeyTypeOK, RunsInv, OneGenerator, Generating
  <2>3. OnDisk'
    BY <1>1, <2>1 DEF KeyInv, KeyTypeOK, OneGenerator, OnDisk
  <2> QED BY <2>2, <2>3 DEF KeyInv
<1>3. CASE /\ file' = fresh[p]
           /\ Goes(p, "write", "return")
           /\ shown' = [shown EXCEPT ![p][round[p]] = fresh[p]]
  <2>1. pc' = [pc EXCEPT ![p] = "return"] /\ file' = fresh[p]
        /\ UNCHANGED <<round, fresh, used, raced>>
    BY <1>3 DEF Write, Goes
  <2>2. /\ shown' \in [Runs -> [1 .. 2 -> FirstKeys \union {None}]]
        /\ shown'[p][round[p]] = fresh[p]
        /\ \A q \in Runs, n \in 1 .. 2 :
              <<q, n>> # <<p, round[p]>> => shown'[q][n] = shown[q][n]
    BY <1>1, <1>3, ShowType DEF KeyInv
  <2>3. KeyTypeOK'
    BY <1>1, <2>1, <2>2 DEF KeyInv, KeyTypeOK
  <2>4. RunsInv'
    BY <1>1, <2>1, <2>2 DEF KeyInv, KeyTypeOK, RunsInv, Generating
  <2>5. OneGenerator'
    BY <1>1, <2>1 DEF KeyInv, KeyTypeOK, OneGenerator, Generating
  <2>6. OnDisk'
    <3>1. ~raced => file \notin Keys
      BY <1>1 DEF KeyInv, OneGenerator
    <3>2. ~raced => \A q \in Runs :
             used[q] = None /\ \A n \in 1 .. 2 : shown[q][n] = None
      BY <3>1 DEF KeyInv, KeyTypeOK, OnDisk
    <3> QED BY <2>1, <2>2, <3>2 DEF OnDisk
  <2> QED BY <2>3, <2>4, <2>5, <2>6 DEF KeyInv
<1> QED BY <1>2, <1>3 DEF Write

LEMMA DialStep == ASSUME KeyInv, NEW p \in Runs, Dial(p) PROVE KeyInv'
<1> USE FirstKeysAreKeys
<1>1. KeyTypeOK'
  BY DEF KeyInv, KeyTypeOK, Dial, Goes, Fails
<1>2. RunsInv'
  BY DEF KeyInv, KeyTypeOK, RunsInv, Dial, Goes, Fails, Generating
<1>3. OneGenerator'
  BY DEF KeyInv, KeyTypeOK, OneGenerator, Dial, Goes, Fails, Generating
<1>4. OnDisk'
  BY DEF KeyInv, KeyTypeOK, OnDisk, Dial
<1> QED BY <1>1, <1>2, <1>3, <1>4 DEF KeyInv

\* What a run does next leaves the keys' invariant standing.
LEMMA KeyStep == ASSUME KeyInv, Next PROVE KeyInv'
BY MoveStep, StatStep, LoadStep, GenerateStep, OpenStep, WriteStep, DialStep DEF Next

\* A key that is whole and that no run is about to write over stays.
LEMMA KeyStays ==
    ASSUME KeyInv, Next, Settled PROVE Settled' /\ file' = file
<1> USE FirstKeysAreKeys
<1>1. PICK p \in Runs :
         \/ Begin(p) \/ Crash(p) \/ Stat(p) \/ Load(p) \/ Generate(p) \/ Open(p)
         \/ Write(p) \/ Return(p) \/ Dial(p)
  BY DEF Next
<1>2. file \in Keys /\ file # None /\ \A q \in Runs : ~Generating(q)
  BY DEF Settled
<1>3. ~Generate(p) /\ ~Open(p) /\ ~Write(p)
  BY <1>2 DEF Generate, Open, Write, Goes, Fails, Generating
<1>4. file' = file
  BY <1>1, <1>3 DEF Begin, Crash, Stat, Load, Return, Dial
<1>5. ASSUME NEW q \in Runs PROVE ~Generating(q)'
  BY <1>1, <1>2, <1>3 DEF KeyInv, KeyTypeOK, Generating, Begin, Crash, Stat, Load,
     Return, Dial, Goes, Fails
<1> QED BY <1>2, <1>4, <1>5 DEF Settled
-----------------------------------------------------------------------------
(***************************************************************************)
(* The GPG key.                                                            *)
(***************************************************************************)
\* Whatever was found is the oldest key of the ring, and it stays so.
GpgInv ==
    /\ ring \in Seq(Runs)
    /\ gpgFound \in [Runs -> Runs \union {None}]
    /\ gpgShown \in [Runs -> Runs \union {None}]
    /\ \A p \in Runs : \A k \in {gpgFound[p], gpgShown[p]} :
          k # None => ring # <<>> /\ k = ring[1]

LEMMA RingGrows ==
    ASSUME NEW s \in Seq(Runs), NEW p \in Runs
    PROVE /\ Append(s, p) \in Seq(Runs) /\ Append(s, p) # <<>>
          /\ s # <<>> => Append(s, p)[1] = s[1] /\ s[1] \in Runs
<1>1. Len(s) \in Nat /\ (s # <<>> => 1 \in 1 .. Len(s))
  BY EmptySeq, LenProperties
<1> QED BY <1>1, AppendProperties, ElementOfSeq

LEMMA GpgInit == Gpg!Init => GpgInv
BY DEF Gpg!Init, GpgInv

LEMMA GpgSteps == ASSUME GpgInv, NEW p \in Runs, Gpg!Step(p) PROVE GpgInv'
<1>1. CASE Gpg!FindKeyID(p) /\ UNCHANGED <<ring, gpgShown>>
  <2>1. gpgFound' = [gpgFound EXCEPT ![p] = Gpg!Listed]
        \/ gpgFound' = [gpgFound EXCEPT ![p] = None]
    BY <1>1 DEF Gpg!FindKeyID
  <2>2. Gpg!Listed = IF ring = <<>> THEN None ELSE ring[1]
    BY DEF Gpg!Listed
  <2>3. ring # <<>> => ring[1] \in Runs
    BY RingGrows DEF GpgInv
  <2> QED BY <1>1, <2>1, <2>2, <2>3 DEF GpgInv
<1>2. CASE Gpg!Generate(p)
  <2>1. ring' = ring \/ ring' = Append(ring, p)
    BY <1>2 DEF Gpg!Generate
  <2>2. UNCHANGED <<gpgFound, gpgShown>>
    BY <1>2 DEF Gpg!Generate
  <2> QED BY <2>1, <2>2, RingGrows DEF GpgInv
<1>3. CASE Gpg!Export(p)
  <2>1. gpgShown' = [gpgShown EXCEPT ![p] = gpgFound[p]] \/ gpgShown' = gpgShown
    BY <1>3 DEF Gpg!Export
  <2>2. UNCHANGED <<ring, gpgFound>>
    BY <1>3 DEF Gpg!Export
  <2> QED BY <2>1, <2>2 DEF GpgInv
<1> QED BY <1>1, <1>2, <1>3 DEF Gpg!Step, Gpg!Find, Gpg!FindAgain
-----------------------------------------------------------------------------
(***************************************************************************)
(* The listener and its file.                                              *)
(***************************************************************************)
Entries == PublicKeys \union {NL, Torn}
Statuses == {0, 200, 400, 403, 500}

HostTypeOK ==
    /\ authorized \in Seq(Entries) /\ before \in Seq(Entries)
    /\ at \in [Requests -> {"unsent", "decode", "read", "open", "newline",
                            "append", "reply", "signal", "return", "gone"}]
    /\ pubkey \in [Requests -> PublicKeys \union {NotAKey}]
    /\ knowsCode \in [Requests -> BOOLEAN]
    /\ existing \in [Requests -> Seq(Entries)]
    /\ status \in [Requests -> Statuses] /\ told \in [Requests -> Statuses]
    /\ done \in BOOLEAN /\ exitCode \in {0, 1}

\* What a handler has done, by where it is.
HandlersInv ==
    \A r \in Requests :
        /\ at[r] \in {"unsent", "decode"} => ~knowsCode[r]
        /\ told[r] # 0 => at[r] = "gone"
        /\ at[r] \in {"unsent", "decode", "read", "open", "newline", "append",
                      "reply"} => status[r] = 0
        /\ at[r] \in {"read", "open", "newline", "append", "reply", "signal"} =>
              knowsCode[r]
        /\ knowsCode[r] => pubkey[r] \in PublicKeys
        /\ at[r] = "signal" => status[r] = 200
        /\ at[r] = "reply" \/ 200 \in {status[r], told[r]} =>
              knowsCode[r] /\ Host!Enrolled(r)

\* The file begins with the old one and, once written to, ends a line or is torn.
FileInv ==
    /\ Len(before) <= Len(authorized)
    /\ \A i \in 1 .. Len(before) : authorized[i] = before[i]
    /\ Len(before) < Len(authorized) => authorized[Len(authorized)] \in {NL, Torn}
    /\ \A i \in Len(before) + 1 .. Len(authorized) :
          authorized[i] \in PublicKeys =>
              \E r \in Requests : knowsCode[r] /\ pubkey[r] = authorized[i]
    /\ Host!OldLinesStand

\* No handler is about to write on the last line of the old file: it has found
\* that the line has no end, or somebody has written since.
Written == Len(before) < Len(authorized) \/ ~Host!Unterminated(before)
WritersInv ==
    \A r \in Requests :
        /\ at[r] = "append" => Written
        /\ at[r] = "open" => Written \/ Host!Unterminated(existing[r])

\* done is signalled, and the exit status 0, for one who is answered with 200.
SignalInv == done \/ exitCode = 0 => \E r \in Requests : status[r] = 200

HostInv == HostTypeOK /\ HandlersInv /\ FileInv /\ WritersInv /\ SignalInv

LEMMA EntriesDiffer ==
    /\ NL \notin PublicKeys /\ Torn \notin PublicKeys /\ NotAKey \notin PublicKeys
    /\ NL # Torn /\ OldFiles \subseteq Seq(Entries)
BY HostAssumption DEF Host!ConstantsOK, Host!FileType, Entries

LEMMA HostInit == Host!Init => HostInv
<1> SUFFICES ASSUME Host!Init PROVE HostInv
  OBVIOUS
<1> USE EntriesDiffer DEF Host!Init
<1>1. HostTypeOK
  <2>1. /\ authorized \in Seq(Entries) /\ before \in Seq(Entries)
        /\ done \in BOOLEAN /\ exitCode \in {0, 1}
    OBVIOUS
  <2>2. /\ at \in [Requests -> {"unsent"}] /\ pubkey \in [Requests -> {NotAKey}]
        /\ knowsCode \in [Requests -> {FALSE}] /\ existing \in [Requests -> {<<>>}]
        /\ status \in [Requests -> {0}] /\ told \in [Requests -> {0}]
    OBVIOUS
  <2>3. <<>> \in Seq(Entries)
    BY EmptySeq
  <2> QED BY <2>1, <2>2, <2>3 DEF HostTypeOK, Statuses
<1>2. HandlersInv /\ WritersInv /\ SignalInv
  BY DEF HandlersInv, WritersInv, SignalInv
<1>3. Len(authorized) \in Nat
  BY <1>1, LenProperties DEF HostTypeOK
<1>4. FileInv
  BY <1>3 DEF FileInv, Host!OldLinesStand
<1> QED BY <1>1, <1>2, <1>4 DEF HostInv
-----------------------------------------------------------------------------
\* What is written goes behind what was there, and every line there stands.
Extends(f, g) ==
    /\ g \in Seq(Entries) /\ Len(f) <= Len(g)
    /\ \A i \in 1 .. Len(f) : g[i] = f[i]
    /\ \A k \in PublicKeys : Host!HasLine(f, k) => Host!HasLine(g, k)

LEMMA HasLineMeans ==
    ASSUME NEW f, NEW k
    PROVE Host!HasLine(f, k) <=> \E i \in 1 .. Len(f) :
              /\ f[i] = k
              /\ i > 1 => f[i - 1] = NL
              /\ i < Len(f) => f[i + 1] = NL
BY DEF Host!HasLine, Host!LinesWith

LEMMA AppendExtends ==
    ASSUME NEW f \in Seq(Entries), NEW x \in Entries,
           x = NL \/ f = <<>> \/ f[Len(f)] \notin PublicKeys
    PROVE Extends(f, Append(f, x))
<1> DEFINE g == Append(f, x)
<1>1. /\ g \in Seq(Entries) /\ Len(g) = Len(f) + 1 /\ Len(f) \in Nat
      /\ \A i \in 1 .. Len(f) : g[i] = f[i]
      /\ g[Len(f) + 1] = x
  BY AppendProperties, LenProperties
<1> HIDE DEF g
<1>2. ASSUME NEW k \in PublicKeys, Host!HasLine(f, k) PROVE Host!HasLine(g, k)
  <2>1. PICK i \in 1 .. Len(f) : /\ f[i] = k
                                 /\ i > 1 => f[i - 1] = NL
                                 /\ i < Len(f) => f[i + 1] = NL
    BY <1>2, HasLineMeans
  <2>2. i \in 1 .. Len(g) /\ g[i] = k /\ (i > 1 => g[i - 1] = NL)
    BY <1>1, <2>1
  <2>3. CASE i < Len(f)
    BY <1>1, <2>1, <2>2, <2>3, HasLineMeans
  <2>4. CASE i = Len(f)
    <3>1. f # <<>> /\ f[Len(f)] \in PublicKeys
      BY <2>1, <2>4
    <3>2. g[i + 1] = NL
      BY <1>1, <2>4, <3>1
    <3> QED BY <2>2, <3>2, HasLineMeans
  <2> QED BY <1>1, <2>3, <2>4
<1> QED BY <1>1, <1>2 DEF Extends, g

LEMMA ExtendsTwice ==
    ASSUME NEW f \in Seq(Entries), NEW g, NEW h, Extends(f, g), Extends(g, h)
    PROVE Extends(f, h)
<1>1. Len(f) \in Nat /\ Len(g) \in Nat /\ Len(h) \in Nat
  BY LenProperties DEF Extends
<1> QED BY <1>1 DEF Extends

\* A key and the end of its line, behind a line that has ended or a torn one.
WithLine(f, k) == f \o <<k, NL>>

LEMMA KeyExtends ==
    ASSUME NEW f \in Seq(Entries), NEW k \in PublicKeys,
           f = <<>> \/ f[Len(f)] \in {NL, Torn},
           NEW g, g = WithLine(f, k)
    PROVE /\ Extends(f, g)
          /\ Len(g) = Len(f) + 2 /\ g[Len(g)] = NL /\ g[Len(f) + 1] = k
          /\ f = <<>> \/ f[Len(f)] = NL => Host!HasLine(g, k)
<1> USE EntriesDiffer
<1> DEFINE h == Append(f, k)
<1>1. /\ h \in Seq(Entries) /\ Len(h) = Len(f) + 1 /\ Len(f) \in Nat
      /\ h[Len(f) + 1] = k /\ \A i \in 1 .. Len(f) : h[i] = f[i]
  BY AppendProperties, LenProperties DEF Entries
<1> HIDE DEF h
<1>2. g = Append(h, NL)
  BY DEF h, Entries, WithLine
<1>3. /\ g \in Seq(Entries) /\ Len(g) = Len(h) + 1
      /\ g[Len(h) + 1] = NL /\ \A i \in 1 .. Len(h) : g[i] = h[i]
  BY <1>1, <1>2, AppendProperties DEF Entries
<1>4. Extends(f, h)
  BY AppendExtends DEF h, Entries
<1>5. Extends(h, g)
  BY <1>1, <1>2, AppendExtends DEF Entries
<1>6. Extends(f, g)
  BY <1>4, <1>5, ExtendsTwice
<1>7. /\ Len(g) = Len(f) + 2 /\ g[Len(g)] = NL /\ g[Len(f) + 1] = k
      /\ \A i \in 1 .. Len(f) : g[i] = f[i]
  BY <1>1, <1>3
<1>8. ASSUME f = <<>> \/ f[Len(f)] = NL PROVE Host!HasLine(g, k)
  <2> DEFINE n == Len(f) + 1
  <2>1. n \in 1 .. Len(g) /\ g[n] = k /\ n + 1 = Len(g) /\ n - 1 = Len(f)
    BY <1>1, <1>7
  <2>2. n > 1 => g[n - 1] = NL
    BY <1>1, <1>7, <1>8, <2>1
  <2> HIDE DEF n
  <2>3. n < Len(g) => g[n + 1] = NL
    BY <1>7, <2>1
  <2> QED BY <2>1, <2>2, <2>3, HasLineMeans
<1> QED BY <1>6, <1>7, <1>8

\* Nothing is lost by writing: what holds of the file and of the requests that
\* have been accepted goes on to hold.
Kept == \A r \in Requests :
            knowsCode[r] => knowsCode'[r] /\ pubkey'[r] = pubkey[r]
Stands ==
    /\ authorized' \in Seq(Entries) /\ FileInv'
    /\ Written => Written'
    /\ \A r \in Requests :
          knowsCode[r] /\ Host!Enrolled(r) => Host!Enrolled(r)'

LEMMA FileGrows ==
    ASSUME HostInv, Kept, UNCHANGED before, Extends(authorized, authorized'),
           Len(authorized) < Len(authorized'),
           authorized'[Len(authorized')] \in {NL, Torn},
           \A i \in Len(authorized) + 1 .. Len(authorized') :
              authorized'[i] \in PublicKeys =>
                 \E r \in Requests : knowsCode[r] /\ pubkey[r] = authorized'[i]
    PROVE Stands
<1>1. /\ Len(authorized) \in Nat /\ Len(authorized') \in Nat
      /\ Len(before) \in Nat /\ Len(before') = Len(before)
  BY LenProperties DEF HostInv, HostTypeOK, Extends
<1>2. FileInv'
  <2>1. /\ Len(before) <= Len(authorized')
        /\ \A i \in 1 .. Len(before) : authorized'[i] = before[i]
    BY <1>1 DEF HostInv, FileInv, Extends
  <2>2. ASSUME NEW i \in Len(before) + 1 .. Len(authorized'),
               authorized'[i] \in PublicKeys
        PROVE \E r \in Requests : knowsCode'[r] /\ pubkey'[r] = authorized'[i]
    <3>1. CASE i <= Len(authorized)
      <4>1. authorized[i] = authorized'[i] /\ i \in Len(before) + 1 .. Len(authorized)
        BY <1>1, <3>1 DEF Extends
      <4>2. \E r \in Requests : knowsCode[r] /\ pubkey[r] = authorized[i]
        BY <2>2, <4>1 DEF HostInv, FileInv
      <4> QED BY <4>1, <4>2 DEF Kept
    <3>2. CASE ~(i <= Len(authorized))
      <4>1. i \in Len(authorized) + 1 .. Len(authorized')
        BY <1>1, <3>2
      <4>2. \E r \in Requests : knowsCode[r] /\ pubkey[r] = authorized'[i]
        BY <2>2, <4>1
      <4> QED BY <4>2 DEF Kept
    <3> QED BY <3>1, <3>2
  <2>3. (Host!OldLinesStand)'
    BY DEF HostInv, FileInv, Host!OldLinesStand, Extends
  <2> QED BY <2>1, <2>2, <2>3 DEF FileInv
<1>3. Written'
  BY <1>1 DEF Written, HostInv, FileInv
<1>4. ASSUME NEW r \in Requests, knowsCode[r], Host!Enrolled(r)
      PROVE Host!Enrolled(r)'
  <2>1. pubkey'[r] = pubkey[r] /\ pubkey[r] \in PublicKeys
    BY <1>4 DEF Kept, HostInv, HandlersInv
  <2>2. Host!HasLine(authorized, pubkey[r]) => Host!HasLine(authorized', pubkey[r])
    BY <2>1 DEF Extends
  <2>3. Host!Has(authorized, Torn) => Host!Has(authorized', Torn)
    BY <1>1 DEF Extends, Host!Has
  <2> QED BY <1>4, <2>1, <2>2, <2>3 DEF Host!Enrolled
<1> QED BY <1>2, <1>3, <1>4 DEF Stands, Extends

LEMMA FileStays ==
    ASSUME HostInv, Kept, UNCHANGED <<authorized, before>> PROVE Stands
<1>1. FileInv'
  <2>1. \A i \in Len(before) + 1 .. Len(authorized) :
           authorized[i] \in PublicKeys =>
              \E r \in Requests : knowsCode'[r] /\ pubkey'[r] = authorized[i]
    BY DEF HostInv, FileInv, Kept
  <2> QED BY <2>1 DEF HostInv, FileInv, Host!OldLinesStand
<1>2. Written => Written'
  BY DEF Written
<1>3. \A r \in Requests :
         knowsCode[r] /\ Host!Enrolled(r) => Host!Enrolled(r)'
  BY DEF Kept, Host!Enrolled
<1> QED BY <1>1, <1>2, <1>3 DEF Stands, HostInv, HostTypeOK
-----------------------------------------------------------------------------
\* The steps of a request until its handler reads the file.
LEMMA ConnectStep ==
    ASSUME HostInv, NEW r \in Requests, Host!Connect(r) PROVE HostInv'
<1> USE DEF Host!Connect, Host!At, Host!Go, Host!mainVars
<1>1. Stands
  BY FileStays DEF Kept
<1>2. HostTypeOK' /\ WritersInv' /\ SignalInv'
  BY <1>1 DEF HostInv, HostTypeOK, WritersInv, SignalInv, Stands
<1>3. HandlersInv'
  BY <1>1 DEF HostInv, HostTypeOK, HandlersInv, Stands
<1> QED BY <1>1, <1>2, <1>3 DEF HostInv, Stands

\* A handler answers, and has written nothing.
LEMMA AnswerStep ==
    ASSUME HostInv, NEW r \in Requests, NEW code \in {400, 403, 500},
           at[r] \in {"decode", "read", "open", "newline", "append"},
           Host!Answer(r, code, "return"), Stands,
           existing' \in [Requests -> Seq(Entries)],
           \A q \in Requests \ {r} : existing'[q] = existing[q],
           UNCHANGED <<before, pubkey, knowsCode, told, done, exitCode>>
    PROVE HostInv'
<1> USE DEF Host!Answer, Host!Go
<1>1. HostTypeOK'
  <2>1. code \in Statuses
    BY DEF Statuses
  <2>2. /\ status' \in [Requests -> Statuses]
        /\ at' \in [Requests -> {"unsent", "decode", "read", "open", "newline",
                                "append", "reply", "signal", "return", "gone"}]
    BY <2>1 DEF HostInv, HostTypeOK
  <2> QED BY <2>2 DEF HostInv, HostTypeOK, Stands
<1>2. HandlersInv'
  BY DEF HostInv, HostTypeOK, HandlersInv, Stands
<1>3. WritersInv'
  BY DEF HostInv, HostTypeOK, WritersInv, Stands
<1>4. SignalInv'
  BY DEF HostInv, HostTypeOK, HandlersInv, SignalInv
<1> QED BY <1>1, <1>2, <1>3, <1>4 DEF HostInv, Stands

LEMMA DecodeStep ==
    ASSUME HostInv, NEW r \in Requests, NEW codeOK \in BOOLEAN,
           NEW k \in PublicKeys \union {NotAKey}, Host!Decode(r, codeOK, k)
    PROVE HostInv'
<1> USE DEF Host!Decode, Host!At, Host!Go, Host!mainVars, Host!Accepts
<1>1. at[r] = "decode" /\ ~knowsCode[r] /\ status[r] = 0 /\ told[r] = 0
  BY DEF HostInv, HandlersInv
<1>2. Kept
  BY <1>1 DEF Kept, HostInv, HostTypeOK
<1>3. Stands
  BY <1>2, FileStays
<1>4. CASE Host!Accepts(codeOK, k)
  <2>1. /\ pubkey' = [pubkey EXCEPT ![r] = k] /\ k \in PublicKeys
        /\ knowsCode' = [knowsCode EXCEPT ![r] = TRUE]
        /\ at' = [at EXCEPT ![r] = "read"]
        /\ UNCHANGED <<authorized, before, existing, status, told, done, exitCode>>
    BY <1>4
  <2>2. HostTypeOK'
    BY <2>1 DEF HostInv, HostTypeOK
  <2>3. HandlersInv'
    BY <1>1, <1>3, <2>1 DEF HostInv, HostTypeOK, HandlersInv, Stands
  <2>4. WritersInv' /\ SignalInv'
    BY <1>3, <2>1 DEF HostInv, HostTypeOK, WritersInv, SignalInv, Stands
  <2> QED BY <1>3, <2>2, <2>3, <2>4 DEF HostInv, Stands
<1>5. CASE ~Host!Accepts(codeOK, k)
  <2>1. /\ Host!Answer(r, IF codeOK THEN 400 ELSE 403, "return")
        /\ UNCHANGED <<before, pubkey, knowsCode, existing, told, done, exitCode>>
    BY <1>5
  <2> QED BY <1>1, <1>3, <2>1, AnswerStep DEF HostInv, HostTypeOK
<1> QED BY <1>4, <1>5

LEMMA DecodeFailsStep ==
    ASSUME HostInv, NEW r \in Requests, Host!DecodeFails(r) PROVE HostInv'
<1>1. /\ at[r] = "decode" /\ Host!Answer(r, 400, "return")
      /\ UNCHANGED <<authorized, before, pubkey, knowsCode, existing, told, done,
                     exitCode>>
  BY DEF Host!DecodeFails, Host!At, Host!mainVars
<1>2. Stands
  BY <1>1, FileStays DEF Kept
<1> QED BY <1>1, <1>2, AnswerStep DEF HostInv, HostTypeOK
-----------------------------------------------------------------------------
\* The steps of appendAuthorizedKey.
LEMMA FileFailsStep ==
    ASSUME HostInv, NEW r \in Requests, Host!FileFails(r) PROVE HostInv'
<1>1. /\ at[r] \in {"read", "open", "newline", "append"}
      /\ Host!Answer(r, 500, "return")
      /\ existing' = [existing EXCEPT ![r] = <<>>]
      /\ UNCHANGED <<authorized, before, pubkey, knowsCode, told, done, exitCode>>
  BY DEF Host!FileFails, Host!At, Host!mainVars
<1>2. Stands
  BY <1>1, FileStays DEF Kept
<1>3. <<>> \in Seq(Entries)
  BY EmptySeq
<1> QED BY <1>1, <1>2, <1>3, AnswerStep DEF HostInv, HostTypeOK

LEMMA ReadKeysStep ==
    ASSUME HostInv, NEW r \in Requests, Host!ReadKeys(r) PROVE HostInv'
<1> USE DEF Host!ReadKeys, Host!At, Host!Go, Host!mainVars
<1>1. Stands
  BY FileStays DEF Kept
<1>2. at[r] = "read"
  OBVIOUS
<1>3. HostTypeOK'
  BY DEF HostInv, HostTypeOK
<1>4. HandlersInv'
  BY <1>1 DEF HostInv, HostTypeOK, HandlersInv, Stands, Host!Enrolled
\* An old file that has not been written to is the one just read.
<1>5. Written \/ Host!Unterminated(authorized)
  <2>1. CASE Len(before) = Len(authorized)
    <3>1. before = authorized
      BY <2>1, SeqEqual DEF HostInv, HostTypeOK, FileInv
    <3> QED BY <3>1 DEF Written
  <2>2. CASE Len(before) # Len(authorized)
    <3>1. Len(before) \in Nat /\ Len(authorized) \in Nat
      BY LenProperties DEF HostInv, HostTypeOK
    <3> QED BY <2>2, <3>1 DEF Written, HostInv, FileInv
  <2> QED BY <2>1, <2>2
<1>6. WritersInv'
  BY <1>1, <1>2, <1>5 DEF HostInv, HostTypeOK, WritersInv, Stands, Host!Unterminated,
     Written
<1>7. SignalInv'
  BY DEF HostInv, SignalInv
<1> QED BY <1>1, <1>3, <1>4, <1>6, <1>7 DEF HostInv, Stands

LEMMA OpenKeysStep ==
    ASSUME HostInv, NEW r \in Requests, Host!OpenKeys(r) PROVE HostInv'
<1> USE DEF Host!OpenKeys, Host!At, Host!Go, Host!mainVars
<1>1. Stands
  BY FileStays DEF Kept
<1>2. HostTypeOK'
  BY EmptySeq DEF HostInv, HostTypeOK
<1>3. HandlersInv'
  BY <1>1 DEF HostInv, HostTypeOK, HandlersInv, Stands
<1>4. WritersInv'
  BY <1>1 DEF HostInv, HostTypeOK, WritersInv, Stands
<1>5. SignalInv'
  BY DEF HostInv, SignalInv
<1> QED BY <1>1, <1>2, <1>3, <1>4, <1>5 DEF HostInv, Stands

LEMMA EndLineStep ==
    ASSUME HostInv, NEW r \in Requests, Host!EndLine(r) PROVE HostInv'
<1> USE EntriesDiffer DEF Host!EndLine, Host!At, Host!Go, Host!mainVars
<1>1. authorized \in Seq(Entries) /\ NL \in Entries
  BY DEF HostInv, HostTypeOK, Entries
<1>2. /\ Extends(authorized, authorized')
      /\ Len(authorized') = Len(authorized) + 1 /\ Len(authorized) \in Nat
      /\ authorized'[Len(authorized')] = NL
  BY <1>1, AppendExtends, AppendProperties, LenProperties
<1>3. Stands
  <2>1. \A i \in Len(authorized) + 1 .. Len(authorized') : authorized'[i] = NL
    BY <1>2
  <2> QED BY <1>2, <2>1, FileGrows DEF Kept
<1>4. HostTypeOK'
  BY <1>3 DEF HostInv, HostTypeOK, Stands
<1>5. HandlersInv'
  BY <1>3 DEF HostInv, HostTypeOK, HandlersInv, Stands
<1>6. WritersInv'
  <2>1. Len(before) < Len(authorized')
    BY <1>2, LenProperties DEF HostInv, HostTypeOK, FileInv
  <2> QED BY <2>1 DEF HostInv, HostTypeOK, WritersInv, Written
<1>7. SignalInv'
  BY DEF HostInv, SignalInv
<1> QED BY <1>3, <1>4, <1>5, <1>6, <1>7 DEF HostInv, Stands

\* Who appends has the end of a line before it, or what was torn.
LEMMA AppendsBehind ==
    ASSUME HostInv, NEW r \in Requests, at[r] = "append"
    PROVE authorized = <<>> \/ authorized[Len(authorized)] \in {NL, Torn}
<1>1. Len(before) \in Nat /\ Len(authorized) \in Nat
  BY LenProperties DEF HostInv, HostTypeOK
<1>2. CASE Len(before) < Len(authorized)
  BY <1>2 DEF HostInv, FileInv
<1>3. CASE ~(Len(before) < Len(authorized))
  <2>1. authorized = before
    BY <1>1, <1>3, SeqEqual DEF HostInv, HostTypeOK, FileInv
  <2>2. ~Host!Unterminated(before)
    BY <1>3 DEF HostInv, WritersInv, Written
  <2> QED BY <2>1, <2>2 DEF Host!Unterminated
<1> QED BY <1>2, <1>3

LEMMA AppendKeyStep ==
    ASSUME HostInv, NEW r \in Requests, Host!AppendKey(r) PROVE HostInv'
<1> USE EntriesDiffer DEF Host!AppendKey, Host!At, Host!Go, Host!mainVars
<1>1. /\ at[r] = "append" /\ knowsCode[r] /\ pubkey[r] \in PublicKeys
      /\ authorized \in Seq(Entries)
      /\ authorized' = WithLine(authorized, pubkey[r])
  BY DEF HostInv, HostTypeOK, HandlersInv, WithLine
<1>2. /\ Extends(authorized, authorized')
      /\ Len(authorized') = Len(authorized) + 2
      /\ authorized'[Len(authorized')] = NL
      /\ authorized'[Len(authorized) + 1] = pubkey[r]
      /\ authorized = <<>> \/ authorized[Len(authorized)] = NL
            => Host!HasLine(authorized', pubkey[r])
  <2> HIDE DEF Host!AppendKey
  <2>1. authorized = <<>> \/ authorized[Len(authorized)] \in {NL, Torn}
    BY <1>1, AppendsBehind
  <2> QED BY <1>1, <2>1, KeyExtends
<1>3. Len(authorized) \in Nat
  BY <1>1, LenProperties
<1>4. Stands
  <2>1. ASSUME NEW i \in Len(authorized) + 1 .. Len(authorized'),
               authorized'[i] \in PublicKeys
        PROVE \E q \in Requests : knowsCode[q] /\ pubkey[q] = authorized'[i]
    <3>1. i = Len(authorized) + 1
      BY <1>2, <1>3, <2>1
    <3> QED BY <1>1, <1>2, <3>1
  <2>2. Len(authorized) < Len(authorized')
    BY <1>2, <1>3
  <2> QED BY <1>2, <2>1, <2>2, FileGrows DEF Kept
\* Its line is there, unless it is on a torn one.
<1>5. Host!Enrolled(r)'
  <2>1. CASE authorized = <<>> \/ authorized[Len(authorized)] = NL
    BY <1>2, <2>1 DEF Host!Enrolled
  <2>2. CASE ~(authorized = <<>> \/ authorized[Len(authorized)] = NL)
    <3>1. authorized[Len(authorized)] = Torn /\ authorized # <<>>
      BY <1>1, <2>2, AppendsBehind
    <3>2. Len(authorized) \in 1 .. Len(authorized)
      BY <1>1, <1>3, <3>1, EmptySeq
    <3>3. authorized'[Len(authorized)] = Torn
      BY <1>2, <3>1, <3>2 DEF Extends
    <3>4. Len(authorized) \in 1 .. Len(authorized')
      BY <1>2, <3>2
    <3> QED BY <3>3, <3>4 DEF Host!Enrolled, Host!Has
  <2> QED BY <2>1, <2>2
<1>6. HostTypeOK'
  BY <1>4 DEF HostInv, HostTypeOK, Stands
<1>7. HandlersInv'
  BY <1>1, <1>4, <1>5 DEF HostInv, HostTypeOK, HandlersInv, Stands
<1>8. WritersInv'
  BY <1>4 DEF HostInv, HostTypeOK, WritersInv, Stands
<1>9. SignalInv'
  BY DEF HostInv, SignalInv
<1> QED BY <1>4, <1>6, <1>7, <1>8, <1>9 DEF HostInv, Stands

LEMMA AppendTornStep ==
    ASSUME HostInv, NEW r \in Requests, Host!AppendTorn(r) PROVE HostInv'
<1> USE EntriesDiffer DEF Host!AppendTorn, Host!At, Host!mainVars
<1>1. authorized \in Seq(Entries) /\ Torn \in Entries /\ at[r] = "append"
  BY DEF HostInv, HostTypeOK, Entries
<1>2. authorized = <<>> \/ authorized[Len(authorized)] \notin PublicKeys
  BY <1>1, AppendsBehind
<1>3. /\ Extends(authorized, authorized')
      /\ Len(authorized') = Len(authorized) + 1 /\ Len(authorized) \in Nat
      /\ authorized'[Len(authorized')] = Torn
  BY <1>1, <1>2, AppendExtends, AppendProperties, LenProperties
<1>4. Stands
  <2>1. \A i \in Len(authorized) + 1 .. Len(authorized') : authorized'[i] = Torn
    BY <1>3
  <2> QED BY <1>3, <2>1, FileGrows DEF Kept
<1> QED BY <1>1, <1>4, AnswerStep DEF HostInv, HostTypeOK
-----------------------------------------------------------------------------
\* The end of a handler.
LEMMA ReplyStep ==
    ASSUME HostInv, NEW r \in Requests, Host!Reply(r) PROVE HostInv'
<1> USE DEF Host!Reply, Host!Answer, Host!At, Host!Go, Host!mainVars
<1>1. Stands
  BY FileStays DEF Kept
<1>2. HostTypeOK'
  <2>1. 200 \in Statuses
    BY DEF Statuses
  <2> QED BY <2>1 DEF HostInv, HostTypeOK
<1>3. HandlersInv'
  BY <1>1 DEF HostInv, HostTypeOK, HandlersInv, Stands
<1>4. WritersInv'
  BY <1>1 DEF HostInv, HostTypeOK, WritersInv, Stands
<1>5. SignalInv'
  BY DEF HostInv, HostTypeOK, SignalInv
<1> QED BY <1>1, <1>2, <1>3, <1>4, <1>5 DEF HostInv, Stands

LEMMA SignalStep ==
    ASSUME HostInv, NEW r \in Requests, Host!Signal(r) PROVE HostInv'
<1> USE DEF Host!Signal, Host!At, Host!Go, Host!mainVars
<1>1. Stands
  BY FileStays DEF Kept
<1>2. HostTypeOK'
  BY DEF HostInv, HostTypeOK
<1>3. HandlersInv'
  BY <1>1 DEF HostInv, HostTypeOK, HandlersInv, Stands
<1>4. WritersInv'
  BY <1>1 DEF HostInv, HostTypeOK, WritersInv, Stands
<1>5. SignalInv'
  BY DEF HostInv, HandlersInv, SignalInv
<1> QED BY <1>1, <1>2, <1>3, <1>4, <1>5 DEF HostInv, Stands

LEMMA ReturnStep ==
    ASSUME HostInv, NEW r \in Requests, Host!Return(r) PROVE HostInv'
<1> USE DEF Host!Return, Host!At, Host!Go, Host!mainVars
<1>1. Stands
  BY FileStays DEF Kept
<1>2. HostTypeOK'
  BY DEF HostInv, HostTypeOK
<1>3. HandlersInv'
  BY <1>1 DEF HostInv, HostTypeOK, HandlersInv, Stands
<1>4. WritersInv'
  BY <1>1 DEF HostInv, HostTypeOK, WritersInv, Stands
<1>5. SignalInv'
  BY DEF HostInv, SignalInv
<1> QED BY <1>1, <1>2, <1>3, <1>4, <1>5 DEF HostInv, Stands

\* The main goroutine, which ends the handlers when it ends the process.
LEMMA StartStep == ASSUME HostInv, Host!Start PROVE HostInv'
<1> USE DEF Host!Start
<1>1. Stands
  BY FileStays DEF Kept
<1>2. HostTypeOK'
  <2>1. 0 \in Statuses /\ <<>> \in Seq(Entries)
    BY EmptySeq DEF Statuses
  <2> QED BY <2>1 DEF HostInv, HostTypeOK
<1>3. HandlersInv'
  BY <1>1 DEF HostInv, HostTypeOK, HandlersInv, Stands
<1>4. WritersInv' /\ SignalInv'
  BY DEF HostInv, HostTypeOK, WritersInv, SignalInv
<1> QED BY <1>1, <1>2, <1>3, <1>4 DEF HostInv, Stands

LEMMA MainStep == ASSUME HostInv, Host!Main PROVE HostInv'
<1>1. CASE Host!Listen \/ Host!ListenFails \/ Host!MainDone \/ Host!MainTimeout
           \/ Host!Exit
  <2> USE DEF Host!Listen, Host!ListenFails, Host!MainDone, Host!MainTimeout,
              Host!Exit, Host!request
  <2>1. /\ UNCHANGED <<authorized, before, at, pubkey, knowsCode, existing, status,
                       told>>
        /\ done' \in {done, FALSE} /\ exitCode' \in {exitCode, 0, 1}
        /\ done' \/ exitCode' = 0 => done \/ exitCode = 0
    <3>1. done \in BOOLEAN
      BY DEF HostInv, HostTypeOK
    <3>2. CASE Host!Listen
      BY <3>1, <3>2
    <3>3. CASE Host!ListenFails
      BY <3>1, <3>3
    <3>4. CASE Host!MainDone
      BY <3>1, <3>4
    <3>5. CASE Host!MainTimeout
      BY <3>1, <3>5
    <3>6. CASE Host!Exit
      BY <3>1, <3>6
    <3> QED BY <1>1, <3>2, <3>3, <3>4, <3>5, <3>6
  <2>2. Stands
    BY <2>1, FileStays DEF Kept
  <2>3. HostTypeOK' /\ WritersInv' /\ SignalInv'
    BY <2>1, <2>2 DEF HostInv, HostTypeOK, WritersInv, SignalInv, Stands
  <2>4. HandlersInv'
    BY <2>1, <2>2 DEF HostInv, HandlersInv, Stands
  <2> QED BY <2>2, <2>3, <2>4 DEF HostInv, Stands
<1> QED BY <1>1, StartStep DEF Host!Main

LEMMA HandlerStep ==
    ASSUME HostInv, NEW r \in Requests, Host!Handler(r) PROVE HostInv'
BY ReadKeysStep, OpenKeysStep, EndLineStep, AppendKeyStep, FileFailsStep,
   AppendTornStep, ReplyStep, SignalStep, ReturnStep DEF Host!Handler
-----------------------------------------------------------------------------
(***************************************************************************)
(* The device and the host.                                                *)
(***************************************************************************)
\* A run whose request has gone out has shown its key, is at no other one, and it
\* is this key that the handler has; it exits 0 only for one that is enrolled.
PairInv ==
    /\ exit \in [Runs -> {0, 1, None}]
    /\ \A p \in Runs :
        /\ at[p] # "unsent" =>
              pc[p] \in {"post", "done", "killed"} /\ shown[p][1] # None
        /\ knowsCode[p] => at[p] # "unsent" /\ pubkey[p] = shown[p][1]
        /\ exit[p] = 0 => told[p] = 200

Inv == KeyInv /\ GpgInv /\ HostInv /\ PairInv

LEMMA PairInit == PairingInit => Inv
<1> SUFFICES ASSUME PairingInit PROVE Inv
  OBVIOUS
<1>1. KeyInv /\ GpgInv /\ HostInv
  BY KeyInit, GpgInit, HostInit DEF PairingInit, KeysInit
<1>2. PairInv
  BY PairingAssumption DEF PairingInit, PairInv, Host!Init, Requests
<1> QED BY <1>1, <1>2 DEF Inv

\* What the steps of others leave: a run that waits for the listener, or no longer
\* does, shows nothing new.
LEMMA DeviceKeeps ==
    ASSUME KeyInv, Next, NEW p \in Runs, pc[p] \in {"post", "done", "killed"}
    PROVE pc'[p] \in {"post", "done", "killed"} /\ shown'[p] = shown[p]
<1>1. PICK q \in Runs :
         \/ Begin(q) \/ Crash(q) \/ Stat(q) \/ Load(q) \/ Generate(q) \/ Open(q)
         \/ Write(q) \/ Return(q) \/ Dial(q)
  BY DEF Next
<1>2. CASE q = p
  <2>1. Crash(p)
    BY <1>1, <1>2 DEF Begin, Stat, Load, Generate, Open, Write, Return, Dial, Goes,
       Fails
  <2> QED BY <2>1 DEF Crash, KeyInv, KeyTypeOK
<1>3. CASE q # p
  <2>1. pc'[p] = pc[p]
    BY <1>1, <1>3 DEF KeyInv, KeyTypeOK, Begin, Crash, Stat, Load, Generate, Open,
       Write, Return, Dial, Goes, Fails
  <2>2. shown'[p] = shown[p]
    BY <1>1, <1>3 DEF KeyInv, KeyTypeOK, Begin, Crash, Stat, Load, Generate, Open,
       Write, Return, Dial, Goes, Fails
  <2> QED BY <2>1, <2>2
<1> QED BY <1>2, <1>3

\* ... and the listener's part in a request is what its client sent.
HostKeeps ==
    /\ \A p \in Requests :
          /\ at'[p] = "unsent" <=> at[p] = "unsent"
          /\ at[p] = "gone" => at'[p] = "gone"
          /\ told'[p] # told[p] => told[p] = 0 /\ at'[p] = "gone"
    /\ UNCHANGED <<pubkey, knowsCode>>

LEMMA HandlerKeeps ==
    ASSUME HostInv, NEW r \in Requests, Host!Handler(r) PROVE HostKeeps
<1>1. /\ at[r] \notin {"unsent", "gone"}
      /\ \E label \in {"open", "newline", "append", "reply", "signal", "return",
                       "gone"} : at' = [at EXCEPT ![r] = label]
      /\ UNCHANGED <<pubkey, knowsCode>>
  BY DEF Host!Handler, Host!ReadKeys, Host!OpenKeys, Host!EndLine, Host!AppendKey,
     Host!FileFails, Host!AppendTorn, Host!Reply, Host!Signal, Host!Return, Host!At,
     Host!Go, Host!Answer
<1>2. \/ told' = told
      \/ told' = [told EXCEPT ![r] = status[r]] /\ at' = [at EXCEPT ![r] = "gone"]
  BY DEF Host!Handler, Host!ReadKeys, Host!OpenKeys, Host!EndLine, Host!AppendKey,
     Host!FileFails, Host!AppendTorn, Host!Reply, Host!Signal, Host!Return, Host!At,
     Host!Go, Host!Answer
<1>3. /\ at \in [Requests -> {"unsent", "decode", "read", "open", "newline",
                              "append", "reply", "signal", "return", "gone"}]
      /\ told \in [Requests -> Statuses]
      /\ told[r] = 0
  BY <1>1 DEF HostInv, HostTypeOK, HandlersInv
<1> QED BY <1>1, <1>2, <1>3 DEF HostKeeps

LEMMA MainKeeps ==
    ASSUME HostInv, Host!Main PROVE HostKeeps
<1>1. CASE Host!Start
  BY <1>1 DEF Host!Start, HostKeeps, HostInv, HostTypeOK
<1>2. CASE ~Host!Start
  BY <1>2 DEF Host!Main, Host!Listen, Host!ListenFails, Host!MainDone,
     Host!MainTimeout, Host!Exit, Host!request, HostKeeps
<1> QED BY <1>1, <1>2

LEMMA PairKept ==
    ASSUME Inv, HostKeeps, UNCHANGED <<vars, exit>> PROVE PairInv'
BY DEF Inv, PairInv, HostKeeps, vars, Requests

\* A request is sent, in two steps.
LEMMA RequestKept ==
    ASSUME Inv, NEW r \in Requests,
           \/ Host!Connect(r)
           \/ Host!DecodeFails(r)
           \/ \E codeOK \in BOOLEAN, k \in PublicKeys \union {NotAKey} :
                 /\ r \in Runs => k = shown[r][1]
                 /\ Host!Decode(r, codeOK, k),
           r \in Runs /\ at[r] = "unsent" => Waiting(r),
           UNCHANGED <<vars, exit>>
    PROVE PairInv'
<1> USE DEF Host!At, Host!Go, Host!Answer
<1>1. /\ at \in [Requests -> {"unsent", "decode", "read", "open", "newline",
                              "append", "reply", "signal", "return", "gone"}]
      /\ at[r] \in {"unsent", "decode"} /\ UNCHANGED told
      /\ \E label \in {"decode", "read", "return"} : at' = [at EXCEPT ![r] = label]
  BY DEF Host!Connect, Host!DecodeFails, Host!Decode, Inv, HostInv, HostTypeOK
<1>2. \/ UNCHANGED <<pubkey, knowsCode>>
      \/ \E codeOK \in BOOLEAN, k \in PublicKeys \union {NotAKey} :
            /\ r \in Runs => k = shown[r][1]
            /\ pubkey' = [pubkey EXCEPT ![r] = k]
            /\ knowsCode' = [knowsCode EXCEPT ![r] = codeOK]
  BY DEF Host!Connect, Host!DecodeFails, Host!Decode
<1>3. r \in Runs =>
         pc[r] \in {"post", "done", "killed"} /\ shown[r][1] # None
  BY DEF Inv, PairInv, Waiting, KeyInv, RunsInv
<1>4. ~knowsCode[r] /\ told[r] = 0
  BY <1>1 DEF Inv, HostInv, HandlersInv
<1>5. \A p \in Runs : p # r =>
         at'[p] = at[p] /\ knowsCode'[p] = knowsCode[p] /\ pubkey'[p] = pubkey[p]
  BY <1>1, <1>2 DEF Inv, HostInv, HostTypeOK, Requests
<1>6. r \in Runs => (knowsCode'[r] => pubkey'[r] = shown[r][1])
  BY <1>2, <1>4 DEF Inv, HostInv, HostTypeOK
<1>7. at'[r] # "unsent"
  BY <1>1
<1> QED BY <1>1, <1>3, <1>4, <1>5, <1>6, <1>7 DEF Inv, PairInv, vars

LEMMA ShownIsPublic ==
    ASSUME KeyInv, NEW p \in Runs, shown[p][1] # None
    PROVE shown[p][1] \in PublicKeys
BY DEF KeyInv, KeyTypeOK, FirstKeys, PublicKeys

\* What a part leaves alone keeps its invariant.
LEMMA KeyUnchanged == ASSUME KeyInv, UNCHANGED vars PROVE KeyInv'
BY DEF KeyInv, vars, KeyTypeOK, RunsInv, OneGenerator, OnDisk, Generating

LEMMA GpgUnchanged == ASSUME GpgInv, UNCHANGED gpgVars PROVE GpgInv'
BY DEF GpgInv, gpgVars

LEMMA HostUnchanged == ASSUME HostInv, UNCHANGED hostVars PROVE HostInv'
<1> USE DEF hostVars
<1>1. Stands
  BY FileStays DEF Kept
<1>2. HostTypeOK' /\ WritersInv' /\ SignalInv'
  BY <1>1 DEF HostInv, HostTypeOK, WritersInv, SignalInv, Stands
<1>3. HandlersInv'
  BY <1>1 DEF HostInv, HandlersInv, Stands
<1> QED BY <1>1, <1>2, <1>3 DEF HostInv, Stands

\* The steps of the whole.
LEMMA DeviceStepInv == ASSUME Inv, DeviceStep PROVE Inv'
<1>1. HostInv' /\ UNCHANGED <<hostVars, exit>>
  BY HostUnchanged DEF Inv, DeviceStep
<1>2. KeyInv' /\ GpgInv'
  BY KeyStep, KeyUnchanged, GpgSteps, GpgUnchanged
     DEF Inv, DeviceStep, KeysNext, SshStep, GpgStep
<1>3. ASSUME NEW p \in Runs, pc[p] \in {"post", "done", "killed"}
      PROVE pc'[p] \in {"post", "done", "killed"} /\ shown'[p] = shown[p]
  BY <1>3, DeviceKeeps DEF Inv, DeviceStep, KeysNext, SshStep, GpgStep, vars
<1>4. PairInv'
  BY <1>1, <1>3 DEF Inv, PairInv, hostVars
<1> QED BY <1>1, <1>2, <1>4 DEF Inv

LEMMA ClientStepInv ==
    ASSUME Inv, NEW p \in Runs, Answered(p) \/ PostFails(p) PROVE Inv'
<1>1. PICK code \in {0, 1} : /\ ClientEnds(p, code)
                             /\ code = 0 => told[p] = 200
  BY DEF Answered, PostFails
<1>2. /\ pc[p] = "post" /\ pc' = [pc EXCEPT ![p] = "done"]
      /\ exit' = [exit EXCEPT ![p] = code]
      /\ UNCHANGED <<file, round, fresh, shown, used, raced, gpgVars, hostVars>>
  BY <1>1 DEF ClientEnds, Waiting
<1>3. KeyInv'
  BY <1>2 DEF Inv, KeyInv, KeyTypeOK, RunsInv, OneGenerator, OnDisk, Generating
<1>4. GpgInv' /\ HostInv'
  BY <1>2, GpgUnchanged, HostUnchanged DEF Inv
<1>5. PairInv'
  BY <1>1, <1>2 DEF Inv, KeyInv, KeyTypeOK, PairInv, hostVars
<1> QED BY <1>3, <1>4, <1>5 DEF Inv

LEMMA HostStepInv ==
    ASSUME Inv, UNCHANGED <<vars, gpgVars, exit>>, HostInv', PairInv' PROVE Inv'
BY KeyUnchanged, GpgUnchanged DEF Inv

LEMMA PairStep == ASSUME Inv, PairingNext PROVE Inv'
<1>1. ASSUME NEW p \in Runs, HostStep(Post(p) \/ SendsBody(p)) PROVE Inv'
  <2>1. p \in Requests /\ UNCHANGED <<vars, gpgVars, exit>>
    BY <1>1 DEF HostStep, Requests
  <2>2. at[p] # "unsent" => shown[p][1] \in PublicKeys
    BY ShownIsPublic DEF Inv, PairInv
  <2>3. /\ \/ Host!Connect(p)
           \/ Host!DecodeFails(p)
           \/ \E codeOK \in BOOLEAN, k \in PublicKeys \union {NotAKey} :
                 /\ p \in Runs => k = shown[p][1]
                 /\ Host!Decode(p, codeOK, k)
        /\ at[p] = "unsent" => Waiting(p)
    BY <1>1, <2>2 DEF HostStep, Post, SendsBody, Host!Decode, Host!DecodeFails, Host!At
  <2>4. PairInv'
    BY <2>1, <2>3, RequestKept
  <2>5. HostInv'
    BY <2>1, <2>3, ConnectStep, DecodeFailsStep, DecodeStep DEF Inv
  <2> QED BY <2>1, <2>4, <2>5, HostStepInv
<1>2. ASSUME NEW r \in Strangers, HostStep(OtherConnects(r) \/ OtherSends(r))
      PROVE Inv'
  <2>1. r \in Requests /\ r \notin Runs /\ UNCHANGED <<vars, gpgVars, exit>>
    BY <1>2, PairingAssumption DEF HostStep, Requests
  <2>2. \/ Host!Connect(r)
        \/ Host!DecodeFails(r)
        \/ \E codeOK \in BOOLEAN, k \in PublicKeys \union {NotAKey} :
              /\ r \in Runs => k = shown[r][1]
              /\ Host!Decode(r, codeOK, k)
    BY <1>2, <2>1 DEF HostStep, OtherConnects, OtherSends, PublicKeys
  <2>3. PairInv'
    BY <2>1, <2>2, RequestKept
  <2>4. HostInv'
    BY <2>1, <2>2, ConnectStep, DecodeFailsStep, DecodeStep DEF Inv
  <2> QED BY <2>1, <2>3, <2>4, HostStepInv
<1>3. ASSUME NEW r \in Requests, HostStep(Host!Handler(r)) PROVE Inv'
  <2>1. HostInv' /\ UNCHANGED <<vars, gpgVars, exit>>
    BY <1>3, HandlerStep DEF Inv, HostStep
  <2>2. PairInv'
    BY <1>3, <2>1, HandlerKeeps, PairKept DEF Inv, HostStep
  <2> QED BY <2>1, <2>2, HostStepInv
<1>4. CASE HostStep(Host!Main)
  <2>1. HostInv' /\ UNCHANGED <<vars, gpgVars, exit>>
    BY <1>4, MainStep DEF Inv, HostStep
  <2>2. PairInv'
    BY <1>4, <2>1, MainKeeps, PairKept DEF Inv, HostStep
  <2> QED BY <2>1, <2>2, HostStepInv
<1> QED BY <1>1, <1>2, <1>3, <1>4, DeviceStepInv, ClientStepInv DEF PairingNext

LEMMA PairStutter == ASSUME Inv, UNCHANGED allVars PROVE Inv'
<1>1. HostInv' /\ UNCHANGED <<vars, gpgVars, exit>>
  BY HostUnchanged DEF Inv, allVars
<1>2. PairInv'
  BY DEF Inv, PairInv, allVars, hostVars, vars
<1> QED BY <1>1, <1>2, HostStepInv

LEMMA PairInvariant == PairingSpec => []Inv
<1>1. Inv /\ [PairingNext]_allVars => Inv'
  BY PairStep, PairStutter
<1> QED BY <1>1, PairInit, PTL DEF PairingSpec
-----------------------------------------------------------------------------
\* ShownIsOnDisk: in every run, early or late, and whatever was killed, the key shown
\* and logged in with is the one on the disk, unless two runs have raced.
THEOREM KeysShownAreOnDisk == PairingSpec => []ShownIsOnDisk
<1>1. Inv => ShownIsOnDisk
  BY DEF Inv, KeyInv, OnDisk, ShownIsOnDisk, Given
<1> QED BY <1>1, PairInvariant, PTL

\* KeyIsKept: a whole key that no run is about to write over is there for good.
THEOREM SettledKeyIsKept == PairingSpec => KeyIsKept
<1>1. Inv /\ [PairingNext]_allVars => [Settled => Settled' /\ file' = file]_vars
  <2> SUFFICES ASSUME Inv, [PairingNext]_allVars, Settled, vars' # vars
               PROVE Settled' /\ file' = file
    OBVIOUS
  <2>1. CASE Next
    BY <2>1, KeyStays DEF Inv
  <2>2. ASSUME NEW p \in Runs, NEW code, ClientEnds(p, code)
        PROVE Settled' /\ file' = file
    <3>1. /\ pc' = [pc EXCEPT ![p] = "done"] /\ file' = file
          /\ pc \in [Runs -> {"new", "stat", "read", "generate", "open", "write",
                              "return", "dial", "post", "done", "killed"}]
      BY <2>2 DEF ClientEnds, Inv, KeyInv, KeyTypeOK
    <3> QED BY <3>1 DEF Settled, Generating
  <2> QED BY <2>1, <2>2 DEF PairingNext, allVars, DeviceStep, KeysNext, SshStep,
          GpgStep, HostStep, Answered, PostFails
<1> QED BY <1>1, PairInvariant, PTL DEF PairingSpec, KeyIsKept

\* OneShown: no two runs show different GPG keys, whatever fails.
THEOREM OneGpgKeyShown == PairingSpec => []OneShown
<1>1. Inv => OneShown
  BY DEF Inv, GpgInv, OneShown, Gpg!OneShown
<1> QED BY <1>1, PairInvariant, PTL

\* FileOnlyGains: authorized_keys keeps every line that it had, and gains none
\* without the code, whatever number of handlers write to it and fail.
THEOREM FileGains == PairingSpec => []FileOnlyGains
<1>1. Inv => FileOnlyGains
  <2> SUFFICES ASSUME Inv PROVE FileOnlyGains
    OBVIOUS
  <2>1. Host!OldLinesStand
    BY DEF Inv, HostInv, FileInv
  <2>2. SubSeq(authorized, 1, Len(before)) = before
    <3>1. /\ Len(before) \in Nat /\ Len(authorized) \in Nat
          /\ Len(before) <= Len(authorized)
          /\ \A i \in 1 .. Len(before) : authorized[i] = before[i]
      BY LenProperties DEF Inv, HostInv, HostTypeOK, FileInv
    <3>2. /\ SubSeq(authorized, 1, Len(before)) \in Seq(Entries)
          /\ Len(SubSeq(authorized, 1, Len(before))) = Len(before)
          /\ \A i \in 1 .. Len(before) :
                SubSeq(authorized, 1, Len(before))[i] = authorized[i]
      BY <3>1, SubSeqProperties DEF Inv, HostInv, HostTypeOK
    <3> QED BY <3>1, <3>2, SeqEqual DEF Inv, HostInv, HostTypeOK
  <2> QED BY <2>1, <2>2 DEF FileOnlyGains, Host!FileOnlyGains, Host!OnlyWithTheCode,
          Inv, HostInv, FileInv
<1> QED BY <1>1, PairInvariant, PTL

\* SuccessIsReal: who is told 200 can log in, and exit status 0 means that there
\* is one who can.
THEOREM SuccessMeansEnrolled == PairingSpec => []SuccessIsReal
<1>1. Inv => SuccessIsReal
  BY DEF Inv, HostInv, HandlersInv, SignalInv, SuccessIsReal, Host!SuccessIsReal,
     Host!Exited
<1> QED BY <1>1, PairInvariant, PTL

\* PairedCanLogIn: a run that has enrolled the device has left it with a key that
\* the host has, unless two runs have raced.
THEOREM PairedMeansLogin == PairingSpec => []PairedCanLogIn
<1>1. Inv => PairedCanLogIn
  <2> SUFFICES ASSUME Inv, ~raced, NEW p \in Runs, exit[p] = 0
               PROVE /\ file \in Keys
                     /\ Host!HasLine(authorized, file) \/ Host!Has(authorized, Torn)
    BY DEF PairedCanLogIn
  <2>1. p \in Requests /\ told[p] = 200
    BY DEF Inv, PairInv, Requests
  <2>2. knowsCode[p] /\ Host!Enrolled(p)
    BY <2>1 DEF Inv, HostInv, HandlersInv
  <2>3. pubkey[p] = shown[p][1] /\ shown[p][1] # None
    BY <2>2 DEF Inv, PairInv
  <2>4. file = shown[p][1]
    BY <2>3 DEF Inv, KeyInv, OnDisk
  <2>5. file \in Keys
    BY <2>3, <2>4, FirstKeysAreKeys DEF Inv, KeyInv, KeyTypeOK
  <2> QED BY <2>2, <2>3, <2>4, <2>5 DEF Host!Enrolled
<1> QED BY <1>1, PairInvariant, PTL
=============================================================================
