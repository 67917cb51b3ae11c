--------------------------- MODULE GfdPoller_proofs ---------------------------
(***************************************************************************)
(* The poller for any fetches, any timeouts and any number of polls: how   *)
(* long a frame may wait for the lock, and what it is shown.               *)
(***************************************************************************)
EXTENDS GfdPoller, History_proofs

\* Which poll asked for which field: the one under way for those it has fetched,
\* the last one for all of them between polls.
AskedInv ==
    /\ poller # "starting" => polls > 0
    /\ poller = "starting" => \A f \in Fields : asked[f] = 0
    /\ poller = "polling" => \A i \in 1 .. next - 1 : asked[Fetches[i]] = polls
    /\ poller \in {"waiting", "returned"} => \A f \in Fields : asked[f] = polls

GearInv == asked[Gear] # 0 => state[Gear] \in {Unknown, asked[Gear]}

\* A poll begins when the ticker fires and ends before it fires again.  A render
\* loop that has waited has waited in this poll, or in the one that has just ended.
WaitInv ==
    /\ poller = "starting" => elapsed = 0 /\ ~tick
    /\ poller = "polling" => elapsed = spent /\ ~tick
    /\ poller = "waiting" /\ tick => elapsed = 0
    /\ waited > 0 => /\ waited <= spent /\ elapsed = spent /\ ~tick
                     /\ render = "snapshot" /\ poller # "starting"

Inv == TypeOK /\ AskedInv /\ GearInv /\ WaitInv

LEMMA FieldsFetched ==
    /\ Len(Fetches) \in Nat /\ Gear \in Fields
    /\ \A i \in 1 .. Len(Fetches) : Fetches[i] \in Fields
    /\ \A f \in Fields : \E i \in 1 .. Len(Fetches) : Fetches[i] = f
BY PollerAssumption, LenProperties DEF Fields

LEMMA InitInv == Init => Inv
<1> SUFFICES ASSUME Init PROVE Inv
  OBVIOUS
<1> USE PollerAssumption, FieldsFetched
<1>1. state \in [Fields -> {Unset}] /\ asked \in [Fields -> {0}]
  BY DEF Init
<1>2. state \in [Fields -> Values] /\ asked \in [Fields -> 0 .. MaxPolls]
  BY <1>1 DEF Values
<1>3. tick = FALSE /\ stopped = FALSE /\ tick \in BOOLEAN /\ stopped \in BOOLEAN
  BY DEF Init
<1>4. /\ poller = "starting" /\ next = 1 /\ took = 0 /\ spent = 0 /\ polls = 0
      /\ elapsed = 0 /\ render = "free" /\ waited = 0
  BY DEF Init
<1>5. TypeOK
  BY <1>2, <1>3, <1>4 DEF TypeOK
<1>6. AskedInv /\ GearInv
  BY <1>1, <1>4 DEF AskedInv, GearInv
<1>7. WaitInv
  BY <1>3, <1>4 DEF WaitInv
<1> QED BY <1>5, <1>6, <1>7 DEF Inv

USE DEF poll, ticker, renderer, Locked

\* What the end of a fetch does, whichever way it ends.
LEMMA FetchStep ==
    ASSUME Inv, FetchEnds
    PROVE /\ Fetches[next] \in Fields /\ next \in 1 .. Len(Fetches)
          /\ polls \in 1 .. MaxPolls
          /\ next' = next + 1 /\ next' \in 1 .. Len(Fetches) + 1
          /\ asked' \in [Fields -> 0 .. MaxPolls]
          /\ asked'[Fetches[next]] = polls
          /\ \A f \in Fields : asked[f] = polls => asked'[f] = polls
          /\ \A f \in Fields \ {Fetches[next]} : asked'[f] = asked[f]
<1>1. /\ poller = "polling" /\ next \in 1 .. Len(Fetches) /\ next' = next + 1
      /\ next' \in 1 .. Len(Fetches) + 1
      /\ polls \in 1 .. MaxPolls
      /\ asked \in [Fields -> 0 .. MaxPolls]
      /\ asked' = [asked EXCEPT ![Fetches[next]] = polls]
  BY PollerAssumption, FieldsFetched DEF FetchEnds, Inv, TypeOK, AskedInv
<1>2. Fetches[next] \in Fields
  BY <1>1, FieldsFetched
<1> QED BY <1>1, <1>2

LEMMA TypeStep == ASSUME Inv, Next PROVE TypeOK'
<1> USE PollerAssumption DEF Inv, TypeOK
<1>1. CASE FirstPoll \/ TakeTick
  <2>1. /\ poller' = "polling" /\ polls' \in 0 .. MaxPolls
        /\ next' = 1 /\ took' = 0 /\ spent' = 0
        /\ UNCHANGED <<state, asked, elapsed, stopped, renderer>>
    BY <1>1 DEF FirstPoll, TakeTick, PollStarts
  <2>2. tick' \in BOOLEAN
    BY <1>1 DEF FirstPoll, TakeTick
  <2>3. next' \in 1 .. Len(Fetches) + 1
    BY <2>1, FieldsFetched
  <2> QED BY <2>1, <2>2, <2>3
<1>2. CASE FetchOK \/ FetchFails
  <2>1. FetchEnds /\ Fetches[next] \in Fields /\ polls \in 1 .. MaxPolls
    BY <1>2, FetchStep DEF FetchOK, FetchFails
  <2>2. state \in [Fields -> Values] /\ polls \in Values /\ Unknown \in Values
    BY <2>1 DEF Values
  <2>3. state' \in [Fields -> Values]
    BY <1>2, <2>1, <2>2 DEF FetchOK, FetchFails
  <2>4. asked' \in [Fields -> 0 .. MaxPolls] /\ next' \in 1 .. Len(Fetches) + 1
    BY <2>1, FetchStep
  <2>5. took' \in 0 .. FetchTimeout
    BY <2>1 DEF FetchEnds
  <2> QED BY <2>1, <2>3, <2>4, <2>5 DEF FetchEnds
<1>3. CASE PollEnds \/ TakeStop \/ Stop \/ CallSnapshot \/ Snapshot
  <2>1. /\ UNCHANGED <<next, took, spent, state, asked, polls, elapsed, tick>>
        /\ poller' \in {"starting", "waiting", "polling", "returned"}
    BY <1>3 DEF PollEnds, TakeStop, Stop, CallSnapshot, Snapshot
  <2>2. stopped' \in BOOLEAN
    BY <1>3 DEF PollEnds, TakeStop, Stop, CallSnapshot, Snapshot
  <2>3. render' \in {"free", "snapshot"} /\ waited' \in Nat
    BY <1>3 DEF PollEnds, TakeStop, Stop, CallSnapshot, Snapshot
  <2> QED BY <2>1, <2>2, <2>3
<1>4. CASE Tick
  <2>1. UNCHANGED <<poller, next, state, asked, polls, stopped, render>>
    BY <1>4 DEF Tick
  <2>2. took' \in 0 .. FetchTimeout /\ spent' \in 0 .. PollBudget
    BY <1>4 DEF Tick, MayPass, FetchMayTakeLonger, ContextDone
  <2>3. elapsed' \in 0 .. Period - 1 /\ waited' \in Nat
    BY <1>4 DEF Tick
  <2>4. tick' \in BOOLEAN
    BY <1>4 DEF Tick
  <2> QED BY <2>1, <2>2, <2>3, <2>4
<1> QED BY <1>1, <1>2, <1>3, <1>4 DEF Next, Poller

LEMMA AskedStep == ASSUME Inv, Next PROVE AskedInv' /\ GearInv'
<1>1. CASE FirstPoll \/ TakeTick
  BY <1>1, PollerAssumption
     DEF FirstPoll, TakeTick, PollStarts, Inv, TypeOK, AskedInv, GearInv
<1>2. CASE FetchOK \/ FetchFails
  <2>1. FetchEnds /\ poller = "polling" /\ poller' = "polling" /\ polls' = polls
    BY <1>2 DEF FetchOK, FetchFails, FetchEnds
  <2>2. /\ polls \in 1 .. MaxPolls /\ next \in 1 .. Len(Fetches)
        /\ next' = next + 1
        /\ \A i \in 1 .. next - 1 : asked[Fetches[i]] = polls
    BY <2>1, FetchStep DEF Inv, AskedInv
  <2>3. \A i \in 1 .. next : asked'[Fetches[i]] = polls
    <3> SUFFICES ASSUME NEW i \in 1 .. next PROVE asked'[Fetches[i]] = polls
      OBVIOUS
    <3>1. CASE i = next
      BY <2>1, <3>1, FetchStep
    <3>2. CASE i # next
      <4>1. i \in 1 .. next - 1 /\ i \in 1 .. Len(Fetches)
        BY <2>2, <3>2, FieldsFetched
      <4>2. asked[Fetches[i]] = polls /\ Fetches[i] \in Fields
        BY <2>2, <4>1, FieldsFetched
      <4> QED BY <2>1, <4>2, FetchStep
    <3> QED BY <3>1, <3>2
  <2>4. AskedInv'
    <3>1. next' - 1 = next /\ polls > 0
      BY <2>2, FieldsFetched
    <3> QED BY <2>1, <2>3, <3>1 DEF AskedInv
  <2>5. CASE Fetches[next] = Gear
    <3>1. asked'[Gear] = polls
      BY <2>1, <2>5, FetchStep
    <3>2. state'[Gear] \in {polls, Unknown}
      BY <1>2, <2>5, FieldsFetched DEF FetchOK, FetchFails, Inv, TypeOK
    <3> QED BY <2>4, <3>1, <3>2 DEF GearInv
  <2>6. CASE Fetches[next] # Gear
    <3>1. asked'[Gear] = asked[Gear]
      BY <2>1, <2>6, FetchStep, FieldsFetched
    <3>2. state'[Gear] = state[Gear]
      BY <1>2, <2>6, FieldsFetched DEF FetchOK, FetchFails, Inv, TypeOK
    <3> QED BY <2>4, <3>1, <3>2 DEF Inv, GearInv
  <2> QED BY <2>5, <2>6
<1>3. CASE PollEnds
  <2>1. /\ next = Len(Fetches) + 1 /\ poller = "polling" /\ poller' = "waiting"
        /\ UNCHANGED <<state, asked, polls>>
    <3>1. next \in 1 .. Len(Fetches) + 1
      BY DEF Inv, TypeOK
    <3>2. next > Len(Fetches)
      BY <1>3 DEF PollEnds
    <3>3. next = Len(Fetches) + 1
      BY <3>1, <3>2, FieldsFetched
    <3> QED BY <1>3, <3>3 DEF PollEnds
  <2>2. \A i \in 1 .. Len(Fetches) : asked[Fetches[i]] = polls
    BY <2>1, FieldsFetched DEF Inv, AskedInv
  <2>3. \A f \in Fields : asked[f] = polls
    BY <2>2, FieldsFetched
  <2> QED BY <2>1, <2>3 DEF Inv, AskedInv, GearInv
<1>4. CASE TakeStop \/ Stop \/ CallSnapshot \/ Snapshot \/ Tick
  BY <1>4 DEF TakeStop, Stop, CallSnapshot, Snapshot, Tick, Inv, AskedInv, GearInv
<1> QED BY <1>1, <1>2, <1>3, <1>4 DEF Next, Poller

LEMMA WaitStep == ASSUME Inv, Next PROVE WaitInv'
<1>0. WaitInv /\ waited \in Nat /\ spent \in 0 .. PollBudget
  BY DEF Inv, TypeOK
<1>1. CASE FirstPoll \/ TakeTick
  BY ONLY <1>0, <1>1 DEF WaitInv, FirstPoll, TakeTick, PollStarts, ticker, renderer
<1>2. CASE FetchOK \/ FetchFails
  <2>1. FetchEnds
    BY ONLY <1>2 DEF FetchOK, FetchFails
  <2>2. UNCHANGED <<poller, spent, elapsed, tick, render, waited>>
    BY ONLY <2>1 DEF FetchEnds, ticker, renderer
  <2> QED BY ONLY <1>0, <2>2 DEF WaitInv
<1>3. CASE PollEnds \/ TakeStop \/ Stop
  <2>1. UNCHANGED <<spent, elapsed, tick, render, waited>>
    BY ONLY <1>3 DEF PollEnds, TakeStop, Stop, poll, ticker, renderer
  <2>2. \/ poller' = poller
        \/ poller = "polling" /\ poller' = "waiting"
        \/ poller' = "returned"
    BY ONLY <1>3 DEF PollEnds, TakeStop, Stop, Locked
  <2> QED BY ONLY <1>0, <2>1, <2>2 DEF WaitInv
<1>4. CASE CallSnapshot \/ Snapshot
  <2>1. UNCHANGED <<poller, spent, elapsed, tick>> /\ waited' = 0
    BY ONLY <1>4 DEF CallSnapshot, Snapshot, poll, ticker
  <2> QED BY ONLY <1>0, <2>1 DEF WaitInv
<1>5. CASE Tick /\ Locked
  <2>1. spent + 1 <= PollBudget /\ elapsed = spent
    BY <1>0, <1>5, PollerAssumption
       DEF WaitInv, Tick, MayPass, FetchMayTakeLonger, ContextDone, Locked
  <2>2. (elapsed + 1) % Period = elapsed + 1
    <3>1. Period \in Nat \ {0} /\ elapsed + 1 \in 0 .. Period - 1
      BY <1>0, <2>1, PollerAssumption
    <3> QED BY <3>1, SmallRemainder
  <2>3. /\ poller' = poller /\ render' = render /\ poller = "polling" /\ ~tick
        /\ spent' = spent + 1 /\ elapsed' = elapsed + 1
        /\ \/ waited' = waited
           \/ render = "snapshot" /\ waited' = waited + 1
    BY ONLY <1>0, <1>5, <2>2 DEF WaitInv, Tick, Locked
  <2>4. ~tick'
    <3>1. elapsed' # 0
      BY ONLY <1>0, <2>1, <2>3
    <3>2. tick' = (tick \/ elapsed' = 0)
      BY ONLY <1>5 DEF Tick
    <3> QED BY ONLY <2>3, <3>1, <3>2, Zenon
  <2> QED BY ONLY <1>0, <2>1, <2>3, <2>4 DEF WaitInv
<1>6. CASE Tick /\ ~Locked
  BY <1>0, <1>6, PollerAssumption DEF Inv, TypeOK, WaitInv, Tick, MayPass, Locked
<1> QED BY <1>1, <1>2, <1>3, <1>4, <1>5, <1>6 DEF Next, Poller

LEMMA InvStep == Inv /\ [Next]_vars => Inv'
<1> SUFFICES ASSUME Inv, [Next]_vars PROVE Inv'
  OBVIOUS
<1>1. CASE Next
  BY <1>1, TypeStep, AskedStep, WaitStep DEF Inv
<1>2. CASE UNCHANGED vars
  BY <1>2 DEF vars, Inv, TypeOK, AskedInv, GearInv, WaitInv
<1> QED BY <1>1, <1>2

\* FrameWaitsOnePoll: for any fetches and timeouts, a frame waits for the lock no
\* longer than one poll may take: never for two polls in a row.
THEOREM FrameWaitsOnePoll == Spec => []WaitIsBounded
<1>1. Inv => WaitIsBounded
  BY PollerAssumption DEF Inv, TypeOK, WaitInv, WaitIsBounded
<1> QED BY <1>1, InitInv, InvStep, PTL DEF Spec

\* FrameShowsOnePoll: for any fetches and however they fail, a frame shows what
\* one and the same poll has found.
THEOREM FrameShowsOnePoll == Spec => SnapshotIsOnePoll
<1>1. ASSUME Inv, [Next]_vars, render = "snapshot" /\ render' = "free"
      PROVE /\ \A f, g \in Fields : asked[f] = asked[g]
            /\ asked[Gear] # 0 => state[Gear] \in {Unknown, asked[Gear]}
  <2>1. Snapshot
    BY <1>1 DEF Next, Poller, FirstPoll, FetchOK, FetchFails, FetchEnds, PollEnds,
       TakeTick, TakeStop, Stop, CallSnapshot, Tick, vars
  <2>2. poller \in {"starting", "waiting", "returned"}
    BY <1>1, <2>1 DEF Snapshot, Inv, TypeOK
  <2> QED BY <1>1, <2>2 DEF Inv, AskedInv, GearInv
<1> QED BY <1>1, InitInv, InvStep, PTL DEF Spec, SnapshotIsOnePoll
=============================================================================
