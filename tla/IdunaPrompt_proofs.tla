-------------------------- MODULE IdunaPrompt_proofs --------------------------
(***************************************************************************)
(* The prompt's deadlines and announcements for all codes, intervals and   *)
(* timeouts, and the action log behind it for every capacity: it holds the *)
(* newest actions, and a subscriber loses none until it wraps.             *)
(***************************************************************************)
EXTENDS IdunaPrompt, History_proofs

(***************************************************************************)
(* The prompt.                                                             *)
(***************************************************************************)
LinkTypeOK ==
    /\ pc \in Calls \union {"honor", "loop", "sleep", "sshkey", "gpgkey", "ended"}
    /\ now \in Nat /\ began \in Nat /\ began <= now
    /\ deadline \in Nat /\ interval \in Nat
    /\ device \in {"none", "pending", "authorized", "exchanged"}
    /\ authorizedAt \in Nat /\ faults \in BOOLEAN
    /\ dispatched \in Seq(Actions)

\* How long the prompt has been where it is, and since when.
TimeInv ==
    /\ pc = "sleep" => began < deadline /\ now <= began + interval
    /\ pc = "poll" => began < deadline + interval
    /\ pc \in Calls => now <= began + CallTimeout

\* What IDUNA answered is so, and goes on to be once the code is exchanged.
DeviceInv ==
    /\ pc = "honor" => device = "none"
    /\ pc = "start" /\ answer = "none" => device = "none"
    /\ answer = "exchanged" => device = "exchanged"

\* What has been announced, wherever the prompt is.
Greeted == <<"HonorCodeShown">>
Begun == Append(Greeted, "DeviceLinkStarted")
Linked == Append(Begun, "DeviceLinked")
Shown == {Linked, Append(Linked, "KeyReady"), Append(Linked, "GpgKeyReady"),
          Append(Append(Linked, "KeyReady"), "GpgKeyReady")}

AnnouncedInv ==
    /\ pc = "honor" => dispatched = <<>>
    /\ pc = "start" => dispatched = Greeted
    /\ pc \in {"loop", "sleep", "poll", "exchange"} => dispatched = Begun
    /\ pc = "sshkey" => dispatched = Linked /\ device = "exchanged"
    /\ pc = "gpgkey" => /\ dispatched \in {Linked, Append(Linked, "KeyReady")}
                        /\ device = "exchanged"
    /\ pc = "ended" => \/ dispatched \in {Greeted, Begun}
                       \/ dispatched \in Shown /\ device = "exchanged"

\* Since when a device that no poll has found authorized can have been so.
UnseenInv ==
    /\ device = "authorized" /\ ~faults =>
          /\ pc = "start" => authorizedAt >= began
          /\ pc = "loop" => authorizedAt + CallTimeout >= now
          /\ pc = "poll" /\ answer = "pending" => authorizedAt >= began
          /\ message = "expired" => authorizedAt + CallTimeout >= deadline
    /\ message = "expired" => pc = "ended" /\ now >= deadline
    /\ answer \in {"none", "pending", "authorized", "exchanged"}

LinkInv == LinkTypeOK /\ TimeInv /\ DeviceInv /\ AnnouncedInv /\ UnseenInv

LEMMA LinkInit == Init => LinkInv
<1> SUFFICES ASSUME Init PROVE LinkInv
  OBVIOUS
<1>1. <<>> \in Seq(Actions)
  BY EmptySeq
<1>2. dispatched \in Seq(Actions)
  BY <1>1 DEF Init
<1>3. faults \in BOOLEAN
  BY DEF Init
<1>4. /\ now \in Nat /\ began \in Nat /\ began <= now
      /\ deadline \in Nat /\ interval \in Nat /\ authorizedAt \in Nat
  <2>1. /\ now = 0 /\ began = 0 /\ deadline = 0
        /\ interval = 0 /\ authorizedAt = 0
    BY DEF Init
  <2> QED BY <2>1
<1>5. device \in {"none", "pending", "authorized", "exchanged"}
  BY DEF Init
<1>6. pc \in Calls \union {"honor", "loop", "sleep", "sshkey", "gpgkey", "ended"}
  BY DEF Init
<1>7. LinkTypeOK
  BY <1>2, <1>3, <1>4, <1>5, <1>6 DEF LinkTypeOK
<1> QED BY <1>7, LinkAssumption DEF Init, LinkInv, TimeInv, DeviceInv, AnnouncedInv,
        UnseenInv, Calls

USE DEF clock, code, iduna, GoTo, Dispatch, End, Calls

LEMMA LinkTypeStep == ASSUME LinkInv, Next PROVE LinkTypeOK'
<1> USE DEF LinkInv, LinkTypeOK
<1>1. \/ UNCHANGED dispatched
      \/ \E a \in Actions : Dispatch(a)
  BY DEF Next, Prompt, ShowHonorCode, StartReturns, LoopTop, Wake, PollReturns,
     ExchangeReturns, ShowDeviceKey, ShowDeviceGpgKey, ShowKey, CallFails, Answer,
     Authorize, Tick, Actions
<1>2. dispatched' \in Seq(Actions)
  BY <1>1, AppendProperties
<1>3. now' \in Nat /\ began' \in Nat /\ began' <= now'
  BY DEF Next, Prompt, ShowHonorCode, StartReturns, LoopTop, Wake, PollReturns,
     ExchangeReturns, ShowDeviceKey, ShowDeviceGpgKey, ShowKey, CallFails, Answer,
     Authorize, Tick
<1>4. deadline' \in Nat /\ interval' \in Nat
  BY LinkAssumption DEF Next, Prompt, ShowHonorCode, StartReturns, LoopTop, Wake,
     PollReturns, ExchangeReturns, ShowDeviceKey, ShowDeviceGpgKey, ShowKey,
     CallFails, Answer, Authorize, Tick
<1>5. authorizedAt' \in Nat /\ faults' \in BOOLEAN
  BY DEF Next, Prompt, ShowHonorCode, StartReturns, LoopTop, Wake, PollReturns,
     ExchangeReturns, ShowDeviceKey, ShowDeviceGpgKey, ShowKey, CallFails, Answer,
     Authorize, Tick
<1>6. device' \in {"none", "pending", "authorized", "exchanged"}
  BY DEF Next, Prompt, ShowHonorCode, StartReturns, LoopTop, Wake, PollReturns,
     ExchangeReturns, ShowDeviceKey, ShowDeviceGpgKey, ShowKey, CallFails, Answer,
     Authorize, Tick
<1>7. pc' \in Calls \union {"honor", "loop", "sleep", "sshkey", "gpgkey", "ended"}
  BY DEF Next, Prompt, ShowHonorCode, StartReturns, LoopTop, Wake, PollReturns,
     ExchangeReturns, ShowDeviceKey, ShowDeviceGpgKey, ShowKey, CallFails, Answer,
     Authorize, Tick
<1> QED BY <1>2, <1>3, <1>4, <1>5, <1>6, <1>7

LEMMA TimeStep == ASSUME LinkInv, Next PROVE TimeInv'
<1> USE LinkAssumption DEF LinkInv, LinkTypeOK, TimeInv
<1>1. CASE Prompt
  BY <1>1 DEF Prompt, ShowHonorCode, StartReturns, LoopTop, MayPollAgain, Wake,
     PollReturns, ExchangeReturns, ShowDeviceKey, ShowDeviceGpgKey, ShowKey
<1>2. CASE CallFails \/ Answer \/ Authorize
  BY <1>2 DEF CallFails, Answer, Authorize
<1>3. CASE Tick
  BY <1>3 DEF Tick, Waiting
<1> QED BY <1>1, <1>2, <1>3 DEF Next

LEMMA DeviceStep == ASSUME LinkInv, Next PROVE DeviceInv'
<1> USE DEF LinkInv, DeviceInv
<1>1. CASE Prompt
  BY <1>1 DEF Prompt, ShowHonorCode, StartReturns, LoopTop, Wake, PollReturns,
     ExchangeReturns, ShowDeviceKey, ShowDeviceGpgKey, ShowKey
<1>2. CASE CallFails \/ Answer \/ Authorize \/ Tick
  BY <1>2 DEF CallFails, Answer, Authorize, Tick
<1> QED BY <1>1, <1>2 DEF Next

LEMMA AnnouncedStep == ASSUME LinkInv, Next PROVE AnnouncedInv'
<1> USE DEF LinkInv, DeviceInv, AnnouncedInv
<1>1. CASE Prompt
  <2>1. CASE ShowHonorCode
    BY <2>1 DEF ShowHonorCode, Greeted
  <2>2. CASE StartReturns
    BY <2>2 DEF StartReturns, Begun
  <2>3. CASE LoopTop \/ Wake \/ PollReturns
    BY <2>3 DEF LoopTop, Wake, PollReturns
  <2>4. CASE ExchangeReturns
    BY <2>4 DEF ExchangeReturns, Linked
  <2>5. CASE ShowDeviceKey
    BY <2>5 DEF ShowDeviceKey, ShowKey
  <2>6. CASE ShowDeviceGpgKey
    BY <2>6 DEF ShowDeviceGpgKey, ShowKey, Shown
  <2> QED BY <1>1, <2>1, <2>2, <2>3, <2>4, <2>5, <2>6 DEF Prompt
<1>2. CASE CallFails
  BY <1>2 DEF CallFails
<1>3. CASE Answer
  BY <1>3 DEF Answer
<1>4. CASE Authorize \/ Tick
  BY <1>4 DEF Authorize, Tick
<1> QED BY <1>1, <1>2, <1>3, <1>4 DEF Next

LEMMA UnseenStep == ASSUME LinkInv, Next PROVE UnseenInv'
<1> USE LinkAssumption DEF LinkInv, LinkTypeOK, TimeInv, DeviceInv, UnseenInv
<1>1. CASE ShowHonorCode \/ ShowDeviceKey \/ ShowDeviceGpgKey
  BY <1>1 DEF ShowHonorCode, ShowDeviceKey, ShowDeviceGpgKey, ShowKey
<1>2. CASE StartReturns
  BY <1>2 DEF StartReturns
<1>3. CASE LoopTop
  BY <1>3 DEF LoopTop, MayPollAgain
<1>4. CASE Wake
  BY <1>4 DEF Wake
<1>5. CASE PollReturns
  BY <1>5 DEF PollReturns
<1>6. CASE ExchangeReturns
  BY <1>6 DEF ExchangeReturns
<1>7. CASE CallFails
  BY <1>7 DEF CallFails
<1>8. CASE Answer
  BY <1>8 DEF Answer
<1>9. CASE Authorize
  BY <1>9 DEF Authorize
<1>10. CASE Tick
  BY <1>10 DEF Tick, Waiting
<1> QED BY <1>1, <1>2, <1>3, <1>4, <1>5, <1>6, <1>7, <1>8, <1>9, <1>10 DEF Next, Prompt

LEMMA LinkStep == ASSUME LinkInv, Next PROVE LinkInv'
BY LinkTypeStep, TimeStep, DeviceStep, AnnouncedStep, UnseenStep DEF LinkInv

LEMMA LinkUnchanged == ASSUME LinkInv, UNCHANGED vars PROVE LinkInv'
BY DEF vars, LinkInv, LinkTypeOK, TimeInv, DeviceInv, AnnouncedInv, UnseenInv
-----------------------------------------------------------------------------
\* OverrunIsBounded, for all codes, intervals and timeouts.
LEMMA OverrunOfLink == LinkInv => OverrunIsBounded
BY LinkAssumption DEF LinkInv, LinkTypeOK, TimeInv, OverrunIsBounded

\* A sequence of n actions, all of them in K, in which nothing comes twice; and
\* the same, one longer.
Once(s, n, K) ==
    /\ s \in Seq(Actions) /\ Len(s) = n
    /\ \A i \in DOMAIN s : s[i] \in K
    /\ \A i, j \in DOMAIN s : s[i] = s[j] => i = j

LEMMA OnceLonger ==
    ASSUME NEW K, NEW n \in Nat, NEW s, Once(s, n, K), NEW x \in Actions \ K
    PROVE Once(Append(s, x), n + 1, K \union {x})
<1>1. s \in Seq(Actions) /\ Len(s) = n /\ DOMAIN s = 1 .. n
  BY LenProperties DEF Once
<1> DEFINE t == Append(s, x)
<1>2. /\ t \in Seq(Actions) /\ Len(t) = n + 1
      /\ \A i \in 1 .. n : t[i] = s[i]
      /\ t[n + 1] = x
  BY <1>1, AppendProperties
<1> HIDE DEF t
<1>3. DOMAIN t = 1 .. n + 1
  BY <1>2, LenProperties
<1>4. /\ \A i \in DOMAIN s : i \in DOMAIN t /\ t[i] = s[i]
      /\ \A i \in DOMAIN t : i \in DOMAIN s \/ (i = n + 1 /\ t[i] = x)
  BY <1>1, <1>2, <1>3
<1>5. /\ \A i \in DOMAIN t : t[i] \in K \union {x}
      /\ \A i, j \in DOMAIN t : t[i] = t[j] => i = j
  BY <1>4 DEF Once
<1> QED BY <1>2, <1>5 DEF Once, t

\* What is announced, one thing after another.
LEMMA AnnouncedOnce ==
    /\ \E K : Once(Greeted, 1, K)
    /\ \E K : Once(Begun, 2, K)
    /\ \A s \in Shown : /\ \E n \in 3 .. 5 : \E K : Once(s, n, K)
                          /\ s[3] = "DeviceLinked"
<1> DEFINE A == {"HonorCodeShown"}
           B == A \union {"DeviceLinkStarted"}
           C == B \union {"DeviceLinked"}
           D == C \union {"KeyReady"}
           E == C \union {"GpgKeyReady"}
           F == D \union {"GpgKeyReady"}
           lk == Append(Linked, "KeyReady")
           lg == Append(Linked, "GpgKeyReady")
           lkg == Append(lk, "GpgKeyReady")
<1>1. /\ "DeviceLinkStarted" \in Actions \ A
      /\ "DeviceLinked" \in Actions \ B
      /\ "KeyReady" \in Actions \ C /\ "GpgKeyReady" \in Actions \ C
      /\ "GpgKeyReady" \in Actions \ D
  BY DEF Actions
<1>2. Once(Greeted, 1, A)
  BY DEF Greeted, Once, Actions
<1> HIDE DEF A, B, C, D, E, F
<1>3. Once(Begun, 1 + 1, B)
  BY <1>1, <1>2, OnceLonger DEF Begun, B
<1>4. Once(Linked, 2 + 1, C)
  BY <1>1, <1>3, OnceLonger DEF Linked, C
<1>5. Once(lk, 3 + 1, D)
  BY <1>1, <1>4, OnceLonger DEF D
<1>6. Once(lg, 3 + 1, E)
  <2>1. Once(Linked, 3, C) /\ "GpgKeyReady" \in Actions \ C
    BY <1>1, <1>4
  <2> QED BY ONLY <2>1, OnceLonger DEF E, lg
<1> HIDE DEF lk, lg
<1>7. Once(lkg, 4 + 1, F)
  BY <1>1, <1>5, OnceLonger DEF F
<1>8. Linked[3] = "DeviceLinked" /\ lk[3] = Linked[3] /\ lg[3] = Linked[3]
  <2>1. Begun \in Seq(Actions) /\ Len(Begun) = 2
    BY <1>3 DEF Once
  <2>2. Linked \in Seq(Actions) /\ Len(Linked) = 3
    BY <1>4 DEF Once
  <2> HIDE DEF Begun, Linked
  <2> QED BY <1>1, <2>1, <2>2, AppendProperties DEF Linked, lk, lg
<1>9. lkg[3] = lk[3]
  <2>1. lk \in Seq(Actions) /\ Len(lk) = 4
    BY <1>5 DEF Once
  <2> QED BY <1>1, <2>1, AppendProperties
<1>10. Shown = {Linked, lk, lg, lkg}
  BY DEF Shown, lk, lg
<1> HIDE DEF lkg
<1>11. \A s \in Shown : \E n \in 3 .. 5 : \E K : Once(s, n, K)
  BY <1>4, <1>5, <1>6, <1>7, <1>10
<1>12. \A s \in Shown : s[3] = "DeviceLinked"
  BY <1>8, <1>9, <1>10
<1> QED BY <1>2, <1>3, <1>11, <1>12

LEMMA KeysOfLink == LinkInv => KeysFollowTheLink
<1> SUFFICES ASSUME LinkInv PROVE KeysFollowTheLink
  OBVIOUS
<1>1. CASE dispatched = <<>>
  BY <1>1 DEF KeysFollowTheLink
<1>2. CASE dispatched \in {Greeted, Begun}
  BY <1>2, AnnouncedOnce DEF KeysFollowTheLink, Once
<1>3. CASE dispatched \in Shown /\ device = "exchanged"
  BY <1>3, AnnouncedOnce DEF KeysFollowTheLink, Once
<1>4. \/ dispatched = <<>>
      \/ dispatched \in {Greeted, Begun}
      \/ dispatched \in Shown /\ device = "exchanged"
  BY DEF LinkInv, LinkTypeOK, AnnouncedInv, Shown
<1> QED BY <1>1, <1>2, <1>3, <1>4

LEMMA InTimeOfLink == LinkInv => AuthorizedInTime
BY DEF LinkInv, LinkTypeOK, UnseenInv, AuthorizedInTime

\* The prompt alone, whatever the log does.
LEMMA LinkOfPrompt ==
    /\ PromptInit => LinkInv
    /\ LinkInv /\ [PromptNext]_promptVars => LinkInv'
<1>1. PromptInit => LinkInv
  BY LinkInit DEF PromptInit
<1>2. ASSUME LinkInv, [PromptNext]_promptVars PROVE LinkInv'
  <2>1. Next \/ UNCHANGED vars
    BY <1>2 DEF PromptNext, PromptStep, Subscriber, promptVars
  <2> QED BY <1>2, <2>1, LinkStep, LinkUnchanged
<1> QED BY <1>1, <1>2

\* DeadlineOverrun: for all codes, intervals and timeouts, the prompt polls an
\* expired code for no longer than one sleep and one call.
THEOREM DeadlineOverrun == PromptSpec => []OverrunIsBounded
<1>1. PromptSpec => []LinkInv
  BY LinkOfPrompt, PTL DEF PromptSpec
<1> QED BY <1>1, OverrunOfLink, PTL

\* LinkBeforeKeys: for all codes, intervals and timeouts, and however calls fail,
\* no link is announced that IDUNA has not made, no key before it, nothing twice.
THEOREM LinkBeforeKeys == PromptSpec => []KeysFollowTheLink
<1>1. PromptSpec => []LinkInv
  BY LinkOfPrompt, PTL DEF PromptSpec
<1> QED BY <1>1, KeysOfLink, PTL

\* InTimeIsSeen: for all codes, intervals and timeouts, who authorizes the device
\* a call's time before the code expires is not told that it has.
THEOREM InTimeIsSeen == PromptSpec => []AuthorizedInTime
<1>1. PromptSpec => []LinkInv
  BY LinkOfPrompt, PTL DEF PromptSpec
<1> QED BY <1>1, InTimeOfLink, PTL
-----------------------------------------------------------------------------
(***************************************************************************)
(* The log.  Slot i % LogCapacity holds the action dispatched as number    *)
(* i + 1, as long as no newer one has taken it.                            *)
(***************************************************************************)
LogTypeOK ==
    /\ dispatched \in Seq(Actions)
    /\ actions \in [Log!Slots -> Actions \union {Nil}]
    /\ totalDispatched = Len(dispatched)

SlotsInv ==
    \A i \in 1 .. Len(dispatched) :
        Len(dispatched) - i < LogCapacity
            => actions[(i - 1) % LogCapacity] = dispatched[i]

\* What the subscriber has taken before the log wraps.
SubscriberInv ==
    /\ cursor \in Nat /\ seen \in Seq(Actions \union {Nil}) /\ Len(seen) = cursor
    /\ totalDispatched <= LogCapacity =>
          /\ cursor <= totalDispatched
          /\ polling => cursor < totalDispatched
          /\ \A i \in 1 .. cursor : seen[i] = dispatched[i]

LogInv == LogTypeOK /\ SlotsInv /\ SubscriberInv

LEMMA LogInit == PromptInit => LogInv
<1> SUFFICES ASSUME PromptInit PROVE LogInv
  OBVIOUS
<1>1. /\ <<>> \in Seq(Actions) /\ <<>> \in Seq(Actions \union {Nil})
      /\ Len(<<>>) = 0
  BY EmptySeq
<1>2. /\ dispatched = <<>> /\ seen = <<>> /\ totalDispatched = 0 /\ cursor = 0
      /\ actions = [s \in Log!Slots |-> Nil]
      /\ polling = FALSE
  BY DEF PromptInit, Log!Init
<1>3. actions \in [Log!Slots -> Actions \union {Nil}]
  BY <1>2
<1>4. LogTypeOK
  BY <1>1, <1>2, <1>3 DEF LogTypeOK
<1>5. SlotsInv
  BY <1>1, <1>2 DEF SlotsInv
<1>6. SubscriberInv
  BY <1>1, <1>2 DEF SubscriberInv
<1> QED BY <1>4, <1>5, <1>6 DEF LogInv

\* Only the slots of the newest actions count, so that the one a dispatch takes
\* is free.
LEMMA DispatchStep ==
    ASSUME LogInv, NEW x \in Actions, Log!Dispatch(x)
    PROVE LogInv'
<1> DEFINE n == Len(dispatched)
           c == LogCapacity
<1> USE LogCapacityAssumption
<1>1. /\ n \in Nat /\ totalDispatched = n /\ dispatched \in Seq(Actions)
      /\ actions \in [Log!Slots -> Actions \union {Nil}]
      /\ c \in Nat /\ c > 0
  BY LenProperties DEF LogInv, LogTypeOK
<1>2. /\ dispatched' \in Seq(Actions) /\ Len(dispatched') = n + 1
      /\ \A i \in 1 .. n : dispatched'[i] = dispatched[i]
      /\ dispatched'[n + 1] = x
  BY <1>1, AppendProperties DEF Log!Dispatch
<1>3. /\ actions' = [actions EXCEPT ![n % c] = x]
      /\ totalDispatched' = n + 1
      /\ UNCHANGED <<cursor, polling, seen>>
  BY <1>1 DEF Log!Dispatch, Log!subscriber
<1>4. n % c \in Log!Slots
  BY <1>1, LogCapacityAssumption DEF Log!Slots
<1>5. LogTypeOK'
  BY <1>1, <1>2, <1>3, <1>4 DEF LogTypeOK, Log!Slots
<1>6. SlotsInv'
  <2> SUFFICES ASSUME NEW i \in 1 .. n + 1, n + 1 - i < c
               PROVE actions'[(i - 1) % c] = dispatched'[i]
    BY <1>2 DEF SlotsInv
  <2>1. CASE i = n + 1
    <3>1. (i - 1) % c = n % c
      BY <1>1, <2>1
    <3> QED BY <1>1, <1>2, <1>3, <1>4, <2>1, <3>1
  <2>2. CASE i <= n
    <3>1. /\ i - 1 \in Nat /\ n - (i - 1) \in 0 .. c
          /\ n - (i - 1) > 0 /\ n - (i - 1) < c /\ i \in 1 .. n /\ n - i < c
      BY <1>1, <2>2
    <3> DEFINE j == i - 1
               d == n - (i - 1)
    <3>2. j + d = n
      BY <1>1
    <3>3. j \in Nat /\ d \in 0 .. c /\ d > 0 /\ d < c
      BY <3>1
    <3> HIDE DEF j, d
    <3>4. j % c \in 0 .. c - 1
      BY <1>1, <3>3
    <3>5. n % c = IF (j % c) + d < c THEN (j % c) + d ELSE (j % c) + d - c
      BY <3>2, <3>3, StepRound
    <3>6. n % c # j % c
      BY <1>1, <3>3, <3>4, <3>5
    <3>7. j % c \in Log!Slots
      BY <3>4 DEF Log!Slots
    <3>8. actions'[j % c] = actions[j % c]
      BY <1>1, <1>3, <3>6, <3>7
    <3>9. actions[j % c] = dispatched[i]
      BY <3>1 DEF j, LogInv, SlotsInv
    <3> QED BY <1>2, <3>1, <3>8, <3>9 DEF j
  <2> QED BY <1>1, <2>1, <2>2
<1>7. SubscriberInv'
  BY <1>1, <1>2, <1>3 DEF LogInv, SubscriberInv
<1> QED BY <1>5, <1>6, <1>7 DEF LogInv

\* What is read at an index of the log.
LEMMA ReadAt ==
    ASSUME LogInv, NEW k \in Nat, k < Log!Length
    PROVE /\ Len(dispatched) - Log!Length + k + 1 \in 1 .. Len(dispatched)
          /\ Log!At(k) = dispatched[Len(dispatched) - Log!Length + k + 1]
          /\ Log!At(k) \in Actions
<1> DEFINE n == Len(dispatched)
           c == LogCapacity
<1> USE LogCapacityAssumption
<1>1. /\ n \in Nat /\ totalDispatched = n /\ dispatched \in Seq(Actions)
      /\ c \in Nat /\ c > 0
  BY LenProperties DEF LogInv, LogTypeOK
<1>2. /\ \A i \in 1 .. n : n - i < c => actions[(i - 1) % c] = dispatched[i]
      /\ \A i \in 1 .. n : dispatched[i] \in Actions
  BY <1>1, ElementOfSeq DEF LogInv, SlotsInv
<1>3. CASE n <= c
  <2>1. Log!Length = n /\ k \in 0 .. c - 1 /\ k + 1 \in 1 .. n /\ k < n
    BY <1>1, <1>3 DEF Log!Length
  <2>2. Log!At(k) = actions[k]
    BY <1>1, <1>3, <2>1 DEF Log!At
  <2>3. k % c = k
    BY <2>1, SmallRemainder
  <2>4. actions[((k + 1) - 1) % c] = dispatched[k + 1]
    BY <1>1, <1>2, <1>3, <2>1
  <2>5. (k + 1) - 1 = k /\ n - Log!Length + k + 1 = k + 1
    BY <1>1, <2>1
  <2> QED BY <1>2, <2>1, <2>2, <2>3, <2>4, <2>5
<1>4. CASE n > c
  <2>1. Log!Length = c /\ k \in 0 .. c /\ k < c
    BY <1>1, <1>4 DEF Log!Length
  <2>2. Log!At(k) = actions[((n % c) + k) % c]
    BY <1>1, <1>4, <2>1 DEF Log!At
  <2> DEFINE a == n - c
             m == n - c + k + 1
  <2>3. a \in Nat /\ a + c = n /\ m \in 1 .. n /\ n - m < c /\ m - 1 = a + k
    BY <1>1, <1>4, <2>1
  <2> HIDE DEF a, m
  <2>4. (((a + c) % c) + k) % c = (a + k) % c
    BY <2>1, <2>3, RoundLater
  <2>5. actions[(m - 1) % c] = dispatched[m] /\ dispatched[m] \in Actions
    BY <1>2, <2>3
  <2>6. Log!At(k) = dispatched[m]
    BY <2>2, <2>3, <2>4, <2>5
  <2> QED BY <2>1, <2>3, <2>5, <2>6 DEF m
<1> QED BY <1>1, <1>3, <1>4

\* The log is the newest part of what has been dispatched.
NewestKept == Log!Contents = Keep(LogCapacity, dispatched)

LEMMA ContentsKept == LogInv => NewestKept
<1> SUFFICES ASSUME LogInv PROVE Log!Contents = Keep(LogCapacity, dispatched)
  BY DEF NewestKept
<1> DEFINE n == Len(dispatched)
           c == LogCapacity
           K == Keep(c, dispatched)
<1>1. n \in Nat /\ totalDispatched = n /\ c \in Nat /\ dispatched \in Seq(Actions)
  BY LogCapacityAssumption, LenProperties DEF LogInv, LogTypeOK
<1> HIDE DEF K
<1>2. /\ K \in Seq(Actions)
      /\ Len(K) = IF n > c THEN c ELSE n
      /\ \A i \in 1 .. Len(K) : K[i] = dispatched[n - Len(K) + i]
  BY <1>1, KeepType DEF K
<1>3. Log!Length \in Nat /\ Len(K) = Log!Length
  BY <1>1, <1>2 DEF Log!Length
<1>4. \A i \in 1 .. Log!Length : Log!At(i - 1) = K[i] /\ Log!At(i - 1) \in Actions
  <2> SUFFICES ASSUME NEW i \in 1 .. Log!Length
               PROVE Log!At(i - 1) = K[i] /\ Log!At(i - 1) \in Actions
    OBVIOUS
  <2>1. i - 1 \in Nat /\ i - 1 < Log!Length
    BY <1>3
  <2>2. /\ Log!At(i - 1) = dispatched[n - Log!Length + (i - 1) + 1]
        /\ Log!At(i - 1) \in Actions
    BY <2>1, ReadAt
  <2>3. n - Log!Length + (i - 1) + 1 = n - Len(K) + i
    BY <1>1, <1>3
  <2> QED BY <1>2, <1>3, <2>2, <2>3
<1>5. /\ Log!Contents \in Seq(Actions) /\ Len(Log!Contents) = Log!Length
      /\ \A i \in 1 .. Log!Length : Log!Contents[i] = Log!At(i - 1)
  BY <1>3, <1>4 DEF Log!Contents
<1> HIDE DEF Log!Contents
<1>6. Log!Contents = K
  BY <1>2, <1>3, <1>4, <1>5, SeqEqual
<1> QED BY <1>6 DEF K

\* What a subscriber does changes nothing but its own, and it takes the action at
\* its cursor, which is still there if it was when it asked.
LEMMA SubscriberStep == ASSUME LogInv, Subscriber PROVE LogInv'
<1> USE LogCapacityAssumption
<1>1. UNCHANGED <<actions, totalDispatched, dispatched>>
  BY DEF Subscriber, vars, Log!PollSize, Log!PollAction, Log!log
<1>2. LogTypeOK' /\ SlotsInv'
  BY <1>1 DEF LogInv, LogTypeOK, SlotsInv
<1>3. CASE Log!PollSize
  <2>1. /\ cursor < Log!Length /\ UNCHANGED <<cursor, seen>>
    BY <1>3 DEF Log!PollSize
  <2>2. totalDispatched \in Nat
    BY LenProperties DEF LogInv, LogTypeOK
  <2>3. totalDispatched <= LogCapacity => cursor < totalDispatched
    BY <2>1, <2>2 DEF Log!Length
  <2>4. SubscriberInv'
    BY <1>1, <2>1, <2>3 DEF LogInv, SubscriberInv
  <2> QED BY <1>2, <2>4 DEF LogInv
<1>4. CASE Log!PollAction
  <2>1. /\ polling /\ seen' = Append(seen, Log!At(cursor)) /\ cursor' = cursor + 1
        /\ polling' = FALSE
    BY <1>4 DEF Log!PollAction
  <2>2. /\ cursor \in Nat /\ seen \in Seq(Actions \union {Nil})
        /\ Len(seen) = cursor
    BY DEF LogInv, SubscriberInv
  <2>3. Log!At(cursor) \in Actions \union {Nil}
    <3>1. CASE cursor < Log!Length
      BY <2>2, <3>1, ReadAt
    <3>2. CASE ~(cursor < Log!Length)
      <4>1. Log!Length \in Nat
        BY LenProperties DEF LogInv, LogTypeOK, Log!Length
      <4> QED BY <2>2, <3>2, <4>1 DEF Log!At
    <3> QED BY <3>1, <3>2
  <2>4. /\ seen' \in Seq(Actions \union {Nil}) /\ Len(seen') = cursor + 1
        /\ \A i \in 1 .. cursor : seen'[i] = seen[i]
        /\ seen'[cursor + 1] = Log!At(cursor)
    BY <2>1, <2>2, <2>3, AppendProperties
  <2>5. ASSUME totalDispatched <= LogCapacity
        PROVE /\ cursor < totalDispatched
              /\ Log!At(cursor) = dispatched[cursor + 1]
    <3>1. /\ cursor < totalDispatched /\ totalDispatched = Len(dispatched)
          /\ Len(dispatched) \in Nat
      BY <2>1, <2>5, LenProperties DEF LogInv, LogTypeOK, SubscriberInv
    <3>2. Log!Length = Len(dispatched)
      BY <2>5, <3>1 DEF Log!Length
    <3>3. Log!At(cursor) = dispatched[Len(dispatched) - Log!Length + cursor + 1]
      BY <2>2, <3>1, <3>2, ReadAt
    <3>4. Len(dispatched) - Log!Length + cursor + 1 = cursor + 1
      BY <2>2, <3>1, <3>2
    <3> QED BY <3>1, <3>3, <3>4
  <2>6. SubscriberInv'
    <3>1. ASSUME totalDispatched <= LogCapacity
          PROVE \A i \in 1 .. cursor + 1 : seen'[i] = dispatched[i]
      <4>1. \A i \in 1 .. cursor : seen[i] = dispatched[i]
        BY <3>1 DEF LogInv, SubscriberInv
      <4> QED BY <2>2, <2>4, <2>5, <3>1, <4>1
    <3>2. totalDispatched \in Nat
      BY LenProperties DEF LogInv, LogTypeOK
    <3> QED BY <1>1, <2>1, <2>2, <2>4, <2>5, <3>1, <3>2 DEF SubscriberInv
  <2> QED BY <1>2, <2>6 DEF LogInv
<1> QED BY <1>2, <1>3, <1>4 DEF Subscriber, LogInv

LEMMA LogUnchanged == ASSUME LogInv,
                             UNCHANGED <<dispatched, actions, totalDispatched,
                                         cursor, polling, seen>>
                      PROVE LogInv'
BY DEF LogInv, LogTypeOK, SlotsInv, SubscriberInv

LEMMA LogStep ==
    ASSUME LogInv, [PromptNext]_promptVars
    PROVE /\ LogInv'
          /\ \/ UNCHANGED dispatched
             \/ \E x \in Actions : dispatched' = Append(dispatched, x)
<1>1. CASE PromptStep
  <2>1. CASE dispatched' # dispatched
    <3>1. PICK x \in Actions : Log!Dispatch(x)
      BY <1>1, <2>1 DEF PromptStep
    <3> QED BY <3>1, DispatchStep DEF Log!Dispatch
  <2>2. CASE dispatched' = dispatched
    BY <1>1, <2>2, LogUnchanged DEF PromptStep, reflux, subscriber
  <2> QED BY <2>1, <2>2
<1>2. CASE Subscriber
  BY <1>2, SubscriberStep DEF Subscriber, vars
<1>3. CASE UNCHANGED promptVars
  BY <1>3, LogUnchanged DEF promptVars, vars, reflux, subscriber
<1> QED BY <1>1, <1>2, <1>3 DEF PromptNext

\* LogHoldsTheNewest: for every capacity, what LogSize and ActionAt give is the
\* newest actions the prompt has dispatched, in order, whoever polls.
THEOREM LogHoldsTheNewest == PromptSpec => RefluxIsBoundedLog
<1>1. PromptInit => LogInv /\ Log!Abstract!Init
  <2> SUFFICES ASSUME PromptInit PROVE LogInv /\ Log!Abstract!Init
    OBVIOUS
  <2>1. LogInv /\ dispatched = <<>>
    BY LogInit DEF PromptInit, Init
  <2>2. Keep(LogCapacity, <<>>) = <<>>
    BY LogCapacityAssumption, EmptySeq DEF Keep
  <2>3. Log!Contents = <<>>
    BY <2>1, <2>2, ContentsKept DEF NewestKept
  <2> QED BY <2>1, <2>3 DEF Log!Abstract!Init
<1>2. ASSUME LogInv, [PromptNext]_promptVars
      PROVE LogInv' /\ [Log!Abstract!Next]_(Log!Contents)
  <2>1. LogInv'
    BY <1>2, LogStep
  <2>2. /\ Log!Contents = Keep(LogCapacity, dispatched)
        /\ Log!Contents' = Keep(LogCapacity, dispatched')
    <3>1. NewestKept
      BY <1>2, ContentsKept
    <3>2. NewestKept'
      BY <2>1, ContentsKept, PTL
    <3> QED BY <3>1, <3>2 DEF NewestKept
  <2> HIDE DEF Log!Contents
  <2>3. CASE UNCHANGED dispatched
    BY <2>1, <2>2, <2>3
  <2>4. ASSUME NEW x \in Actions, dispatched' = Append(dispatched, x)
        PROVE Log!Abstract!Next
    <3>1. Keep(LogCapacity, Append(Keep(LogCapacity, dispatched), x))
             = Keep(LogCapacity, Append(dispatched, x))
      BY <1>2, LogCapacityAssumption, KeepKeep DEF LogInv, LogTypeOK
    <3>2. Log!Contents' = Keep(LogCapacity, Append(Log!Contents, x))
      BY <2>2, <2>4, <3>1
    <3> QED BY <3>2 DEF Log!Abstract!Next, Log!Abstract!Put, Log!Abstract!Keep, Keep
  <2> QED BY <1>2, <2>1, <2>3, <2>4, LogStep
<1> QED BY <1>1, <1>2, PTL
        DEF PromptSpec, RefluxIsBoundedLog, Log!IsBoundedLog, Log!Abstract!Spec

\* NothingMissed: for every capacity, until the log wraps a subscriber has seen
\* exactly what was dispatched, in order, up to its cursor.
THEOREM NothingMissed == PromptSpec => []PollsInOrder
<1>1. LogInv => PollsInOrder
  <2> SUFFICES ASSUME LogInv, totalDispatched <= LogCapacity
               PROVE /\ cursor <= Len(dispatched)
                     /\ seen = SubSeq(dispatched, 1, cursor)
    BY DEF PollsInOrder, Log!PollsInOrder
  <2>1. /\ cursor \in Nat /\ cursor <= Len(dispatched) /\ Len(dispatched) \in Nat
        /\ dispatched \in Seq(Actions)
        /\ seen \in Seq(Actions \union {Nil}) /\ Len(seen) = cursor
        /\ \A i \in 1 .. cursor : seen[i] = dispatched[i]
    BY LenProperties DEF LogInv, LogTypeOK, SubscriberInv
  <2>2. /\ SubSeq(dispatched, 1, cursor) \in Seq(Actions)
        /\ Len(SubSeq(dispatched, 1, cursor)) = cursor
        /\ \A i \in 1 .. cursor : SubSeq(dispatched, 1, cursor)[i] = dispatched[i]
    BY <2>1, SubSeqProperties
  <2> QED BY <2>1, <2>2, SeqEqual
<1>2. LogInv /\ [PromptNext]_promptVars => LogInv'
  BY LogStep
<1> QED BY <1>1, <1>2, LogInit, PTL DEF PromptSpec
=============================================================================
