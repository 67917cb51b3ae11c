---------------------------- MODULE Window_proofs ----------------------------
(***************************************************************************)
(* What stands under the screen and in front of it: the ring its scrollback*)
(* is kept in, the paper it is to a program that prints, and the mouse.    *)
(***************************************************************************)
EXTENDS Printing, Selection, Screen_proofs, FiniteSetTheorems

(***************************************************************************)
(* The ring implements a bounded log, for every capacity.  The mapping     *)
(* reads the slots as line() does; each push is shown to be one Put of the *)
(* log, by the arithmetic of StepRound.                                    *)
(***************************************************************************)
\* The slot line(i) reads, whatever the head is, and what there is in it.
Pos(h, i) == (h + i) % Capacity

LEMMA PosProperties ==
    \A h \in Slots : \A i \in 0 .. Capacity :
        /\ Pos(h, i) \in Slots
        /\ Pos(h, i) = IF h + i < Capacity THEN h + i ELSE h + i - Capacity
<1> SUFFICES ASSUME NEW h \in Slots, NEW i \in 0 .. Capacity
             PROVE /\ Pos(h, i) \in Slots
                   /\ Pos(h, i) = IF h + i < Capacity THEN h + i
                                  ELSE h + i - Capacity
  OBVIOUS
<1>1. h % Capacity = h
  BY CapacityAssumption, SmallRemainder DEF Slots
<1>2. h \in Nat
  BY CapacityAssumption DEF Slots
<1> QED BY <1>1, <1>2, CapacityAssumption, StepRound DEF Pos, Slots

\* A slot in use holds an item.
Written == \A i \in 0 .. count - 1 : lines[Pos(head, i)] \in Items

RingInv == RingTypeOK /\ Written

ContentsRead ==
    /\ Contents \in Seq(Items) /\ Len(Contents) = count
    /\ \A i \in 1 .. count : Contents[i] = lines[Pos(head, i - 1)]

LEMMA ContentsType == RingInv => ContentsRead
<1> SUFFICES ASSUME RingInv PROVE ContentsRead
  OBVIOUS
<1>1. count \in Nat
  BY CapacityAssumption DEF RingInv, RingTypeOK
<1>2. \A i \in 1 .. count :
         /\ Line(i - 1) = lines[Pos(head, i - 1)]
         /\ Line(i - 1) \in Items
  BY <1>1 DEF Line, RingInv, Written, Pos
<1> QED BY <1>1, <1>2 DEF Contents, ContentsRead

LEMMA RingInitInv == RingInit => RingInv /\ Contents = <<>>
<1> SUFFICES ASSUME RingInit PROVE RingInv /\ Contents = <<>>
  OBVIOUS
<1>1. RingInv
  BY CapacityAssumption DEF RingInit, RingInv, RingTypeOK, Written, Slots
<1>2. Len(Contents) = 0 /\ Contents \in Seq(Items)
  BY <1>1, ContentsType DEF RingInit, ContentsRead
<1> QED BY <1>1, <1>2, EmptySeq

\* Pushing into a free slot: no slot in use is touched.
LEMMA PushFreeStep ==
    ASSUME RingInv, NEW x \in Items, PushFree(x)
    PROVE RingInv' /\ Contents' = Keep(Capacity, Append(Contents, x))
<1> USE CapacityAssumption
<1>1. /\ head \in Slots /\ head' = head
      /\ count \in Nat /\ count < Capacity /\ count' = count + 1
      /\ lines \in [Slots -> Items \union {Nil}]
      /\ lines' = [lines EXCEPT ![Pos(head, count)] = x]
  BY DEF RingInv, RingTypeOK, PushFree, Pos
<1>2. /\ Pos(head, count) \in Slots
      /\ \A i \in 0 .. count - 1 :
            Pos(head, i) \in Slots /\ Pos(head, i) # Pos(head, count)
  <2>1. count \in 0 .. Capacity /\ \A i \in 0 .. count - 1 : i \in 0 .. Capacity
    BY <1>1
  <2>2. /\ Pos(head, count) \in Slots
        /\ \A i \in 0 .. count - 1 : Pos(head, i) \in Slots
    BY <1>1, <2>1, PosProperties
  <2>3. ASSUME NEW i \in 0 .. count - 1 PROVE Pos(head, i) # Pos(head, count)
    <3>1. /\ Pos(head, i) = IF head + i < Capacity THEN head + i
                            ELSE head + i - Capacity
          /\ Pos(head, count) = IF head + count < Capacity THEN head + count
                                ELSE head + count - Capacity
      BY <1>1, <2>1, PosProperties
    <3>2. head \in 0 .. Capacity - 1
      BY <1>1 DEF Slots
    <3> QED BY <1>1, <3>1, <3>2
  <2> QED BY <2>2, <2>3
<1>3. /\ \A i \in 0 .. count - 1 : lines'[Pos(head, i)] = lines[Pos(head, i)]
      /\ lines'[Pos(head, count)] = x
  BY <1>1, <1>2
<1>4. RingTypeOK'
  BY <1>1, <1>2 DEF RingTypeOK
<1>5. Written'
  <2>1. ASSUME NEW i \in 0 .. count PROVE lines'[Pos(head, i)] \in Items
    BY <1>1, <1>3 DEF RingInv, Written
  <2> QED BY <1>1, <2>1 DEF Written
<1>6. /\ Contents \in Seq(Items) /\ Len(Contents) = count
      /\ \A i \in 1 .. count : Contents[i] = lines[Pos(head, i - 1)]
  BY ContentsType DEF ContentsRead
<1>7. /\ Contents' \in Seq(Items) /\ Len(Contents') = count + 1
      /\ \A i \in 1 .. count + 1 : Contents'[i] = lines'[Pos(head, i - 1)]
  <2>1. RingInv'
    BY <1>4, <1>5 DEF RingInv
  <2>2. ContentsRead'
    BY <2>1, ContentsType, PTL
  <2> QED BY <1>1, <2>2 DEF ContentsRead
<1>8. Keep(Capacity, Append(Contents, x)) = Append(Contents, x)
  <2>1. Len(Contents) < Capacity
    BY <1>1, <1>6
  <2> QED BY <1>6, <2>1, KeepAppend
<1>9. /\ Append(Contents, x) \in Seq(Items)
      /\ Len(Append(Contents, x)) = count + 1
      /\ \A i \in 1 .. count : Append(Contents, x)[i] = Contents[i]
      /\ Append(Contents, x)[count + 1] = x
  BY <1>6, AppendProperties
<1>10. ASSUME NEW i \in 1 .. count + 1
       PROVE Contents'[i] = Append(Contents, x)[i]
  <2>1. CASE i = count + 1
    <3>1. i - 1 = count
      BY <1>1, <2>1
    <3> QED BY <1>3, <1>7, <1>9, <2>1, <3>1
  <2>2. CASE i # count + 1
    <3>1. i \in 1 .. count /\ i - 1 \in 0 .. count - 1
      BY <1>1, <2>2
    <3> QED BY <1>3, <1>6, <1>7, <1>9, <3>1
  <2> QED BY <2>1, <2>2
<1>11. Contents' = Append(Contents, x)
  BY <1>7, <1>9, <1>10, SeqEqual
<1> QED BY <1>4, <1>5, <1>8, <1>11 DEF RingInv

\* Pushing into a full ring: the oldest line makes room for the newest.
LEMMA PushFullStep ==
    ASSUME RingInv, NEW x \in Items, PushFull(x)
    PROVE RingInv' /\ Contents' = Keep(Capacity, Append(Contents, x))
<1> USE CapacityAssumption
<1>1. /\ head \in Slots /\ head' = Pos(head, 1)
      /\ count = Capacity /\ count' = Capacity
      /\ lines \in [Slots -> Items \union {Nil}]
      /\ lines' = [lines EXCEPT ![head] = x]
  BY DEF RingInv, RingTypeOK, PushFull, Pos
<1>2. /\ head' \in Slots
      /\ head' = IF head + 1 < Capacity THEN head + 1 ELSE 0
  <2>1. 1 \in 0 .. Capacity /\ head \in 0 .. Capacity - 1
    BY <1>1 DEF Slots
  <2>2. /\ Pos(head, 1) \in Slots
        /\ Pos(head, 1) = IF head + 1 < Capacity THEN head + 1
                          ELSE head + 1 - Capacity
    BY <1>1, <2>1, PosProperties
  <2> QED BY <1>1, <2>1, <2>2
\* Index i from the new head is index i + 1 from the old one.
<1>3. ASSUME NEW i \in 0 .. Capacity - 1 PROVE Pos(head', i) = Pos(head, i + 1)
  <2>1. i \in 0 .. Capacity /\ i + 1 \in 0 .. Capacity
    OBVIOUS
  <2>2. /\ Pos(head', i) = IF head' + i < Capacity THEN head' + i
                           ELSE head' + i - Capacity
        /\ Pos(head, i + 1) = IF head + (i + 1) < Capacity THEN head + (i + 1)
                              ELSE head + (i + 1) - Capacity
    BY <1>1, <1>2, <2>1, PosProperties
  <2>3. head \in 0 .. Capacity - 1
    BY <1>1 DEF Slots
  <2> QED BY <1>2, <2>2, <2>3
<1>4. /\ Pos(head, Capacity) = head
      /\ \A i \in 1 .. Capacity - 1 :
            Pos(head, i) \in Slots /\ Pos(head, i) # head
  <2>1. head \in 0 .. Capacity - 1
    BY <1>1 DEF Slots
  <2>2. ASSUME NEW i \in 1 .. Capacity
        PROVE /\ Pos(head, i) \in Slots
              /\ Pos(head, i) = IF head + i < Capacity THEN head + i
                                ELSE head + i - Capacity
    <3>1. i \in 0 .. Capacity
      OBVIOUS
    <3> QED BY <1>1, <3>1, PosProperties
  <2>3. Capacity \in 1 .. Capacity
    OBVIOUS
  <2> QED BY <2>1, <2>2, <2>3
<1>5. /\ \A i \in 1 .. Capacity - 1 : lines'[Pos(head, i)] = lines[Pos(head, i)]
      /\ lines'[head] = x
  BY <1>1, <1>4
<1>6. RingTypeOK'
  BY <1>1, <1>2 DEF RingTypeOK
\* What is read at i from the new head.
<1>7. ASSUME NEW i \in 0 .. Capacity - 1
      PROVE lines'[Pos(head', i)] =
               IF i + 1 < Capacity THEN lines[Pos(head, i + 1)] ELSE x
  <2>1. CASE i + 1 < Capacity
    <3>1. i + 1 \in 1 .. Capacity - 1
      BY <2>1
    <3> QED BY <1>3, <1>5, <2>1, <3>1
  <2>2. CASE ~(i + 1 < Capacity)
    <3>1. i + 1 = Capacity
      BY <2>2
    <3> QED BY <1>3, <1>4, <1>5, <2>2, <3>1
  <2> QED BY <2>1, <2>2
<1>8. Written'
  <2>1. ASSUME NEW i \in 0 .. Capacity - 1 PROVE lines'[Pos(head', i)] \in Items
    <3>1. i + 1 < Capacity => lines[Pos(head, i + 1)] \in Items
      BY <1>1 DEF RingInv, Written
    <3> QED BY <1>7, <3>1
  <2> QED BY <1>1, <2>1 DEF Written
<1>9. /\ Contents \in Seq(Items) /\ Len(Contents) = Capacity
      /\ \A i \in 1 .. Capacity : Contents[i] = lines[Pos(head, i - 1)]
  BY <1>1, ContentsType DEF ContentsRead
<1>10. /\ Contents' \in Seq(Items) /\ Len(Contents') = Capacity
       /\ \A i \in 1 .. Capacity : Contents'[i] = lines'[Pos(head', i - 1)]
  <2>1. RingInv'
    BY <1>6, <1>8 DEF RingInv
  <2>2. ContentsRead'
    BY <2>1, ContentsType, PTL
  <2> QED BY <1>1, <2>2 DEF ContentsRead
<1>11. /\ Keep(Capacity, Append(Contents, x)) \in Seq(Items)
       /\ Len(Keep(Capacity, Append(Contents, x))) = Capacity
       /\ \A i \in 1 .. Capacity : Keep(Capacity, Append(Contents, x))[i] =
             IF i < Capacity THEN Contents[i + 1] ELSE x
  <2> DEFINE c == Contents
  <2>1. c \in Seq(Items) /\ Len(c) = Capacity
    BY <1>9
  <2> HIDE DEF c
  <2>2. /\ Keep(Capacity, Append(c, x)) \in Seq(Items)
        /\ Len(Keep(Capacity, Append(c, x))) = Capacity
    BY ONLY <2>1, x \in Items, Capacity \in Nat \ {0}, KeepFull
  <2>3. \A i \in 1 .. Capacity : Keep(Capacity, Append(c, x))[i] =
                                   IF i < Capacity THEN c[i + 1] ELSE x
    BY ONLY <2>1, x \in Items, Capacity \in Nat \ {0}, KeepFull, SMTT(30)
  <2> QED BY <2>2, <2>3 DEF c
<1>12. ASSUME NEW i \in 1 .. Capacity
       PROVE Contents'[i] = Keep(Capacity, Append(Contents, x))[i]
  <2>1. i - 1 \in 0 .. Capacity - 1 /\ (i - 1) + 1 = i
    OBVIOUS
  <2>2. Contents'[i] = IF i < Capacity THEN lines[Pos(head, i)] ELSE x
    BY <1>7, <1>10, <2>1
  <2>3. CASE i < Capacity
    <3>1. i + 1 \in 1 .. Capacity /\ (i + 1) - 1 = i
      BY <2>3
    <3> QED BY <1>9, <1>11, <2>2, <2>3, <3>1
  <2>4. CASE ~(i < Capacity)
    BY <1>11, <2>2, <2>4
  <2> QED BY <2>3, <2>4
<1>13. Contents' = Keep(Capacity, Append(Contents, x))
  BY <1>10, <1>11, <1>12, SeqEqual
<1> QED BY <1>6, <1>8, <1>13 DEF RingInv

\* RingIsBoundedLog: for every capacity and every sequence of pushes, what the
\* screen reads from the ring is the newest lines pushed, in order.
THEOREM RingIsBoundedLog == RingSpec => IsBoundedLog
<1>1. RingInit => RingInv /\ Log!Init
  BY RingInitInv DEF Log!Init
<1>2. RingInv /\ [RingNext]_ringVars => RingInv' /\ [Log!Next]_Contents
  <2> SUFFICES ASSUME RingInv, [RingNext]_ringVars
               PROVE RingInv' /\ [Log!Next]_Contents
    OBVIOUS
  <2>1. ASSUME NEW x \in Items, Push(x)
        PROVE RingInv' /\ [Log!Next]_Contents
    <3>1. RingInv' /\ Contents' = Keep(Capacity, Append(Contents, x))
      BY <2>1, PushFreeStep, PushFullStep DEF Push
    <3> QED BY <3>1 DEF Log!Next, Log!Put, Log!Keep, Keep
  <2>2. CASE UNCHANGED ringVars
    BY <2>2 DEF ringVars, RingInv, RingTypeOK, Written, Contents, Line
  <2> QED BY <2>1, <2>2 DEF RingNext
<1> QED BY <1>1, <1>2, PTL DEF RingSpec, IsBoundedLog, Log!Spec
-----------------------------------------------------------------------------
(***************************************************************************)
(* Printing.  The region stays the whole screen, so that every scroll saves*)
(* the line that leaves the screen, and the ring is given the same line.   *)
(***************************************************************************)
USE DEF dims, cursor, saved, region, history, modes

PrintInv == TypeOK /\ InBounds /\ FullScreenScroll /\ dims = OneSize

LEMMA PrintStep ==
    ASSUME PrintInv, [PrintNext]_<<vars, ringVars>>
    PROVE [Next /\ NeverShrinks]_vars /\ UNCHANGED <<dims, region>>
<1>1. ASSUME Fault PROVE UNCHANGED <<dims, region>>
  BY <1>1 DEF Fault
<1>2. ASSUME NEW r, NEW c, MoveTo(r, c) PROVE UNCHANGED <<dims, region>>
  BY <1>2 DEF MoveTo
<1>3. ASSUME TextOutput PROVE UNCHANGED <<dims, region>>
  BY <1>1, <1>2, <1>3 DEF TextOutput, PutChar, PutInLine, PutWrapped, PutScrolled,
     LineFeed, LineFeedInside, LineFeedScroll, CarriageReturn, Backspace, Tab
<1>4. ASSUME AbsoluteMotion PROVE CursorMotion /\ UNCHANGED <<dims, region>>
  BY <1>2, <1>4 DEF AbsoluteMotion, Rows, CursorMotion, CursorPosition
<1>5. ASSUME Scrolling PROVE UNCHANGED <<dims, region>>
  BY <1>5 DEF Scrolling, ScrollBy, ScrollReset, ScrollTo
<1>6. ASSUME PrintNext PROVE Next /\ UNCHANGED <<dims, region>>
  BY <1>3, <1>4, <1>5, <1>6 DEF PrintNext, Next, Output
<1>7. rows >= rows /\ cols >= cols
  BY DimsPositive DEF PrintInv
<1> QED BY <1>6, <1>7 DEF NeverShrinks, vars

\* Printing and addressing the cursor add no number to a position, so that
\* nothing overflows here.
LEMMA PrintBounds ==
    ASSUME PrintInv, [PrintNext]_<<vars, ringVars>> PROVE InBounds'
<1>1. ASSUME TextOutput PROVE InBounds'
  BY <1>1, TextOutputBounds DEF PrintInv
<1>2. ASSUME AbsoluteMotion PROVE InBounds'
  <2>1. PICK r \in 0 .. rows - 1, c \in 0 .. cols - 1 : MoveTo(r, c)
    BY <1>2 DEF AbsoluteMotion, Rows, CursorPosition
  <2>2. c \in 0 .. cols
    BY DimsPositive DEF PrintInv
  <2> QED BY <2>1, <2>2, MoveBounds DEF PrintInv
<1>3. ASSUME Scrolling PROVE InBounds'
  <2>1. NeverShrinks
    BY <1>3, PrintStep, DimsPositive
       DEF PrintInv, NeverShrinks, Scrolling, ScrollBy, ScrollReset, ScrollTo
  <2> QED BY <1>3, <2>1, WindowBounds DEF PrintInv
<1>4. ASSUME UNCHANGED vars PROVE InBounds'
  BY <1>4 DEF PrintInv, vars, InBounds, CursorInBounds, SavedInBounds,
              RegionInBounds, AltInBounds, ViewInBounds
<1> QED BY <1>1, <1>2, <1>3, <1>4 DEF PrintNext

LEMMA PrintInvHolds ==
    /\ Init /\ dims = OneSize => PrintInv
    /\ PrintInv /\ [PrintNext]_<<vars, ringVars>> => PrintInv'
<1>1. Init => FullScreenScroll
  BY DEF Init, FullScreenScroll
<1>2. ASSUME PrintInv, [PrintNext]_<<vars, ringVars>> PROVE PrintInv'
  <2>1. [Next /\ NeverShrinks]_vars /\ UNCHANGED <<dims, region>>
    BY <1>2, PrintStep
  <2>2. TypeOK'
    BY <1>2, <2>1, NextType DEF PrintInv
  <2>3. InBounds'
    BY <1>2, PrintBounds
  <2> QED BY <1>2, <2>1, <2>2, <2>3 DEF PrintInv, FullScreenScroll
<1> QED BY <1>1, <1>2, InitType, InitBounds DEF PrintInv

\* What a scroll of one line saves.
LEMMA OneLineSaved ==
    ASSUME PrintInv
    PROVE /\ cells[0] \in Lines /\ sb \in Seq(Lines)
          /\ ScrollUpFits
          /\ SavedBy(1) = Keep(MaxScrollback, Append(sb, cells[0]))
<1>1. /\ rows \in Nat /\ rows >= 1 /\ AtMost(1, rows) = 1
      /\ sb \in Seq(Lines) /\ cells \in GridOf(cols, rows)
  BY DimsPositive DEF PrintInv, TypeOK, AtMost
<1>2. TopLines(cells, 1) \in Seq(Lines) /\ Len(TopLines(cells, 1)) = 1
  <2>1. 1 \in 0 .. rows
    BY <1>1
  <2> QED BY <2>1, LinesOfGrid DEF PrintInv
<1>3. TopLines(cells, 1)[1] = cells[0]
  BY DEF TopLines
<1>4. cells[0] \in Lines
  BY <1>2, <1>3, ElementOfSeq
<1>5. sb \o TopLines(cells, 1) = Append(sb, cells[0])
  <2> DEFINE top == TopLines(cells, 1)
             both == sb \o top
             one == Append(sb, cells[0])
  <2>1. /\ both \in Seq(Lines) /\ Len(both) = Len(sb) + 1
        /\ \A i \in 1 .. Len(sb) + 1 :
              both[i] = IF i <= Len(sb) THEN sb[i] ELSE top[i - Len(sb)]
    <3>1. top \in Seq(Lines) /\ Len(top) = 1
      BY <1>2
    <3> HIDE DEF top
    <3>2. /\ sb \o top \in Seq(Lines) /\ Len(sb \o top) = Len(sb) + Len(top)
          /\ \A i \in 1 .. Len(sb) + Len(top) :
                (sb \o top)[i] = IF i <= Len(sb) THEN sb[i] ELSE top[i - Len(sb)]
      BY <1>1, <3>1, ConcatProperties
    <3> QED BY <3>1, <3>2
  <2>2. /\ one \in Seq(Lines) /\ Len(one) = Len(sb) + 1
        /\ \A i \in 1 .. Len(sb) : one[i] = sb[i]
        /\ one[Len(sb) + 1] = cells[0]
    BY <1>1, <1>4, AppendProperties
  <2>3. Len(sb) \in Nat
    BY <1>1, LenProperties
  <2> HIDE DEF both, one
  <2>4. ASSUME NEW i \in 1 .. Len(sb) + 1 PROVE both[i] = one[i]
    <3>1. CASE i \in 1 .. Len(sb)
      BY <2>1, <2>2, <2>3, <3>1
    <3>2. CASE i = Len(sb) + 1
      <4>1. ~(i <= Len(sb)) /\ i - Len(sb) = 1
        BY <2>3, <3>2
      <4>2. both[i] = top[1]
        BY <2>1, <4>1
      <4> QED BY <1>3, <2>2, <3>2, <4>2
    <3> QED BY <2>3, <3>1, <3>2
  <2>5. both = one
    BY <2>1, <2>2, <2>4, SeqEqual
  <2> QED BY <2>5 DEF both, one
<1> QED BY <1>1, <1>4, <1>5 DEF PrintInv, SavedBy, ScrollUpFits

LEMMA PrintSaves ==
    ASSUME PrintInv, PrintNext
    PROVE \/ sb' = SavedBy(1) /\ Push(cells[0])
          \/ sb' = sb /\ UNCHANGED ringVars
<1>1. ASSUME ScrollsLine PROVE sb' = SavedBy(1)
  BY <1>1, OneLineSaved DEF ScrollsLine, LineFeedScroll, PutScrolled
<1>2. ASSUME TextOutput, ~ScrollsLine PROVE sb' = sb
  BY <1>2 DEF TextOutput, ScrollsLine, PutChar, PutInLine, PutWrapped, LineFeed,
     LineFeedInside, CarriageReturn, Backspace, Tab, MoveTo, Fault
<1>3. ASSUME AbsoluteMotion \/ Scrolling PROVE sb' = sb
  BY <1>3 DEF AbsoluteMotion, CursorPosition, MoveTo, Scrolling, ScrollBy,
     ScrollReset, ScrollTo
<1> QED BY <1>1, <1>2, <1>3 DEF PrintNext

RingHolds == RingInv /\ Contents = sb

LEMMA RingFollows ==
    ASSUME PrintInv, RingHolds, [PrintNext]_<<vars, ringVars>> PROVE RingHolds'
<1>1. ASSUME UNCHANGED <<sb, ringVars>> PROVE RingHolds'
  BY <1>1 DEF RingHolds, RingInv, RingTypeOK, Written, Contents, Line, ringVars
<1>2. ASSUME sb' = SavedBy(1), Push(cells[0]) PROVE RingHolds'
  <2>1. cells[0] \in Items
    BY OneLineSaved, RingAssumption
  <2>2. RingInv' /\ Contents' = Keep(Capacity, Append(Contents, cells[0]))
    BY <1>2, <2>1, PushFreeStep, PushFullStep DEF RingHolds, Push
  <2>3. sb' = Keep(MaxScrollback, Append(sb, cells[0]))
    BY <1>2, OneLineSaved
  <2> QED BY <2>2, <2>3, RingAssumption DEF RingHolds
<1>3. CASE PrintNext
  BY <1>1, <1>2, <1>3, PrintSaves
<1>4. CASE UNCHANGED <<vars, ringVars>>
  BY <1>1, <1>4 DEF vars
<1> QED BY <1>3, <1>4

LEMMA RingHoldsAtFirst == Init /\ RingInit => RingHolds
BY RingInitInv DEF Init, RingHolds

\* RingKeepsScrollback: for every window, every capacity and everything a
\* program prints, the ring beside the screen holds the scrollback, in order.
THEOREM RingKeepsScrollback == PrintingSpec => []RingIsScrollback
<1>1. RingHolds => RingIsScrollback
  BY DEF RingHolds, RingIsScrollback
<1> QED BY <1>1, PrintInvHolds, RingHoldsAtFirst, RingFollows, PTL DEF PrintingSpec
-----------------------------------------------------------------------------
(***************************************************************************)
(* The roll of paper.  A roll is read off a scrollback and a grid; striking*)
(* a glyph and feeding the paper are shown to commute with reading.        *)
(***************************************************************************)
Width == OneSize[1]
Height == OneSize[2]
Texts == {Ch(l) : l \in Lines}

RollIs(roll, s, g) ==
    /\ roll \in Seq(Texts) /\ Len(roll) = Len(s) + Height
    /\ \A i \in 1 .. Len(s) : roll[i] = Ch(s[i])
    /\ \A r \in 0 .. Height - 1 : roll[Len(s) + 1 + r] = Ch(g[r])

LEMMA OneSizeIs ==
    ASSUME TypeOK, dims = OneSize
    PROVE /\ cols = Width /\ rows = Height
          /\ Width \in Nat /\ Width > 0 /\ Height \in Nat /\ Height > 0
BY DimsPositive DEF Width, Height

\* There is one roll for a scrollback and a grid.
LEMMA OneRoll ==
    ASSUME Height \in Nat, NEW s \in Seq(Lines), NEW g, NEW roll, NEW other,
           RollIs(roll, s, g), RollIs(other, s, g)
    PROVE roll = other
<1>1. /\ roll \in Seq(Texts) /\ other \in Seq(Texts)
      /\ Len(roll) = Len(s) + Height /\ Len(other) = Len(s) + Height
      /\ Len(s) \in Nat
  BY LenProperties DEF RollIs
<1>2. ASSUME NEW i \in 1 .. Len(s) + Height PROVE roll[i] = other[i]
  <2>1. CASE i <= Len(s)
    BY <1>1, <2>1 DEF RollIs
  <2>2. CASE i > Len(s)
    <3>1. PICK r \in 0 .. Height - 1 : i = Len(s) + 1 + r
      <4>1. i - Len(s) - 1 \in 0 .. Height - 1 /\ i = Len(s) + 1 + (i - Len(s) - 1)
        BY <1>1, <2>2
      <4> QED BY <4>1
    <3> QED BY <3>1 DEF RollIs
  <2> QED BY <1>1, <2>1, <2>2
<1> QED BY <1>1, <1>2, SeqEqual

LEMMA RollIsRead ==
    ASSUME TypeOK, dims = OneSize PROVE RollIs(Roll, sb, cells)
<1> DEFINE live == TopLines(cells, rows)
<1>1. rows = Height /\ Height \in Nat /\ sb \in Seq(Lines) /\ Len(sb) \in Nat
  BY OneSizeIs, LenProperties DEF TypeOK
<1>2. live \in Seq(Lines) /\ Len(live) = Height
  <2>1. rows \in 0 .. rows
    BY <1>1
  <2> QED BY <1>1, <2>1, LinesOfGrid
<1>3. \A r \in 0 .. Height - 1 : live[r + 1] = cells[r]
  <2> TAKE r \in 0 .. Height - 1
  <2>1. r + 1 \in 1 .. rows /\ r + 1 - 1 = r
    BY <1>1
  <2> QED BY <2>1 DEF TopLines
<1> HIDE DEF live
<1>4. /\ sb \o live \in Seq(Lines) /\ Len(sb \o live) = Len(sb) + Len(live)
      /\ \A i \in 1 .. Len(sb) + Len(live) :
            (sb \o live)[i] = IF i <= Len(sb) THEN sb[i] ELSE live[i - Len(sb)]
  BY <1>1, <1>2, ConcatProperties
<1>5. AllLines = sb \o live
  BY DEF AllLines, live
<1>6. /\ AllLines \in Seq(Lines) /\ Len(AllLines) = Len(sb) + Height
      /\ DOMAIN AllLines = 1 .. Len(sb) + Height
      /\ \A i \in 1 .. Len(sb) + Height : AllLines[i] \in Lines
  BY <1>1, <1>2, <1>4, <1>5, LenProperties, ElementOfSeq
<1>7. /\ Roll \in Seq(Texts) /\ Len(Roll) = Len(sb) + Height
      /\ \A i \in 1 .. Len(sb) + Height : Roll[i] = Ch(AllLines[i])
  <2>1. Roll = [i \in 1 .. Len(sb) + Height |-> Ch(AllLines[i])]
    BY <1>6 DEF Roll
  <2>2. \A i \in 1 .. Len(sb) + Height : Ch(AllLines[i]) \in Texts
    BY <1>6 DEF Texts
  <2>3. Len(sb) + Height \in Nat
    BY <1>1
  <2> QED BY <2>1, <2>2, <2>3
<1>8. \A i \in 1 .. Len(sb) : Roll[i] = Ch(sb[i])
  BY <1>1, <1>2, <1>4, <1>5, <1>7
<1>9. \A r \in 0 .. Height - 1 : Roll[Len(sb) + 1 + r] = Ch(cells[r])
  <2> TAKE r \in 0 .. Height - 1
  <2>1. /\ Len(sb) + 1 + r \in 1 .. Len(sb) + Height
        /\ ~(Len(sb) + 1 + r <= Len(sb)) /\ Len(sb) + 1 + r - Len(sb) = r + 1
    BY <1>1
  <2>2. AllLines[Len(sb) + 1 + r] = live[r + 1]
    BY <1>2, <1>4, <1>5, <2>1
  <2> QED BY <1>3, <1>7, <2>1, <2>2
<1> QED BY <1>7, <1>8, <1>9 DEF RollIs

\* Striking a glyph is putting a cell.
LEMMA StruckRoll ==
    ASSUME TypeOK, dims = OneSize, NEW s \in Seq(Lines),
           NEW g \in GridOf(cols, rows), NEW roll, RollIs(roll, s, g),
           NEW r \in 0 .. rows - 1, NEW c \in 0 .. cols - 1, NEW ch \in Glyphs
    PROVE RollIs(Paper!Struck(roll, r, c, ch), s, PutCell(g, r, c, ch))
<1> DEFINE put == PutCell(g, r, c, ch)
           at == Len(s) + 1 + r
<1>1. /\ cols = Width /\ rows = Height
      /\ Width \in Nat /\ Height \in Nat /\ Len(s) \in Nat
  BY OneSizeIs, LenProperties
<1>2. put \in GridOf(cols, rows)
  BY PutCellType
<1>3. /\ \A i \in 0 .. rows - 1 : i # r => put[i] = g[i]
      /\ put[r] = [g[r] EXCEPT ![c] = [ch |-> ch, color |-> pen.color,
                                       bold |-> pen.bold]]
      /\ g[r] \in LineOf(cols) /\ put[r] \in LineOf(cols)
  BY <1>2 DEF PutCell, GridOf
<1>4. Ch(put[r]) = [Ch(g[r]) EXCEPT ![c] = ch]
  <2> DEFINE old == g[r]
             new == put[r]
  <2>1. /\ old \in [0 .. cols - 1 -> Cell] /\ new \in [0 .. cols - 1 -> Cell]
        /\ \A j \in 0 .. cols - 1 : new[j].ch = IF j = c THEN ch ELSE old[j].ch
    <3> DEFINE cell == [ch |-> ch, color |-> pen.color, bold |-> pen.bold]
    <3>1. cell.ch = ch
      OBVIOUS
    <3> HIDE DEF cell
    <3>2. new = [old EXCEPT ![c] = cell]
      BY <1>3 DEF cell
    <3>3. old \in [0 .. cols - 1 -> Cell] /\ new \in [0 .. cols - 1 -> Cell]
      BY <1>3 DEF LineOf
    <3> HIDE DEF old, new
    <3> QED BY <3>1, <3>2, <3>3
  <2> HIDE DEF old, new
  <2>2. Ch(new) = [j \in 0 .. cols - 1 |-> IF j = c THEN ch ELSE old[j].ch]
    BY <2>1 DEF Ch
  <2>3. Ch(old) = [j \in 0 .. cols - 1 |-> old[j].ch]
    BY <2>1 DEF Ch
  <2>4. Ch(new) = [Ch(old) EXCEPT ![c] = ch]
    BY <2>2, <2>3
  <2> QED BY <2>4 DEF old, new
<1>5. Ch(put[r]) \in Texts
  <2>1. put[r] \in Lines
    BY <1>3 DEF Lines, TypeOK
  <2> QED BY <2>1 DEF Texts
<1> HIDE DEF put
<1>6. /\ roll \in Seq(Texts) /\ Len(roll) = Len(s) + Height
      /\ \A i \in 1 .. Len(s) : roll[i] = Ch(s[i])
      /\ \A i \in 0 .. Height - 1 : roll[Len(s) + 1 + i] = Ch(g[i])
  BY DEF RollIs
<1>7. at \in 1 .. Len(roll) /\ Len(roll) - Height + r + 1 = at
  BY <1>1, <1>6
<1>8. Paper!Struck(roll, r, c, ch) = [roll EXCEPT ![at] = Ch(put[r])]
  <2>1. Paper!Struck(roll, r, c, ch) =
            [roll EXCEPT ![Len(roll) - Height + r + 1][c] = ch]
    BY DEF Paper!Struck, Height
  <2>2. roll[at] = Ch(g[r])
    BY <1>1, <1>6
  <2> HIDE DEF at
  <2>3. [roll EXCEPT ![at][c] = ch] = [roll EXCEPT ![at] = [roll[at] EXCEPT ![c] = ch]]
    OBVIOUS
  <2> QED BY <1>4, <1>7, <2>1, <2>2, <2>3
<1> DEFINE struck == [roll EXCEPT ![at] = Ch(put[r])]
<1>9. /\ struck \in Seq(Texts) /\ Len(struck) = Len(roll)
      /\ \A i \in 1 .. Len(roll) :
            struck[i] = IF i = at THEN Ch(put[r]) ELSE roll[i]
  BY <1>5, <1>6, <1>7, ExceptSeq
<1> HIDE DEF struck
<1>10. \A i \in 1 .. Len(s) : struck[i] = Ch(s[i])
  <2> TAKE i \in 1 .. Len(s)
  <2>1. i \in 1 .. Len(roll) /\ i # at
    BY <1>1, <1>6
  <2> HIDE DEF at
  <2> QED BY <1>6, <1>9, <2>1
<1>11. \A i \in 0 .. Height - 1 : struck[Len(s) + 1 + i] = Ch(put[i])
  <2> TAKE i \in 0 .. Height - 1
  <2> DEFINE k == Len(s) + 1 + i
  <2>1. k \in 1 .. Len(roll)
    BY <1>1, <1>6
  <2>2. CASE i = r
    <3>1. struck[k] = Ch(put[r])
      BY <1>9, <2>1, <2>2
    <3> QED BY <2>2, <3>1
  <2>3. CASE i # r
    <3>1. k # at /\ i \in 0 .. rows - 1
      BY <1>1, <2>3
    <3>2. struck[k] = roll[k] /\ put[i] = g[i]
      BY <1>3, <1>9, <2>1, <2>3, <3>1
    <3> QED BY <1>6, <3>2
  <2> QED BY <2>2, <2>3
<1>12. RollIs(struck, s, put)
  BY <1>6, <1>9, <1>10, <1>11 DEF RollIs
<1> QED BY <1>8, <1>12 DEF struck, put

\* Feeding the paper is scrolling by a line.
LEMMA ScrolledLines ==
    ASSUME PrintInv
    PROVE /\ \A r \in 0 .. Height - 2 : ScrolledUp(1)[r] = cells[r + 1]
          /\ Ch(ScrolledUp(1)[Height - 1]) = Paper!Blank
<1>1. /\ cols = Width /\ rows = Height /\ Height \in Nat /\ Height > 0
      /\ Width \in Nat
  BY OneSizeIs DEF PrintInv
<1>2. \A r \in 0 .. Height - 2 : ScrolledUp(1)[r] = cells[r + 1]
  BY <1>1, ScrolledUpMoves DEF PrintInv
<1>3. Paper!Blank = [j \in 0 .. Width - 1 |-> Space]
  BY DEF Paper!Blank, Width
<1>4. \/ ScrolledUp(1)[Height - 1] = BlankLine(cols)
      \/ ScrolledUp(1)[Height - 1] = [j \in 0 .. cols - 1 |-> BlankIn(pen.color)]
  BY <1>1 DEF PrintInv, FullScreenScroll, ScrolledUp, BlankGrid, ShiftUp
<1>5. Ch(BlankLine(cols)) = [j \in 0 .. Width - 1 |-> Space]
  BY <1>1 DEF Ch, BlankLine, DefaultBlank, BlankIn
<1>6. Ch([j \in 0 .. cols - 1 |-> BlankIn(pen.color)])
         = [j \in 0 .. Width - 1 |-> Space]
  BY <1>1 DEF Ch, BlankIn
<1> QED BY <1>2, <1>3, <1>4, <1>5, <1>6

LEMMA FedRoll ==
    ASSUME PrintInv
    PROVE RollIs(Paper!Torn(Append(Roll, Paper!Blank)), SavedBy(1), ScrolledUp(1))
<1> DEFINE fed == Append(Roll, Paper!Blank)
           more == Append(sb, cells[0])
           g == ScrolledUp(1)
<1>1. /\ cols = Width /\ rows = Height /\ Height \in Nat /\ Height > 0
      /\ sb \in Seq(Lines) /\ cells[0] \in Lines /\ Len(sb) \in Nat
      /\ Len(sb) <= MaxScrollback /\ MaxScrollback \in Nat /\ MaxScrollback > 0
      /\ SavedBy(1) = Keep(MaxScrollback, more)
  BY OneSizeIs, OneLineSaved, LenProperties, ScrollbackAssumption
     DEF PrintInv, InBounds, ViewInBounds
<1>2. RollIs(Roll, sb, cells)
  BY RollIsRead DEF PrintInv
<1>3. Paper!Blank \in Texts
  <2>1. g \in GridOf(cols, rows)
    BY ScrolledUpType, OneLineSaved DEF PrintInv
  <2>2. g[Height - 1] \in Lines
    BY <1>1, <2>1 DEF GridOf, Lines, PrintInv, TypeOK
  <2> QED BY <2>2, ScrolledLines DEF Texts
<1>4. /\ fed \in Seq(Texts) /\ Len(fed) = Len(sb) + Height + 1
      /\ \A i \in 1 .. Len(sb) + Height : fed[i] = Roll[i]
      /\ fed[Len(sb) + Height + 1] = Paper!Blank
  <2>1. Roll \in Seq(Texts) /\ Len(Roll) = Len(sb) + Height
    BY <1>2 DEF RollIs
  <2> QED BY <1>3, <2>1, AppendProperties
<1>5. /\ more \in Seq(Lines) /\ Len(more) = Len(sb) + 1
      /\ \A i \in 1 .. Len(sb) : more[i] = sb[i]
      /\ more[Len(sb) + 1] = cells[0]
  BY <1>1, AppendProperties
<1> HIDE DEF fed, more, g
<1>6. RollIs(fed, more, g)
  <2>1. ASSUME NEW i \in 1 .. Len(sb) + 1 PROVE fed[i] = Ch(more[i])
    <3>1. CASE i <= Len(sb)
      BY <1>1, <1>2, <1>4, <1>5, <3>1 DEF RollIs
    <3>2. CASE i = Len(sb) + 1
      <4>1. Roll[Len(sb) + 1 + 0] = Ch(cells[0])
        BY <1>1, <1>2 DEF RollIs
      <4>2. fed[i] = Roll[i]
        BY <1>1, <1>4, <3>2
      <4> QED BY <1>1, <1>5, <3>2, <4>1, <4>2
    <3> QED BY <1>1, <3>1, <3>2
  <2>2. ASSUME NEW r \in 0 .. Height - 1
        PROVE fed[Len(more) + 1 + r] = Ch(g[r])
    <3>1. CASE r < Height - 1
      <4>1. r + 1 \in 0 .. Height - 1 /\ r \in 0 .. Height - 2
        BY <1>1, <3>1
      <4>2. Roll[Len(sb) + 1 + (r + 1)] = Ch(cells[r + 1])
        BY <1>2, <4>1 DEF RollIs
      <4>3. /\ Len(more) + 1 + r = Len(sb) + 1 + (r + 1)
            /\ Len(more) + 1 + r \in 1 .. Len(sb) + Height
        BY <1>1, <1>5, <3>1
      <4>4. g[r] = cells[r + 1]
        BY <4>1, ScrolledLines DEF g
      <4> QED BY <1>4, <4>2, <4>3, <4>4
    <3>2. CASE r = Height - 1
      <4>1. Len(more) + 1 + r = Len(sb) + Height + 1
        BY <1>1, <1>5, <3>2
      <4> QED BY <1>4, <3>2, <4>1, ScrolledLines DEF g
    <3> QED BY <1>1, <3>1, <3>2
  <2>3. Len(fed) = Len(more) + Height
    BY <1>1, <1>4, <1>5
  <2> QED BY <1>4, <1>5, <2>1, <2>2, <2>3 DEF RollIs
<1>7. Paper!Torn(fed) = IF Len(fed) > MaxScrollback + Height THEN Tail(fed) ELSE fed
  BY DEF Paper!Torn, Height
<1>8. CASE Len(sb) < MaxScrollback
  <2>1. ~(Len(fed) > MaxScrollback + Height) /\ ~(Len(more) > MaxScrollback)
    BY <1>1, <1>4, <1>5, <1>8
  <2>2. Keep(MaxScrollback, more) = more
    BY <2>1 DEF Keep
  <2> QED BY <1>1, <1>6, <1>7, <2>1, <2>2 DEF fed, g
<1>9. CASE Len(sb) = MaxScrollback
  <2> DEFINE kept == Keep(MaxScrollback, more)
             rest == Tail(fed)
  <2>1. Len(fed) > MaxScrollback + Height
    BY <1>1, <1>4, <1>9
  <2>2. /\ rest \in Seq(Texts) /\ Len(rest) = MaxScrollback + Height
        /\ \A i \in 1 .. MaxScrollback + Height : rest[i] = fed[i + 1]
    BY <1>1, <1>4, <1>9, EmptySeq, HeadTailProperties
  <2>3. /\ Len(kept) = MaxScrollback
        /\ \A i \in 1 .. MaxScrollback : kept[i] = more[i + 1]
    <3>1. Len(kept) = IF Len(more) > MaxScrollback THEN MaxScrollback ELSE Len(more)
      BY <1>1, <1>5, KeepType
    <3>2. \A i \in 1 .. Len(kept) : kept[i] = more[Len(more) - Len(kept) + i]
      BY <1>1, <1>5, KeepType
    <3> HIDE DEF kept
    <3>3. Len(kept) = MaxScrollback /\ Len(more) - Len(kept) = 1
      BY <1>1, <1>5, <1>9, <3>1
    <3>4. ASSUME NEW i \in 1 .. MaxScrollback PROVE kept[i] = more[i + 1]
      <4>1. kept[i] = more[Len(more) - Len(kept) + i]
        BY <3>2, <3>3
      <4>2. Len(more) - Len(kept) + i = i + 1
        BY ONLY <1>1, <3>3
      <4> QED BY <4>1, <4>2
    <3> QED BY <3>3, <3>4
  <2> HIDE DEF kept, rest
  <2>4. ASSUME NEW i \in 1 .. MaxScrollback PROVE rest[i] = Ch(kept[i])
    <3>1. i + 1 \in 1 .. Len(more) /\ i \in 1 .. MaxScrollback + Height
      BY <1>1, <1>5, <1>9
    <3>2. fed[i + 1] = Ch(more[i + 1])
      BY <1>6, <3>1 DEF RollIs
    <3> QED BY <2>2, <2>3, <3>1, <3>2
  <2>5. ASSUME NEW r \in 0 .. Height - 1
        PROVE rest[MaxScrollback + 1 + r] = Ch(g[r])
    <3>1. /\ MaxScrollback + 1 + r \in 1 .. MaxScrollback + Height
          /\ MaxScrollback + 1 + r + 1 = Len(more) + 1 + r
      BY <1>1, <1>5, <1>9
    <3>2. fed[Len(more) + 1 + r] = Ch(g[r])
      BY <1>6 DEF RollIs
    <3> QED BY <2>2, <3>1, <3>2
  <2>6. RollIs(rest, kept, g)
    BY <2>2, <2>3, <2>4, <2>5 DEF RollIs
  <2> QED BY <1>1, <1>7, <2>1, <2>6 DEF fed, g, kept, rest
<1> QED BY <1>1, <1>8, <1>9

RollRead == RollIs(Roll, sb, cells)

LEMMA RollReads == PrintInv => RollRead
BY RollIsRead DEF PrintInv, RollRead

\* The two ways to tell the next roll: where it is read, and where it stays.
LEMMA NextRoll ==
    ASSUME PrintInv, PrintInv', RollRead',
           NEW roll, RollIs(roll, sb', cells')
    PROVE roll = Roll'
<1>1. Height \in Nat
  BY OneSizeIs DEF PrintInv
<1>2. sb' \in Seq(Lines)
  BY DEF PrintInv, TypeOK, Lines
<1>3. RollIs(Roll', sb', cells')
  BY DEF RollRead, RollIs, Height
<1> QED BY <1>1, <1>2, <1>3, OneRoll

LEMMA SameRoll ==
    ASSUME UNCHANGED <<dims, cells, sb>> PROVE UNCHANGED Roll
BY DEF Roll, AllLines, TopLines, Ch

\* A head that moves stays in the window, as InBounds has it.
LEMMA HeadMoves ==
    ASSUME PrintInv, PrintInv', UNCHANGED <<dims, cells, sb>>
    PROVE Paper!MoveHead
<1>1. /\ curRow' \in 0 .. rows' - 1 /\ curCol' \in 0 .. cols'
      /\ rows' = rows /\ cols' = cols
  BY DEF PrintInv, InBounds, CursorInBounds, InGrid
<1>2. rows = Height /\ cols = Width /\ Height \in Nat /\ Width \in Nat
  BY OneSizeIs DEF PrintInv
<1>3. curRow' \in 0 .. Height - 1 /\ curCol' \in 0 .. Width
  BY <1>1, <1>2
<1> QED BY <1>3, SameRoll DEF Paper!MoveHead, Height, Width

\* What the printing actions have in common: the head in the window, and the
\* region that ends with it.
LEMMA HeadInWindow ==
    ASSUME PrintInv
    PROVE /\ rows = Height /\ cols = Width
          /\ Height \in Nat /\ Height > 0 /\ Width \in Nat /\ Width > 0
          /\ curRow \in 0 .. Height - 1 /\ curCol \in 0 .. Width
          /\ scrollRegBot = Height - 1 /\ ScrollUpFits
          /\ CursorInBounds /\ TypeOK
          /\ Wrap(curRow + 1) = curRow + 1
          /\ (MustScroll <=> Paper!AtBottom)
<1>1. /\ rows = Height /\ cols = Width
      /\ Height \in Nat /\ Height > 0 /\ Width \in Nat /\ Width > 0
  BY OneSizeIs DEF PrintInv
<1>2. curRow \in 0 .. Height - 1 /\ curCol \in 0 .. Width
      /\ scrollRegBot = Height - 1
      /\ CursorInBounds /\ TypeOK
  BY <1>1 DEF PrintInv, InBounds, CursorInBounds, InGrid, FullScreenScroll
<1>3. Paper!AtBottom <=> curRow = Height - 1
  BY DEF Paper!AtBottom, Height
<1>4. Wrap(curRow + 1) = curRow + 1
  BY <1>2, Positions
<1> QED BY <1>1, <1>2, <1>3, <1>4, OneLineSaved DEF MustScroll

LEMMA PrintsInLine ==
    ASSUME PrintInv, PrintInv', RollRead, RollRead',
           NEW ch \in Glyphs, PutInLine(ch)
    PROVE Paper!Strike(ch)
<1>1. /\ curCol < Width /\ curCol' = curCol + 1 /\ curRow' = curRow
      /\ cells' = PutCell(cells, curRow, curCol, ch) /\ sb' = sb
      /\ curRow \in 0 .. rows - 1 /\ curCol \in 0 .. cols - 1
  <2>1. /\ curCol < cols /\ cols = Width
        /\ curRow \in 0 .. rows - 1 /\ curCol \in 0 .. cols - 1
    BY HeadInWindow DEF PutInLine
  <2>2. /\ CursorIdx \in 0 .. Size - 1
        /\ PutAt(CursorIdx, ch) = PutCell(cells, curRow, curCol, ch)
    BY <2>1, HeadInWindow, CursorCell DEF PutAt
  <2> QED BY <2>1, <2>2 DEF PutInLine
<1>2. RollIs(Paper!Struck(Roll, curRow, curCol, ch), sb,
             PutCell(cells, curRow, curCol, ch))
  BY <1>1, StruckRoll DEF PrintInv, TypeOK, RollRead
<1>3. Roll' = Paper!Struck(Roll, curRow, curCol, ch)
  BY <1>1, <1>2, NextRoll
<1> QED BY <1>1, <1>3 DEF Paper!Strike, Width

LEMMA PrintsOnNextLine ==
    ASSUME PrintInv, PrintInv', RollRead, RollRead',
           NEW ch \in Glyphs, PutWrapped(ch)
    PROVE Paper!StrikeOnNextLine(ch)
<1>1. /\ curCol = Width /\ curCol' = 1 /\ curRow' = curRow + 1
      /\ cells' = PutCell(cells, curRow + 1, 0, ch) /\ sb' = sb
      /\ curRow + 1 \in 0 .. rows - 1 /\ 0 \in 0 .. cols - 1
      /\ ~Paper!AtBottom
  <2>1. /\ curCol = Width /\ ~Paper!AtBottom
        /\ curRow + 1 \in 0 .. rows - 1 /\ 0 \in 0 .. cols - 1
        /\ curRow + 1 < rows
    BY HeadInWindow DEF PutWrapped, MustScroll
  <2>2. /\ RowEnd \in 0 .. Size - 1
        /\ PutAt(RowEnd, ch) = PutCell(cells, curRow + 1, 0, ch)
    BY <2>1, HeadInWindow, NextRowCell DEF PutAt
  <2> QED BY <2>1, <2>2, HeadInWindow DEF PutWrapped
<1>2. RollIs(Paper!Struck(Roll, curRow + 1, 0, ch), sb,
             PutCell(cells, curRow + 1, 0, ch))
  BY <1>1, StruckRoll DEF PrintInv, TypeOK, RollRead
<1>3. Roll' = Paper!Struck(Roll, curRow + 1, 0, ch)
  BY <1>1, <1>2, NextRoll
<1>4. Paper!Fed = Roll /\ Paper!LineBelow = curRow + 1
  BY <1>1 DEF Paper!Fed, Paper!LineBelow
<1> QED BY <1>1, <1>3, <1>4 DEF Paper!StrikeOnNextLine, Width

\* At the bottom the paper is fed, and what is read of it is the scrolled grid.
LEMMA FedRead ==
    ASSUME PrintInv, Paper!AtBottom
    PROVE /\ RollIs(Paper!Fed, SavedBy(1), ScrolledUp(1))
          /\ Paper!LineBelow = curRow
          /\ SavedBy(1) \in Seq(Lines) /\ ScrolledUp(1) \in GridOf(cols, rows)
<1>1. Paper!Fed = Paper!Torn(Append(Roll, Paper!Blank)) /\ Paper!LineBelow = curRow
  BY DEF Paper!Fed, Paper!LineBelow
<1>2. SavedBy(1) \in Seq(Lines) /\ ScrolledUp(1) \in GridOf(cols, rows)
  BY OneLineSaved, SavedByType, ScrolledUpType DEF PrintInv
<1> QED BY <1>1, <1>2, FedRoll

LEMMA PrintsAtBottom ==
    ASSUME PrintInv, PrintInv', RollRead, RollRead',
           NEW ch \in Glyphs, PutScrolled(ch)
    PROVE Paper!StrikeOnNextLine(ch)
<1>1. /\ curCol = Width /\ curCol' = 1
      /\ cells' = PutCell(ScrolledUp(1), curRow, 0, ch) /\ sb' = SavedBy(1)
      /\ curRow \in 0 .. rows - 1 /\ 0 \in 0 .. cols - 1
      /\ Paper!AtBottom /\ curRow' = curRow
  BY HeadInWindow DEF PutScrolled, MustScroll
<1>2. /\ RollIs(Paper!Fed, SavedBy(1), ScrolledUp(1))
      /\ Paper!LineBelow = curRow
      /\ SavedBy(1) \in Seq(Lines) /\ ScrolledUp(1) \in GridOf(cols, rows)
  BY <1>1, FedRead
<1>3. RollIs(Paper!Struck(Paper!Fed, curRow, 0, ch), SavedBy(1),
             PutCell(ScrolledUp(1), curRow, 0, ch))
  BY <1>1, <1>2, StruckRoll DEF PrintInv
<1>4. Roll' = Paper!Struck(Paper!Fed, curRow, 0, ch)
  BY <1>1, <1>3, NextRoll
<1> QED BY <1>1, <1>2, <1>4 DEF Paper!StrikeOnNextLine, Width

LEMMA FeedsAtBottom ==
    ASSUME PrintInv, PrintInv', RollRead, RollRead', LineFeedScroll
    PROVE Paper!Feed
<1>1. /\ cells' = ScrolledUp(1) /\ sb' = SavedBy(1) /\ curCol' = curCol
      /\ Paper!AtBottom /\ curRow' = curRow
  BY HeadInWindow DEF LineFeedScroll, MustScroll
<1>2. RollIs(Paper!Fed, sb', cells') /\ Paper!LineBelow = curRow
  BY <1>1, FedRead
<1> QED BY <1>1, <1>2, NextRoll DEF Paper!Feed

LEMMA PaperStep ==
    ASSUME PrintInv, PrintInv', RollRead, RollRead',
           [PrintNext]_<<vars, ringVars>>
    PROVE [Paper!Next]_<<Roll, curRow, curCol>>
<1>1. ASSUME NEW r, NEW c, MoveTo(r, c) PROVE Paper!MoveHead
  <2>1. UNCHANGED <<dims, cells, sb>>
    BY <1>1 DEF MoveTo
  <2> QED BY <2>1, HeadMoves
<1>2. ASSUME UNCHANGED <<dims, cells, sb, cursor>>
      PROVE UNCHANGED <<Roll, curRow, curCol>>
  BY <1>2, SameRoll
<1>3. ASSUME NEW ch \in Glyphs, PutChar(ch)
      PROVE Paper!Strike(ch) \/ Paper!StrikeOnNextLine(ch)
  BY <1>3, PrintsInLine, PrintsOnNextLine, PrintsAtBottom DEF PutChar
<1>4. CASE TextOutput
  <2>1. CASE \E ch \in Glyphs : PutChar(ch)
    BY <1>3, <2>1 DEF Paper!Next
  <2>2. CASE LineFeedInside
    BY <1>1, <2>2 DEF LineFeedInside, Paper!Next
  <2>3. CASE LineFeedScroll
    BY <2>3, FeedsAtBottom DEF Paper!Next
  <2>4. CASE CarriageReturn \/ Backspace \/ Tab
    BY <1>1, <2>4 DEF CarriageReturn, Backspace, Tab, Paper!Next
  <2> QED BY <1>4, <2>1, <2>2, <2>3, <2>4 DEF TextOutput, LineFeed
<1>5. CASE AbsoluteMotion
  BY <1>1, <1>5 DEF AbsoluteMotion, CursorPosition, Paper!Next
<1>6. CASE Scrolling
  BY <1>2, <1>6 DEF Scrolling, ScrollBy, ScrollReset, ScrollTo
<1>7. CASE UNCHANGED <<vars, ringVars>>
  BY <1>2, <1>7 DEF vars
<1> QED BY <1>4, <1>5, <1>6, <1>7 DEF PrintNext

\* The blank screen is a blank roll.
LEMMA FirstRoll ==
    ASSUME Init, dims = OneSize PROVE Paper!Init
<1> DEFINE blank == BlankLine(Width)
<1>1. /\ TypeOK /\ sb = <<>> /\ curRow = 0 /\ curCol = 0
      /\ Len(sb) = 0 /\ cells = BlankGrid(cols, rows, DefaultBlank)
  BY InitType DEF Init
<1>2. cols = Width /\ rows = Height /\ Height \in Nat /\ Width \in Nat
  BY <1>1, OneSizeIs
<1>3. RollIs(Roll, sb, cells)
  BY <1>1, RollIsRead
<1>4. Paper!Blank = Ch(blank)
  BY <1>2 DEF Paper!Blank, Width, Ch, BlankLine, DefaultBlank, BlankIn
<1>5. \A r \in 0 .. Height - 1 : cells[r] = blank
  BY <1>1, <1>2 DEF BlankGrid, BlankLine
<1> HIDE DEF blank
<1>6. Roll \in Seq(Texts) /\ Len(Roll) = Height
  BY <1>1, <1>2, <1>3 DEF RollIs
<1>7. ASSUME NEW i \in 1 .. Height PROVE Roll[i] = Paper!Blank
  <2>1. i - 1 \in 0 .. Height - 1 /\ Len(sb) + 1 + (i - 1) = i
    BY <1>1, <1>2
  <2>2. Roll[Len(sb) + 1 + (i - 1)] = Ch(cells[i - 1])
    BY <1>3, <2>1 DEF RollIs
  <2> QED BY <1>4, <1>5, <2>1, <2>2
<1>8. Roll = [i \in 1 .. Height |-> Paper!Blank]
  BY <1>2, <1>6, <1>7
<1> QED BY <1>1, <1>8 DEF Paper!Init, Height

\* PrintsOnARoll: to a program that only prints and moves the cursor, the
\* screen, its wrapping cursor and its scrollback implement the teletype, for
\* every window, every capacity of the scrollback and every set of glyphs.
THEOREM PrintsOnARoll == PrintingSpec => IsTeletype
<1>1. Init /\ dims = OneSize => Paper!Init
  BY FirstRoll
<1>2. PrintInv /\ PrintInv' /\ RollRead /\ RollRead'
         /\ [PrintNext]_<<vars, ringVars>>
      => [Paper!Next]_<<Roll, curRow, curCol>>
  BY PaperStep
<1> QED
  BY <1>1, <1>2, PrintInvHolds, RollReads, PTL
     DEF PrintingSpec, IsTeletype, Paper!Spec
-----------------------------------------------------------------------------
(***************************************************************************)
(* The mouse.  Until the pointer strays, both ends of the selection are    *)
(* cells of the grid; a row between two such cells has no negative length. *)
(***************************************************************************)
USE DEF drag, texts

Ends == from \in Nat \X Nat /\ to \in Nat \X Nat
OnGrid(q) == q[1] < rows /\ q[2] < cols
Positive == cols \in Nat \ {0} /\ rows \in Nat \ {0}

DragInv ==
    /\ Positive /\ Ends
    /\ dragging /\ ~strayed => OnGrid(from) /\ OnGrid(to)

LEMMA SizeOfWindow ==
    ASSUME NEW w \in Windows
    PROVE GridFor(w)[1] \in Nat \ {0} /\ GridFor(w)[2] \in Nat \ {0}
<1>1. GridFor(w) \in Sizes
  BY WindowsAssumption
<1> QED BY <1>1, SizesAssumption

LEMMA CellOfPixel ==
    ASSUME NEW p \in Pixels PROVE PixelToCell(p) \in Nat \X Nat
<1>1. p[1] \in Int /\ p[2] \in Int
  BY WindowsAssumption
<1>2. p[1] \div GlyphW \in Int /\ p[2] \div GlyphH \in Int
  BY <1>1, GlyphSizeAssumption
<1> QED BY <1>2 DEF PixelToCell, AtLeast

\* A selection between two cells of the grid, in either direction.
LEMMA NoNegativeLine ==
    ASSUME Positive, NEW p \in Nat \X Nat, NEW q \in Nat \X Nat,
           OnGrid(p), OnGrid(q)
    PROVE ~SelectionPanics(p, q)
<1>1. CASE Before(p, q)
  BY <1>1 DEF SelectionPanics, SelectedRows, StartCol, EndCol, LastRow, First,
     Last, Before, AtMost, OnGrid, Positive
<1>2. CASE ~Before(p, q)
  BY <1>2 DEF SelectionPanics, SelectedRows, StartCol, EndCol, LastRow, First,
     Last, Before, AtMost, OnGrid, Positive
<1> QED BY <1>1, <1>2

\* Only a resize of the window changes the grid's size under a drag.
LEMMA OnlyResizes ==
    ASSUME [SelectionNext]_<<vars, selectionVars>>
    PROVE \/ UNCHANGED dims
          \/ /\ UNCHANGED drag /\ strayed'
             /\ \E w \in Windows : dims' = GridFor(w)
<1>1. ASSUME Dragging \/ Clipboard PROVE UNCHANGED dims
  BY <1>1 DEF Dragging, Press, Motion, Release, Clipboard, CopyKey, PasteKey,
     Paste, OtherAppCopies, MiddlePaste, vars
<1>2. ASSUME UserScrolls PROVE UNCHANGED dims
  BY <1>2 DEF UserScrolls, Wheel, ScrollKey, TypeText, ScrollBy, ScrollReset,
     ScrollTo
<1>3. ASSUME ShellPrints PROVE UNCHANGED dims
  BY <1>3 DEF ShellPrints, PutChar, PutInLine, PutWrapped, PutScrolled, LineFeed,
     LineFeedInside, LineFeedScroll, MoveTo, Fault
<1>4. ASSUME NEW w \in Windows, WindowResized(w)
      PROVE \/ UNCHANGED dims
            \/ UNCHANGED drag /\ strayed' /\ dims' = GridFor(w)
  <2>1. GridFor(w) = <<GridFor(w)[1], GridFor(w)[2]>>
    BY DEF GridFor
  <2> QED BY <1>4, <2>1 DEF WindowResized, Resize, vars
<1>5. ASSUME UNCHANGED <<vars, selectionVars>> PROVE UNCHANGED dims
  BY <1>5 DEF vars
<1> QED BY <1>1, <1>2, <1>3, <1>4, <1>5 DEF SelectionNext, ViewChanges

LEMMA DragStep ==
    ASSUME DragInv, [SelectionNext]_<<vars, selectionVars>> PROVE DragInv'
<1>1. Positive'
  BY OnlyResizes, SizeOfWindow DEF DragInv, Positive
<1>2. CASE UNCHANGED drag /\ strayed'
  BY <1>1, <1>2 DEF DragInv, Ends
<1>3. CASE UNCHANGED dims
  <2>1. ASSUME NEW p \in Pixels, Press(p) PROVE DragInv'
    BY <1>1, <1>3, <2>1, CellOfPixel DEF Press, DragInv, Ends, OnGrid, OverGrid
  <2>2. ASSUME NEW p \in Pixels, Motion(p) PROVE DragInv'
    BY <1>1, <1>3, <2>2, CellOfPixel DEF Motion, DragInv, Ends, OnGrid, OverGrid
  <2>3. CASE UNCHANGED <<from, to, strayed>> /\ (dragging' => dragging)
    BY <1>1, <1>3, <2>3 DEF DragInv, Ends, OnGrid
  <2>4. ASSUME Release PROVE UNCHANGED <<from, to, strayed>> /\ (dragging' => dragging)
    BY <2>4 DEF Release
  <2>5. ASSUME Clipboard PROVE UNCHANGED <<from, to, strayed, dragging>>
    BY <2>5 DEF Clipboard, CopyKey, PasteKey, Paste, OtherAppCopies, MiddlePaste
  <2>6. ASSUME ViewChanges
        PROVE UNCHANGED drag /\ (strayed' \/ UNCHANGED strayed)
    BY <2>6 DEF ViewChanges, UserScrolls, ShellPrints, WindowResized
  <2>7. CASE UNCHANGED <<vars, selectionVars>>
    BY <2>3, <2>7 DEF selectionVars
  <2> QED BY <1>2, <2>1, <2>2, <2>3, <2>4, <2>5, <2>6, <2>7
          DEF SelectionNext, Dragging
<1> QED BY <1>2, <1>3, OnlyResizes

CrashInv == DragInv /\ NoCrashOverTheGrid

LEMMA CrashStep ==
    ASSUME CrashInv, [SelectionNext]_<<vars, selectionVars>>
    PROVE NoCrashOverTheGrid'
<1>1. ASSUME Release PROVE crashed' = crashed \/ strayed'
  <2>1. CASE strayed
    BY <1>1, <2>1 DEF Release
  <2>2. CASE ~strayed
    <3>1. ~SelectionPanics(from, to)
      BY <1>1, <2>2, NoNegativeLine DEF Release, CrashInv, DragInv, Ends
    <3> QED BY <1>1, <3>1 DEF Release
  <2> QED BY <2>1, <2>2
<1>2. ASSUME SelectionNext, ~Release PROVE crashed' = crashed /\ ~crashed
  BY <1>2 DEF SelectionNext, Dragging, Press, Motion, Clipboard, CopyKey, PasteKey,
     Paste, OtherAppCopies, MiddlePaste, ViewChanges, UserScrolls, ShellPrints,
     WindowResized
<1>3. CASE UNCHANGED <<vars, selectionVars>>
  BY <1>3 DEF selectionVars, CrashInv, NoCrashOverTheGrid
<1>4. CASE SelectionNext
  BY <1>1, <1>2, <1>4 DEF SelectionNext, NoCrashOverTheGrid
<1> QED BY <1>3, <1>4

LEMMA CrashInvAtFirst ==
    Init /\ SelectionInit /\ dims = GridFor(window) => CrashInv
<1> SUFFICES ASSUME Init, SelectionInit PROVE CrashInv
  OBVIOUS
<1>1. Positive
  BY InitType, DimsPositive DEF Positive
<1> QED BY <1>1 DEF SelectionInit, CrashInv, DragInv, Ends, NoCrashOverTheGrid

\* CrashesOnlyOffTheGrid: for every size of cells and window and every path of
\* the pointer, releasing the button crashes the program only after the pointer
\* left the grid, or the grid was resized under the drag.
THEOREM CrashesOnlyOffTheGrid == SelectionSpec => []NoCrashOverTheGrid
<1>1. CrashInv /\ [SelectionNext]_<<vars, selectionVars>> => CrashInv'
  BY DragStep, CrashStep DEF CrashInv
<1>2. CrashInv => NoCrashOverTheGrid
  BY DEF CrashInv
<1> QED BY <1>1, <1>2, CrashInvAtFirst, PTL DEF SelectionSpec
-----------------------------------------------------------------------------
(***************************************************************************)
(* The clipboard: it holds the text copied last, unless storing that failed*)
(***************************************************************************)
ClipInv == ~doubtful /\ newest # NoText => clipboard = newest

LEMMA ClipStep ==
    ASSUME ClipInv, [SelectionNext]_<<vars, selectionVars>> PROVE ClipInv'
<1>1. ASSUME NEW text, StoreText(text) PROVE ClipInv'
  BY <1>1 DEF StoreText, ClipInv, NoText
<1>2. ASSUME UNCHANGED <<clipboard, newest, doubtful>> PROVE ClipInv'
  BY <1>2 DEF ClipInv, NoText
<1>3. CASE Release
  BY <1>1, <1>2, <1>3 DEF Release
<1>4. CASE CopyKey
  BY <1>1, <1>4 DEF CopyKey
<1>5. CASE OtherAppCopies
  BY <1>5 DEF OtherAppCopies, ClipInv
<1>6. CASE UNCHANGED texts
  BY <1>2, <1>6
<1>7. ASSUME SelectionNext, ~(Release \/ CopyKey \/ OtherAppCopies)
      PROVE UNCHANGED texts
  BY <1>7 DEF SelectionNext, Dragging, Press, Motion, Clipboard, PasteKey, Paste,
     MiddlePaste, ViewChanges, UserScrolls, ShellPrints, WindowResized
<1>8. CASE UNCHANGED <<vars, selectionVars>>
  BY <1>6, <1>8 DEF selectionVars
<1> QED BY <1>3, <1>4, <1>5, <1>6, <1>7, <1>8

\* PastesTheFreshest: whatever is copied here or elsewhere in between, a paste
\* is of the last text copied, as long as the clipboard takes and gives texts.
THEOREM PastesTheFreshest == SelectionSpec => PasteIsFreshest
<1>1. SelectionInit => ClipInv
  BY DEF SelectionInit, ClipInv
<1>2. ClipInv /\ [SelectionNext]_<<vars, selectionVars>> => ClipInv'
  BY ClipStep
<1>3. ClipInv =>
      [Pastes /\ ~doubtful /\ newest # NoText => sent' = newest
         ]_<<vars, selectionVars>>
  BY DEF ClipInv, Pastes, MiddlePaste, PasteKey, Paste
<1> QED BY <1>1, <1>2, <1>3, PTL DEF SelectionSpec, PasteIsFreshest
-----------------------------------------------------------------------------
(***************************************************************************)
(* What is copied.  In a row of the selection the cells between the two    *)
(* ends in reading order are an interval of columns, the one selectedText  *)
(* computes the bounds of.                                                 *)
(***************************************************************************)
LEMMA HighlightIsInterval ==
    ASSUME Positive, Ends, from[1] < rows, to[1] < rows,
           NEW row \in SelectedRows(from, to)
    PROVE /\ HighlightedIn(row) = StartCol(from, to, row) .. EndCol(from, to, row)
          /\ StartCol(from, to, row) \in Nat /\ EndCol(from, to, row) \in Int
          /\ row \in Nat
<1>1. CASE Before(from, to)
  BY <1>1 DEF HighlightedIn, Between, SelectedRows, StartCol, EndCol, LastRow,
     First, Last, Before, AtMost, Positive, Ends
<1>2. CASE ~Before(from, to)
  BY <1>2 DEF HighlightedIn, Between, SelectedRows, StartCol, EndCol, LastRow,
     First, Last, Before, AtMost, Positive, Ends
<1> QED BY <1>1, <1>2

LEMMA MinOfInterval ==
    ASSUME NEW a \in Int, NEW b \in Int, a <= b PROVE Min(a .. b) = a
<1>1. /\ a \in a .. b /\ \A y \in a .. b : a <= y
      /\ \A x \in a .. b : (\A y \in a .. b : x <= y) => x = a
  OBVIOUS
<1> QED BY ONLY <1>1 DEF Min

LEMMA MaxOfInterval ==
    ASSUME NEW a \in Int, NEW b \in Int, a <= b PROVE Max(a .. b) = b
<1>1. /\ b \in a .. b /\ \A y \in a .. b : b >= y
      /\ \A x \in a .. b : (\A y \in a .. b : x >= y) => x = b
  OBVIOUS
<1> QED BY ONLY <1>1 DEF Max

LEMMA NothingToTrim == TrimRight(<<>>) = <<>>
<1>1. {k \in DOMAIN << >> : (<< >>)[k] # Space} = {}
  OBVIOUS
<1>2. {0} \union {k \in DOMAIN << >> : (<< >>)[k] # Space} = 0 .. 0
  BY <1>1
<1>3. Max({0} \union {k \in DOMAIN << >> : (<< >>)[k] # Space}) = 0
  BY <1>2, MaxOfInterval
<1>4. TrimRight(<<>>) = SubSeq(<<>>, 1, 0)
  BY <1>3 DEF TrimRight
<1> QED BY <1>4

LEMMA RowIsCopied ==
    ASSUME Positive, Ends, from[1] < rows, to[1] < rows,
           NEW row \in SelectedRows(from, to),
           StartCol(from, to, row) <= EndCol(from, to, row) + 1
    PROVE TextOfRow(from, to, row) = LineOfHighlight(row)
<1> DEFINE s == StartCol(from, to, row)
           e == EndCol(from, to, row)
           js == HighlightedIn(row)
           shown == View[row]
<1>1. js = s .. e /\ s \in Nat /\ e \in Int /\ s <= e + 1
  BY HighlightIsInterval
<1>2. TextOfRow(from, to, row)
         = TrimRight([k \in 1 .. e - s + 1 |-> shown[s + k - 1].ch])
  BY DEF TextOfRow
<1>3. LineOfHighlight(row)
         = IF js = {} THEN <<>>
           ELSE TrimRight([k \in 1 .. Cardinality(js) |->
                              shown[Min(js) + k - 1].ch])
  BY DEF LineOfHighlight
<1> HIDE DEF s, e, js, shown
<1>4. CASE s <= e
  <2>1. js # {} /\ Min(js) = s
    BY <1>1, <1>4, MinOfInterval
  <2>2. Cardinality(js) = e - s + 1
    BY <1>1, <1>4, FS_Interval
  <2> QED BY <1>2, <1>3, <2>1, <2>2
<1>5. CASE s = e + 1
  <2>1. js = {} /\ 1 .. e - s + 1 = {}
    BY <1>1, <1>5
  <2>2. [k \in 1 .. e - s + 1 |-> shown[s + k - 1].ch] = <<>>
    BY <2>1
  <2> QED BY <1>2, <1>3, <2>1, <2>2, NothingToTrim
<1> QED BY <1>1, <1>4, <1>5

LEMMA ReleaseCopies ==
    ASSUME Positive, Ends, Copied, {from[1], to[1]} \subseteq Rows
    PROVE LET top == Min({from[1], to[1]})  bottom == Max({from[1], to[1]})
          IN lastSelected' =
                [i \in 1 .. bottom - top + 1 |-> LineOfHighlight(top + i - 1)]
<1> DEFINE top == First(from, to)[1]
           bottom == LastRow(from, to)
<1>1. /\ from[1] \in Nat /\ to[1] \in Nat /\ from[1] < rows /\ to[1] < rows
      /\ rows \in Nat
  BY DEF Ends, Rows, Positive
<1>2. /\ top \in Nat /\ bottom \in Nat /\ top <= bottom
      /\ {from[1], to[1]} = {top, bottom}
  <2>1. CASE Before(from, to)
    BY <1>1, <2>1 DEF First, Last, LastRow, Before, AtMost
  <2>2. CASE ~Before(from, to)
    BY <1>1, <2>2 DEF First, Last, LastRow, Before, AtMost
  <2> QED BY <2>1, <2>2
<1>3. SelectedRows(from, to) = top .. bottom
  BY DEF SelectedRows
<1>4. ~SelectionPanics(from, to) /\ lastSelected' = SelectedText(from, to)
  BY DEF Copied, Release
<1>5. SelectedText(from, to) =
         [i \in 1 .. bottom - top + 1 |-> TextOfRow(from, to, top + i - 1)]
  BY <1>2, <1>3 DEF SelectedText
<1> HIDE DEF top, bottom
<1>6. \A i \in 1 .. bottom - top + 1 :
         TextOfRow(from, to, top + i - 1) = LineOfHighlight(top + i - 1)
  <2> TAKE i \in 1 .. bottom - top + 1
  <2> DEFINE row == top + i - 1
  <2>1. row \in SelectedRows(from, to)
    BY <1>2, <1>3
  <2>2. /\ StartCol(from, to, row) \in Nat /\ EndCol(from, to, row) \in Int
        /\ ~(StartCol(from, to, row) > EndCol(from, to, row) + 1)
    BY <1>1, <1>4, <2>1, HighlightIsInterval DEF SelectionPanics
  <2> HIDE DEF row
  <2>3. TextOfRow(from, to, row) = LineOfHighlight(row)
    BY <1>1, <2>1, <2>2, RowIsCopied
  <2> QED BY <2>3 DEF row
<1>7. Min({top, bottom}) = top /\ Max({top, bottom}) = bottom
  <2>1. /\ top \in {top, bottom} /\ \A y \in {top, bottom} : top <= y
        /\ \A x \in {top, bottom} : (\A y \in {top, bottom} : x <= y) => x = top
    BY <1>2
  <2>2. /\ bottom \in {top, bottom} /\ \A y \in {top, bottom} : bottom >= y
        /\ \A x \in {top, bottom} : (\A y \in {top, bottom} : x >= y) => x = bottom
    BY <1>2
  <2>3. Min({top, bottom}) = top
    BY ONLY <2>1 DEF Min
  <2>4. Max({top, bottom}) = bottom
    BY ONLY <2>2 DEF Max
  <2> QED BY <2>3, <2>4
<1>8. lastSelected' =
         [i \in 1 .. bottom - top + 1 |-> LineOfHighlight(top + i - 1)]
  BY <1>4, <1>5, <1>6
<1> QED BY <1>2, <1>7, <1>8

\* CopiesWhatIsShown: for every window, every path of the pointer and whatever
\* the shell and the user do meanwhile, what the button's release copies is the
\* highlighted cells of the view, line by line.
THEOREM CopiesWhatIsShown == SelectionSpec => CopiesTheHighlight
<1>1. CrashInv /\ [SelectionNext]_<<vars, selectionVars>> => CrashInv'
  BY DragStep, CrashStep DEF CrashInv
<1>2. CrashInv =>
        [Copied /\ {from[1], to[1]} \subseteq Rows =>
          LET top == Min({from[1], to[1]})  bottom == Max({from[1], to[1]}) IN
          lastSelected' =
              [i \in 1 .. bottom - top + 1 |-> LineOfHighlight(top + i - 1)]
        ]_<<vars, selectionVars>>
  BY ReleaseCopies DEF CrashInv, DragInv
<1> QED BY <1>1, <1>2, CrashInvAtFirst, PTL DEF SelectionSpec, CopiesTheHighlight
==============================================================================
