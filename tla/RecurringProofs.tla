---------------------------- MODULE RecurringProofs ----------------------------
(***************************************************************************)
(* The results of recurring commands are handed out once, for any buffer   *)
(* size and any commands, with pushes that overlap each other and the      *)
(* retrieval.                                                              *)
(***************************************************************************)
EXTENDS RecurringCommands, SequenceTheorems, WellFoundedInduction, TLAPS

(* The local variables of the goroutines.                                  *)
LoopShape ==
  \E p, t, b, u : loop = [pc |-> p, todo |-> t, pushing |-> b, push |-> u] /\ u \in PushType
TextShape == \E b, u : text = [pushing |-> b, push |-> u] /\ u \in PushType
GetterType ==
  [pc : {"idle", "reading"}, first : Slots, seen : 0 .. MaxResults, got : Seq(Elem)]
BufType == [Slots -> Elem \cup {Blank}]

RCTypeOK ==
  /\ LoopShape /\ TextShape
  /\ getter \in GetterType
  /\ buf \in BufType
  /\ counter \in Slots

(* An element is in one place: a slot of the buffer or a push in progress. *)
BufferInjective(b) == \A i, j \in Slots : i # j /\ b[i] # Blank => b[i] # b[j]
PushApart(b, p) == p.elem # Blank => \A i \in Slots : b[i] # p.elem
PushesApart(p, q) == p.elem # Blank => p.elem # q.elem

(* What has been gathered is in no slot still to be read.                  *)
GatheredOnce(g, b) ==
  /\ IsInjective(g.got)
  /\ \A n \in g.seen + 1 .. MaxResults : b[ReadOrder(g.first)[n]] \notin Range(g.got)
NotGathered(g, p) == p.elem \notin Range(g.got)

RCInv ==
  /\ RCTypeOK
  /\ BufferInjective(buf)
  /\ PushApart(buf, loop.push) /\ PushApart(buf, text.push) /\ PushesApart(loop.push, text.push)
  /\ GatheredOnce(getter, buf) /\ NotGathered(getter, loop.push) /\ NotGathered(getter, text.push)

-----------------------------------------------------------------------------
(* Constants.                                                              *)
LEMMA SlotFacts ==
  /\ MaxResults \in Nat \ {0}
  /\ Blank \notin Elem
  /\ 0 \in Slots
  /\ NoPush \in PushType /\ NoPush.elem = Blank
<1>1. MaxResults \in Nat \ {0}
  BY RecurringAssumption
<1>2. Blank \notin Elem
  BY <1>1 DEF Blank, Elem
<1>3. 0 \in Slots
  BY <1>1 DEF Slots
<1>4. NoPush \in PushType /\ NoPush.elem = Blank
  BY <1>3 DEF NoPush, PushType
<1> QED BY <1>1, <1>2, <1>3, <1>4

(* The second loop of IterateReverse begins where the first has ended, and *)
(* never gets to a slot that has been read.                                *)
LEMMA ReadOrderVisitsOnce ==
  ASSUME NEW first \in Slots
  PROVE  /\ \A n \in 1 .. MaxResults : ReadOrder(first)[n] \in Slots
         /\ \A m, n \in 1 .. MaxResults : m # n => ReadOrder(first)[m] # ReadOrder(first)[n]
BY SlotFacts DEF ReadOrder, Slots

(* One element more in front of a sequence without it.                     *)
LEMMA PrependOnce ==
  ASSUME NEW s \in Seq(Elem), NEW x \in Elem, IsInjective(s), x \notin Range(s)
  PROVE  /\ <<x>> \o s \in Seq(Elem)
         /\ IsInjective(<<x>> \o s)
         /\ Range(<<x>> \o s) = Range(s) \cup {x}
<1> DEFINE t == <<x>> \o s
<1>1. /\ t \in Seq(Elem) /\ Len(t) = Len(s) + 1 /\ t[1] = x /\ Len(s) \in Nat
      /\ \A i \in 1 .. Len(s) : t[i + 1] = s[i]
  OBVIOUS
<1>2. DOMAIN t = 1 .. Len(s) + 1 /\ DOMAIN s = 1 .. Len(s)
  BY <1>1
<1> HIDE DEF t
<1>3. \A j \in 1 .. Len(s) + 1 : j = 1 \/ (j - 1 \in 1 .. Len(s) /\ t[j] = s[j - 1])
  BY <1>1
<1>4. Range(t) = Range(s) \cup {x}
  <2>1. \A j \in DOMAIN t : t[j] \in Range(s) \cup {x}
    BY <1>1, <1>2, <1>3 DEF Range
  <2>2. \A i \in DOMAIN s : i + 1 \in DOMAIN t /\ t[i + 1] = s[i]
    BY <1>1, <1>2
  <2>3. 1 \in DOMAIN t /\ t[1] = x
    BY <1>1, <1>2
  <2> QED BY <2>1, <2>2, <2>3 DEF Range
<1>5. \A j \in 1 .. Len(s) + 1 : j # 1 => t[j] # x
  BY <1>2, <1>3 DEF Range
<1>6. ASSUME NEW i \in DOMAIN t, NEW j \in DOMAIN t, t[i] = t[j]
      PROVE  i = j
  <2>1. CASE i = 1 \/ j = 1
    BY <1>1, <1>2, <1>5, <1>6, <2>1
  <2>2. CASE i # 1 /\ j # 1
    <3>1. /\ i - 1 \in DOMAIN s /\ j - 1 \in DOMAIN s /\ s[i - 1] = s[j - 1]
          /\ i \in Int /\ j \in Int
      BY <1>2, <1>3, <1>6, <2>2
    <3>2. i - 1 = j - 1
      BY <3>1 DEF IsInjective
    <3> QED BY <3>1, <3>2
  <2> QED BY <2>1, <2>2
<1>7. IsInjective(t)
  BY <1>6 DEF IsInjective
<1> QED BY <1>1, <1>4, <1>7 DEF t

-----------------------------------------------------------------------------
(* A push that begins has an element that is nowhere else.                 *)
LEMMA NewPushIsApart ==
  ASSUME RCInv, NEW e \in Fresh \cup {Blank}
  PROVE  LET p == [slot |-> NextSlot, elem |-> e]
         IN  /\ p \in PushType
             /\ PushApart(buf, p) /\ PushesApart(loop.push, p) /\ PushesApart(p, loop.push)
             /\ PushesApart(text.push, p) /\ PushesApart(p, text.push) /\ NotGathered(getter, p)
<1> DEFINE p == [slot |-> NextSlot, elem |-> e]
<1>1. counter \in Slots /\ buf \in BufType /\ getter.got \in Seq(Elem)
  BY DEF RCInv, RCTypeOK, GetterType
<1>2. NextSlot \in Slots
  BY <1>1, SlotFacts DEF NextSlot, Slots
<1>3. e # Blank => e \in Elem /\ e \notin InUse
  BY DEF Fresh, Unused
<1>4. p \in PushType /\ p.elem = e
  BY <1>2, <1>3 DEF PushType
<1>5. /\ Range(buf) \subseteq InUse /\ Range(getter.got) \subseteq InUse
      /\ loop.push.elem \in InUse /\ text.push.elem \in InUse
  BY DEF InUse
<1>6. \A i \in Slots : buf[i] \in Range(buf)
  BY <1>1 DEF BufType, Range
<1>7. Blank \notin Range(getter.got)
  BY <1>1, SlotFacts DEF Range
<1> HIDE DEF p
<1>8. PushApart(buf, p)
  BY <1>3, <1>4, <1>5, <1>6 DEF PushApart
<1>9. /\ PushesApart(loop.push, p) /\ PushesApart(p, loop.push)
      /\ PushesApart(text.push, p) /\ PushesApart(p, text.push)
  BY <1>3, <1>4, <1>5 DEF PushesApart
<1>10. NotGathered(getter, p)
  BY <1>3, <1>4, <1>5, <1>7 DEF NotGathered
<1> QED BY <1>4, <1>8, <1>9, <1>10 DEF p

(* A push that ends moves its element to a slot.                           *)
LEMMA StoredIsApart ==
  ASSUME RCInv, NEW p \in PushType, NEW q \in PushType, PushApart(buf, p), PushApart(buf, q),
         PushesApart(p, q), NotGathered(getter, p), PushEnd(p)
  PROVE  /\ buf' \in BufType
         /\ BufferInjective(buf') /\ PushApart(buf', q) /\ GatheredOnce(getter, buf')
<1>1. buf \in BufType /\ getter \in GetterType
  BY DEF RCInv, RCTypeOK
<1>2. p.slot \in Slots /\ p.elem \in Elem \cup {Blank}
  BY DEF PushType
<1>3. buf' \in BufType /\ \A i \in Slots : buf'[i] = IF i = p.slot THEN p.elem ELSE buf[i]
  BY <1>1, <1>2 DEF PushEnd, BufType
<1>4. BufferInjective(buf')
  BY <1>3 DEF RCInv, BufferInjective, PushApart
<1>5. PushApart(buf', q)
  BY <1>3 DEF PushApart, PushesApart
<1>6. \A n \in 1 .. MaxResults : ReadOrder(getter.first)[n] \in Slots
  BY <1>1, ReadOrderVisitsOnce DEF GetterType
<1>7. \A n \in getter.seen + 1 .. MaxResults : n \in 1 .. MaxResults
  BY <1>1, SlotFacts DEF GetterType
<1>8. GatheredOnce(getter, buf')
  BY <1>3, <1>6, <1>7 DEF RCInv, GatheredOnce, NotGathered
<1> QED BY <1>3, <1>4, <1>5, <1>8

LEMMA RunCommandKeeps == RCInv /\ RunCommand => RCInv'
<1> SUFFICES ASSUME RCInv, RunCommand PROVE RCInv'
  OBVIOUS
<1>1. PICK e \in Fresh \cup {Blank} :
        /\ loop' = [loop EXCEPT !.pushing = TRUE, !.push = [slot |-> NextSlot, elem |-> e]]
        /\ counter' = NextSlot
  BY DEF RunCommand, PushBegin
<1>2. UNCHANGED <<buf, text, getter>>
  BY DEF RunCommand, PushBegin
<1> DEFINE p == [slot |-> NextSlot, elem |-> e]
<1>3. /\ p \in PushType
      /\ PushApart(buf, p) /\ PushesApart(p, text.push) /\ NotGathered(getter, p)
  BY NewPushIsApart
<1>4. loop' = [loop EXCEPT !.pushing = TRUE, !.push = p]
  BY <1>1
<1>5. counter' \in Slots
  BY <1>1, <1>3 DEF PushType
<1> HIDE DEF p
<1>6. loop'.push = p /\ LoopShape'
  BY <1>3, <1>4 DEF RCInv, RCTypeOK, LoopShape
<1>7. RCTypeOK'
  BY <1>2, <1>5, <1>6 DEF RCInv, RCTypeOK, TextShape
<1> QED BY <1>2, <1>3, <1>6, <1>7 DEF RCInv

LEMMA StoreResultKeeps == RCInv /\ StoreResult => RCInv'
<1> SUFFICES ASSUME RCInv, StoreResult PROVE RCInv'
  OBVIOUS
<1>1. /\ loop' = [loop EXCEPT !.pushing = FALSE, !.push = NoPush, !.todo = Tail(loop.todo)]
      /\ PushEnd(loop.push) /\ UNCHANGED <<text, getter, counter>>
  BY DEF StoreResult, PushEnd
<1>2. loop.push \in PushType /\ text.push \in PushType
  BY DEF RCInv, RCTypeOK, LoopShape, TextShape
<1>3. /\ buf' \in BufType
      /\ BufferInjective(buf') /\ PushApart(buf', text.push) /\ GatheredOnce(getter, buf')
  BY <1>1, <1>2, StoredIsApart DEF RCInv
<1>4. loop'.push = NoPush /\ LoopShape'
  BY <1>1, SlotFacts DEF RCInv, RCTypeOK, LoopShape
<1>5. PushApart(buf', NoPush) /\ PushesApart(NoPush, text.push)
  BY SlotFacts DEF PushApart, PushesApart
<1>6. getter.got \in Seq(Elem)
  BY DEF RCInv, RCTypeOK, GetterType
<1>7. NotGathered(getter, NoPush)
  BY <1>6, SlotFacts DEF NotGathered, Range
<1>8. RCTypeOK'
  BY <1>1, <1>3, <1>4 DEF RCInv, RCTypeOK, TextShape
<1> QED BY <1>1, <1>3, <1>4, <1>5, <1>7, <1>8 DEF RCInv

LEMMA AddTextKeeps == RCInv /\ AddArbitraryTextToResult => RCInv'
<1> SUFFICES ASSUME RCInv, AddArbitraryTextToResult PROVE RCInv'
  OBVIOUS
<1>1. PICK e \in Fresh \cup {Blank} :
        /\ text' = [pushing |-> TRUE, push |-> [slot |-> NextSlot, elem |-> e]]
        /\ counter' = NextSlot
  BY DEF AddArbitraryTextToResult, PushBegin
<1>2. UNCHANGED <<buf, loop, getter>>
  BY DEF AddArbitraryTextToResult, PushBegin
<1> DEFINE p == [slot |-> NextSlot, elem |-> e]
<1>3. /\ p \in PushType
      /\ PushApart(buf, p) /\ PushesApart(loop.push, p) /\ NotGathered(getter, p)
  BY NewPushIsApart
<1>4. text' = [pushing |-> TRUE, push |-> p]
  BY <1>1
<1>5. counter' \in Slots
  BY <1>1, <1>3 DEF PushType
<1> HIDE DEF p
<1>6. text'.push = p /\ TextShape'
  BY <1>3, <1>4 DEF TextShape
<1>7. RCTypeOK'
  BY <1>2, <1>5, <1>6 DEF RCInv, RCTypeOK, LoopShape
<1> QED BY <1>2, <1>3, <1>6, <1>7 DEF RCInv

LEMMA StoreTextKeeps == RCInv /\ StoreText => RCInv'
<1> SUFFICES ASSUME RCInv, StoreText PROVE RCInv'
  OBVIOUS
<1>1. /\ text' = [pushing |-> FALSE, push |-> NoPush]
      /\ PushEnd(text.push) /\ UNCHANGED <<loop, getter, counter>>
  BY DEF StoreText, PushEnd
<1>2. loop.push \in PushType /\ text.push \in PushType
  BY DEF RCInv, RCTypeOK, LoopShape, TextShape
<1>3. PushesApart(text.push, loop.push)
  BY DEF RCInv, PushesApart
<1>4. /\ buf' \in BufType
      /\ BufferInjective(buf') /\ PushApart(buf', loop.push) /\ GatheredOnce(getter, buf')
  BY <1>1, <1>2, <1>3, StoredIsApart DEF RCInv
<1>5. text'.push = NoPush /\ TextShape'
  BY <1>1, SlotFacts DEF TextShape
<1>6. PushApart(buf', NoPush) /\ PushesApart(loop.push, NoPush)
  BY SlotFacts DEF PushApart, PushesApart
<1>7. getter.got \in Seq(Elem)
  BY DEF RCInv, RCTypeOK, GetterType
<1>8. NotGathered(getter, NoPush)
  BY <1>7, SlotFacts DEF NotGathered, Range
<1>9. RCTypeOK'
  BY <1>1, <1>4, <1>5 DEF RCInv, RCTypeOK, LoopShape
<1> QED BY <1>1, <1>4, <1>5, <1>6, <1>8, <1>9 DEF RCInv

(* A slot is read: what is in it is in no slot that is read later.         *)
LEMMA ReadSlotKeeps == RCInv /\ ReadSlot => RCInv'
<1> SUFFICES ASSUME RCInv, ReadSlot PROVE RCInv'
  OBVIOUS
<1> DEFINE next == getter.seen + 1
           slot == ReadOrder(getter.first)[next]
           value == buf[slot]
<1>1. getter.seen < MaxResults /\ UNCHANGED <<buf, loop, text, counter>>
  BY DEF ReadSlot, ringVars
<1>2. /\ getter \in GetterType /\ getter.first \in Slots /\ getter.seen \in 0 .. MaxResults
      /\ getter.got \in Seq(Elem) /\ buf \in BufType
  BY DEF RCInv, RCTypeOK, GetterType
<1>3. next \in 1 .. MaxResults /\ next \in 0 .. MaxResults
  BY <1>1, <1>2, SlotFacts
<1>4. /\ \A n \in 1 .. MaxResults : ReadOrder(getter.first)[n] \in Slots
      /\ \A n \in next + 1 .. MaxResults : n \in 1 .. MaxResults /\ n # next
      /\ \A n \in next + 1 .. MaxResults : n \in getter.seen + 1 .. MaxResults
  BY <1>2, <1>3, SlotFacts, ReadOrderVisitsOnce
<1>5. slot \in Slots /\ value \in Elem \cup {Blank}
  BY <1>2, <1>3, <1>4 DEF BufType
<1>6. RCTypeOK' <=> getter' \in GetterType
  BY <1>1 DEF RCInv, RCTypeOK, LoopShape, TextShape
<1>7. CASE value = Blank /\ getter' = [getter EXCEPT !.seen = @ + 1]
  <2>1. /\ getter' \in GetterType /\ getter'.seen = next /\ getter'.got = getter.got
        /\ getter'.first = getter.first
    BY <1>2, <1>3, <1>7 DEF GetterType
  <2>2. GatheredOnce(getter', buf)
    BY <1>4, <2>1 DEF RCInv, GatheredOnce
  <2>3. NotGathered(getter', loop.push) /\ NotGathered(getter', text.push)
    BY <2>1 DEF RCInv, NotGathered
  <2> QED BY <1>1, <1>6, <2>1, <2>2, <2>3 DEF RCInv
<1>8. CASE value # Blank /\ getter' = [getter EXCEPT !.seen = @ + 1, !.got = <<value>> \o @]
  <2>0. value \in Elem
    BY <1>5, <1>8
  <2>1. value \notin Range(getter.got) /\ IsInjective(getter.got)
    <3>1. next \in getter.seen + 1 .. MaxResults
      BY <1>2, <1>3
    <3> QED BY <3>1 DEF RCInv, GatheredOnce
  <2>2. PICK more \in Seq(Elem) :
          /\ more = <<value>> \o getter.got
          /\ IsInjective(more) /\ Range(more) = Range(getter.got) \cup {value}
    <3>1. PICK v \in Elem : v = value
      BY <2>0
    <3>2. v \notin Range(getter.got) /\ IsInjective(getter.got)
      BY <2>1, <3>1
    <3> HIDE DEF value
    <3>3. /\ <<v>> \o getter.got \in Seq(Elem) /\ IsInjective(<<v>> \o getter.got)
          /\ Range(<<v>> \o getter.got) = Range(getter.got) \cup {v}
      BY <1>2, <3>2, PrependOnce
    <3> QED BY <3>1, <3>3
  <2>3. IsInjective(more) /\ Range(more) = Range(getter.got) \cup {value}
    BY <2>2
  <2>4. getter' = [getter EXCEPT !.seen = next, !.got = more]
    BY <1>8, <2>2
  <2>5. /\ getter' \in GetterType /\ getter'.seen = next /\ getter'.got = more
        /\ getter'.first = getter.first
    BY <1>2, <1>3, <2>4 DEF GetterType
  <2>6. ASSUME NEW n \in next + 1 .. MaxResults
        PROVE  buf[ReadOrder(getter.first)[n]] \notin Range(more)
    <3>1. ReadOrder(getter.first)[n] \in Slots /\ ReadOrder(getter.first)[n] # slot
      BY <1>2, <1>3, <1>4, ReadOrderVisitsOnce
    <3>2. buf[ReadOrder(getter.first)[n]] # value
      BY <1>5, <1>8, <3>1 DEF RCInv, BufferInjective
    <3>3. buf[ReadOrder(getter.first)[n]] \notin Range(getter.got)
      BY <1>4 DEF RCInv, GatheredOnce
    <3> QED BY <2>3, <3>2, <3>3
  <2>7. GatheredOnce(getter', buf)
    BY <2>3, <2>5, <2>6 DEF GatheredOnce
  <2>8. loop.push.elem # value /\ text.push.elem # value
    BY <1>5, <1>8 DEF RCInv, PushApart
  <2>9. NotGathered(getter', loop.push) /\ NotGathered(getter', text.push)
    BY <2>3, <2>5, <2>8 DEF RCInv, NotGathered
  <2> QED BY <1>1, <1>6, <2>5, <2>7, <2>9 DEF RCInv
<1> QED BY <1>7, <1>8 DEF ReadSlot

(* A retrieval begins with nothing gathered and every slot still to read.  *)
LEMMA NothingGathered ==
  ASSUME NEW g, g.got = <<>>, NEW b, NEW p
  PROVE  GatheredOnce(g, b) /\ NotGathered(g, p)
<1>1. Range(g.got) = {} /\ IsInjective(g.got)
  BY DEF Range, IsInjective
<1> QED BY <1>1 DEF GatheredOnce, NotGathered

LEMMA GetResultsKeeps == RCInv /\ GetResults => RCInv'
<1> SUFFICES ASSUME RCInv, GetResults PROVE RCInv'
  OBVIOUS
<1>1. getter' = [NotReading EXCEPT !.pc = "reading", !.first = counter]
  BY DEF GetResults
<1>2. UNCHANGED <<buf, loop, text, counter>>
  BY DEF GetResults
<1>3. counter \in Slots
  BY DEF RCInv, RCTypeOK
<1>4. getter' \in GetterType /\ getter'.got = <<>>
  <2>1. getter' = [pc |-> "reading", first |-> counter, seen |-> 0, got |-> <<>>]
    BY <1>1 DEF NotReading
  <2>2. 0 \in 0 .. MaxResults /\ <<>> \in Seq(Elem)
    BY SlotFacts
  <2> QED BY <1>3, <2>1, <2>2 DEF GetterType
<1>5. GatheredOnce(getter', buf) /\ NotGathered(getter', loop.push) /\ NotGathered(getter', text.push)
  BY <1>4, NothingGathered
<1>6. RCTypeOK'
  BY <1>2, <1>4 DEF RCInv, RCTypeOK, LoopShape, TextShape
<1> QED BY <1>2, <1>5, <1>6 DEF RCInv

LEMMA ClearAndReturnKeeps == RCInv /\ ClearAndReturn => RCInv'
<1> SUFFICES ASSUME RCInv, ClearAndReturn PROVE RCInv'
  OBVIOUS
<1>1. getter' = NotReading /\ buf' = [i \in Slots |-> Blank]
  BY DEF ClearAndReturn
<1>2. UNCHANGED <<loop, text, counter>>
  BY DEF ClearAndReturn
<1>3. getter' \in GetterType /\ getter'.got = <<>>
  BY <1>1, SlotFacts DEF NotReading, GetterType
<1>4. /\ GatheredOnce(getter', buf')
      /\ NotGathered(getter', loop.push) /\ NotGathered(getter', text.push)
  BY <1>3, NothingGathered
<1>5. buf' \in BufType /\ BufferInjective(buf')
  BY <1>1 DEF BufType, BufferInjective
<1>6. PushApart(buf', loop.push) /\ PushApart(buf', text.push)
  BY <1>1 DEF PushApart
<1>7. RCTypeOK'
  BY <1>2, <1>3, <1>5 DEF RCInv, RCTypeOK, LoopShape, TextShape
<1> QED BY <1>2, <1>4, <1>5, <1>6, <1>7 DEF RCInv

(* The other steps leave the buffer and the pushes as they are.            *)
LEMMA OtherStepsKeep ==
  ASSUME RCInv, UNCHANGED <<buf, text, getter, counter>>,
         \/ loop' = loop
         \/ \E p : loop' = [loop EXCEPT !.pc = p]
         \/ \E p, t : loop' = [loop EXCEPT !.pc = p, !.todo = t]
  PROVE  RCInv'
<1>0. PICK p, t, b, u : loop = [pc |-> p, todo |-> t, pushing |-> b, push |-> u] /\ u \in PushType
  BY DEF RCInv, RCTypeOK, LoopShape
<1>1. \E q, s : loop' = [pc |-> q, todo |-> s, pushing |-> b, push |-> u]
  <2>1. CASE loop' = loop
    BY <1>0, <2>1
  <2>2. CASE \E q : loop' = [loop EXCEPT !.pc = q]
    BY <1>0, <2>2
  <2>3. CASE \E q, s : loop' = [loop EXCEPT !.pc = q, !.todo = s]
    BY <1>0, <2>3
  <2> QED BY <2>1, <2>2, <2>3
<1>2. loop'.push = loop.push
  BY <1>0, <1>1
<1>3. LoopShape'
  BY <1>0, <1>1 DEF LoopShape
<1>4. RCTypeOK'
  BY <1>3 DEF RCInv, RCTypeOK, TextShape
<1> QED BY <1>2, <1>4 DEF RCInv

LEMMA RCInitial == Init => RCInv
<1> SUFFICES ASSUME Init PROVE RCInv
  OBVIOUS
<1>1. /\ loop = [pc |-> "new", todo |-> <<>>, pushing |-> FALSE, push |-> NoPush]
      /\ text = [pushing |-> FALSE, push |-> NoPush]
      /\ getter = NotReading /\ counter = 0 /\ buf = [i \in Slots |-> Blank]
  BY DEF Init
<1>2. LoopShape /\ TextShape /\ loop.push = NoPush /\ text.push = NoPush
  BY <1>1, SlotFacts DEF LoopShape, TextShape
<1>3. getter \in GetterType /\ getter.got = <<>>
  BY <1>1, SlotFacts DEF NotReading, GetterType
<1>4. buf \in BufType /\ BufferInjective(buf) /\ counter \in Slots
  BY <1>1, SlotFacts DEF BufType, BufferInjective
<1>5. /\ PushApart(buf, loop.push) /\ PushApart(buf, text.push)
      /\ PushesApart(loop.push, text.push)
  BY <1>2, SlotFacts DEF PushApart, PushesApart
<1>6. /\ GatheredOnce(getter, buf)
      /\ NotGathered(getter, loop.push) /\ NotGathered(getter, text.push)
  BY <1>3, NothingGathered
<1> QED BY <1>2, <1>3, <1>4, <1>5, <1>6 DEF RCInv, RCTypeOK

LEMMA RCPreserved == RCInv /\ [Next]_vars => RCInv'
<1> SUFFICES ASSUME RCInv, [Next]_vars PROVE RCInv'
  OBVIOUS
<1>1. CASE Handle
  <2>1. CASE AddArbitraryTextToResult
    BY <2>1, AddTextKeeps
  <2>2. CASE GetResults
    BY <2>2, GetResultsKeeps
  <2>3. CASE ClearTransientCommands \/ \E cmd \in Transient : AddTransientCommand(cmd)
    BY <2>3, OtherStepsKeep DEF ClearTransientCommands, AddTransientCommand, ringVars
  <2> QED BY <1>1, <2>1, <2>2, <2>3 DEF Handle
<1>2. CASE LoopStep
  <2>1. CASE RunCommand
    BY <2>1, RunCommandKeeps
  <2>2. CASE StoreResult
    BY <2>2, StoreResultKeeps
  <2>3. CASE LoopTop \/ EndOfRound
    BY <2>3, OtherStepsKeep DEF LoopTop, EndOfRound, ringVars
  <2>4. CASE TimerFires
    BY <2>4, OtherStepsKeep DEF TimerFires, ringVars
  <2> QED BY <1>2, <2>1, <2>2, <2>3, <2>4 DEF LoopStep
<1>3. CASE LockedStep
  <2>1. CASE Start
    BY <2>1, OtherStepsKeep DEF Start, ringVars
  <2>2. CASE CopyTransientCommands
    BY <2>2, OtherStepsKeep DEF CopyTransientCommands, ringVars
  <2> QED BY <1>3, <2>1, <2>2 DEF LockedStep
<1>4. CASE StoreText
  BY <1>4, StoreTextKeeps
<1>5. CASE ReadSlot
  BY <1>5, ReadSlotKeeps
<1>6. CASE ClearAndReturn
  BY <1>6, ClearAndReturnKeeps
<1>7. CASE Stop
  BY <1>7, OtherStepsKeep DEF Stop, ringVars
<1>8. CASE ReceiveStop
  BY <1>8, OtherStepsKeep DEF ReceiveStop, ringVars
<1>9. CASE StopEnds
  BY <1>9, OtherStepsKeep DEF StopEnds, ringVars
<1>10. CASE UNCHANGED vars
  BY <1>10, OtherStepsKeep DEF vars, ringVars
<1> QED BY <1>1, <1>2, <1>3, <1>4, <1>5, <1>6, <1>7, <1>8, <1>9, <1>10 DEF Next

-----------------------------------------------------------------------------
(* Only the return of GetResults ends a retrieval.                         *)
LEMMA OnlyReturnEndsRetrieval ==
  ASSUME Next, getter.pc = "reading", getter'.pc = "idle", RCTypeOK
  PROVE  ClearAndReturn
<1>1. getter \in GetterType
  BY DEF RCTypeOK
<1>2. getter' # getter
  OBVIOUS
<1>3. ~ReadSlot
  <2> SUFFICES ASSUME ReadSlot PROVE FALSE
    OBVIOUS
  <2>1. \/ getter' = [getter EXCEPT !.seen = @ + 1]
        \/ \E got : getter' = [getter EXCEPT !.seen = @ + 1, !.got = got]
    BY DEF ReadSlot
  <2>2. getter'.pc = getter.pc
    BY <1>1, <2>1 DEF GetterType
  <2> QED BY <2>2
<1>4. ~GetResults
  BY DEF GetResults
<1>5. /\ ~AddArbitraryTextToResult /\ ~ClearTransientCommands
      /\ \A cmd \in Transient : ~AddTransientCommand(cmd)
  BY <1>2 DEF AddArbitraryTextToResult, ClearTransientCommands, AddTransientCommand
<1>6. ~LoopStep
  BY <1>2 DEF LoopStep, LoopTop, TimerFires, RunCommand, StoreResult, EndOfRound
<1>7. ~LockedStep /\ ~StoreText /\ ~Stop /\ ~ReceiveStop /\ ~StopEnds
  BY <1>2 DEF LockedStep, Start, CopyTransientCommands, StoreText, Stop, ReceiveStop, StopEnds
<1> QED BY <1>3, <1>4, <1>5, <1>6, <1>7 DEF Next, Handle

(* For a ring buffer of any size and any recurring commands: what          *)
(* GetResults returns has no element twice, and none of it is left in the  *)
(* buffer or in a push that has begun (RingBuffer.Push, GetAll and Clear,  *)
(* which hold no lock against each other).                                 *)
THEOREM ResultsHandedOutOnce == Spec => HandedOutOnce
<1>1. ASSUME RCInv, [Next]_vars
      PROVE  [getter.pc = "reading" /\ getter'.pc = "idle" =>
                /\ IsInjective(getter.got)
                /\ Range(getter.got) \cap (Range(buf') \cup {loop.push.elem, text.push.elem}) = {}]_vars
  <2> SUFFICES ASSUME Next, getter.pc = "reading", getter'.pc = "idle"
               PROVE  /\ IsInjective(getter.got)
                      /\ Range(getter.got) \cap (Range(buf') \cup {loop.push.elem, text.push.elem}) = {}
    BY <1>1
  <2>1. ClearAndReturn
    BY <1>1, OnlyReturnEndsRetrieval DEF RCInv
  <2>2. \A e \in Range(buf') : e = Blank
    BY <2>1 DEF ClearAndReturn, Range
  <2>3. getter.got \in Seq(Elem)
    BY <1>1 DEF RCInv, RCTypeOK, GetterType
  <2>4. Blank \notin Range(getter.got)
    BY <2>3, SlotFacts DEF Range
  <2>5. loop.push.elem \notin Range(getter.got) /\ text.push.elem \notin Range(getter.got)
    BY <1>1 DEF RCInv, NotGathered
  <2>6. IsInjective(getter.got)
    BY <1>1 DEF RCInv, GatheredOnce
  <2> QED BY <2>2, <2>4, <2>5, <2>6
<1> QED BY <1>1, RCInitial, RCPreserved, PTL DEF Spec, HandedOutOnce

-----------------------------------------------------------------------------
(* The loop has returned when it has received what Stop sends, and nothing *)
(* starts it again: a round that had begun is over before Stop goes on.    *)
StopInv == stopper \in {"received", "stopped"} => loop.pc = "returned"

LEMMA StopInvInitial == Init => StopInv
BY DEF Init, StopInv

LEMMA StopInvPreserved == RCInv /\ StopInv /\ [Next]_vars => StopInv'
<1> SUFFICES ASSUME RCInv, StopInv, [Next]_vars PROVE StopInv'
  OBVIOUS
<1>0. LoopShape
  BY DEF RCInv, RCTypeOK
<1>1. CASE ReceiveStop
  BY <1>0, <1>1 DEF ReceiveStop, StopInv, LoopShape
<1>2. CASE LoopTop \/ TimerFires \/ EndOfRound \/ LockedStep
  BY <1>2 DEF LoopTop, TimerFires, EndOfRound, LockedStep, Start, CopyTransientCommands, StopInv
<1>3. CASE RunCommand
  <2>1. \E u : loop' = [loop EXCEPT !.pushing = TRUE, !.push = u]
    BY <1>3 DEF RunCommand
  <2>2. loop'.pc = loop.pc
    BY <1>0, <2>1 DEF LoopShape
  <2> QED BY <1>3, <2>2 DEF RunCommand, StopInv
<1>4. CASE StoreResult
  <2>1. \E t : loop' = [loop EXCEPT !.pushing = FALSE, !.push = NoPush, !.todo = t]
    BY <1>4 DEF StoreResult
  <2>2. loop'.pc = loop.pc
    BY <1>0, <2>1 DEF LoopShape
  <2> QED BY <1>4, <2>2 DEF StoreResult, StopInv
<1>5. CASE Stop
  BY <1>5 DEF Stop, StopInv
<1>6. CASE StopEnds
  BY <1>6 DEF StopEnds, StopInv
<1>7. CASE Handle \/ StoreText \/ ReadSlot \/ ClearAndReturn \/ UNCHANGED vars
  <2>1. UNCHANGED <<loop, stopper>>
    BY <1>7 DEF Handle, AddTransientCommand, ClearTransientCommands, AddArbitraryTextToResult,
                GetResults, StoreText, ReadSlot, ClearAndReturn, vars
  <2> QED BY <2>1 DEF StopInv
<1> QED BY <1>1, <1>2, <1>3, <1>4, <1>5, <1>6, <1>7 DEF Next, LoopStep

(* Once Stop has returned from stopping the loop, the loop has ended and   *)
(* runs no command, whatever it was about to do when Stop was called.      *)
THEOREM StoppedStaysQuiet == Spec => []QuietAfterStop
<1>1. StopInv => QuietAfterStop
  BY DEF StopInv, QuietAfterStop
<1> QED BY <1>1, RCInitial, RCPreserved, StopInvInitial, StopInvPreserved, PTL DEF Spec

-----------------------------------------------------------------------------
(* Types, in full.                                                         *)
Commands == Transient \cup Range(PreConfiguredCommands)
LoopPcs == {"new", "top", "select", "preconfigured", "transient", "returned"}
LoopType == [pc : LoopPcs, todo : Seq(Commands), pushing : BOOLEAN, push : PushType]
TextType == [pushing : BOOLEAN, push : PushType]
Values == Elem \cup {Blank}

(* Commands are left only within a round, and a result is pushed before    *)
(* its command is taken off.                                               *)
RoundShape ==
  /\ loop.todo # <<>> => loop.pc \in {"preconfigured", "transient"}
  /\ loop.pushing => loop.todo # <<>>

HistoryType == recent \in Seq(Values) /\ Len(recent) <= MaxResults /\ clean \in BOOLEAN

OrderTypes ==
  /\ transientCommands \in Seq(Transient) /\ Len(transientCommands) <= MaxTransient
  /\ running \in BOOLEAN /\ mutex \in {"free", "GetResults", "Stop"}
  /\ stopper \in {"idle", "sending", "received", "stopped", "ignored"}
  /\ loop \in LoopType /\ RoundShape
  /\ text \in TextType
  /\ Len(getter.got) <= getter.seen
  /\ HistoryType

LEMMA PreConfiguredTyped == PreConfiguredCommands \in Seq(Commands)
<1>1. PreConfiguredCommands \in Seq(STRING)
  BY RecurringAssumption
<1>2. \A i \in 1 .. Len(PreConfiguredCommands) : PreConfiguredCommands[i] \in Commands
  BY <1>1 DEF Commands, Range
<1>3. /\ Len(PreConfiguredCommands) \in Nat
      /\ PreConfiguredCommands = [i \in 1 .. Len(PreConfiguredCommands) |-> PreConfiguredCommands[i]]
  BY <1>1
<1> QED BY <1>2, <1>3

LEMMA Wider == \A s \in Seq(Transient) : s \in Seq(Commands)
<1> SUFFICES ASSUME NEW s \in Seq(Transient) PROVE s \in Seq(Commands)
  OBVIOUS
<1>1. Transient \subseteq Commands
  BY DEF Commands
<1> HIDE DEF Commands
<1> QED BY <1>1

(* One element more: the latest MaxResults of them are kept.               *)
LEMMA LatestOfMore ==
  ASSUME NEW S, NEW s \in Seq(S), Len(s) <= MaxResults, NEW e \in S
  PROVE  LET r == Latest(MaxResults, Append(s, e))
         IN  /\ r \in Seq(S) /\ Len(r) <= MaxResults
             /\ Len(r) = IF Len(s) = MaxResults THEN MaxResults ELSE Len(s) + 1
             /\ r # <<>> /\ r[Len(r)] = e
             /\ \A k \in 1 .. Len(r) - 1 : r[Len(r) - k] = s[Len(s) - (k - 1)]
<1> DEFINE a == Append(s, e)
           M == MaxResults
           r == Latest(M, a)
<1>0. M \in Nat /\ M > 0
  BY SlotFacts
<1>1. /\ a \in Seq(S) /\ Len(a) = Len(s) + 1 /\ Len(s) \in Nat /\ a[Len(s) + 1] = e
      /\ \A i \in 1 .. Len(s) : a[i] = s[i]
  OBVIOUS
<1> HIDE DEF a, M
<1>2. CASE Len(s) = M
  <2>1. r = SubSeq(a, 2, M + 1)
    BY <1>0, <1>1, <1>2 DEF Latest
  <2>2. r \in Seq(S) /\ Len(r) = M /\ \A i \in 1 .. M : r[i] = a[i + 1]
    BY <1>0, <1>1, <1>2, <2>1
  <2> HIDE DEF r
  <2>3. \A k \in 1 .. M - 1 : M - k \in 1 .. M /\ M - k + 1 \in 1 .. Len(s) /\ M - k + 1 = Len(s) - (k - 1)
    BY <1>0, <1>2
  <2>4. \A k \in 1 .. M - 1 : r[M - k] = s[Len(s) - (k - 1)]
    BY <1>1, <2>2, <2>3
  <2>5. r # <<>> /\ r[M] = e
    BY <1>0, <1>1, <1>2, <2>2
  <2> QED BY <1>0, <1>2, <2>2, <2>4, <2>5 DEF r, a, M
<1>3. CASE Len(s) < M
  <2>1. r = a
    BY <1>0, <1>1, <1>3 DEF Latest
  <2>2. \A k \in 1 .. Len(s) : a[Len(s) + 1 - k] = s[Len(s) - (k - 1)]
    BY <1>1
  <2>3. a # <<>>
    BY <1>1
  <2> QED BY <1>0, <1>1, <1>3, <2>1, <2>2, <2>3 DEF a, M
<1>4. Len(s) = M \/ Len(s) < M
  BY <1>0, <1>1 DEF M
<1> QED BY <1>2, <1>3, <1>4, Zenon

(* A push that begins alone is remembered; another one ends the history.   *)
Begins(e, othersPush) ==
  \/ /\ clean /\ ~othersPush /\ getter.pc = "idle" /\ clean' = TRUE
     /\ recent' = Latest(MaxResults, Append(recent, e))
  \/ clean' = FALSE /\ recent' = <<>>

LEMMA PushBegins ==
  ASSUME NEW e, NEW o, PushBegin(e, o)
  PROVE  counter' = NextSlot /\ buf' = buf /\ Begins(e, o)
BY DEF PushBegin, Begins

LEMMA RunCommandSays ==
  ASSUME RunCommand
  PROVE  \E e \in Fresh \cup {Blank} :
           /\ loop' = [loop EXCEPT !.pushing = TRUE, !.push = [slot |-> NextSlot, elem |-> e]]
           /\ PushBegin(e, text.pushing)
BY Zenon DEF RunCommand

LEMMA AddTextSays ==
  ASSUME AddArbitraryTextToResult
  PROVE  \E e \in Fresh :
           /\ text' = [pushing |-> TRUE, push |-> [slot |-> NextSlot, elem |-> e]]
           /\ PushBegin(e, loop.pushing)
BY Zenon DEF AddArbitraryTextToResult

LEMMA PushRemembered ==
  ASSUME HistoryType, NEW e \in Values, NEW o, Begins(e, o)
  PROVE  HistoryType'
<1>1. clean' \in BOOLEAN
  BY DEF Begins
<1>2. recent' = <<>> \/ recent' = Latest(MaxResults, Append(recent, e))
  BY DEF Begins
<1>3. CASE recent' = <<>>
  BY <1>1, <1>3, SlotFacts DEF HistoryType
<1>4. CASE recent' = Latest(MaxResults, Append(recent, e))
  <2>1. /\ Latest(MaxResults, Append(recent, e)) \in Seq(Values)
        /\ Len(Latest(MaxResults, Append(recent, e))) <= MaxResults
    BY LatestOfMore DEF HistoryType
  <2> QED BY <1>1, <1>4, <2>1 DEF HistoryType
<1> QED BY <1>2, <1>3, <1>4

LEMMA FreshIsElem == Fresh \subseteq Elem /\ Fresh \cup {Blank} \subseteq Values
BY DEF Fresh, Unused, Values

LEMMA NextSlotIs ==
  ASSUME counter \in Slots
  PROVE  NextSlot \in Slots /\ NextSlot = IF counter + 1 = MaxResults THEN 0 ELSE counter + 1
BY SlotFacts DEF NextSlot, Slots

LEMMA OrderTypesInitial == Init => OrderTypes
<1> SUFFICES ASSUME Init PROVE OrderTypes
  OBVIOUS
<1>1. loop = [pc |-> "new", todo |-> <<>>, pushing |-> FALSE, push |-> NoPush]
  BY DEF Init
<1>2. loop \in LoopType /\ RoundShape
  BY <1>1, SlotFacts DEF LoopType, LoopPcs, RoundShape
<1>3. text \in TextType
  BY SlotFacts DEF Init, TextType
<1>4. getter.got = <<>> /\ getter.seen = 0
  BY DEF Init, NotReading
<1>5. HistoryType
  BY SlotFacts DEF Init, HistoryType
<1>6. transientCommands \in Seq(Transient) /\ Len(transientCommands) <= MaxTransient
  BY RecurringAssumption DEF Init
<1>7. Len(getter.got) <= getter.seen
  BY <1>4
<1>8. running \in BOOLEAN /\ mutex = "free" /\ stopper = "idle"
  BY DEF Init
<1> QED BY <1>2, <1>3, <1>5, <1>6, <1>7, <1>8 DEF OrderTypes

(* The steps that change no more than the loop's place or the mutex.       *)
LEMMA LoopMovesTyped ==
  ASSUME RCInv, OrderTypes,
         UNCHANGED <<text, getter, recent, clean>>,
         \/ LoopTop \/ TimerFires \/ EndOfRound \/ LockedStep \/ ReceiveStop
  PROVE  OrderTypes'
<1>0. loop \in LoopType /\ RoundShape /\ loop.todo \in Seq(Commands)
  BY DEF OrderTypes, LoopType
<1>1. CASE LoopTop
  <2>1. loop'.todo = loop.todo /\ loop'.pushing = loop.pushing /\ loop' \in LoopType /\ loop.todo = <<>>
    BY <1>0, <1>1 DEF LoopTop, LoopType, LoopPcs, RoundShape
  <2> QED BY <1>0, <1>1, <2>1 DEF LoopTop, OrderTypes, RoundShape, HistoryType
<1>2. CASE TimerFires
  <2>0. loop' = [loop EXCEPT !.pc = "preconfigured", !.todo = PreConfiguredCommands] /\ ~loop.pushing
    BY <1>0, <1>2 DEF TimerFires, RoundShape
  <2>1. loop'.pc = "preconfigured" /\ ~loop'.pushing /\ loop' \in LoopType
    BY <1>0, <2>0, PreConfiguredTyped DEF LoopType, LoopPcs
  <2> QED BY <1>0, <1>2, <2>1 DEF TimerFires, OrderTypes, RoundShape, HistoryType
<1>3. CASE EndOfRound
  <2>1. loop'.todo = <<>> /\ loop'.pushing = loop.pushing /\ loop' \in LoopType
    BY <1>0, <1>3 DEF EndOfRound, LoopType, LoopPcs
  <2> QED BY <1>0, <1>3, <2>1 DEF EndOfRound, OrderTypes, RoundShape, HistoryType
<1>4. CASE LockedStep
  <2>1. CASE Start
    <3>1. loop'.todo = loop.todo /\ loop'.pushing = loop.pushing /\ loop' \in LoopType /\ loop.todo = <<>>
      BY <1>0, <2>1 DEF Start, LoopType, LoopPcs, RoundShape
    <3> QED BY <1>0, <2>1, <3>1 DEF Start, OrderTypes, RoundShape, HistoryType
  <2>2. CASE CopyTransientCommands
    <3>0. loop' = [loop EXCEPT !.pc = "transient", !.todo = transientCommands] /\ ~loop.pushing
      BY <1>0, <2>2 DEF CopyTransientCommands, RoundShape
    <3>1. transientCommands \in Seq(Commands)
      BY Wider DEF OrderTypes
    <3>2. loop'.pc = "transient" /\ ~loop'.pushing /\ loop' \in LoopType
      BY <1>0, <3>0, <3>1 DEF LoopType, LoopPcs
    <3> QED BY <1>0, <2>2, <3>2 DEF CopyTransientCommands, OrderTypes, RoundShape, HistoryType
  <2> QED BY <1>4, <2>1, <2>2 DEF LockedStep
<1>5. CASE ReceiveStop
  <2>1. loop'.todo = loop.todo /\ loop'.pushing = loop.pushing /\ loop' \in LoopType /\ loop.todo = <<>>
    BY <1>0, <1>5 DEF ReceiveStop, LoopType, LoopPcs, RoundShape
  <2> QED BY <1>0, <1>5, <2>1 DEF ReceiveStop, OrderTypes, RoundShape, HistoryType
<1> QED BY <1>1, <1>2, <1>3, <1>4, <1>5

LEMMA OrderTypesPreserved == RCInv /\ OrderTypes /\ [Next]_vars => OrderTypes'
<1> SUFFICES ASSUME RCInv, OrderTypes, [Next]_vars PROVE OrderTypes'
  OBVIOUS
<1>0. /\ loop \in LoopType /\ RoundShape /\ HistoryType /\ text \in TextType
      /\ getter \in GetterType /\ counter \in Slots /\ buf \in BufType
  BY DEF OrderTypes, RCInv, RCTypeOK
<1>1. CASE \E cmd \in Transient : AddTransientCommand(cmd)
  <2>1. UNCHANGED <<running, mutex, recent, clean, loop, text, getter, stopper>>
    BY <1>1 DEF AddTransientCommand, ringVars
  <2>2. PICK cmd \in Transient : /\ transientCommands' = Append(transientCommands, cmd)
                                /\ Len(transientCommands) < MaxTransient
    BY <1>1 DEF AddTransientCommand
  <2>3. transientCommands' \in Seq(Transient) /\ Len(transientCommands') <= MaxTransient
    BY <2>2, RecurringAssumption DEF OrderTypes
  <2> QED BY <2>1, <2>3 DEF OrderTypes, RoundShape, HistoryType
<1>2. CASE ClearTransientCommands
  <2>1. transientCommands' \in Seq(Transient) /\ Len(transientCommands') <= MaxTransient
    BY <1>2, RecurringAssumption DEF ClearTransientCommands
  <2> QED BY <1>2, <2>1 DEF ClearTransientCommands, ringVars, OrderTypes, RoundShape, HistoryType
<1>3. CASE LoopTop \/ TimerFires \/ EndOfRound \/ LockedStep \/ ReceiveStop
  <2>1. UNCHANGED <<text, getter, recent, clean>>
    BY <1>3 DEF LoopTop, TimerFires, EndOfRound, LockedStep, Start, CopyTransientCommands, ReceiveStop, ringVars
  <2> QED BY <1>3, <2>1, LoopMovesTyped
<1>4. CASE RunCommand
  <2>1. PICK e \in Fresh \cup {Blank} :
          /\ loop' = [loop EXCEPT !.pushing = TRUE, !.push = [slot |-> NextSlot, elem |-> e]]
          /\ PushBegin(e, text.pushing)
    BY <1>4, RunCommandSays, Zenon
  <2>2. e \in Values /\ Begins(e, text.pushing)
    BY <2>1, FreshIsElem, PushBegins
  <2>3. HistoryType'
    BY <1>0, <2>1, <2>2, PushRemembered
  <2>4. PICK p \in PushType : p = [slot |-> NextSlot, elem |-> e]
    BY <1>0, <2>2, NextSlotIs DEF PushType, Values
  <2>5. loop' = [loop EXCEPT !.pushing = TRUE, !.push = p]
    BY <2>1, <2>4
  <2>6. loop' \in LoopType /\ loop'.todo = loop.todo /\ loop'.pc = loop.pc /\ loop.todo # <<>>
    BY <1>0, <1>4, <2>5 DEF LoopType, RunCommand
  <2>7. RoundShape'
    BY <1>0, <2>6 DEF RoundShape
  <2> QED BY <1>4, <2>3, <2>6, <2>7 DEF RunCommand, OrderTypes
<1>5. CASE StoreResult
  <2>1. loop' = [loop EXCEPT !.pushing = FALSE, !.push = NoPush, !.todo = Tail(loop.todo)] /\ loop.pushing
    BY <1>5 DEF StoreResult
  <2>2. loop.todo # <<>> /\ loop.pc \in {"preconfigured", "transient"} /\ loop.todo \in Seq(Commands)
    BY <1>0, <2>1 DEF RoundShape, LoopType
  <2>3. PICK t \in Seq(Commands) : t = Tail(loop.todo)
    <3>1. PICK todo \in Seq(Commands) : todo = loop.todo
      BY <2>2
    <3>2. todo # <<>>
      BY <2>2, <3>1
    <3>3. Tail(todo) \in Seq(Commands)
      BY <3>2
    <3> QED BY <3>1, <3>3
  <2>4. loop' = [loop EXCEPT !.pushing = FALSE, !.push = NoPush, !.todo = t]
    BY <2>1, <2>3
  <2>5. loop' \in LoopType /\ ~loop'.pushing /\ loop'.pc = loop.pc
    BY <1>0, <2>4, SlotFacts DEF LoopType
  <2>6. RoundShape'
    BY <2>2, <2>5 DEF RoundShape
  <2> QED BY <1>5, <2>5, <2>6 DEF StoreResult, PushEnd, OrderTypes, HistoryType
<1>6. CASE AddArbitraryTextToResult
  <2>1. PICK e \in Fresh :
          /\ text' = [pushing |-> TRUE, push |-> [slot |-> NextSlot, elem |-> e]]
          /\ PushBegin(e, loop.pushing)
    BY <1>6, AddTextSays, Zenon
  <2>2. e \in Values /\ Begins(e, loop.pushing)
    BY <2>1, FreshIsElem, PushBegins
  <2>3. HistoryType'
    BY <1>0, <2>1, <2>2, PushRemembered
  <2>4. [slot |-> NextSlot, elem |-> e] \in PushType
    BY <1>0, <2>2, NextSlotIs DEF PushType, Values
  <2>5. text' \in TextType
    BY <2>1, <2>4 DEF TextType
  <2> QED BY <1>6, <2>3, <2>5 DEF AddArbitraryTextToResult, OrderTypes, RoundShape
<1>7. CASE StoreText
  <2>1. text' \in TextType
    BY <1>7, SlotFacts DEF StoreText, TextType
  <2> QED BY <1>7, <2>1 DEF StoreText, PushEnd, OrderTypes, RoundShape, HistoryType
<1>8. CASE GetResults
  <2>1. getter' = [NotReading EXCEPT !.pc = "reading", !.first = counter]
    BY <1>8 DEF GetResults
  <2>2. getter'.got = <<>> /\ getter'.seen = 0
    BY <2>1 DEF NotReading
  <2>3. HistoryType'
    <3>1. clean' \in BOOLEAN /\ (recent' = recent \/ recent' = <<>>)
      BY <1>8 DEF GetResults
    <3>2. CASE recent' = recent
      BY <1>0, <3>1, <3>2 DEF HistoryType
    <3>3. CASE recent' = <<>>
      BY <3>1, <3>3, SlotFacts DEF HistoryType
    <3> QED BY <3>1, <3>2, <3>3
  <2> QED BY <1>8, <2>2, <2>3 DEF GetResults, OrderTypes, RoundShape
<1>9. CASE ReadSlot
  <2>1. UNCHANGED <<transientCommands, running, mutex, recent, clean, loop, text, stopper>>
    BY <1>9 DEF ReadSlot, ringVars
  <2>2. /\ getter.seen \in 0 .. MaxResults /\ getter.got \in Seq(Elem) /\ Len(getter.got) <= getter.seen
        /\ getter.seen < MaxResults
    BY <1>0, <1>9 DEF GetterType, OrderTypes, ReadSlot
  <2>3. Len(getter'.got) <= getter'.seen
    <3> DEFINE value == buf[ReadOrder(getter.first)[getter.seen + 1]]
    <3>1. CASE getter' = [getter EXCEPT !.seen = @ + 1]
      <4>1. getter'.got = getter.got /\ getter'.seen = getter.seen + 1
        BY <1>0, <3>1 DEF GetterType
      <4> QED BY <2>2, <4>1, SlotFacts
    <3>2. CASE value # Blank /\ getter' = [getter EXCEPT !.seen = @ + 1, !.got = <<value>> \o @]
      <4>0. getter.seen + 1 \in 1 .. MaxResults
        BY <2>2, SlotFacts
      <4>1. value \in Elem
        BY <1>0, <3>2, <4>0, ReadOrderVisitsOnce DEF BufType, GetterType
      <4>2. PICK v \in Elem : v = value
        BY <4>1
      <4> HIDE DEF value
      <4>3. PICK more : more = <<v>> \o getter.got
        OBVIOUS
      <4>4. Len(more) = Len(getter.got) + 1
        BY <2>2, <4>3
      <4>5. getter' = [getter EXCEPT !.seen = @ + 1, !.got = more]
        BY <3>2, <4>2, <4>3
      <4>6. getter'.got = more /\ getter'.seen = getter.seen + 1
        BY <1>0, <4>5 DEF GetterType
      <4> QED BY <2>2, <4>4, <4>6, SlotFacts
    <3> QED BY <1>9, <3>1, <3>2 DEF ReadSlot
  <2> QED BY <2>1, <2>3 DEF OrderTypes, RoundShape, HistoryType
<1>10. CASE ClearAndReturn
  <2>1. getter'.got = <<>> /\ getter'.seen = 0
    BY <1>10 DEF ClearAndReturn, NotReading
  <2>2. HistoryType'
    BY <1>10, SlotFacts DEF ClearAndReturn, HistoryType
  <2> QED BY <1>10, <2>1, <2>2 DEF ClearAndReturn, OrderTypes, RoundShape
<1>11. CASE Stop \/ StopEnds
  BY <1>11 DEF Stop, StopEnds, ringVars, OrderTypes, RoundShape, HistoryType
<1>12. CASE UNCHANGED vars
  BY <1>12 DEF vars, ringVars, OrderTypes, RoundShape, HistoryType
<1> QED BY <1>1, <1>2, <1>3, <1>4, <1>5, <1>6, <1>7, <1>8, <1>9, <1>10, <1>11, <1>12
        DEF Next, Handle, LoopStep

-----------------------------------------------------------------------------
(* The slots that the pushes of late have gone to.                         *)

(* The slot of the element pushed k pushes ago.                            *)
Back(c, k) == ReadOrder(c)[k + 1]

LEMMA BackFacts ==
  ASSUME NEW c \in Slots
  PROVE  /\ Back(c, 0) = c
         /\ \A k \in 0 .. MaxResults - 1 : Back(c, k) \in Slots
         /\ \A j, k \in 0 .. MaxResults - 1 : j # k => Back(c, j) # Back(c, k)
<1>1. \A k \in 0 .. MaxResults - 1 :
        k + 1 \in 1 .. MaxResults /\ Back(c, k) = IF k <= c THEN c - k ELSE c - k + MaxResults
  BY SlotFacts DEF Back, ReadOrder, Slots
<1>2. 0 \in 0 .. MaxResults - 1
  BY SlotFacts
<1>3. \A k \in 0 .. MaxResults - 1 : Back(c, k) \in Slots
  BY <1>1, SlotFacts DEF Slots
<1>4. Back(c, 0) = c
  BY <1>1, <1>2, SlotFacts DEF Slots
<1>5. \A j, k \in 0 .. MaxResults - 1 : j # k => Back(c, j) # Back(c, k)
  BY <1>1, SlotFacts DEF Slots
<1> QED BY <1>3, <1>4, <1>5

(* One push more, and each is one further back.                            *)
LEMMA BackShifts ==
  ASSUME NEW c \in Slots, NEW d \in Slots, d = IF c + 1 = MaxResults THEN 0 ELSE c + 1
  PROVE  \A k \in 1 .. MaxResults - 1 : Back(d, k) = Back(c, k - 1)
<1>1. \A k \in 0 .. MaxResults - 1 :
        /\ Back(c, k) = IF k <= c THEN c - k ELSE c - k + MaxResults
        /\ Back(d, k) = IF k <= d THEN d - k ELSE d - k + MaxResults
  BY SlotFacts DEF Back, ReadOrder, Slots
<1> QED BY <1>1, SlotFacts DEF Slots

-----------------------------------------------------------------------------
(* The remainder of an element's number is its slot, so that each place    *)
(* holds at most one element of a slot.                                    *)
IsFor(e, slot) == e # Blank => e % MaxResults = slot

RecentFor(r, c) == \A k \in 0 .. Len(r) - 1 : IsFor(r[Len(r) - k], Back(c, k))

GotFor(g) ==
  /\ \A j \in DOMAIN g.got : \E n \in 1 .. g.seen : IsFor(g.got[j], ReadOrder(g.first)[n])
  /\ \A j, k \in DOMAIN g.got : g.got[j] % MaxResults = g.got[k] % MaxResults => j = k

ResidueInv ==
  /\ \A i \in Slots : IsFor(buf[i], i)
  /\ IsFor(loop.push.elem, loop.push.slot) /\ IsFor(text.push.elem, text.push.slot)
  /\ RecentFor(recent, counter)
  /\ GotFor(getter)

LEMMA NothingIsFor ==
  /\ \A slot : IsFor(Blank, slot)
  /\ \A c : RecentFor(<<>>, c)
  /\ \A g : g.got = <<>> => GotFor(g)
<1>1. \A slot : IsFor(Blank, slot)
  BY DEF IsFor
<1>2. \A c : RecentFor(<<>>, c)
  BY DEF RecentFor
<1>3. ASSUME NEW g, g.got = <<>> PROVE GotFor(g)
  <2>1. DOMAIN g.got = {}
    BY <1>3
  <2> QED BY <2>1 DEF GotFor
<1> QED BY <1>1, <1>2, <1>3

(* A push that begins is for the next slot, whether it is remembered or    *)
(* ends the history.                                                       *)
LEMMA BegunIsFor ==
  ASSUME RCInv, OrderTypes, ResidueInv, NEW e \in Fresh \cup {Blank}, NEW o, Begins(e, o),
         counter' = NextSlot
  PROVE  /\ IsFor(e, NextSlot)
         /\ RecentFor(recent', counter')
<1>1. IsFor(e, NextSlot)
  BY DEF Fresh, Unused, IsFor
<1>2. /\ counter \in Slots /\ counter' \in Slots
      /\ counter' = IF counter + 1 = MaxResults THEN 0 ELSE counter + 1
  BY NextSlotIs DEF RCInv, RCTypeOK
<1>3. CASE recent' = <<>>
  BY <1>1, <1>3, NothingIsFor
<1>4. CASE recent' = Latest(MaxResults, Append(recent, e))
  <2> DEFINE r == Latest(MaxResults, Append(recent, e))
  <2>1. /\ recent \in Seq(Values) /\ Len(recent) <= MaxResults /\ Len(recent) \in Nat /\ e \in Values
        /\ MaxResults \in Nat
    BY FreshIsElem, SlotFacts DEF OrderTypes, HistoryType
  <2>2. /\ Len(r) <= MaxResults
        /\ Len(r) = IF Len(recent) = MaxResults THEN MaxResults ELSE Len(recent) + 1
        /\ r[Len(r)] = e
        /\ \A k \in 1 .. Len(r) - 1 : r[Len(r) - k] = recent[Len(recent) - (k - 1)]
    BY <2>1, LatestOfMore
  <2> HIDE DEF r
  <2>3. ASSUME NEW k \in 0 .. Len(r) - 1
        PROVE  IsFor(r[Len(r) - k], Back(counter', k))
    <3>1. CASE k = 0
      <4>1. Len(r) \in Nat
        BY <2>1, <2>2
      <4>2. r[Len(r) - k] = e /\ Back(counter', k) = counter'
        BY <1>2, <2>2, <3>1, <4>1, BackFacts
      <4> QED BY <1>1, <4>2
    <3>2. CASE k # 0
      <4>1. k \in 1 .. Len(r) - 1 /\ k \in 1 .. MaxResults - 1 /\ k - 1 \in 0 .. Len(recent) - 1
        BY <2>1, <2>2, <3>2
      <4>2. Back(counter', k) = Back(counter, k - 1)
        BY <1>2, <4>1, BackShifts
      <4>3. IsFor(recent[Len(recent) - (k - 1)], Back(counter, k - 1))
        BY <4>1 DEF ResidueInv, RecentFor
      <4> QED BY <2>2, <4>1, <4>2, <4>3
    <3> QED BY <3>1, <3>2
  <2>4. \A k \in 0 .. Len(r) - 1 : IsFor(r[Len(r) - k], Back(counter', k))
    BY <2>3
  <2>5. recent' = r
    BY <1>4 DEF r
  <2>6. RecentFor(recent', counter')
    BY <2>4, <2>5 DEF RecentFor
  <2> QED BY <1>1, <2>6
<1> QED BY <1>1, <1>3, <1>4 DEF Begins

LEMMA ResidueInitial == Init => ResidueInv
<1> SUFFICES ASSUME Init PROVE ResidueInv
  OBVIOUS
<1>1. loop.push = NoPush /\ text.push = NoPush /\ getter = NotReading /\ recent = <<>>
  BY DEF Init
<1>2. getter.got = <<>>
  BY <1>1 DEF NotReading
<1>3. \A i \in Slots : buf[i] = Blank
  BY DEF Init
<1> QED BY <1>1, <1>2, <1>3, NothingIsFor, SlotFacts DEF ResidueInv

LEMMA ReadSlotResidue == RCInv /\ ResidueInv /\ ReadSlot => ResidueInv'
<1> SUFFICES ASSUME RCInv, ResidueInv, ReadSlot PROVE ResidueInv'
  OBVIOUS
<1> DEFINE next == getter.seen + 1
           slot == ReadOrder(getter.first)[next]
           value == buf[slot]
<1>1. UNCHANGED <<buf, loop, text, counter, recent>> /\ getter.seen < MaxResults
  BY DEF ReadSlot, ringVars
<1>2. /\ getter \in GetterType /\ getter.first \in Slots /\ getter.seen \in 0 .. MaxResults
      /\ getter.got \in Seq(Elem) /\ buf \in BufType
  BY DEF RCInv, RCTypeOK, GetterType
<1>3. next \in 1 .. MaxResults /\ getter.seen \in Nat /\ \A n \in 1 .. getter.seen : n \in 1 .. MaxResults /\ n \in 1 .. next /\ n # next
  BY <1>1, <1>2, SlotFacts
<1>4. /\ slot \in Slots
      /\ \A n \in 1 .. getter.seen : ReadOrder(getter.first)[n] # slot
  BY <1>2, <1>3, ReadOrderVisitsOnce
<1>5. GotFor(getter)
  BY DEF ResidueInv
<1>6. SUFFICES GotFor(getter')
  BY <1>1 DEF ResidueInv
<1>7. CASE getter' = [getter EXCEPT !.seen = @ + 1]
  <2>1. getter'.got = getter.got /\ getter'.seen = next /\ getter'.first = getter.first
    BY <1>2, <1>7 DEF GetterType
  <2> QED BY <1>3, <1>5, <2>1 DEF GotFor
<1>8. CASE value # Blank /\ getter' = [getter EXCEPT !.seen = @ + 1, !.got = <<value>> \o @]
  <2>1. value \in Elem /\ value % MaxResults = slot
    BY <1>2, <1>4, <1>8 DEF BufType, ResidueInv, IsFor
  <2>2. PICK v \in Elem : v = value
    BY <2>1
  <2>3. v % MaxResults = slot /\ getter' = [getter EXCEPT !.seen = @ + 1, !.got = <<v>> \o getter.got]
    BY <1>8, <2>1, <2>2
  <2> HIDE DEF value
  <2>4. PICK more : more = <<v>> \o getter.got
    OBVIOUS
  <2>5. /\ DOMAIN more = 1 .. Len(getter.got) + 1 /\ more[1] = v /\ Len(getter.got) \in Nat
        /\ DOMAIN getter.got = 1 .. Len(getter.got)
        /\ \A i \in 1 .. Len(getter.got) : more[i + 1] = getter.got[i]
    BY <1>2, <2>4
  <2>6. getter' = [getter EXCEPT !.seen = @ + 1, !.got = more]
    BY <2>3, <2>4
  <2>7. getter'.got = more /\ getter'.seen = next /\ getter'.first = getter.first
    BY <1>2, <2>6 DEF GetterType
  <2>8. \A j \in DOMAIN more : j = 1 \/ (j - 1 \in DOMAIN getter.got /\ more[j] = getter.got[j - 1])
    BY <2>5
  <2>9. \A j \in DOMAIN getter.got : getter.got[j] % MaxResults # slot
    <3> SUFFICES ASSUME NEW j \in DOMAIN getter.got PROVE getter.got[j] % MaxResults # slot
      OBVIOUS
    <3>1. getter.got[j] # Blank
      BY <1>2, SlotFacts
    <3>2. PICK n \in 1 .. getter.seen : IsFor(getter.got[j], ReadOrder(getter.first)[n])
      BY <1>5 DEF GotFor
    <3>3. getter.got[j] % MaxResults = ReadOrder(getter.first)[n]
      BY <3>1, <3>2 DEF IsFor
    <3> QED BY <1>4, <3>3
  <2>10. ASSUME NEW j \in DOMAIN more
         PROVE  \E n \in 1 .. next : IsFor(more[j], ReadOrder(getter.first)[n])
    <3>1. CASE j = 1
      <4>1. next \in 1 .. next /\ IsFor(more[j], ReadOrder(getter.first)[next])
        BY <1>3, <2>3, <2>5, <3>1 DEF IsFor
      <4> QED BY <4>1
    <3>2. CASE j # 1
      <4>1. \E n \in 1 .. getter.seen : IsFor(getter.got[j - 1], ReadOrder(getter.first)[n])
        BY <1>5, <2>8, <3>2 DEF GotFor
      <4> QED BY <1>3, <2>8, <3>2, <4>1
    <3> QED BY <3>1, <3>2
  <2>11. ASSUME NEW j \in DOMAIN more, NEW k \in DOMAIN more, more[j] % MaxResults = more[k] % MaxResults
         PROVE  j = k
    <3>0. j \in Int /\ k \in Int /\ more[1] % MaxResults = slot
      BY <2>3, <2>5
    <3>1. CASE j = 1 /\ k # 1
      BY <2>8, <2>9, <2>11, <3>0, <3>1
    <3>2. CASE j # 1 /\ k = 1
      BY <2>8, <2>9, <2>11, <3>0, <3>2
    <3>3. CASE j # 1 /\ k # 1
      <4>1. j - 1 = k - 1
        BY <1>5, <2>8, <2>11, <3>3 DEF GotFor
      <4> QED BY <3>0, <4>1
    <3> QED BY <3>1, <3>2, <3>3
  <2> QED BY <2>7, <2>10, <2>11 DEF GotFor
<1> QED BY <1>7, <1>8 DEF ReadSlot

(* Where the loop is does not matter to a push in progress.                *)
LEMMA LoopMovesKeepPush ==
  ASSUME loop \in LoopType,
         LoopTop \/ TimerFires \/ EndOfRound \/ LockedStep \/ ReceiveStop
  PROVE  loop'.push = loop.push /\ loop'.pushing = loop.pushing
<1>1. CASE LoopTop
  BY <1>1 DEF LoopTop, LoopType
<1>2. CASE TimerFires
  BY <1>2 DEF TimerFires, LoopType
<1>3. CASE EndOfRound
  BY <1>3 DEF EndOfRound, LoopType
<1>4. CASE Start
  BY <1>4 DEF Start, LoopType
<1>5. CASE CopyTransientCommands
  BY <1>5 DEF CopyTransientCommands, LoopType
<1>6. CASE ReceiveStop
  BY <1>6 DEF ReceiveStop, LoopType
<1> QED BY <1>1, <1>2, <1>3, <1>4, <1>5, <1>6 DEF LockedStep

LEMMA ResiduePreserved == RCInv /\ OrderTypes /\ ResidueInv /\ [Next]_vars => ResidueInv'
<1> SUFFICES ASSUME RCInv, OrderTypes, ResidueInv, [Next]_vars PROVE ResidueInv'
  OBVIOUS
<1>0. /\ loop \in LoopType /\ text \in TextType /\ getter \in GetterType /\ buf \in BufType
      /\ loop.push \in PushType /\ text.push \in PushType
      /\ IsFor(NoPush.elem, NoPush.slot)
  BY NothingIsFor, SlotFacts DEF OrderTypes, RCInv, RCTypeOK, LoopType, TextType
<1>1. CASE RunCommand
  <2>1. PICK e \in Fresh \cup {Blank} :
          /\ loop' = [loop EXCEPT !.pushing = TRUE, !.push = [slot |-> NextSlot, elem |-> e]]
          /\ PushBegin(e, text.pushing)
    BY <1>1, RunCommandSays, Zenon
  <2>2. counter' = NextSlot /\ buf' = buf /\ Begins(e, text.pushing)
    BY <2>1, PushBegins
  <2>3. IsFor(e, NextSlot) /\ RecentFor(recent', counter')
    BY <2>2, BegunIsFor
  <2>4. loop'.push.elem = e /\ loop'.push.slot = NextSlot
    BY <1>0, <2>1 DEF LoopType
  <2> QED BY <1>1, <2>2, <2>3, <2>4 DEF RunCommand, ResidueInv
<1>2. CASE AddArbitraryTextToResult
  <2>1. PICK e \in Fresh :
          /\ text' = [pushing |-> TRUE, push |-> [slot |-> NextSlot, elem |-> e]]
          /\ PushBegin(e, loop.pushing)
    BY <1>2, AddTextSays, Zenon
  <2>2. counter' = NextSlot /\ buf' = buf /\ Begins(e, loop.pushing)
    BY <2>1, PushBegins
  <2>3. IsFor(e, NextSlot) /\ RecentFor(recent', counter')
    BY <2>2, BegunIsFor
  <2>4. text'.push.elem = e /\ text'.push.slot = NextSlot
    BY <2>1
  <2> QED BY <1>2, <2>2, <2>3, <2>4 DEF AddArbitraryTextToResult, ResidueInv
<1>3. CASE StoreResult
  <2>1. loop' = [loop EXCEPT !.pushing = FALSE, !.push = NoPush, !.todo = Tail(loop.todo)]
    BY <1>3 DEF StoreResult
  <2>2. loop'.push = NoPush
    BY <1>0, <2>1 DEF LoopType
  <2>3. \A i \in Slots : buf'[i] = IF i = loop.push.slot THEN loop.push.elem ELSE buf[i]
    BY <1>0, <1>3 DEF StoreResult, PushEnd, BufType
  <2>4. UNCHANGED <<text, recent, counter, getter>>
    BY <1>3 DEF StoreResult, PushEnd
  <2>5. \A i \in Slots : IsFor(buf'[i], i)
    BY <2>3 DEF ResidueInv, IsFor
  <2> QED BY <1>0, <2>2, <2>4, <2>5 DEF ResidueInv
<1>4. CASE StoreText
  <2>1. text'.push = NoPush
    BY <1>4 DEF StoreText
  <2>2. \A i \in Slots : buf'[i] = IF i = text.push.slot THEN text.push.elem ELSE buf[i]
    BY <1>0, <1>4 DEF StoreText, PushEnd, BufType
  <2>3. UNCHANGED <<loop, recent, counter, getter>>
    BY <1>4 DEF StoreText, PushEnd
  <2>4. \A i \in Slots : IsFor(buf'[i], i)
    BY <2>2 DEF ResidueInv, IsFor
  <2> QED BY <1>0, <2>1, <2>3, <2>4 DEF ResidueInv
<1>5. CASE GetResults
  <2>1. getter' = [NotReading EXCEPT !.pc = "reading", !.first = counter]
    BY <1>5 DEF GetResults
  <2>2. getter'.got = <<>>
    BY <2>1 DEF NotReading
  <2>3. recent' = recent \/ recent' = <<>>
    BY <1>5 DEF GetResults
  <2>4. UNCHANGED <<buf, loop, text, counter>>
    BY <1>5 DEF GetResults
  <2> QED BY <2>2, <2>3, <2>4, NothingIsFor DEF ResidueInv
<1>6. CASE ReadSlot
  BY <1>6, ReadSlotResidue
<1>7. CASE ClearAndReturn
  <2>1. getter'.got = <<>> /\ recent' = <<>> /\ \A i \in Slots : buf'[i] = Blank
    BY <1>7 DEF ClearAndReturn, NotReading
  <2>2. UNCHANGED <<loop, text, counter>>
    BY <1>7 DEF ClearAndReturn
  <2> QED BY <2>1, <2>2, NothingIsFor DEF ResidueInv
<1>8. CASE LoopTop \/ TimerFires \/ EndOfRound \/ LockedStep \/ ReceiveStop
  <2>1. UNCHANGED <<buf, text, getter, recent, counter>>
    BY <1>8 DEF LoopTop, TimerFires, EndOfRound, LockedStep, Start, CopyTransientCommands, ReceiveStop, ringVars
  <2>3. loop'.push = loop.push
    BY <1>0, <1>8, LoopMovesKeepPush
  <2> QED BY <2>1, <2>3 DEF ResidueInv
<1>9. CASE ClearTransientCommands \/ (\E cmd \in Transient : AddTransientCommand(cmd)) \/ Stop \/ StopEnds
  <2>1. UNCHANGED <<buf, loop, text, getter, recent, counter>>
    BY <1>9 DEF ClearTransientCommands, AddTransientCommand, Stop, StopEnds, ringVars
  <2> QED BY <2>1 DEF ResidueInv
<1>10. CASE UNCHANGED vars
  BY <1>10 DEF vars, ringVars, ResidueInv
<1> QED BY <1>1, <1>2, <1>3, <1>4, <1>5, <1>6, <1>7, <1>8, <1>9, <1>10
        DEF Next, Handle, LoopStep

-----------------------------------------------------------------------------
(* There is always a number for the next result: of six for its slot, at   *)
(* most five are in use.                                                   *)

(* A set of natural numbers that is not empty has a least element.         *)
LEMMA Least ==
  ASSUME NEW T \in SUBSET Nat, T # {}
  PROVE  \E x \in T : \A y \in T : x <= y
<1>1. PICK x \in T : \A y \in T : ~ (<<y, x>> \in OpToRel(<, Nat))
  <2> DEFINE R == OpToRel(<, Nat)
  <2>1. IsWellFoundedOn(R, Nat)
    BY NatLessThanWellFounded
  <2> HIDE DEF R
  <2>2. \E x \in T : \A y \in T : ~ (<<y, x>> \in R)
    BY <2>1, WFMin
  <2> QED BY <2>2 DEF R
<1>2. ASSUME NEW y \in T PROVE x <= y
  <2>1. x \in Nat /\ y \in Nat
    OBVIOUS
  <2>2. ~(y < x)
    BY <1>1, <2>1 DEF OpToRel
  <2> QED BY <2>1, <2>2
<1> QED BY <1>2

LEMMA Remainder ==
  ASSUME NEW m \in Nat \ {0}, NEW q \in Int, NEW r \in 0 .. m - 1, NEW x \in Int, x = q * m + r
  PROVE  x % m = r
OBVIOUS

LEMMA SixForSlot ==
  ASSUME NEW s \in Slots
  PROVE  LET x == IF s = 0 THEN MaxResults ELSE s
         IN  \A c \in 0 .. 5 : x + c * MaxResults \in Elem /\ (x + c * MaxResults) % MaxResults = s
<1> DEFINE M == MaxResults
           x == IF s = 0 THEN M ELSE s
           q == IF s = 0 THEN 1 ELSE 0
<1>1. M \in Nat /\ M > 0 /\ s \in Nat /\ s < M
  BY SlotFacts DEF Slots
<1>2. Elem = 1 .. 6 * M
  BY DEF Elem
<1> HIDE DEF M
<1>3. /\ x \in Nat /\ 1 <= x /\ x <= M
      /\ q \in 0 .. 1 /\ x = q * M + s
  BY <1>1
<1>4. ASSUME NEW c \in 0 .. 5
      PROVE  x + c * M \in 1 .. 6 * M
  <2>1. c = 0 \/ c = 1 \/ c = 2 \/ c = 3 \/ c = 4 \/ c = 5
    OBVIOUS
  <2> HIDE DEF x
  <2> QED BY <1>1, <1>3, <2>1
<1>5. ASSUME NEW c \in 0 .. 5
      PROVE  (x + c * M) % M = s
  <2>1. c + q \in Int /\ x + c * M = (c + q) * M + s
    <3>1. CASE s = 0
      BY <1>1, <3>1
    <3>2. CASE s # 0
      BY <1>1, <3>2
    <3> QED BY <3>1, <3>2
  <2>2. M \in Nat \ {0} /\ s \in 0 .. M - 1 /\ x + c * M \in Int
    BY <1>1, <1>3
  <2> HIDE DEF x, q
  <2> QED BY <2>1, <2>2, Remainder
<1> QED BY <1>2, <1>4, <1>5 DEF M

(* Six different numbers are more than five.                               *)
LEMMA OneLeft ==
  ASSUME NEW x \in Int, NEW m \in Nat \ {0},
         NEW a, NEW b, NEW c, NEW d, NEW e
  PROVE  \E k \in 0 .. 5 : x + k * m \notin {a, b, c, d, e}
<1> SUFFICES ASSUME \A k \in 0 .. 5 : x + k * m \in {a, b, c, d, e} PROVE FALSE
  OBVIOUS
<1>1. /\ x \in {a, b, c, d, e} /\ x + m \in {a, b, c, d, e} /\ x + 2 * m \in {a, b, c, d, e}
      /\ x + 3 * m \in {a, b, c, d, e} /\ x + 4 * m \in {a, b, c, d, e} /\ x + 5 * m \in {a, b, c, d, e}
  <2>1. x + 0 * m = x /\ x + 1 * m = x + m
    OBVIOUS
  <2> QED BY <2>1
<1> QED BY <1>1

LEMMA AlwaysFresh == RCInv /\ OrderTypes /\ ResidueInv => Fresh # {}
<1> SUFFICES ASSUME RCInv, OrderTypes, ResidueInv PROVE Fresh # {}
  OBVIOUS
<1> DEFINE s == NextSlot
<1>1. s \in Slots /\ counter \in Slots /\ buf \in BufType /\ getter.got \in Seq(Elem) /\ recent \in Seq(Values)
      /\ Len(recent) <= MaxResults
  BY NextSlotIs DEF RCInv, RCTypeOK, GetterType, OrderTypes, HistoryType
<1> HIDE DEF s
<1>3. \A e \in Range(buf) : e # Blank /\ e % MaxResults = s => e = buf[s]
  BY <1>1 DEF ResidueInv, IsFor, Range, BufType
<1>4. PICK g : \A e \in Range(getter.got) : e % MaxResults = s => e = g
  <2>1. CASE \E j \in DOMAIN getter.got : getter.got[j] % MaxResults = s
    <3>1. PICK j \in DOMAIN getter.got : getter.got[j] % MaxResults = s
      BY <2>1
    <3>2. \A k \in DOMAIN getter.got : getter.got[k] % MaxResults = s => k = j
      BY <3>1 DEF ResidueInv, GotFor
    <3>3. \A e \in Range(getter.got) : e % MaxResults = s => e = getter.got[j]
      BY <3>2 DEF Range
    <3> QED BY <3>3
  <2>2. CASE ~ \E j \in DOMAIN getter.got : getter.got[j] % MaxResults = s
    BY <2>2 DEF Range
  <2> QED BY <2>1, <2>2
<1>5. PICK r : \A e \in Range(recent) : e # Blank /\ e % MaxResults = s => e = r
  <2> DEFINE Ago == 0 .. Len(recent) - 1
             For(k) == recent[Len(recent) - k] # Blank /\ recent[Len(recent) - k] % MaxResults = s
  <2>1. \A e \in Range(recent) : \E k \in Ago : e = recent[Len(recent) - k]
    <3>1. \A i \in DOMAIN recent : Len(recent) - i \in Ago /\ recent[i] = recent[Len(recent) - (Len(recent) - i)]
      BY <1>1
    <3> QED BY <3>1 DEF Range
  <2>2. \A k \in Ago : For(k) => Back(counter, k) = s
    BY DEF ResidueInv, RecentFor, IsFor
  <2>3. \A k \in Ago : k \in 0 .. MaxResults - 1
    BY <1>1, SlotFacts
  <2>4. \A j, k \in Ago : For(j) /\ For(k) => j = k
    <3>1. \A j, k \in 0 .. MaxResults - 1 : j # k => Back(counter, j) # Back(counter, k)
      BY <1>1, BackFacts
    <3> HIDE DEF For
    <3> QED BY <2>2, <2>3, <3>1
  <2>5. CASE \E j \in Ago : For(j)
    <3>1. PICK j \in Ago : For(j)
      BY <2>5
    <3>2. \A k \in Ago : For(k) => k = j
      BY <2>4, <3>1
    <3>3. \A e \in Range(recent) : e # Blank /\ e % MaxResults = s => e = recent[Len(recent) - j]
      BY <2>1, <3>2
    <3> QED BY <3>3
  <2>6. CASE ~ \E j \in Ago : For(j)
    BY <2>1, <2>6
  <2> QED BY <2>5, <2>6
<1> DEFINE x == IF s = 0 THEN MaxResults ELSE s
<1>6. \A c \in 0 .. 5 : x + c * MaxResults \in Elem /\ (x + c * MaxResults) % MaxResults = s
  BY <1>1, SixForSlot
<1>7. PICK c \in 0 .. 5 : x + c * MaxResults \notin {buf[s], g, r, loop.push.elem, text.push.elem}
  <2>1. x \in Int /\ MaxResults \in Nat \ {0}
    BY <1>1, SlotFacts DEF Slots
  <2> HIDE DEF x
  <2> QED BY <2>1, OneLeft
<1> DEFINE n == x + c * MaxResults
<1>8. n \in Elem /\ n % MaxResults = s /\ n \notin {buf[s], g, r, loop.push.elem, text.push.elem} /\ n # Blank
  BY <1>6, <1>7, SlotFacts
<1> HIDE DEF n, x
<1>9. n \in Unused
  BY <1>3, <1>4, <1>5, <1>8 DEF Unused, InUse, s
<1>10. Unused \in SUBSET Nat
  BY DEF Unused, Elem
<1>11. \E e \in Unused : \A f \in Unused : e <= f
  BY <1>9, <1>10, Least
<1> QED BY <1>11 DEF Fresh

-----------------------------------------------------------------------------
(* What has been gathered lists what there is to list.                     *)
From(s, lo) == {i \in DOMAIN s : i >= lo}

LEMMA ListsFrom ==
  ASSUME NEW got, NEW s, NEW lo
  PROVE  Lists(got, s, lo) <=>
           \E at \in [DOMAIN got -> From(s, lo)] :
             /\ \A j, k \in DOMAIN got : j < k => at[j] < at[k]
             /\ \A k \in DOMAIN got : got[k] = s[at[k]] /\ got[k] # Blank
             /\ \A i \in From(s, lo) : s[i] # Blank => \E k \in DOMAIN got : at[k] = i
BY DEF Lists, From

(* Positions without elements change nothing.                              *)
LEMMA ListsSame ==
  ASSUME NEW got, NEW s, NEW lo, NEW hi, From(s, lo) = From(s, hi), Lists(got, s, hi)
  PROVE  Lists(got, s, lo)
BY ListsFrom

LEMMA ListsNothing ==
  ASSUME NEW s, NEW lo, From(s, lo) = {}
  PROVE  Lists(<<>>, s, lo)
<1>1. DOMAIN <<>> = {}
  OBVIOUS
<1> DEFINE at == [k \in {} |-> 0]
<1>2. at \in [DOMAIN <<>> -> From(s, lo)]
  BY <1>1
<1> HIDE DEF at
<1> QED BY <1>1, <1>2, ListsFrom

(* One position more, towards the older elements.                          *)
LEMMA ListsSkip ==
  ASSUME NEW S, NEW s \in Seq(S), NEW got \in Seq(S), NEW lo \in 1 .. Len(s), s[lo] = Blank,
         Lists(got, s, lo + 1)
  PROVE  Lists(got, s, lo)
<1>1. From(s, lo + 1) \subseteq From(s, lo) /\ \A i \in From(s, lo) : i = lo \/ i \in From(s, lo + 1)
  BY DEF From
<1>2. PICK at \in [DOMAIN got -> From(s, lo + 1)] :
        /\ \A j, k \in DOMAIN got : j < k => at[j] < at[k]
        /\ \A k \in DOMAIN got : got[k] = s[at[k]] /\ got[k] # Blank
        /\ \A i \in From(s, lo + 1) : s[i] # Blank => \E k \in DOMAIN got : at[k] = i
  BY ListsFrom
<1>3. at \in [DOMAIN got -> From(s, lo)]
  BY <1>1
<1>4. \A i \in From(s, lo) : s[i] # Blank => \E k \in DOMAIN got : at[k] = i
  BY <1>1, <1>2
<1> QED BY <1>2, <1>3, <1>4, ListsFrom

LEMMA ListsPrepend ==
  ASSUME NEW S, NEW s \in Seq(S), NEW got \in Seq(S), NEW lo \in 1 .. Len(s), s[lo] # Blank,
         Lists(got, s, lo + 1)
  PROVE  Lists(<<s[lo]>> \o got, s, lo)
<1> DEFINE more == <<s[lo]>> \o got
<1>1. /\ From(s, lo + 1) \subseteq From(s, lo) /\ lo \in From(s, lo)
      /\ \A i \in From(s, lo) : i = lo \/ i \in From(s, lo + 1)
      /\ \A i \in From(s, lo + 1) : i \in Int /\ lo < i
  BY DEF From
<1>2. PICK at \in [DOMAIN got -> From(s, lo + 1)] :
        /\ \A j, k \in DOMAIN got : j < k => at[j] < at[k]
        /\ \A k \in DOMAIN got : got[k] = s[at[k]] /\ got[k] # Blank
        /\ \A i \in From(s, lo + 1) : s[i] # Blank => \E k \in DOMAIN got : at[k] = i
  BY ListsFrom
<1>3. s[lo] \in S
  OBVIOUS
<1>4. /\ DOMAIN more = 1 .. Len(got) + 1 /\ more[1] = s[lo] /\ Len(got) \in Nat
      /\ DOMAIN got = 1 .. Len(got)
      /\ \A k \in 1 .. Len(got) : more[k + 1] = got[k]
  BY <1>3
<1> HIDE DEF more
<1>5. \A k \in DOMAIN more : k \in Int /\ (k = 1 \/ (k - 1 \in DOMAIN got /\ more[k] = got[k - 1] /\ k > 1))
  BY <1>4
<1> DEFINE At == [k \in DOMAIN more |-> IF k = 1 THEN lo ELSE at[k - 1]]
<1>6. /\ At \in [DOMAIN more -> From(s, lo)]
      /\ \A k \in DOMAIN more : At[k] = IF k = 1 THEN lo ELSE at[k - 1]
  BY <1>1, <1>5
<1> HIDE DEF At
<1>7. ASSUME NEW j \in DOMAIN more, NEW k \in DOMAIN more, j < k
      PROVE  At[j] < At[k]
  <2>1. k - 1 \in DOMAIN got /\ k # 1 /\ At[k] = at[k - 1]
    BY <1>5, <1>6, <1>7, <1>4
  <2>2. CASE j = 1
    <3>1. at[k - 1] \in From(s, lo + 1)
      BY <2>1
    <3> QED BY <1>1, <1>6, <2>1, <2>2, <3>1
  <2>3. CASE j # 1
    <3>1. j - 1 \in DOMAIN got /\ j - 1 < k - 1 /\ At[j] = at[j - 1]
      BY <1>5, <1>6, <1>7, <2>3
    <3> QED BY <1>2, <2>1, <3>1
  <2> QED BY <2>2, <2>3
<1>8. ASSUME NEW k \in DOMAIN more
      PROVE  more[k] = s[At[k]] /\ more[k] # Blank
  BY <1>2, <1>4, <1>5, <1>6
<1>9. ASSUME NEW i \in From(s, lo), s[i] # Blank
      PROVE  \E k \in DOMAIN more : At[k] = i
  <2>1. CASE i = lo
    <3>1. 1 \in DOMAIN more
      BY <1>4
    <3> QED BY <1>6, <2>1, <3>1
  <2>2. CASE i # lo
    <3>1. PICK k \in DOMAIN got : at[k] = i
      BY <1>1, <1>2, <1>9, <2>2
    <3>2. k + 1 \in DOMAIN more /\ k + 1 # 1 /\ (k + 1) - 1 = k
      BY <1>4
    <3> QED BY <1>6, <3>1, <3>2
  <2> QED BY <2>1, <2>2
<1>10. Lists(more, s, lo)
  BY <1>6, <1>7, <1>8, <1>9, ListsFrom
<1> QED BY <1>10 DEF more

(* IterateReverse has looked at seen slots, and looks at one more.         *)
LEMMA ListsOneMore ==
  ASSUME NEW S, NEW s \in Seq(S), NEW got \in Seq(S), NEW seen \in Nat,
         Lists(got, s, Len(s) - seen + 1)
  PROVE  /\ seen >= Len(s) \/ s[Len(s) - seen] = Blank => Lists(got, s, Len(s) - (seen + 1) + 1)
         /\ seen < Len(s) /\ s[Len(s) - seen] # Blank =>
              Lists(<<s[Len(s) - seen]>> \o got, s, Len(s) - (seen + 1) + 1)
<1> DEFINE lo == Len(s) - seen
<1>1. /\ Len(s) \in Nat /\ lo \in Int /\ Len(s) - seen + 1 = lo + 1 /\ Len(s) - (seen + 1) + 1 = lo
      /\ seen < Len(s) => lo \in 1 .. Len(s)
      /\ seen >= Len(s) => lo <= 0
  OBVIOUS
<1> HIDE DEF lo
<1>2. Lists(got, s, lo + 1)
  BY <1>1
<1>3. CASE seen >= Len(s)
  <2>1. From(s, lo) = From(s, lo + 1)
    <3>1. \A i \in DOMAIN s : i \in Int /\ i >= 1
      OBVIOUS
    <3>2. \A i \in DOMAIN s : i >= lo /\ i >= lo + 1
      BY <1>1, <1>3, <3>1
    <3> QED BY <3>2 DEF From
  <2>2. Lists(got, s, lo)
    BY <1>2, <2>1, ListsSame
  <2> QED BY <1>1, <1>3, <2>2
<1>4. CASE seen < Len(s)
  <2>1. lo \in 1 .. Len(s)
    BY <1>1, <1>4
  <2>2. s[lo] = Blank => Lists(got, s, lo)
    BY <1>2, <2>1, ListsSkip
  <2>3. s[lo] # Blank => Lists(<<s[lo]>> \o got, s, lo)
    BY <1>2, <2>1, ListsPrepend
  <2>4. ~(seen >= Len(s))
    BY <1>1, <1>4
  <2>5. /\ s[Len(s) - seen] = Blank => Lists(got, s, lo)
        /\ s[Len(s) - seen] # Blank => Lists(<<s[Len(s) - seen]>> \o got, s, lo)
    BY <2>2, <2>3 DEF lo
  <2> QED BY <1>1, <2>4, <2>5
<1> QED BY <1>1, <1>3, <1>4

-----------------------------------------------------------------------------
(* The buffer and what is remembered of the pushes.                        *)
Pushing == loop.pushing \/ text.pushing

(* A push in progress is that of the latest element.                       *)
PushIsLatest(p, c, r) == r # <<>> /\ p.slot = c /\ p.elem = r[Len(r)]

(* The buffer holds the elements remembered, each at the slot where the    *)
(* counter was, except that the latest may still be under way.             *)
BufferIsRecent(b, c, r, pushing) ==
  \A k \in 0 .. MaxResults - 1 :
    k # 0 \/ ~pushing => b[Back(c, k)] = IF k < Len(r) THEN r[Len(r) - k] ELSE Blank

(* A retrieval has listed the latest of them.                              *)
ListedSoFar(g, c, r) == g.first = c /\ Lists(g.got, r, Len(r) - g.seen + 1)

WithoutOverlap ==
  /\ ~(loop.pushing /\ text.pushing)
  /\ loop.pushing => PushIsLatest(loop.push, counter, recent)
  /\ text.pushing => PushIsLatest(text.push, counter, recent)
  /\ BufferIsRecent(buf, counter, recent, Pushing)
  /\ getter.pc = "reading" => ~Pushing /\ ListedSoFar(getter, counter, recent)

CleanInv == (clean => WithoutOverlap) /\ (~clean => recent = <<>>)

LEMMA NothingRecent ==
  ASSUME NEW b, \A i \in Slots : b[i] = Blank, NEW c \in Slots, NEW p
  PROVE  BufferIsRecent(b, c, <<>>, p)
<1>1. \A k \in 0 .. MaxResults - 1 : ~(k < Len(<<>>))
  BY SlotFacts
<1>2. \A k \in 0 .. MaxResults - 1 : Back(c, k) \in Slots
  BY BackFacts
<1> QED BY <1>1, <1>2 DEF BufferIsRecent

(* A push begins: every element is one push further back.                  *)
LEMMA BeginShifts ==
  ASSUME RCInv, OrderTypes, CleanInv, NEW e \in Values, NEW o \in BOOLEAN, Begins(e, o), clean',
         counter' = NextSlot, buf' = buf, ~Pushing
  PROVE  /\ clean /\ ~o /\ getter.pc = "idle"
         /\ PushIsLatest([slot |-> NextSlot, elem |-> e], counter', recent')
         /\ BufferIsRecent(buf', counter', recent', TRUE)
<1> DEFINE r == Latest(MaxResults, Append(recent, e))
<1>1. clean /\ ~o /\ getter.pc = "idle" /\ recent' = r
  BY DEF Begins
<1>2. /\ counter \in Slots /\ counter' \in Slots
      /\ counter' = IF counter + 1 = MaxResults THEN 0 ELSE counter + 1
  BY NextSlotIs DEF RCInv, RCTypeOK
<1>3. /\ recent \in Seq(Values) /\ Len(recent) <= MaxResults /\ Len(recent) \in Nat /\ MaxResults \in Nat
  BY SlotFacts DEF OrderTypes, HistoryType
<1>4. /\ Len(r) = IF Len(recent) = MaxResults THEN MaxResults ELSE Len(recent) + 1
      /\ r # <<>> /\ r[Len(r)] = e
      /\ \A k \in 1 .. Len(r) - 1 : r[Len(r) - k] = recent[Len(recent) - (k - 1)]
  BY <1>3, LatestOfMore
<1> HIDE DEF r
<1>5. PushIsLatest([slot |-> NextSlot, elem |-> e], counter', r)
  BY <1>4 DEF PushIsLatest
<1>6. ASSUME NEW k \in 0 .. MaxResults - 1, k # 0
      PROVE  buf[Back(counter', k)] = IF k < Len(r) THEN r[Len(r) - k] ELSE Blank
  <2>1. k \in 1 .. MaxResults - 1 /\ k - 1 \in 0 .. MaxResults - 1
    BY <1>3, <1>6
  <2>2. Back(counter', k) = Back(counter, k - 1)
    BY <1>2, <2>1, BackShifts
  <2>3. buf[Back(counter, k - 1)] =
          IF k - 1 < Len(recent) THEN recent[Len(recent) - (k - 1)] ELSE Blank
    BY <1>1, <2>1 DEF CleanInv, WithoutOverlap, BufferIsRecent
  <2>4. CASE k < Len(r)
    <3>1. k - 1 < Len(recent) /\ k \in 1 .. Len(r) - 1
      BY <1>3, <1>4, <2>1, <2>4
    <3> QED BY <1>4, <2>2, <2>3, <2>4, <3>1
  <2>5. CASE ~(k < Len(r))
    <3>1. ~(k - 1 < Len(recent))
      BY <1>3, <1>4, <2>1, <2>5
    <3> QED BY <2>2, <2>3, <2>5, <3>1
  <2> QED BY <2>4, <2>5
<1>7. BufferIsRecent(buf, counter', r, TRUE)
  BY <1>6 DEF BufferIsRecent
<1> QED BY <1>1, <1>5, <1>7

(* A push ends: its element is the latest, at the counter's slot.          *)
LEMMA EndFillsSlot ==
  ASSUME RCInv, NEW p \in PushType, NEW r, r = <<>> \/ Len(r) \in Nat \ {0},
         PushIsLatest(p, counter, r),
         BufferIsRecent(buf, counter, r, TRUE),
         buf' = [buf EXCEPT ![p.slot] = p.elem]
  PROVE  BufferIsRecent(buf', counter, r, FALSE)
<1>1. /\ counter \in Slots /\ buf \in BufType /\ p.slot = counter /\ p.elem = r[Len(r)]
      /\ Len(r) \in Nat \ {0}
  BY DEF RCInv, RCTypeOK, PushIsLatest
<1>2. \A i \in Slots : buf'[i] = IF i = counter THEN r[Len(r)] ELSE buf[i]
  BY <1>1 DEF BufType
<1>3. ASSUME NEW k \in 0 .. MaxResults - 1
      PROVE  buf'[Back(counter, k)] = IF k < Len(r) THEN r[Len(r) - k] ELSE Blank
  <2>1. CASE k = 0
    <3>1. Back(counter, k) = counter /\ k < Len(r) /\ Len(r) - k = Len(r)
      BY <1>1, <2>1, BackFacts
    <3> QED BY <1>1, <1>2, <3>1
  <2>2. CASE k # 0
    <3>1. 0 \in 0 .. MaxResults - 1
      BY SlotFacts
    <3>2. Back(counter, k) \in Slots /\ Back(counter, k) # counter
      BY <1>1, <2>2, <3>1, BackFacts
    <3> QED BY <1>2, <2>2, <3>2 DEF BufferIsRecent
  <2> QED BY <2>1, <2>2
<1> QED BY <1>3 DEF BufferIsRecent

LEMMA CleanInitial == Init => CleanInv
<1> SUFFICES ASSUME Init PROVE CleanInv
  OBVIOUS
<1>1. /\ ~loop.pushing /\ ~text.pushing /\ getter.pc = "idle" /\ recent = <<>> /\ counter \in Slots
      /\ \A i \in Slots : buf[i] = Blank
  BY SlotFacts DEF Init, NotReading
<1>2. BufferIsRecent(buf, counter, recent, Pushing)
  BY <1>1, NothingRecent
<1> QED BY <1>1, <1>2 DEF CleanInv, WithoutOverlap, Pushing

LEMMA RunCommandClean == RCInv /\ OrderTypes /\ CleanInv /\ RunCommand => CleanInv'
<1> SUFFICES ASSUME RCInv, OrderTypes, CleanInv, RunCommand PROVE CleanInv'
  OBVIOUS
<1>1. PICK e \in Fresh \cup {Blank} :
        /\ loop' = [loop EXCEPT !.pushing = TRUE, !.push = [slot |-> NextSlot, elem |-> e]]
        /\ PushBegin(e, text.pushing)
  BY RunCommandSays, Zenon
<1>2. /\ counter' = NextSlot /\ buf' = buf /\ Begins(e, text.pushing) /\ e \in Values
      /\ text.pushing \in BOOLEAN
  BY <1>1, PushBegins, FreshIsElem DEF OrderTypes, TextType
<1>3. ~loop.pushing /\ UNCHANGED <<text, getter>>
  BY DEF RunCommand
<1>4. loop'.pushing = TRUE /\ loop'.push = [slot |-> NextSlot, elem |-> e]
  BY <1>1 DEF OrderTypes, LoopType
<1>5. ~clean' => recent' = <<>>
  BY <1>2 DEF Begins
<1>6. ASSUME clean' PROVE WithoutOverlap'
  <2>1. ~text.pushing
    BY <1>2, <1>6 DEF Begins
  <2>2. /\ getter.pc = "idle"
        /\ PushIsLatest(loop'.push, counter', recent')
        /\ BufferIsRecent(buf', counter', recent', TRUE)
    BY <1>2, <1>3, <1>4, <1>6, <2>1, BeginShifts DEF Pushing
  <2>3. Pushing' = TRUE /\ ~text'.pushing /\ getter'.pc # "reading"
    BY <1>3, <1>4, <2>1, <2>2 DEF Pushing
  <2> QED BY <2>2, <2>3 DEF WithoutOverlap
<1> QED BY <1>5, <1>6 DEF CleanInv

LEMMA AddTextClean == RCInv /\ OrderTypes /\ CleanInv /\ AddArbitraryTextToResult => CleanInv'
<1> SUFFICES ASSUME RCInv, OrderTypes, CleanInv, AddArbitraryTextToResult PROVE CleanInv'
  OBVIOUS
<1>1. PICK e \in Fresh :
        /\ text' = [pushing |-> TRUE, push |-> [slot |-> NextSlot, elem |-> e]]
        /\ PushBegin(e, loop.pushing)
  BY AddTextSays, Zenon
<1>2. /\ counter' = NextSlot /\ buf' = buf /\ Begins(e, loop.pushing) /\ e \in Values
      /\ loop.pushing \in BOOLEAN
  BY <1>1, PushBegins, FreshIsElem DEF OrderTypes, LoopType
<1>3. ~text.pushing /\ UNCHANGED <<loop, getter>>
  BY DEF AddArbitraryTextToResult
<1>4. text'.pushing = TRUE /\ text'.push = [slot |-> NextSlot, elem |-> e]
  BY <1>1
<1>5. ~clean' => recent' = <<>>
  BY <1>2 DEF Begins
<1>6. ASSUME clean' PROVE WithoutOverlap'
  <2>1. ~loop.pushing
    BY <1>2, <1>6 DEF Begins
  <2>2. /\ getter.pc = "idle"
        /\ PushIsLatest(text'.push, counter', recent')
        /\ BufferIsRecent(buf', counter', recent', TRUE)
    BY <1>2, <1>3, <1>4, <1>6, <2>1, BeginShifts DEF Pushing
  <2>3. Pushing' = TRUE /\ ~loop'.pushing /\ getter'.pc # "reading"
    BY <1>3, <1>4, <2>1, <2>2 DEF Pushing
  <2> QED BY <2>2, <2>3 DEF WithoutOverlap
<1> QED BY <1>5, <1>6 DEF CleanInv

(* A push ends, of the loop or of a text.                                  *)
LEMMA StoreClean ==
  ASSUME RCInv, OrderTypes, CleanInv,
         \/ loop.pushing /\ PushEnd(loop.push) /\ ~loop'.pushing /\ UNCHANGED <<text, getter>>
         \/ text.pushing /\ PushEnd(text.push) /\ ~text'.pushing /\ UNCHANGED <<loop, getter>>
  PROVE  CleanInv'
<1>1. UNCHANGED <<counter, recent, clean, getter>> /\ Pushing
  BY DEF PushEnd, Pushing
<1>2. SUFFICES ASSUME clean PROVE WithoutOverlap'
  BY <1>1 DEF CleanInv
<1>3. /\ ~(loop.pushing /\ text.pushing) /\ getter.pc # "reading"
      /\ BufferIsRecent(buf, counter, recent, TRUE)
  BY <1>1, <1>2 DEF CleanInv, WithoutOverlap, BufferIsRecent
<1>4. /\ loop.push \in PushType /\ text.push \in PushType
      /\ recent = <<>> \/ Len(recent) \in Nat \ {0}
  <2>1. recent \in Seq(Values) /\ loop \in LoopType /\ text \in TextType
    BY DEF OrderTypes, HistoryType
  <2>2. recent = <<>> \/ Len(recent) \in Nat \ {0}
    BY <2>1
  <2> QED BY <2>1, <2>2 DEF LoopType, TextType
<1>5. BufferIsRecent(buf', counter, recent, FALSE)
  <2>1. CASE loop.pushing /\ PushEnd(loop.push)
    <3>1. PushIsLatest(loop.push, counter, recent)
      BY <1>2, <2>1 DEF CleanInv, WithoutOverlap
    <3>2. buf' = [buf EXCEPT ![loop.push.slot] = loop.push.elem]
      BY <2>1 DEF PushEnd
    <3> QED BY <1>3, <1>4, <3>1, <3>2, EndFillsSlot
  <2>2. CASE text.pushing /\ PushEnd(text.push)
    <3>1. PushIsLatest(text.push, counter, recent)
      BY <1>2, <2>2 DEF CleanInv, WithoutOverlap
    <3>2. buf' = [buf EXCEPT ![text.push.slot] = text.push.elem]
      BY <2>2 DEF PushEnd
    <3> QED BY <1>3, <1>4, <3>1, <3>2, EndFillsSlot
  <2> QED BY <2>1, <2>2
<1>6. ~loop'.pushing /\ ~text'.pushing
  BY <1>3
<1>7. Pushing' = FALSE
  BY <1>6 DEF Pushing
<1> QED BY <1>1, <1>3, <1>5, <1>6, <1>7 DEF WithoutOverlap

LEMMA GetResultsClean == RCInv /\ OrderTypes /\ CleanInv /\ GetResults => CleanInv'
<1> SUFFICES ASSUME RCInv, OrderTypes, CleanInv, GetResults PROVE CleanInv'
  OBVIOUS
<1>1. /\ getter' = [NotReading EXCEPT !.pc = "reading", !.first = counter]
      /\ UNCHANGED <<counter, buf, loop, text>>
  BY DEF GetResults
<1>2. getter'.got = <<>> /\ getter'.seen = 0 /\ getter'.first = counter
  BY <1>1 DEF NotReading
<1>3. /\ clean' <=> (clean /\ ~loop.pushing /\ ~text.pushing)
      /\ recent' = IF clean' THEN recent ELSE <<>>
  BY DEF GetResults
<1>4. ASSUME clean' PROVE WithoutOverlap'
  <2>1. clean /\ ~loop.pushing /\ ~text.pushing /\ recent' = recent /\ ~Pushing /\ ~Pushing'
    BY <1>1, <1>3, <1>4 DEF Pushing
  <2>2. BufferIsRecent(buf, counter, recent, Pushing)
    BY <2>1 DEF CleanInv, WithoutOverlap
  <2>3. BufferIsRecent(buf', counter', recent', Pushing')
    BY <1>1, <2>1, <2>2 DEF BufferIsRecent
  <2>4. From(recent, Len(recent) - 0 + 1) = {}
    <3>1. recent \in Seq(Values)
      BY DEF OrderTypes, HistoryType
    <3> QED BY <3>1 DEF From
  <2>5. Lists(<<>>, recent, Len(recent) - 0 + 1)
    BY <2>4, ListsNothing
  <2>6. ListedSoFar(getter', counter', recent')
    BY <1>1, <1>2, <2>1, <2>5 DEF ListedSoFar
  <2> QED BY <1>1, <2>1, <2>3, <2>6 DEF WithoutOverlap
<1> QED BY <1>3, <1>4 DEF CleanInv

LEMMA ReadSlotClean == RCInv /\ OrderTypes /\ CleanInv /\ ReadSlot => CleanInv'
<1> SUFFICES ASSUME RCInv, OrderTypes, CleanInv, ReadSlot PROVE CleanInv'
  OBVIOUS
<1>1. UNCHANGED <<counter, buf, recent, clean, loop, text>> /\ getter.pc = "reading" /\ getter.seen < MaxResults
  BY DEF ReadSlot, ringVars
<1>2. SUFFICES ASSUME clean PROVE WithoutOverlap'
  BY <1>1 DEF CleanInv
<1>3. /\ WithoutOverlap /\ ~Pushing /\ getter.first = counter
      /\ Lists(getter.got, recent, Len(recent) - getter.seen + 1)
      /\ BufferIsRecent(buf, counter, recent, Pushing)
  BY <1>1, <1>2 DEF CleanInv, WithoutOverlap, ListedSoFar
<1>4. Pushing' = Pushing
  BY <1>1 DEF Pushing
<1>5. SUFFICES ListedSoFar(getter', counter, recent)
  BY <1>1, <1>3, <1>4 DEF WithoutOverlap
<1>6. /\ getter \in GetterType /\ getter.seen \in Nat /\ getter.seen \in 0 .. MaxResults - 1
      /\ getter.got \in Seq(Elem) /\ getter.got \in Seq(Values)
      /\ recent \in Seq(Values) /\ Len(recent) \in Nat
  <2>1. getter \in GetterType /\ getter.got \in Seq(Elem) /\ getter.seen \in 0 .. MaxResults
    BY DEF RCInv, RCTypeOK, GetterType
  <2>2. recent \in Seq(Values)
    BY DEF OrderTypes, HistoryType
  <2>3. Elem \subseteq Values
    BY DEF Values
  <2> HIDE DEF Values
  <2> QED BY <1>1, <2>1, <2>2, <2>3, SlotFacts
<1> DEFINE value == buf[ReadOrder(getter.first)[getter.seen + 1]]
           latest == recent[Len(recent) - getter.seen]
<1>7. value = IF getter.seen < Len(recent) THEN latest ELSE Blank
  BY <1>3, <1>6 DEF BufferIsRecent, Back
<1>8. CASE value = Blank /\ getter' = [getter EXCEPT !.seen = @ + 1]
  <2>1. getter'.got = getter.got /\ getter'.seen = getter.seen + 1 /\ getter'.first = getter.first
    BY <1>6, <1>8 DEF GetterType
  <2>2. getter.seen >= Len(recent) \/ latest = Blank
    BY <1>6, <1>7, <1>8
  <2>3. Lists(getter.got, recent, Len(recent) - (getter.seen + 1) + 1)
    BY <1>3, <1>6, <2>2, ListsOneMore
  <2> QED BY <1>3, <2>1, <2>3 DEF ListedSoFar
<1>9. CASE value # Blank /\ getter' = [getter EXCEPT !.seen = @ + 1, !.got = <<value>> \o @]
  <2>1. getter.seen < Len(recent) /\ latest # Blank /\ value = latest
    BY <1>7, <1>9
  <2>2. PICK more : more = <<latest>> \o getter.got
    OBVIOUS
  <2>3. getter' = [getter EXCEPT !.seen = @ + 1, !.got = more]
    BY <1>9, <2>1, <2>2
  <2>4. getter'.got = more /\ getter'.seen = getter.seen + 1 /\ getter'.first = getter.first
    BY <1>6, <2>3 DEF GetterType
  <2>5. Lists(<<latest>> \o getter.got, recent, Len(recent) - (getter.seen + 1) + 1)
    BY <1>3, <1>6, <2>1, ListsOneMore
  <2> QED BY <1>3, <2>2, <2>4, <2>5 DEF ListedSoFar
<1> QED BY <1>8, <1>9 DEF ReadSlot

LEMMA ClearAndReturnClean == RCInv /\ OrderTypes /\ CleanInv /\ ClearAndReturn => CleanInv'
<1> SUFFICES ASSUME RCInv, OrderTypes, CleanInv, ClearAndReturn PROVE CleanInv'
  OBVIOUS
<1>1. /\ recent' = <<>> /\ getter'.pc = "idle" /\ UNCHANGED <<loop, text, counter>>
      /\ \A i \in Slots : buf'[i] = Blank
      /\ clean' <=> (~loop.pushing /\ ~text.pushing)
  BY DEF ClearAndReturn, NotReading
<1>2. counter' \in Slots
  BY <1>1 DEF RCInv, RCTypeOK
<1>3. BufferIsRecent(buf', counter', recent', Pushing')
  BY <1>1, <1>2, NothingRecent
<1> QED BY <1>1, <1>3 DEF CleanInv, WithoutOverlap

LEMMA CleanPreserved == RCInv /\ OrderTypes /\ CleanInv /\ [Next]_vars => CleanInv'
<1> SUFFICES ASSUME RCInv, OrderTypes, CleanInv, [Next]_vars PROVE CleanInv'
  OBVIOUS
<1>0. loop \in LoopType /\ text \in TextType
  BY DEF OrderTypes
<1>1. CASE RunCommand
  BY <1>1, RunCommandClean
<1>2. CASE AddArbitraryTextToResult
  BY <1>2, AddTextClean
<1>3. CASE StoreResult
  <2>1. loop' = [loop EXCEPT !.pushing = FALSE, !.push = NoPush, !.todo = Tail(loop.todo)]
    BY <1>3 DEF StoreResult
  <2>2. ~loop'.pushing
    BY <1>0, <2>1 DEF LoopType
  <2>3. loop.pushing /\ PushEnd(loop.push) /\ UNCHANGED <<text, getter>>
    BY <1>3 DEF StoreResult
  <2> QED BY <2>2, <2>3, StoreClean
<1>4. CASE StoreText
  <2>1. ~text'.pushing
    BY <1>4 DEF StoreText
  <2>2. text.pushing /\ PushEnd(text.push) /\ UNCHANGED <<loop, getter>>
    BY <1>4 DEF StoreText
  <2> QED BY <2>1, <2>2, StoreClean
<1>5. CASE GetResults
  BY <1>5, GetResultsClean
<1>6. CASE ReadSlot
  BY <1>6, ReadSlotClean
<1>7. CASE ClearAndReturn
  BY <1>7, ClearAndReturnClean
<1>8. ASSUME UNCHANGED <<buf, text, getter, recent, clean, counter>>,
             loop'.push = loop.push, loop'.pushing = loop.pushing
      PROVE  CleanInv'
  BY <1>8 DEF CleanInv, WithoutOverlap, Pushing
<1>9. CASE LoopTop \/ TimerFires \/ EndOfRound \/ LockedStep \/ ReceiveStop
  <2>1. UNCHANGED <<buf, text, getter, recent, clean, counter>>
    BY <1>9 DEF LoopTop, TimerFires, EndOfRound, LockedStep, Start, CopyTransientCommands, ReceiveStop, ringVars
  <2> QED BY <1>0, <1>8, <1>9, <2>1, LoopMovesKeepPush
<1>10. CASE ClearTransientCommands \/ (\E cmd \in Transient : AddTransientCommand(cmd)) \/ Stop \/ StopEnds
  <2>1. UNCHANGED <<buf, loop, text, getter, recent, clean, counter>>
    BY <1>10 DEF ClearTransientCommands, AddTransientCommand, Stop, StopEnds, ringVars
  <2> QED BY <1>8, <2>1
<1>11. CASE UNCHANGED vars
  BY <1>8, <1>11 DEF vars, ringVars
<1> QED BY <1>1, <1>2, <1>3, <1>4, <1>5, <1>6, <1>7, <1>9, <1>10, <1>11
        DEF Next, Handle, LoopStep

-----------------------------------------------------------------------------
OrderInv == RCInv /\ OrderTypes /\ ResidueInv /\ CleanInv /\ StopInv

LEMMA OrderInvGivesTypes == OrderInv => TypeOK
<1> SUFFICES ASSUME OrderInv PROVE TypeOK
  OBVIOUS
<1>1. /\ getter \in GetterType /\ buf \in BufType /\ counter \in Slots
      /\ loop \in LoopType /\ text \in TextType
  BY DEF OrderInv, RCInv, RCTypeOK, OrderTypes
<1>2. /\ transientCommands \in Seq(Transient) /\ Len(transientCommands) <= MaxTransient
      /\ running \in BOOLEAN /\ mutex \in {"free", "GetResults", "Stop"}
      /\ stopper \in {"idle", "sending", "received", "stopped", "ignored"}
      /\ Len(getter.got) <= getter.seen
  BY DEF OrderInv, OrderTypes
<1>3. recent \in Seq(Elem \cup {Blank}) /\ Len(recent) <= MaxResults /\ clean \in BOOLEAN
  BY DEF OrderInv, OrderTypes, HistoryType, Values
<1>4. /\ loop.pc \in LoopPcs /\ loop.todo \in Seq(Commands)
      /\ loop.pushing \in BOOLEAN /\ loop.push \in PushType
      /\ text.pushing \in BOOLEAN /\ text.push \in PushType
  BY <1>1 DEF LoopType, TextType
<1>5. /\ getter.pc \in {"idle", "reading"} /\ getter.first \in Slots
      /\ getter.seen \in 0 .. MaxResults /\ getter.got \in Seq(Elem)
  BY <1>1 DEF GetterType
<1> QED BY <1>1, <1>2, <1>3, <1>4, <1>5 DEF TypeOK, BufType, LoopPcs, Commands

LEMMA OrderInvGivesExact == OrderInv => RetrievalIsExact
<1> SUFFICES ASSUME OrderInv, getter.pc = "reading", getter.seen = MaxResults, clean
             PROVE  Lists(getter.got, recent, 1)
  BY DEF RetrievalIsExact
<1>1. Lists(getter.got, recent, Len(recent) - MaxResults + 1)
  BY DEF OrderInv, CleanInv, WithoutOverlap, ListedSoFar
<1>2. recent \in Seq(Values) /\ Len(recent) <= MaxResults /\ MaxResults \in Nat
  BY SlotFacts DEF OrderInv, OrderTypes, HistoryType
<1>3. From(recent, 1) = From(recent, Len(recent) - MaxResults + 1)
  <2>1. \A i \in DOMAIN recent : i >= 1 /\ i >= Len(recent) - MaxResults + 1
    BY <1>2
  <2> QED BY <2>1 DEF From
<1> QED BY <1>1, <1>3, ListsSame

(* For a ring buffer of any size and any recurring commands: what          *)
(* GetResults gathers, when no push has overlapped another one or a        *)
(* retrieval since the buffer was cleared, is the latest of what was       *)
(* pushed since, in order and without the empty ones, however often the    *)
(* slots have wrapped round; no result comes up after Stop; and the model  *)
(* never runs out of numbers for the results.                              *)
THEOREM ResultsAlwaysInOrder == Spec => []ResultsInOrder
<1>1. Init => OrderInv
  BY RCInitial, OrderTypesInitial, ResidueInitial, CleanInitial, StopInvInitial DEF OrderInv
<1>2. OrderInv /\ [Next]_vars => OrderInv'
  <2> SUFFICES ASSUME OrderInv, [Next]_vars PROVE OrderInv'
    OBVIOUS
  <2>1. RCInv /\ OrderTypes /\ ResidueInv /\ CleanInv /\ StopInv
    BY DEF OrderInv
  <2>2. RCInv' /\ OrderTypes'
    BY <2>1, RCPreserved, OrderTypesPreserved
  <2>3. ResidueInv' /\ CleanInv' /\ StopInv'
    BY <2>1, ResiduePreserved, CleanPreserved, StopInvPreserved
  <2> QED BY <2>2, <2>3 DEF OrderInv
<1>3. OrderInv => ResultsInOrder
  <2> SUFFICES ASSUME OrderInv PROVE ResultsInOrder
    OBVIOUS
  <2>1. Fresh # {}
    BY AlwaysFresh DEF OrderInv
  <2>2. QuietAfterStop
    BY DEF OrderInv, StopInv, QuietAfterStop
  <2> QED BY <2>1, <2>2, OrderInvGivesTypes, OrderInvGivesExact DEF ResultsInOrder
<1> QED BY <1>1, <1>2, <1>3, PTL DEF Spec
=============================================================================
