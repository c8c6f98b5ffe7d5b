---------------------------- MODULE AdvParseProofs ----------------------------
(***************************************************************************)
(* Proofs about AdvParse, for every set of names and of sequence numbers:   *)
(* the loop of the parser finds in a sequence of structures of any length   *)
(* what the last structures of each kind say.                               *)
(*                                                                         *)
(* The loop is the recursive function `after`.  That there is one, and what *)
(* holds after every round, is proved by the least round where it does not. *)
(***************************************************************************)
EXTENDS AdvParse, WellFoundedInduction, TLAPS

(* Every set of natural numbers has a least one.                             *)
LEMMA Least ==
    ASSUME NEW T \in SUBSET Nat, T # {}
    PROVE  \E x \in T : \A y \in T : x <= y
<1> DEFINE R == {ss \in Nat \X Nat : ss[1] < ss[2]}
<1>1. IsWellFoundedOn(R, Nat)
  BY NatLessThanWellFounded DEF OpToRel
<1>2. PICK x \in T : \A y \in T : <<y, x>> \notin R
  <2> HIDE DEF R
  <2> QED
    BY <1>1, WFMin
<1>3. \A y \in T : x <= y
  <2> TAKE y \in T
  <2>1. <<y, x>> \notin R
    BY <1>2
  <2>2. x \in Nat /\ y \in Nat
    OBVIOUS
  <2> QED
    BY <2>1, <2>2
<1> QED
  BY <1>3

(* So what holds of zero, and of a number if of the one before, holds of all *)
(* up to `last`; H is the set of those it holds of.                         *)
LEMMA RoundByRound ==
    ASSUME NEW last \in Nat, NEW H, 0 \in H,
           \A n \in 1 .. last : n - 1 \in H => n \in H
    PROVE  \A n \in 0 .. last : n \in H
<1> DEFINE T == {n \in 0 .. last : n \notin H}
<1>1. SUFFICES ASSUME T # {} PROVE FALSE
  OBVIOUS
<1>2. T \in SUBSET Nat
  OBVIOUS
<1>3. PICK x \in T : \A y \in T : x <= y
  <2> HIDE DEF T
  <2> QED
    BY <1>1, <1>2, Least
<1>4. x \in 1 .. last /\ x - 1 \in 0 .. last
  OBVIOUS
<1>5. x - 1 \notin T
  BY <1>3, <1>4
<1> QED
  BY <1>4, <1>5

-----------------------------------------------------------------------------
(* The rounds up to the n-th, given those before them.                       *)
Rounds(f, ads, n) ==
    [i \in 0 .. n |-> IF i = 0 THEN Start ELSE ParseStructure(f[i - 1], ads[i])]

(* What is returned when the loop is left with these locals.                 *)
Result(locals) ==
    IF locals.returned \/ locals.name = NoName \/ locals.numbers = Short
    THEN NoAdvertisement
    ELSE [name           |-> locals.name,
          sequence       |-> locals.numbers.sequence,
          channel_number |-> locals.numbers.channel]

(* The recursion defines a function.                                         *)
LEMMA RoundsExist ==
    ASSUME NEW ads, NEW last \in Nat
    PROVE  \E f : f = Rounds(f, ads, last)
<1> DEFINE H == {n \in Nat : \E f : f = Rounds(f, ads, n)}
<1>1. 0 \in H
  <2> DEFINE f == [i \in 0 .. 0 |-> Start]
  <2>1. f = Rounds(f, ads, 0)
    BY DEF Rounds
  <2> QED
    BY <2>1
<1>2. \A n \in 1 .. last : n - 1 \in H => n \in H
  <2> SUFFICES ASSUME NEW n \in 1 .. last, n - 1 \in H PROVE n \in H
    OBVIOUS
  <2>1. PICK g : g = Rounds(g, ads, n - 1)
    OBVIOUS
  <2> DEFINE f == [i \in 0 .. n |->
                    IF i = n THEN ParseStructure(g[n - 1], ads[n]) ELSE g[i]]
  <2>2. \A i \in 0 .. n - 1 : g[i] = IF i = 0 THEN Start ELSE ParseStructure(g[i - 1], ads[i])
    BY <2>1 DEF Rounds
  <2>3. \A i \in 0 .. n : f[i] = IF i = 0 THEN Start ELSE ParseStructure(f[i - 1], ads[i])
    <3> TAKE i \in 0 .. n
    <3>1. CASE i = n
      <4>1. f[n] = ParseStructure(g[n - 1], ads[n]) /\ f[n - 1] = g[n - 1] /\ n # 0
        OBVIOUS
      <4> QED
        BY <3>1, <4>1
    <3>2. CASE i = 0
      <4>1. f[0] = g[0]
        OBVIOUS
      <4> QED
        BY <3>2, <4>1, <2>2
    <3>3. CASE i \in 1 .. n - 1
      <4>1. f[i] = g[i] /\ f[i - 1] = g[i - 1] /\ i # 0
        BY <3>3
      <4> QED
        BY <3>3, <4>1, <2>2
    <3> QED
      BY <3>1, <3>2, <3>3
  <2>4. f = Rounds(f, ads, n)
    <3>1. f = [i \in 0 .. n |-> f[i]]
      OBVIOUS
    <3> HIDE DEF f
    <3> QED
      BY <2>3, <3>1 DEF Rounds
  <2> QED
    BY <2>4
<1> HIDE DEF H
<1>3. last \in H
  BY <1>1, <1>2, RoundByRound
<1> QED
  BY <1>3 DEF H

(* The locals after every round of the loop.                                 *)
LEMMA LoopRuns ==
    ASSUME NEW ads, Len(ads) \in Nat
    PROVE  \E f : /\ f[0] = Start
                  /\ \A i \in 1 .. Len(ads) : f[i] = ParseStructure(f[i - 1], ads[i])
                  /\ ParseManufacturerData(ads) = Result(f[Len(ads)])
<1> DEFINE after == CHOOSE f : f = Rounds(f, ads, Len(ads))
<1>1. after = Rounds(after, ads, Len(ads))
  BY RoundsExist
<1>2. ParseManufacturerData(ads) = Result(after[Len(ads)])
  BY DEF ParseManufacturerData, Result, Rounds
<1> HIDE DEF after
<1>3. after[0] = Start
  BY <1>1 DEF Rounds
<1>4. \A i \in 1 .. Len(ads) : after[i] = ParseStructure(after[i - 1], ads[i])
  BY <1>1 DEF Rounds
<1> QED
  BY <1>2, <1>3, <1>4
-----------------------------------------------------------------------------
(* A structure that makes the parser return None.                            *)
Bad(ad) ==
    \/ ad.kind = "manufacturer" /\ (ad.company # OurCompany \/ ad.payload = Short)
    \/ ad.kind = "name" /\ ad.name = TooLong

(* The j-th structure is the last of its kind among the first i.             *)
IsLast(ads, i, kind, j) ==
    /\ j \in 1 .. i
    /\ ads[j].kind = kind
    /\ \A k \in 1 .. i : ads[k].kind = kind => k <= j

(* A name that is not UTF-8 clears the local.                                *)
NameIn(ad) == IF ad.name = NotUtf8 THEN NoName ELSE ad.name

(* The fields of the locals.                                                 *)
Fields == {"returned", "name", "numbers"}

(* The locals say what the structures up to the i-th do.                     *)
SaysSoFar(ads, i, locals) ==
    /\ Fields \subseteq DOMAIN locals
    /\ locals.returned = FALSE
    /\ (\A j \in 1 .. i : ads[j].kind # "name") => locals.name = NoName
    /\ (\A j \in 1 .. i : ads[j].kind # "manufacturer") => locals.numbers = Short
    /\ \A j \in 1 .. i : IsLast(ads, i, "name", j) => locals.name = NameIn(ads[j])
    /\ \A j \in 1 .. i : IsLast(ads, i, "manufacturer", j) => locals.numbers = ads[j].payload

(* The loop returned if and only if it met a bad structure.                  *)
LoopInv(ads, i, locals) ==
    /\ locals.returned <=> \E j \in 1 .. i : Bad(ads[j])
    /\ ~locals.returned => SaysSoFar(ads, i, locals)

(* A structure of another kind leaves the last one of this kind.             *)
LEMMA StillLast ==
    ASSUME NEW ads, NEW i \in Nat \ {0}, NEW kind, ads[i].kind # kind, NEW j \in 1 .. i,
           IsLast(ads, i, kind, j)
    PROVE  j \in 1 .. i - 1 /\ IsLast(ads, i - 1, kind, j)
<1>1. j # i
  BY DEF IsLast
<1> QED
  BY <1>1 DEF IsLast

(* A structure of this kind is the last one.                                 *)
LEMMA NowLast ==
    ASSUME NEW ads, NEW i \in Nat \ {0}, NEW kind, ads[i].kind = kind, NEW j \in 1 .. i,
           IsLast(ads, i, kind, j)
    PROVE  j = i
BY DEF IsLast

(* What an assignment to one of the locals leaves of the others.             *)
LEMMA Assigned ==
    ASSUME NEW locals, Fields \subseteq DOMAIN locals, NEW value
    PROVE  /\ [locals EXCEPT !.returned = value].returned = value
           /\ [locals EXCEPT !.name = value].returned = locals.returned
           /\ [locals EXCEPT !.name = value].name = value
           /\ [locals EXCEPT !.name = value].numbers = locals.numbers
           /\ [locals EXCEPT !.numbers = value].returned = locals.returned
           /\ [locals EXCEPT !.numbers = value].name = locals.name
           /\ [locals EXCEPT !.numbers = value].numbers = value
           /\ DOMAIN [locals EXCEPT !.name = value] = DOMAIN locals
           /\ DOMAIN [locals EXCEPT !.numbers = value] = DOMAIN locals
BY DEF Fields

(* One round keeps what the locals say in step with what was read.           *)
LEMMA OneRound ==
    ASSUME NEW ads, NEW i \in Nat \ {0}, NEW locals, LoopInv(ads, i - 1, locals)
    PROVE  LoopInv(ads, i, ParseStructure(locals, ads[i]))
<1> DEFINE ad   == ads[i]
           next == ParseStructure(locals, ad)
<1>1. CASE locals.returned
  <2>1. next = locals
    BY <1>1 DEF ParseStructure
  <2>2. \E j \in 1 .. i - 1 : Bad(ads[j])
    BY <1>1 DEF LoopInv
  <2>3. \E j \in 1 .. i : Bad(ads[j])
    BY <2>2
  <2> QED
    BY <1>1, <2>1, <2>3 DEF LoopInv
<1>2. CASE ~locals.returned
  <2>1. SaysSoFar(ads, i - 1, locals) /\ \A j \in 1 .. i - 1 : ~Bad(ads[j])
    BY <1>2 DEF LoopInv
  <2>2. Fields \subseteq DOMAIN locals /\ locals.returned = FALSE
    BY <2>1 DEF SaysSoFar
  <2>3. CASE Bad(ad)
    <3>1. next = [locals EXCEPT !.returned = TRUE]
      BY <1>2, <2>3 DEF Bad, ParseStructure
    <3>2. next.returned
      BY <2>2, <3>1, Assigned
    <3>3. \E j \in 1 .. i : Bad(ads[j])
      BY <2>3
    <3> QED
      BY <3>2, <3>3 DEF LoopInv
  <2>4. CASE ~Bad(ad)
    <3>1. \A j \in 1 .. i : ~Bad(ads[j])
      <4> TAKE j \in 1 .. i
      <4>1. j = i \/ j \in 1 .. i - 1
        OBVIOUS
      <4> QED
        BY <4>1, <2>1, <2>4
    <3>2. /\ Fields \subseteq DOMAIN next
          /\ next.returned = FALSE
          /\ next.name = IF ad.kind = "name" THEN NameIn(ad) ELSE locals.name
          /\ next.numbers = IF ad.kind = "manufacturer" THEN ad.payload ELSE locals.numbers
      <4>1. CASE ad.kind = "manufacturer"
        <5>1. next = [locals EXCEPT !.numbers = ad.payload]
          BY <1>2, <2>4, <4>1 DEF Bad, ParseStructure
        <5>2. /\ DOMAIN next = DOMAIN locals
              /\ next.returned = FALSE
              /\ next.name = locals.name
              /\ next.numbers = ad.payload
          <6> HIDE DEF next, ad
          <6> QED
            BY <2>2, <5>1, Assigned
        <5>3. ad.kind # "name"
          BY <4>1
        <5> HIDE DEF next, ad
        <5> QED
          BY <2>2, <4>1, <5>2, <5>3
      <4>2. CASE ad.kind = "name"
        <5>1. next = [locals EXCEPT !.name = NameIn(ad)]
          BY <1>2, <2>4, <4>2 DEF Bad, ParseStructure, NameIn
        <5>2. /\ DOMAIN next = DOMAIN locals
              /\ next.returned = FALSE
              /\ next.name = NameIn(ad)
              /\ next.numbers = locals.numbers
          <6> HIDE DEF next, ad
          <6> QED
            BY <2>2, <5>1, Assigned
        <5>3. ad.kind # "manufacturer"
          BY <4>2
        <5> HIDE DEF next, ad
        <5> QED
          BY <2>2, <4>2, <5>2, <5>3
      <4>3. CASE ad.kind # "manufacturer" /\ ad.kind # "name"
        <5>1. next = locals
          BY <1>2, <4>3 DEF ParseStructure
        <5> QED
          BY <2>2, <4>3, <5>1
      <4> QED
        BY <4>1, <4>2, <4>3
    <3> HIDE DEF next
    <3>3. (\A j \in 1 .. i : ads[j].kind # "name") => next.name = NoName
      <4> HAVE \A j \in 1 .. i : ads[j].kind # "name"
      <4>1. ad.kind # "name" /\ locals.name = NoName
        BY <2>1 DEF SaysSoFar
      <4> QED
        BY <3>2, <4>1
    <3>4. (\A j \in 1 .. i : ads[j].kind # "manufacturer") => next.numbers = Short
      <4> HAVE \A j \in 1 .. i : ads[j].kind # "manufacturer"
      <4>1. ad.kind # "manufacturer" /\ locals.numbers = Short
        BY <2>1 DEF SaysSoFar
      <4> QED
        BY <3>2, <4>1
    <3>5. \A j \in 1 .. i : IsLast(ads, i, "name", j) => next.name = NameIn(ads[j])
      <4> SUFFICES ASSUME NEW j \in 1 .. i, IsLast(ads, i, "name", j)
                   PROVE  next.name = NameIn(ads[j])
        OBVIOUS
      <4>1. CASE ad.kind = "name"
        BY <3>2, <4>1, NowLast
      <4>2. CASE ad.kind # "name"
        BY <2>1, <3>2, <4>2, StillLast DEF SaysSoFar
      <4> QED
        BY <4>1, <4>2
    <3>6. \A j \in 1 .. i : IsLast(ads, i, "manufacturer", j) => next.numbers = ads[j].payload
      <4> SUFFICES ASSUME NEW j \in 1 .. i, IsLast(ads, i, "manufacturer", j)
                   PROVE  next.numbers = ads[j].payload
        OBVIOUS
      <4>1. CASE ad.kind = "manufacturer"
        BY <3>2, <4>1, NowLast
      <4>2. CASE ad.kind # "manufacturer"
        BY <2>1, <3>2, <4>2, StillLast DEF SaysSoFar
      <4> QED
        BY <4>1, <4>2
    <3>7. SaysSoFar(ads, i, next)
      BY <3>2, <3>3, <3>4, <3>5, <3>6 DEF SaysSoFar
    <3>8. ~next.returned
      BY <3>2
    <3> QED
      BY <3>1, <3>7, <3>8 DEF LoopInv, next
  <2> QED
    BY <2>3, <2>4
<1> QED
  BY <1>1, <1>2

(* When the loop is left, what is returned is the result of locals that say  *)
(* what all the structures do.                                              *)
LEMMA LoopEnds ==
    ASSUME NEW ads, Len(ads) \in Nat
    PROVE  \E locals : /\ LoopInv(ads, Len(ads), locals)
                       /\ ParseManufacturerData(ads) = Result(locals)
<1>1. PICK f : /\ f[0] = Start
               /\ \A i \in 1 .. Len(ads) : f[i] = ParseStructure(f[i - 1], ads[i])
               /\ ParseManufacturerData(ads) = Result(f[Len(ads)])
  BY LoopRuns
<1> DEFINE H == {i \in Nat : LoopInv(ads, i, f[i])}
<1>2. 0 \in H
  <2>1. LoopInv(ads, 0, Start)
    <3>1. Fields \subseteq DOMAIN Start
      BY DEF Fields, Start
    <3>2. /\ ~Start.returned
          /\ Start.returned = FALSE
          /\ Start.name = NoName
          /\ Start.numbers = Short
      BY DEF Start
    <3>3. 1 .. 0 = {}
      OBVIOUS
    <3> QED
      BY <3>1, <3>2, <3>3 DEF LoopInv, SaysSoFar
  <2> QED
    BY <1>1, <2>1
<1>3. \A i \in 1 .. Len(ads) : i - 1 \in H => i \in H
  <2> SUFFICES ASSUME NEW i \in 1 .. Len(ads), LoopInv(ads, i - 1, f[i - 1])
               PROVE  LoopInv(ads, i, f[i])
    OBVIOUS
  <2>1. f[i] = ParseStructure(f[i - 1], ads[i]) /\ i \in Nat \ {0}
    BY <1>1
  <2> QED
    BY <2>1, OneRound
<1>4. Len(ads) \in H
  <2> HIDE DEF H
  <2> QED
    <3>1. \A i \in 0 .. Len(ads) : i \in H
      BY <1>2, <1>3, RoundByRound
    <3> QED
      BY <3>1
<1> QED
  BY <1>1, <1>4

(* If there is a structure of a kind, there is a last one.                   *)
LEMMA LastExists ==
    ASSUME NEW ads, Len(ads) \in Nat, NEW kind, Kind(ads, kind) # {}
    PROVE  \E j \in Kind(ads, kind) :
                /\ \A k \in Kind(ads, kind) : k <= j
                /\ IsLast(ads, Len(ads), kind, j)
                /\ LastOfKind(ads, kind) = ads[j]
<1> DEFINE K == Kind(ads, kind)
           T == {Len(ads) - j : j \in K}
<1>1. K \subseteq 1 .. Len(ads)
  BY DEF Kind
<1>2. T \in SUBSET Nat /\ T # {}
  BY <1>1
<1>3. PICK t \in T : \A u \in T : t <= u
  <2> HIDE DEF T
  <2> QED
    BY <1>2, Least
<1>4. PICK j \in K : t = Len(ads) - j
  OBVIOUS
<1>5. \A k \in K : k <= j
  <2> TAKE k \in K
  <2>1. t <= Len(ads) - k
    BY <1>3
  <2>2. k \in 1 .. Len(ads) /\ j \in 1 .. Len(ads)
    BY <1>1
  <2> QED
    BY <2>1, <2>2, <1>4
<1>6. IsLast(ads, Len(ads), kind, j)
  BY <1>5 DEF IsLast, Kind
<1>7. \A i \in K : (\A k \in K : k <= i) => i = j
  <2> SUFFICES ASSUME NEW i \in K, \A k \in K : k <= i PROVE i = j
    OBVIOUS
  <2>1. i <= j /\ j <= i
    BY <1>5
  <2>2. i \in Nat /\ j \in Nat
    BY <1>1
  <2> QED
    BY <2>1, <2>2
<1>8. LastOfKind(ads, kind) = ads[j]
  <2>1. LastOfKind(ads, kind) = ads[CHOOSE i \in K : \A k \in K : k <= i]
    BY DEF LastOfKind
  <2> HIDE DEF K
  <2>2. (CHOOSE i \in K : \A k \in K : k <= i) = j
    BY <1>5, <1>7
  <2> QED
    BY <2>1, <2>2
<1> QED
  BY <1>5, <1>6, <1>8

(* What the fields of a structure may hold.                                  *)
LEMMA StructureType ==
    ASSUME NEW ad \in AdStructure
    PROVE  /\ ad.kind = "name" => ad.name \in Name \cup {TooLong, NotUtf8}
           /\ ad.kind = "manufacturer" /\ ad.payload # Short
                => /\ ad.payload.sequence \in SequenceNumber
                   /\ ad.payload.channel \in ChannelNumber
<1>1. CASE ad \in {LocalName(name) : name \in Name \cup {TooLong, NotUtf8}}
  BY <1>1 DEF LocalName
<1>2. CASE ad = Other
  BY <1>2 DEF Other
<1>3. CASE \E company \in {OurCompany, "other"},
             payload \in {Short} \cup {ToBytes(s, c) : s \in SequenceNumber, c \in ChannelNumber} :
                ad = Manufacturer(company, payload)
  <2>1. PICK company \in {OurCompany, "other"},
             payload \in {Short} \cup {ToBytes(s, c) : s \in SequenceNumber, c \in ChannelNumber} :
                ad = Manufacturer(company, payload)
    BY <1>3
  <2>2. ad.kind = "manufacturer" /\ ad.payload = payload
    BY <2>1 DEF Manufacturer
  <2>3. \A s \in SequenceNumber, c \in ChannelNumber :
            ToBytes(s, c).sequence = s /\ ToBytes(s, c).channel = c
    BY DEF ToBytes
  <2>4. CASE payload = Short
    BY <2>2, <2>4
  <2>5. CASE payload \in {ToBytes(s, c) : s \in SequenceNumber, c \in ChannelNumber}
    <3>1. PICK s \in SequenceNumber, c \in ChannelNumber : payload = ToBytes(s, c)
      BY <2>5
    <3> QED
      BY <2>2, <2>3, <3>1
  <2> QED
    BY <2>4, <2>5
<1>4. ad \in {Manufacturer(company, payload) :
                 company \in {OurCompany, "other"},
                 payload \in {Short} \cup {ToBytes(s, c) : s \in SequenceNumber, c \in ChannelNumber}}
        => \E company \in {OurCompany, "other"},
              payload \in {Short} \cup {ToBytes(s, c) : s \in SequenceNumber, c \in ChannelNumber} :
                ad = Manufacturer(company, payload)
  OBVIOUS
<1> QED
  BY <1>1, <1>2, <1>3, <1>4 DEF AdStructure

(***************************************************************************)
(* The parser, a loop with two early returns (scanner/src/lib.rs), finds in *)
(* structures of any number and in any order what the last of each kind say *)
(* if the advertisement is of a tag, and nothing otherwise.                 *)
(***************************************************************************)
THEOREM ParserCorrect ==
    ASSUME NEW ads \in Seq(AdStructure)
    PROVE  Agrees(ads)
<1> DEFINE n      == Len(ads)
           parsed == ParseManufacturerData(ads)
           names  == Kind(ads, "name")
           makers == Kind(ads, "manufacturer")
<1>1. n \in Nat /\ \A i \in 1 .. n : ads[i] \in AdStructure
  OBVIOUS
<1>2. PICK locals : LoopInv(ads, n, locals) /\ parsed = Result(locals)
  BY <1>1, LoopEnds
<1>3. /\ \A i \in names : i \in 1 .. n /\ ads[i].kind = "name"
      /\ \A i \in makers : i \in 1 .. n /\ ads[i].kind = "manufacturer"
      /\ \A i \in 1 .. n : ads[i].kind = "name" => i \in names
      /\ \A i \in 1 .. n : ads[i].kind = "manufacturer" => i \in makers
  BY DEF Kind
<1>4. (\E j \in 1 .. n : Bad(ads[j]))
        <=> ~ /\ \A i \in makers : ads[i].company = OurCompany /\ ads[i].payload # Short
              /\ \A i \in names : ads[i].name # TooLong
  <2> HIDE DEF names, makers
  <2> QED
    BY <1>3 DEF Bad
<1>5. CASE \E j \in 1 .. n : Bad(ads[j])
  <2>1. parsed = NoAdvertisement
    BY <1>2, <1>5 DEF LoopInv, Result
  <2>2. ~OfTheTag(ads)
    BY <1>4, <1>5 DEF OfTheTag
  <2> QED
    BY <2>1, <2>2 DEF Agrees
<1>6. CASE ~ \E j \in 1 .. n : Bad(ads[j])
  <2>1. ~locals.returned /\ SaysSoFar(ads, n, locals)
    BY <1>2, <1>6 DEF LoopInv
  <2>2. CASE names = {}
    <3>1. locals.name = NoName
      BY <1>3, <2>1, <2>2 DEF SaysSoFar
    <3>2. parsed = NoAdvertisement
      BY <1>2, <3>1 DEF Result
    <3> QED
      BY <2>2, <3>2 DEF Agrees, OfTheTag
  <2>3. CASE makers = {}
    <3>1. locals.numbers = Short
      BY <1>3, <2>1, <2>3 DEF SaysSoFar
    <3>2. parsed = NoAdvertisement
      BY <1>2, <3>1 DEF Result
    <3> QED
      BY <2>3, <3>2 DEF Agrees, OfTheTag
  <2>4. CASE names # {} /\ makers # {}
    <3>1. PICK a \in names : /\ IsLast(ads, n, "name", a)
                             /\ LastOfKind(ads, "name") = ads[a]
      BY <1>1, <2>4, LastExists
    <3>2. PICK b \in makers : /\ IsLast(ads, n, "manufacturer", b)
                              /\ LastOfKind(ads, "manufacturer") = ads[b]
      BY <1>1, <2>4, LastExists
    <3>3. locals.name = NameIn(ads[a]) /\ locals.numbers = ads[b].payload
      BY <1>3, <2>1, <3>1, <3>2 DEF SaysSoFar
    <3>4. ads[b].payload # Short
      BY <1>4, <1>6
    <3>5. ads[a].name \in Name \cup {NotUtf8}
      BY <1>1, <1>3, <1>4, <1>6, StructureType
    <3>6. locals.name = NoName <=> ads[a].name = NotUtf8
      BY <3>3, <3>5, MarksAssumption DEF NameIn
    <3>7. OfTheTag(ads) <=> ads[a].name # NotUtf8
      BY <1>4, <1>6, <2>4, <3>1 DEF OfTheTag
    <3>8. CASE ads[a].name = NotUtf8
      <4>1. parsed = NoAdvertisement
        BY <1>2, <3>6, <3>8 DEF Result
      <4> QED
        BY <3>7, <3>8, <4>1 DEF Agrees
    <3>9. CASE ads[a].name # NotUtf8
      <4>1. locals.name # NoName /\ locals.name = ads[a].name
        BY <3>3, <3>6, <3>9 DEF NameIn
      <4>2. parsed = [name           |-> ads[a].name,
                      sequence       |-> ads[b].payload.sequence,
                      channel_number |-> ads[b].payload.channel]
        BY <1>2, <2>1, <3>3, <3>4, <4>1 DEF Result
      <4>3. parsed = Says(ads)
        BY <3>1, <3>2, <4>2 DEF Says
      <4> QED
        BY <3>7, <3>9, <4>3 DEF Agrees
    <3> QED
      BY <3>8, <3>9
  <2> QED
    BY <2>2, <2>3, <2>4
<1> QED
  BY <1>5, <1>6

(* What the parser returns is an advertisement of a tag, or nothing.         *)
LEMMA ParsedType ==
    ASSUME NEW ads \in Seq(AdStructure), ParseManufacturerData(ads) # NoAdvertisement
    PROVE  /\ ParseManufacturerData(ads) = Says(ads)
           /\ Says(ads) \in ParsedAdvertisement
<1>1. OfTheTag(ads) /\ ParseManufacturerData(ads) = Says(ads)
  BY ParserCorrect DEF Agrees
<1>2. Len(ads) \in Nat /\ \A i \in 1 .. Len(ads) : ads[i] \in AdStructure
  OBVIOUS
<1>3. PICK a \in Kind(ads, "name") : LastOfKind(ads, "name") = ads[a]
  BY <1>1, <1>2, LastExists DEF OfTheTag
<1>4. PICK b \in Kind(ads, "manufacturer") : LastOfKind(ads, "manufacturer") = ads[b]
  BY <1>1, <1>2, LastExists DEF OfTheTag
<1>5. /\ a \in 1 .. Len(ads) /\ ads[a].kind = "name"
      /\ b \in 1 .. Len(ads) /\ ads[b].kind = "manufacturer"
  BY DEF Kind
<1>6. ads[a].name \in Name
  <2>1. ads[a].name # TooLong /\ ads[a].name # NotUtf8
    BY <1>1, <1>3 DEF OfTheTag
  <2> QED
    BY <1>2, <1>5, <2>1, StructureType
<1>7. ads[b].payload.sequence \in SequenceNumber /\ ads[b].payload.channel \in ChannelNumber
  <2>1. ads[b].payload # Short
    BY <1>1 DEF OfTheTag
  <2> QED
    BY <1>2, <1>5, <2>1, StructureType
<1> QED
  BY <1>1, <1>3, <1>4, <1>6, <1>7 DEF Says, ParsedAdvertisement
=============================================================================
